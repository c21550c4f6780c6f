---------------------------- MODULE MCScheduler ----------------------------
(* Model checking of one worker's scheduler. *)
EXTENDS Scheduler, TLC

(***************************************************************************)
(* Task objects are interchangeable.  The one that is set up is the first  *)
(* that is away, so one that has been used before is taken again before a  *)
(* fresh one, as from the LIFO list of law_task_pool.                      *)
(***************************************************************************)
First == CHOOSE t \in Away : TRUE

LifoPool == \A t \in Away : incoming' = Append(incoming, t) => t = First

LifoSpec == Init /\ [][Next /\ LifoPool]_vars /\ Fairness
=============================================================================
