------------------------------ MODULE TaskLife ------------------------------
(***************************************************************************)
(* What the server promises about one task object, whatever threads,      *)
(* queues, timers and events are used to keep the promise: it is idle in  *)
(* the pool, or it has been spawned and no callback frame exists yet, or  *)
(* its coroutine lives on exactly one worker from its first instruction   *)
(* to its last, and a worker executes one coroutine at a time.            *)
(***************************************************************************)
CONSTANTS Task,         \* the pooled task objects
          Worker        \* the worker threads

VARIABLES life,         \* [Task -> "idle", "spawned", "running", "suspended"]
          home          \* [Task -> SUBSET Worker], the worker of the coroutine

vars == <<life, home>>

TypeOK ==
  /\ life \in [Task -> {"idle", "spawned", "running", "suspended"}]
  /\ home \in [Task -> SUBSET Worker]

Init ==
  /\ life = [t \in Task |-> "idle"]
  /\ home = [t \in Task |-> {}]

\* No coroutine executes on worker w.
Vacant(w) == \A t \in Task : life[t] = "running" => w \notin home[t]

\* A task leaves the pool with a fresh callback.
Spawn(t) ==
  /\ life[t] = "idle"
  /\ life' = [life EXCEPT ![t] = "spawned"]
  /\ UNCHANGED home

\* The callback is entered on worker w, which becomes its home.
Start(t, w) ==
  /\ life[t] = "spawned"
  /\ Vacant(w)
  /\ life' = [life EXCEPT ![t] = "running"]
  /\ home' = [home EXCEPT ![t] = {w}]

\* The callback waits for events.
Suspend(t) ==
  /\ life[t] = "running"
  /\ life' = [life EXCEPT ![t] = "suspended"]
  /\ UNCHANGED home

\* The callback continues, on the worker where it was suspended.
Resume(t, w) ==
  /\ life[t] = "suspended"
  /\ home[t] = {w}
  /\ Vacant(w)
  /\ life' = [life EXCEPT ![t] = "running"]
  /\ UNCHANGED home

\* The callback returns and the task goes back to the pool.
Finish(t) ==
  /\ life[t] = "running"
  /\ life' = [life EXCEPT ![t] = "idle"]
  /\ home' = [home EXCEPT ![t] = {}]

Next ==
  \E t \in Task :
    \/ Spawn(t)
    \/ Suspend(t)
    \/ Finish(t)
    \/ \E w \in Worker : Start(t, w) \/ Resume(t, w)

Spec == Init /\ [][Next]_vars
=============================================================================
