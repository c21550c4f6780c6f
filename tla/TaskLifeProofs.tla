--------------------------- MODULE TaskLifeProofs ---------------------------
(***************************************************************************)
(* What follows from the promise of TaskLife, for any tasks and workers.   *)
(* Server and Scheduler implement TaskLife, so it holds of both.           *)
(***************************************************************************)
EXTENDS TaskLife, TLAPS

\* A coroutine has one worker, from where it is entered to its return.
OneHome ==
  \A t \in Task :
    IF life[t] \in {"running", "suspended"} THEN \E w \in Worker : home[t] = {w}
    ELSE home[t] = {}

\* A worker executes one coroutine at a time.
OneAtATime ==
  \A t, u \in Task :
    life[t] = "running" /\ life[u] = "running" /\ t # u => home[t] \cap home[u] = {}

\* A coroutine goes on where it was suspended.
Stays ==
  \A t \in Task : life[t] = "suspended" /\ life'[t] # "suspended" =>
                    life'[t] = "running" /\ home'[t] = home[t]

Invariant == TypeOK /\ OneHome /\ OneAtATime

\* A step changes one task only.
LEMMA OneTask ==
  ASSUME TypeOK, NEW t \in Task, NEW l, NEW h,
         life' = [life EXCEPT ![t] = l], home' = [home EXCEPT ![t] = h]
  PROVE  /\ life'[t] = l /\ home'[t] = h
         /\ \A u \in Task : u # t => life'[u] = life[u] /\ home'[u] = home[u]
  BY DEF TypeOK

\* A coroutine is entered or resumed only on a worker that executes none.
LEMMA StartOrResume ==
  ASSUME Invariant, NEW t \in Task, NEW w \in Worker, Start(t, w) \/ Resume(t, w)
  PROVE  Invariant'
  <1> USE DEF Invariant
  <1>1. /\ Vacant(w) /\ life' = [life EXCEPT ![t] = "running"]
        /\ home' = [home EXCEPT ![t] = {w}] /\ TypeOK'
    BY DEF Start, Resume, TypeOK
  <1>2. /\ life'[t] = "running" /\ home'[t] = {w}
        /\ \A u \in Task : u # t => life'[u] = life[u] /\ home'[u] = home[u]
    BY <1>1, OneTask
  <1>3. \A u \in Task : u # t /\ life'[u] = "running" => w \notin home'[u]
    BY <1>1, <1>2 DEF Vacant
  <1>4. OneHome'
    BY <1>2 DEF OneHome
  <1>5. OneAtATime'
    BY <1>2, <1>3 DEF OneAtATime
  <1> QED BY <1>1, <1>4, <1>5

\* Every step keeps homes, and no step but Resume ends a suspension.
LEMMA InvariantStep ==
  ASSUME Invariant, [Next]_vars
  PROVE  Invariant' /\ Stays
  <1>1. CASE UNCHANGED vars
    <2>1. TypeOK' /\ OneHome' /\ OneAtATime'
      BY <1>1 DEF vars, Invariant, TypeOK, OneHome, OneAtATime
    <2> QED BY <1>1, <2>1 DEF vars, Invariant, Stays
  <1>2. ASSUME NEW t \in Task, NEW w \in Worker, Start(t, w) \/ Resume(t, w)
        PROVE  Invariant' /\ Stays
    <2>1. Stays
      BY <1>2 DEF Start, Resume, Stays, Invariant, TypeOK
    <2> QED BY <1>2, <2>1, StartOrResume
  <1>3. ASSUME NEW t \in Task, Spawn(t) \/ Suspend(t) \/ Finish(t)
        PROVE  Invariant' /\ Stays
    <2>1. TypeOK'
      BY <1>3 DEF Invariant, TypeOK, Spawn, Suspend, Finish
    <2>2. \A u \in Task : u # t => life'[u] = life[u] /\ home'[u] = home[u]
      BY <1>3 DEF Invariant, TypeOK, Spawn, Suspend, Finish
    <2>3. /\ life[t] # "suspended" /\ life'[t] # "running"
          /\ IF life'[t] = "suspended" THEN life[t] = "running" /\ home'[t] = home[t]
             ELSE life'[t] \in {"spawned", "idle"} /\ home'[t] = {}
      BY <1>3 DEF Invariant, TypeOK, OneHome, Spawn, Suspend, Finish
    <2>4. OneHome' /\ OneAtATime' /\ Stays
      BY <2>2, <2>3 DEF Invariant, OneHome, OneAtATime, Stays
    <2> QED BY <2>1, <2>4 DEF Invariant
  <1> QED BY <1>1, <1>2, <1>3 DEF Next

\* One worker per coroutine, and one coroutine at a time on a worker: no two
\* callbacks run on the stack pointer of one thread (law_worker_dispatch).
THEOREM InvariantAlways == Spec => []Invariant
  <1>1. Init => Invariant
    BY DEF Init, Invariant, TypeOK, OneHome, OneAtATime
  <1>2. Invariant /\ [Next]_vars => Invariant'
    BY InvariantStep
  <1> QED BY <1>1, <1>2, PTL DEF Spec

\* A coroutine that was suspended is resumed on the worker it was entered on.
THEOREM StaysCorrect == Spec => [][Stays]_vars
  <1>1. Invariant /\ [Next]_vars => [Stays]_vars
    BY InvariantStep
  <1> QED BY <1>1, InvariantAlways, PTL DEF Spec
=============================================================================
