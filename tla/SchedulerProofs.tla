-------------------------- MODULE SchedulerProofs --------------------------
(***************************************************************************)
(* Proofs about module Scheduler, for every number of tasks and            *)
(* descriptors, every timeout, every size of the version counter and of    *)
(* the heap, as long as the ids fit the int that law_table takes for the   *)
(* key: MaxIds < KeyModulo.                                                *)
(***************************************************************************)
EXTENDS Scheduler, WellFoundedInduction, TLAPS

USE DEF clockVars, pollVars, taskVars, readyVars, waitVars

-----------------------------------------------------------------------------
(* The inductive invariant *)

\* Tasks this worker has, or will find in its pipe.
Known == table \cup Elems(incoming)

\* Who has which id.  An id is given out once; the entries that an earlier
\* owner of a task object left in the heap carry an id no task has any more.
Ids ==
  /\ \A t \in Task : id[t] <= seed
  /\ \A t \in Known : id[t] # 0
  /\ \A t, u \in Known : id[t] = id[u] => t = u
  /\ \A e \in timer : e.id <= seed
  /\ \A e \in timer, t \in Known : e.id = id[t] => tmode[t] # "spawned"

\* What is in the pipe has not been seen by this worker.
Pipe ==
  /\ \A i, j \in 1 .. Len(incoming) : incoming[i] = incoming[j] => i = j
  /\ \A t \in Elems(incoming) : t \notin table /\ tmode[t] = "spawned"

\* Where law_worker_tick is says what the tasks of the table do.
Stage ==
  /\ \A t \in table :
       \/ tmode[t] = "suspended"
       \/ tmode[t] = "spawned" /\ mark[t] /\ pc \in {"incoming", "dispatch", "run"}
       \/ tmode[t] = "running" /\ pc = "run" /\ t = active
  /\ pc = "run" => active \in table /\ tmode[active] = "running"
  /\ pc \in {"tick", "poll"} => ready = <<>>

\* Version v after d dispatches.
After(v, d) == IF v + d < VersModulo THEN v + d ELSE v + d - VersModulo

\* An entry of a task in the table was made d dispatches ago, fewer than
\* would bring the version counter back to where it was.  Only the entry of
\* the current wait has the task's version.
Ages ==
  \A e \in timer, t \in table : e.id = id[t] =>
    \E d \in 0 .. waits[t] :
      /\ version[t] = After(e.vers, d)
      /\ tmode[t] = "suspended" => d # waits[t]
      /\ d = 0 => tmode[t] = "suspended" /\ e.exp = expiry[t]

Clock == seen <= now

-----------------------------------------------------------------------------
\* A set of naturals has a least element.
LEMMA NatMin ==
  ASSUME NEW S \in SUBSET Nat, S # {}
  PROVE  \E x \in S : \A y \in S : x <= y
  <1> DEFINE R == OpToRel(<, Nat)
  <1>1. IsWellFoundedOn(R, Nat)
    BY NatLessThanWellFounded, Zenon
  <1>2. \A x, y \in Nat : <<y, x>> \in R <=> y < x
    BY DEF OpToRel
  <1> HIDE DEF R
  <1>3. PICK x \in S : \A y \in S : ~(<<y, x>> \in R)
    BY <1>1, WFMin
  <1>4. ASSUME NEW y \in S PROVE x <= y
    <2>1. x \in Nat /\ y \in Nat
      OBVIOUS
    <2>2. ~(y < x)
      BY <1>2, <1>3, <2>1
    <2> QED BY <2>1, <2>2
  <1> QED BY <1>4

\* law_timer_peek: a heap that is not empty has an entry that expires first.
LEMMA EarliestExists ==
  ASSUME timer \in SUBSET Entry, timer # {}
  PROVE  \E e \in timer : Earliest(e)
  <1> DEFINE S == {e.exp : e \in timer}
  <1>1. S \in SUBSET Nat /\ S # {}
    BY SchedulerAssumption DEF Entry
  <1>2. PICK x \in S : \A y \in S : x <= y
    BY <1>1, NatMin
  <1>3. PICK e \in timer : e.exp = x
    OBVIOUS
  <1> QED BY <1>2, <1>3 DEF Earliest

\* Elems and the operations on sequences: a task written to the pipe.
LEMMA AppendElems ==
  ASSUME NEW S, NEW s \in Seq(S), NEW x \in S
  PROVE  /\ Append(s, x) \in Seq(S)
         /\ Elems(Append(s, x)) = Elems(s) \cup {x}
  <1> DEFINE a == Append(s, x)
  <1>1. /\ a \in Seq(S)
        /\ Len(a) = Len(s) + 1 /\ Len(s) \in Nat
        /\ \A i \in 1 .. Len(s) : a[i] = s[i]
        /\ a[Len(s) + 1] = x
    OBVIOUS
  <1> HIDE DEF a
  <1>2. \A i : i \in 1 .. Len(a) <=> i \in 1 .. Len(s) \/ i = Len(s) + 1
    BY <1>1
  <1>3. Elems(a) = Elems(s) \cup {x}
    BY <1>1, <1>2 DEF Elems
  <1> QED BY <1>1, <1>3 DEF a

LEMMA AppendDistinct ==
  ASSUME NEW S, NEW s \in Seq(S), NEW x \in S, x \notin Elems(s),
         \A i, j \in 1 .. Len(s) : s[i] = s[j] => i = j
  PROVE  \A i, j \in 1 .. Len(Append(s, x)) :
           Append(s, x)[i] = Append(s, x)[j] => i = j
  <1> DEFINE a == Append(s, x)
  <1>1. /\ Len(a) = Len(s) + 1 /\ Len(s) \in Nat
        /\ \A i \in 1 .. Len(s) : a[i] = s[i]
        /\ a[Len(s) + 1] = x
    OBVIOUS
  <1> HIDE DEF a
  <1>2. \A i : i \in 1 .. Len(a) <=> i \in 1 .. Len(s) \/ i = Len(s) + 1
    BY <1>1
  <1>3. \A i, j \in 1 .. Len(a) : a[i] = a[j] => i = j
    BY <1>1, <1>2 DEF Elems
  <1> QED BY <1>3 DEF a

\* A task pushed to the front of the ready set.
LEMMA PushElems ==
  ASSUME NEW S, NEW s \in Seq(S), NEW x \in S
  PROVE  /\ <<x>> \o s \in Seq(S)
         /\ Elems(<<x>> \o s) = {x} \cup Elems(s)
         /\ (x \notin Elems(s) /\ \A i, j \in 1 .. Len(s) : s[i] = s[j] => i = j)
              => \A i, j \in 1 .. Len(<<x>> \o s) :
                   (<<x>> \o s)[i] = (<<x>> \o s)[j] => i = j
  <1> DEFINE a == <<x>> \o s
  <1>1. /\ a \in Seq(S)
        /\ Len(a) = Len(s) + 1 /\ Len(s) \in Nat
        /\ \A i \in 1 .. Len(s) : a[i + 1] = s[i]
        /\ a[1] = x
    OBVIOUS
  <1> HIDE DEF a
  <1>2. \A i \in 1 .. Len(a) : i = 1 \/ (i - 1 \in 1 .. Len(s) /\ a[i] = s[i - 1])
    BY <1>1
  <1>3. 1 \in 1 .. Len(a) /\ \A i \in 1 .. Len(s) : i + 1 \in 1 .. Len(a)
    BY <1>1
  <1>4. Elems(a) = {x} \cup Elems(s)
    <2>1. \A y \in Elems(a) : y = x \/ y \in Elems(s)
      BY <1>1, <1>2 DEF Elems
    <2>2. x \in Elems(a) /\ \A y \in Elems(s) : y \in Elems(a)
      <3>1. \A i \in 1 .. Len(s) : s[i] \in Elems(a)
        BY <1>1, <1>3 DEF Elems
      <3> QED BY <3>1, <1>1, <1>3 DEF Elems
    <2> QED BY <2>1, <2>2
  <1>5. ASSUME x \notin Elems(s), \A i, j \in 1 .. Len(s) : s[i] = s[j] => i = j
        PROVE  \A i, j \in 1 .. Len(a) : a[i] = a[j] => i = j
    <2>1. SUFFICES ASSUME NEW i \in 1 .. Len(a), NEW j \in 1 .. Len(a), a[i] = a[j]
                   PROVE  i = j
      OBVIOUS
    <2>2. \A k \in 1 .. Len(s) : s[k] # x
      BY <1>5 DEF Elems
    <2> QED BY <1>1, <1>2, <1>5, <2>1, <2>2
  <1> QED BY <1>1, <1>4, <1>5 DEF a

\* The first task taken from the pipe, or from the ready set.
LEMMA TailElems ==
  ASSUME NEW S, NEW s \in Seq(S), s # <<>>
  PROVE  /\ Tail(s) \in Seq(S) /\ Head(s) \in S
         /\ Elems(s) = {Head(s)} \cup Elems(Tail(s))
         /\ (\A i, j \in 1 .. Len(s) : s[i] = s[j] => i = j)
              => /\ Head(s) \notin Elems(Tail(s))
                 /\ \A i, j \in 1 .. Len(Tail(s)) : Tail(s)[i] = Tail(s)[j] => i = j
  <1> DEFINE r == Tail(s)
  <1>1. /\ r \in Seq(S) /\ Head(s) \in S
        /\ Len(s) \in Nat \ {0} /\ Len(r) = Len(s) - 1
        /\ \A i \in 1 .. Len(r) : r[i] = s[i + 1]
        /\ Head(s) = s[1]
    OBVIOUS
  <1> HIDE DEF r
  <1>2. \A i : i \in 1 .. Len(r) => i + 1 \in 1 .. Len(s)
    BY <1>1
  <1>3. /\ 1 \in 1 .. Len(s)
        /\ \A i \in 1 .. Len(s) : i = 1 \/ (i - 1 \in 1 .. Len(r) /\ r[i - 1] = s[i])
    BY <1>1
  <1>4. Elems(s) = {Head(s)} \cup Elems(r)
    BY <1>1, <1>2, <1>3 DEF Elems
  <1>5. ASSUME \A i, j \in 1 .. Len(s) : s[i] = s[j] => i = j
        PROVE  /\ Head(s) \notin Elems(r)
               /\ \A i, j \in 1 .. Len(r) : r[i] = r[j] => i = j
    BY <1>1, <1>2, <1>3, <1>5 DEF Elems
  <1> QED BY <1>1, <1>4, <1>5 DEF r

LEMMA NoElems == ASSUME NEW s, Len(s) = 0 PROVE Elems(s) = {}
  BY DEF Elems

-----------------------------------------------------------------------------
(* Arithmetic of versions *)

LEMMA Params ==
  /\ NoTask \notin Task
  /\ WorkerTasks \in Nat /\ WorkerTimeout \in Nat
  /\ Millis \subseteq Nat /\ MaxEvents \subseteq Nat
  /\ VersModulo \in Nat \ {0} /\ RandVersions \subseteq 0 .. (VersModulo - 1)
  /\ MaxWaits \in Nat /\ MaxWaits < VersModulo
  /\ MaxIds \in Nat /\ MaxTime \in Nat /\ KeyModulo \in Nat \ {0}
  BY SchedulerAssumption

\* Below the modulus an id and the key law_table sees are the same.
LEMMA SmallKey ==
  ASSUME NEW x \in Nat, NEW k \in Nat \ {0}, x < k PROVE x % k = x
  OBVIOUS

\* law_table_lookup finds the task with that id, and no other, as long as ids
\* fit an int.
LEMMA LookupIsOwner ==
  ASSUME MaxIds < KeyModulo, TypeOK, NEW i \in 0 .. MaxIds
  PROVE  Lookup(i) = Owner(i)
  <1>1. i \in Nat /\ i < KeyModulo /\ KeyModulo \in Nat \ {0}
    BY Params
  <1>2. law_table_key(i) = i
    BY <1>1, SmallKey DEF law_table_key
  <1>3. ASSUME NEW t \in table PROVE law_table_key(id[t]) = id[t]
    <2>1. id[t] \in Nat /\ id[t] < KeyModulo
      BY Params DEF TypeOK
    <2> QED BY <1>1, <2>1, SmallKey DEF law_table_key
  <1> QED BY <1>2, <1>3 DEF Lookup, Owner

\* ++task->version wraps at the top of the counter.
LEMMA Increment ==
  ASSUME NEW v \in 0 .. (VersModulo - 1)
  PROVE  /\ (v + 1) % VersModulo = After(v, 1)
         /\ (v + 1) % VersModulo \in 0 .. (VersModulo - 1)
  BY Params DEF After

LEMMA AfterAfter ==
  ASSUME NEW v \in 0 .. (VersModulo - 1), NEW d \in 0 .. MaxWaits
  PROVE  /\ After(v, d) \in 0 .. (VersModulo - 1)
         /\ After(v, 0) = v
         /\ After(v, d) = v => d = 0
         /\ After(After(v, d), 1) = After(v, d + 1)
  BY Params DEF After

-----------------------------------------------------------------------------
(* What the shared parts of the actions do *)

\* law_ready_set_push of a task that can be entered or resumed.
LEMMA PushReady ==
  ASSUME TypeOK, ReadyIntegrity, NEW t \in Task, law_ready_set_push(t)
  PROVE  /\ ready' \in Seq(Task) /\ mark' = [mark EXCEPT ![t] = TRUE]
         /\ mark' \in [Task -> BOOLEAN]
         /\ Elems(ready') = Elems(ready) \cup {t}
         /\ \A u \in Task : mark'[u] <=> u \in Elems(ready')
         /\ \A i, j \in 1 .. Len(ready') : ready'[i] = ready'[j] => i = j
  <1>a. ready \in Seq(Task) /\ mark \in [Task -> BOOLEAN]
    BY DEF TypeOK
  <1>b. /\ \A u \in Task : mark[u] <=> u \in Elems(ready)
        /\ \A i, j \in 1 .. Len(ready) : ready[i] = ready[j] => i = j
    BY DEF ReadyIntegrity
  <1>1. CASE mark[t]
    <2>1. ready' = ready /\ mark' = mark
      BY <1>1 DEF law_ready_set_push
    <2>2. t \in Elems(ready)
      BY <1>1, <1>b
    <2> QED BY <1>1, <1>a, <1>b, <2>1, <2>2
  <1>2. CASE ~mark[t]
    <2>1. ready' = <<t>> \o ready /\ mark' = [mark EXCEPT ![t] = TRUE]
      BY <1>2 DEF law_ready_set_push
    <2>2. t \notin Elems(ready)
      BY <1>2, <1>b
    <2>3. /\ ready' \in Seq(Task) /\ Elems(ready') = {t} \cup Elems(ready)
          /\ \A i, j \in 1 .. Len(ready') : ready'[i] = ready'[j] => i = j
      BY <1>a, <1>b, <2>1, <2>2, PushElems
    <2>4. \A u \in Task : mark'[u] <=> u \in Elems(ready')
      BY <1>a, <1>b, <2>1, <2>3
    <2> QED BY <1>a, <2>1, <2>3, <2>4
  <1> QED BY <1>1, <1>2

\* law_task_push_event to a task that law_ewait suspended, or the assertion
\* in it that fails.
LEMMA PushEvent ==
  ASSUME TypeOK, ReadyIntegrity, NEW t \in Task, ~halted,
         NEW e \in {"TIM", "IO"}, law_task_push_event(t, e)
  PROVE  /\ buf' \in [Task -> Seq({"TIM", "IO"})]
         /\ \A u \in Task : Elems(buf'[u]) \subseteq
                              IF u = t THEN Elems(buf[u]) \cup {e} ELSE Elems(buf[u])
         /\ ready' \in Seq(Task) /\ mark' \in [Task -> BOOLEAN] /\ halted' \in BOOLEAN
         /\ \A u \in Task : mark'[u] <=> u \in Elems(ready')
         /\ \A i, j \in 1 .. Len(ready') : ready'[i] = ready'[j] => i = j
         /\ \/ halted' /\ room[t] = -1 /\ UNCHANGED <<ready, mark>>
            \/ /\ ~halted' /\ Elems(ready') = Elems(ready) \cup {t}
               /\ mark' = [mark EXCEPT ![t] = TRUE]
  <1>a. buf \in [Task -> Seq({"TIM", "IO"})] /\ buf[t] \in Seq({"TIM", "IO"})
    BY DEF TypeOK
  <1>b. ready \in Seq(Task) /\ mark \in [Task -> BOOLEAN]
    BY DEF TypeOK
  <1>1. CASE room[t] = -1
    BY <1>1, <1>a, <1>b DEF law_task_push_event, ReadyIntegrity
  <1>2. CASE room[t] # -1
    <2>1. /\ law_ready_set_push(t) /\ halted' = halted
          /\ \/ buf' = buf
             \/ buf' = [buf EXCEPT ![t] = Append(@, e)]
      BY <1>2 DEF law_task_push_event
    <2>2. /\ ready' \in Seq(Task) /\ mark' \in [Task -> BOOLEAN]
          /\ \A u \in Task : mark'[u] <=> u \in Elems(ready')
          /\ \A i, j \in 1 .. Len(ready') : ready'[i] = ready'[j] => i = j
          /\ Elems(ready') = Elems(ready) \cup {t}
          /\ mark' = [mark EXCEPT ![t] = TRUE]
      BY <2>1, PushReady
    <2>3. /\ Append(buf[t], e) \in Seq({"TIM", "IO"})
          /\ Elems(Append(buf[t], e)) = Elems(buf[t]) \cup {e}
      BY <1>a, AppendElems
    <2>4. /\ buf' \in [Task -> Seq({"TIM", "IO"})]
          /\ \A u \in Task : Elems(buf'[u]) \subseteq
                              IF u = t THEN Elems(buf[u]) \cup {e} ELSE Elems(buf[u])
      BY <1>a, <2>1, <2>3
    <2>5. halted' \in BOOLEAN /\ ~halted'
      BY <2>1 DEF TypeOK
    <2> QED BY <2>2, <2>4, <2>5
  <1> QED BY <1>1, <1>2

\* The timeout law_worker_tick computes: it is within cfg.worker_timeout, and
\* the wait ends when the first entry expires, if that is sooner.
LEMMA PollTimeoutIs ==
  ASSUME TypeOK
  PROVE  /\ PollTimeout \in 0 .. WorkerTimeout
         /\ PollTimeout # 0 => \A e \in timer : now + PollTimeout <= e.exp
  <1>a. now \in 0 .. MaxTime /\ timer \in SUBSET Entry
    BY DEF TypeOK
  <1>b. \A e \in timer : e.exp \in 0 .. MaxTime
    BY <1>a DEF Entry
  <1>1. CASE ~\E e \in timer : e.exp <= now + WorkerTimeout
    BY <1>1, <1>a, <1>b, Params DEF PollTimeout
  <1>2. CASE \E e \in timer : e.exp <= now
    BY <1>2, <1>a, <1>b, Params DEF PollTimeout
  <1>3. CASE /\ \E e \in timer : e.exp <= now + WorkerTimeout
             /\ ~\E e \in timer : e.exp <= now
    <2> DEFINE f == CHOOSE e \in timer : Earliest(e)
    <2>1. f \in timer /\ Earliest(f)
      BY <1>3, <1>a, EarliestExists
    <2>2. PollTimeout = f.exp - now
      BY <1>3 DEF PollTimeout
    <2> HIDE DEF f
    <2>3. f.exp <= now + WorkerTimeout /\ now < f.exp /\ \A e \in timer : f.exp <= e.exp
      BY <1>3, <1>a, <1>b, <2>1, Params DEF Earliest
    <2> QED BY <1>a, <1>b, <2>1, <2>2, <2>3, Params
  <1> QED BY <1>1, <1>2, <1>3

\* A callback runs for the task the dispatcher took from the ready set.
LEMMA ActiveTask ==
  ASSUME TypeOK, Stage, pc = "run"
  PROVE  active \in table /\ active \in Task /\ tmode[active] = "running"
  BY DEF TypeOK, Stage

\* What law_ewait and law_sync leave behind.
LEMMA WaitForm ==
  ASSUME TypeOK, Stage, NEW m \in Millis, NEW n \in {-1} \cup MaxEvents, Wait(m, n)
  PROVE  /\ pc = "run" /\ pc' = "dispatch"
         /\ active \in table /\ active \in Task /\ tmode[active] = "running"
         /\ waits[active] < MaxWaits
         /\ now + m \in 0 .. MaxTime /\ now <= now + m
         /\ timer' = timer \cup {[exp |-> now + m, id |-> id[active], vers |-> version[active]]}
         /\ timer' \in SUBSET Entry
         /\ room' = [room EXCEPT ![active] = n]
         /\ buf' = [buf EXCEPT ![active] = <<>>]
         /\ expiry' = [expiry EXCEPT ![active] = now + m]
         /\ waits' = [waits EXCEPT ![active] = waits[active] + 1]
         /\ tmode' = [tmode EXCEPT ![active] = "suspended"]
  <1>1. pc = "run" /\ active \in table /\ active \in Task /\ tmode[active] = "running"
    BY ActiveTask DEF Wait
  <1>2. /\ timer' = timer \cup {[exp |-> now + m, id |-> id[active], vers |-> version[active]]}
        /\ now + m <= MaxTime
    BY DEF Wait, law_timer_insert
  <1>3. now \in 0 .. MaxTime /\ m \in Nat
    BY Params DEF TypeOK
  <1>4. now + m \in 0 .. MaxTime /\ now <= now + m
    BY <1>2, <1>3, Params
  <1>5. timer \in SUBSET Entry /\ id[active] \in 0 .. MaxIds
        /\ version[active] \in 0 .. (VersModulo - 1)
    BY <1>1 DEF TypeOK
  <1>6. timer' \in SUBSET Entry
    BY <1>2, <1>4, <1>5 DEF Entry
  <1> QED BY <1>1, <1>2, <1>4, <1>6 DEF Wait

-----------------------------------------------------------------------------
(* Type correctness *)

\* The steps that move control, the clock or a registration and touch no
\* task.
Still ==
  \/ Tick \/ law_worker_tick \/ law_evo_wait \/ law_worker_timers_end
  \/ law_evo_next_end \/ law_worker_incoming_end \/ law_worker_dispatch_end
  \/ pc = "run" /\ \E f \in Fd, i \in {0, id[active]} : law_ectl(f, i)

\* An event of a descriptor, or the expiry of an entry, that finds its task.
Found(t, e) ==
  /\ t \in table
  /\ \/ /\ pc = "timers" /\ e = "TIM"
        /\ \E x \in timer : /\ Earliest(x) /\ x.exp <= seen /\ x.id = id[t]
                            /\ Current(x, t) /\ timer' = timer \ {x}
        /\ UNCHANGED evs
     \/ /\ pc = "events" /\ e = "IO"
        /\ UNCHANGED timer
        /\ \E f \in evs : evs' = evs \ {f}
  /\ law_task_push_event(t, e)
  /\ UNCHANGED <<clockVars, seen, deadline, pc, reg, incoming, table, active,
                 seed, taskVars, room, expiry, waits>>

\* An event, or an expiry, whose task is gone or waits no longer.
Missed ==
  /\ \/ /\ pc = "timers"
        /\ \E x \in timer : /\ Earliest(x) /\ x.exp <= seen /\ timer' = timer \ {x}
                            /\ \A t \in table : x.id = id[t] => ~Current(x, t)
        /\ UNCHANGED evs
     \/ /\ pc = "events" /\ UNCHANGED timer
        /\ \E f \in evs : evs' = evs \ {f}
  /\ UNCHANGED <<clockVars, seen, deadline, pc, reg, incoming, table, active,
                 seed, taskVars, readyVars, waitVars, halted>>

\* The steps of the worker, split by what they do to tasks.
LEMMA NextCases ==
  ASSUME MaxIds < KeyModulo, TypeOK, Next
  PROVE  /\ ~halted
         /\ \/ Still
            \/ \E t \in Task : law_task_setup(t)
            \/ Missed
            \/ \E t \in table, e \in {"TIM", "IO"} : Found(t, e)
            \/ law_worker_incoming
            \/ law_worker_dispatch
            \/ \E m \in Millis, n \in {-1} \cup MaxEvents :
                 /\ Wait(m, n)
                 /\ \/ UNCHANGED reg
                    \/ \E f \in Fd : reg' = [reg EXCEPT ![f] = id[active]]
            \/ law_task_finish
  <1>1. CASE law_worker_timers
    <2>1. PICK x \in timer :
            /\ Earliest(x) /\ x.exp <= seen /\ timer' = timer \ {x}
            /\ \/ /\ \A t \in Lookup(x.id) : ~Current(x, t)
                  /\ UNCHANGED <<buf, readyVars, halted>>
               \/ \E t \in Lookup(x.id) :
                    Current(x, t) /\ law_task_push_event(t, "TIM")
      BY <1>1 DEF law_worker_timers
    <2>2. /\ pc = "timers" /\ UNCHANGED evs
          /\ UNCHANGED <<clockVars, seen, deadline, pc, reg, incoming, table, active,
                         seed, taskVars, room, expiry, waits>>
      BY <1>1 DEF law_worker_timers
    <2>3. CASE /\ \A t \in Lookup(x.id) : ~Current(x, t)
               /\ UNCHANGED <<buf, readyVars, halted>>
      <3>1. Missed
        <4>1. \A t \in table : x.id = id[t] => t \in Lookup(x.id)
          BY DEF Lookup
        <4> QED BY <2>1, <2>2, <2>3, <4>1 DEF Missed
      <3> QED BY <3>1, <1>1 DEF Next
    <2>4. ASSUME NEW t \in Lookup(x.id), Current(x, t), law_task_push_event(t, "TIM")
          PROVE  t \in table /\ Found(t, "TIM")
      <3>1. x.id \in 0 .. MaxIds
        BY <2>1 DEF TypeOK, Entry
      <3>2. t \in table /\ x.id = id[t]
        BY <2>4, <3>1, LookupIsOwner DEF Owner
      <3> QED BY <2>1, <2>2, <2>4, <3>2 DEF Found
    <2> QED BY <2>1, <2>3, <2>4 DEF Next
  <1>2. CASE law_evo_next
    <2>1. /\ pc = "events" /\ UNCHANGED timer
          /\ UNCHANGED <<clockVars, seen, deadline, pc, reg, incoming, table, active,
                         seed, taskVars, room, expiry, waits>>
      BY <1>2 DEF law_evo_next
    <2>2. PICK f, i :
            /\ f \in evs /\ evs' = evs \ {f}
            /\ \/ UNCHANGED <<buf, readyVars, halted>>
               \/ \E t \in Lookup(i) : law_task_push_event(t, "IO")
      BY <1>2 DEF law_evo_next
    <2>3. CASE UNCHANGED <<buf, readyVars, halted>>
      <3>1. Missed
        BY <2>1, <2>2, <2>3 DEF Missed
      <3> QED BY <3>1, <1>2 DEF Next
    <2>4. ASSUME NEW t \in Lookup(i), law_task_push_event(t, "IO")
          PROVE  t \in table /\ Found(t, "IO")
      BY <2>1, <2>2, <2>4 DEF Found, Lookup
    <2> QED BY <2>2, <2>3, <2>4 DEF Next
  <1>3. ASSUME NEW m \in Millis, NEW n \in MaxEvents, law_ewait(m, n)
        PROVE  Wait(m, n) /\ UNCHANGED reg
    BY <1>3 DEF law_ewait
  <1>4. ASSUME NEW f \in Fd, NEW m \in Millis, law_sync_wait(f, m)
        PROVE  Wait(m, -1) /\ reg' = [reg EXCEPT ![f] = id[active]]
    BY <1>4 DEF law_sync_wait
  <1>5. ~halted
    BY DEF Next
  <1> QED
    BY <1>1, <1>2, <1>3, <1>4, <1>5 DEF Next, WorkerStep, Callback, Leave, Still

LEMMA StillFrame ==
  ASSUME TypeOK, Stage, Still
  PROVE  /\ UNCHANGED <<timer, incoming, table, ready, mark, active, seed, id, version,
                        tmode, room, buf, expiry, waits, halted>>
         /\ now \in Nat /\ now <= now' /\ now' \in 0 .. MaxTime
         /\ seen' \in 0 .. MaxTime /\ deadline' \in 0 .. (MaxTime + WorkerTimeout)
         /\ pc' \in Label /\ evs' \in SUBSET Fd /\ reg' \in [Fd -> 0 .. MaxIds]
         /\ \/ UNCHANGED <<seen, deadline, pc>>
            \/ pc = "tick" /\ pc' = "poll" /\ deadline' = now + PollTimeout /\ UNCHANGED <<seen, now>>
            \/ pc = "poll" /\ pc' = "timers" /\ seen' = now /\ UNCHANGED now
            \/ /\ pc = "timers" /\ pc' = "events" /\ (\A e \in timer : e.exp > seen)
               /\ UNCHANGED <<seen, now>>
            \/ pc = "events" /\ pc' = "incoming" /\ UNCHANGED <<seen, now>>
            \/ pc = "incoming" /\ pc' = "dispatch" /\ UNCHANGED <<seen, now>>
            \/ pc = "dispatch" /\ pc' = "tick" /\ ready = <<>> /\ UNCHANGED <<seen, now>>
  <1> USE Params DEF Label
  <1>1. /\ now \in 0 .. MaxTime /\ seen \in 0 .. MaxTime
        /\ deadline \in 0 .. (MaxTime + WorkerTimeout)
        /\ pc \in Label /\ evs \in SUBSET Fd /\ reg \in [Fd -> 0 .. MaxIds]
    BY DEF TypeOK
  <1>2. CASE Tick
    BY <1>1, <1>2 DEF Tick
  <1>3. CASE law_worker_tick
    <2>1. now + PollTimeout \in 0 .. (MaxTime + WorkerTimeout)
      BY <1>1, PollTimeoutIs
    <2> QED BY <1>1, <1>3, <2>1 DEF law_worker_tick
  <1>4. CASE law_evo_wait
    BY <1>1, <1>4 DEF law_evo_wait
  <1>5. CASE law_worker_timers_end
    BY <1>1, <1>5 DEF law_worker_timers_end
  <1>6. CASE law_evo_next_end
    BY <1>1, <1>6 DEF law_evo_next_end
  <1>7. CASE law_worker_incoming_end
    BY <1>1, <1>7 DEF law_worker_incoming_end
  <1>8. CASE law_worker_dispatch_end
    BY <1>1, <1>8 DEF law_worker_dispatch_end
  <1>9. ASSUME NEW f \in Fd, NEW i \in {0, id[active]}, pc = "run", law_ectl(f, i)
        PROVE  reg' \in [Fd -> 0 .. MaxIds]
    <2>1. active \in Task
      BY <1>9, ActiveTask
    <2>2. i \in 0 .. MaxIds
      BY <2>1 DEF TypeOK
    <2> QED BY <1>1, <1>9, <2>2 DEF law_ectl
  <1>10. CASE pc = "run" /\ \E f \in Fd, i \in {0, id[active]} : law_ectl(f, i)
    <2>1. PICK f \in Fd, i \in {0, id[active]} : law_ectl(f, i)
      BY <1>10
    <2>2. reg' \in [Fd -> 0 .. MaxIds]
      BY <1>9, <1>10, <2>1
    <2> QED BY <1>1, <2>1, <2>2 DEF law_ectl
  <1> QED BY <1>2, <1>3, <1>4, <1>5, <1>6, <1>7, <1>8, <1>10 DEF Still

LEMMA TypeStep ==
  ASSUME MaxIds < KeyModulo, TypeOK, Clock, ReadyIntegrity, Stage, [Next]_vars
  PROVE  TypeOK' /\ Clock'
  <1> USE Params
  <1>0. CASE UNCHANGED vars
    BY <1>0 DEF TypeOK, Clock, vars
  <1>1. CASE Still
    <2>1. TypeOK'
      BY <1>1, StillFrame DEF TypeOK
    <2>2. now \in Nat /\ now' \in Nat /\ now <= now' /\ (seen' = seen \/ seen' = now)
      BY <1>1, StillFrame
    <2>3. Clock'
      BY <2>2 DEF Clock, TypeOK
    <2> QED BY <2>1, <2>3
  <1>2. ASSUME NEW t \in Task, law_task_setup(t) PROVE TypeOK' /\ Clock'
    <2>1. /\ seed < MaxIds /\ seed' = seed + 1 /\ id' = [id EXCEPT ![t] = seed + 1]
          /\ tmode' = [tmode EXCEPT ![t] = "spawned"]
          /\ incoming' = Append(incoming, t)
          /\ waits' = [waits EXCEPT ![t] = 0]
          /\ \E v \in RandVersions : version' = [version EXCEPT ![t] = v]
          /\ UNCHANGED <<clockVars, pollVars, pc, timer, reg, table, readyVars, active,
                         room, buf, expiry, halted>>
      BY <1>2 DEF law_task_setup
    <2>2. seed' \in 0 .. MaxIds /\ id' \in [Task -> 0 .. MaxIds]
          /\ waits' \in [Task -> 0 .. MaxWaits]
      <3>1. seed + 1 \in 0 .. MaxIds /\ 0 \in 0 .. MaxWaits
        BY <2>1 DEF TypeOK
      <3> QED BY <2>1, <3>1 DEF TypeOK
    <2>3. version' \in [Task -> 0 .. (VersModulo - 1)]
          /\ tmode' \in [Task -> {"created", "spawned", "running", "suspended"}]
      BY <2>1 DEF TypeOK
    <2>4. incoming' \in Seq(Task)
      BY <2>1, AppendElems DEF TypeOK
    <2> QED BY <2>1, <2>2, <2>3, <2>4 DEF TypeOK, Clock
  <1>3. CASE Missed
    BY <1>3 DEF Missed, TypeOK, Clock
  <1>4. ASSUME NEW t \in table, NEW e \in {"TIM", "IO"}, Found(t, e), ~halted
        PROVE  TypeOK' /\ Clock'
    <2>1. t \in Task /\ law_task_push_event(t, e)
      BY <1>4 DEF Found, TypeOK
    <2>2. /\ ready' \in Seq(Task) /\ mark' \in [Task -> BOOLEAN] /\ halted' \in BOOLEAN
          /\ buf' \in [Task -> Seq({"TIM", "IO"})]
      BY <1>4, <2>1, PushEvent
    <2>3. /\ UNCHANGED <<clockVars, seen, deadline, pc, reg, incoming, table, active,
                         seed, taskVars, room, expiry, waits>>
          /\ timer' \in SUBSET Entry /\ evs' \in SUBSET Fd
      BY <1>4 DEF Found, TypeOK
    <2> QED BY <2>2, <2>3 DEF TypeOK, Clock
  <1>5. CASE law_worker_incoming
    <2>1. /\ incoming # <<>> /\ incoming' = Tail(incoming)
          /\ \/ table' = table \cup {Head(incoming)} /\ law_ready_set_push(Head(incoming))
                /\ UNCHANGED halted
             \/ halted' = TRUE /\ UNCHANGED <<table, readyVars>>
          /\ UNCHANGED <<clockVars, pollVars, pc, timer, reg, active, seed, taskVars, waitVars>>
      BY <1>5 DEF law_worker_incoming
    <2>2. Head(incoming) \in Task /\ incoming' \in Seq(Task)
      BY <2>1, TailElems DEF TypeOK
    <2>3. ready' \in Seq(Task) /\ mark' \in [Task -> BOOLEAN]
      <3>1. CASE UNCHANGED readyVars
        BY <3>1 DEF TypeOK
      <3> QED BY <2>1, <2>2, <3>1, PushReady
    <2>4. table' \in SUBSET Task /\ halted' \in BOOLEAN
      BY <2>1, <2>2 DEF TypeOK
    <2> QED BY <2>1, <2>2, <2>3, <2>4 DEF TypeOK, Clock
  <1>6. CASE law_worker_dispatch
    <2> DEFINE t == Head(ready)
    <2>1. t \in Task /\ Tail(ready) \in Seq(Task)
      BY <1>6, TailElems DEF law_worker_dispatch, TypeOK
    <2>2. NextVersion(t) \in 0 .. (VersModulo - 1)
      BY <2>1, Increment DEF NextVersion, TypeOK
    <2>3. <<>> \in Seq({"TIM", "IO"})
      OBVIOUS
    <2> HIDE DEF t
    <2>4. /\ ready' = Tail(ready) /\ mark' = [mark EXCEPT ![t] = FALSE]
          /\ version' = [version EXCEPT ![t] = NextVersion(t)] /\ active' = t
          /\ \/ /\ tmode' = [tmode EXCEPT ![t] = "running"]
                /\ room' = [room EXCEPT ![t] = -1]
                /\ buf' = [buf EXCEPT ![t] = <<>>]
                /\ pc' = "run" /\ UNCHANGED halted
             \/ halted' = TRUE /\ UNCHANGED <<tmode, room, buf, pc>>
          /\ UNCHANGED <<clockVars, pollVars, timer, reg, incoming, table, seed, id,
                         expiry, waits>>
      BY <1>6 DEF law_worker_dispatch, t
    <2>5. /\ ready' \in Seq(Task) /\ mark' \in [Task -> BOOLEAN] /\ active' \in Task \cup {NoTask}
          /\ version' \in [Task -> 0 .. (VersModulo - 1)]
      BY <2>1, <2>2, <2>4 DEF TypeOK
    <2>6. /\ tmode' \in [Task -> {"created", "spawned", "running", "suspended"}]
          /\ room' \in [Task -> {-1} \cup MaxEvents]
          /\ pc' \in Label /\ halted' \in BOOLEAN
      BY <2>1, <2>4 DEF TypeOK, Label
    <2>7. buf' \in [Task -> Seq({"TIM", "IO"})]
      BY <2>1, <2>3, <2>4 DEF TypeOK
    <2> QED BY <2>4, <2>5, <2>6, <2>7 DEF TypeOK, Clock
  <1>7. ASSUME NEW m \in Millis, NEW n \in {-1} \cup MaxEvents, Wait(m, n),
               UNCHANGED reg \/ \E f \in Fd : reg' = [reg EXCEPT ![f] = id[active]]
        PROVE  TypeOK' /\ Clock'
    <2>1. /\ pc' = "dispatch" /\ active \in Task
          /\ waits[active] < MaxWaits /\ now + m \in 0 .. MaxTime
          /\ timer' \in SUBSET Entry
          /\ room' = [room EXCEPT ![active] = n]
          /\ buf' = [buf EXCEPT ![active] = <<>>]
          /\ expiry' = [expiry EXCEPT ![active] = now + m]
          /\ waits' = [waits EXCEPT ![active] = waits[active] + 1]
          /\ tmode' = [tmode EXCEPT ![active] = "suspended"]
      BY <1>7, WaitForm
    <2>2. UNCHANGED <<clockVars, pollVars, incoming, table, readyVars, active,
                      seed, id, version, halted>>
      BY <1>7 DEF Wait
    <2>3. reg' \in [Fd -> 0 .. MaxIds]
      BY <1>7, <2>1 DEF TypeOK
    <2>4. waits' \in [Task -> 0 .. MaxWaits] /\ expiry' \in [Task -> 0 .. MaxTime]
      <3>1. waits[active] + 1 \in 0 .. MaxWaits
        BY <2>1 DEF TypeOK
      <3> QED BY <2>1, <3>1 DEF TypeOK
    <2>5. /\ room' \in [Task -> {-1} \cup MaxEvents]
          /\ tmode' \in [Task -> {"created", "spawned", "running", "suspended"}]
      BY <2>1 DEF TypeOK
    <2>6. buf' \in [Task -> Seq({"TIM", "IO"})]
      BY <2>1 DEF TypeOK
    <2> QED BY <2>1, <2>2, <2>3, <2>4, <2>5, <2>6 DEF TypeOK, Clock, Label
  <1>8. CASE law_task_finish
    BY <1>8 DEF law_task_finish, TypeOK, Clock, Label
  <1> QED BY <1>0, <1>1, <1>2, <1>3, <1>4, <1>5, <1>6, <1>7, <1>8, NextCases

-----------------------------------------------------------------------------
(* Who owns a task, and what its mode says of where the worker is *)

Control == Pipe /\ Ids /\ ReadyIntegrity /\ Stage

\* Control depends on these variables only.
LEMMA ControlFrame ==
  ASSUME Pipe, Ids, ReadyIntegrity,
         UNCHANGED <<incoming, table, ready, mark, seed, id, tmode>>,
         timer' \subseteq timer
  PROVE  Pipe' /\ Ids' /\ ReadyIntegrity'
  BY DEF Pipe, Ids, ReadyIntegrity, Known, Elems

\* The task at the head of the pipe is new to the table.
LEMMA IncomingForm ==
  ASSUME MaxIds < KeyModulo, TypeOK, Control, law_worker_incoming
  PROVE  LET t == Head(incoming)
         IN  /\ t \in Task /\ t \in Elems(incoming) /\ t \notin table /\ tmode[t] = "spawned"
             /\ pc = "incoming"
             /\ incoming' = Tail(incoming) /\ incoming' \in Seq(Task)
             /\ Elems(incoming) = {t} \cup Elems(incoming') /\ t \notin Elems(incoming')
             /\ \A i, j \in 1 .. Len(incoming') : incoming'[i] = incoming'[j] => i = j
             /\ table' = table \cup {t} /\ law_ready_set_push(t)
             /\ UNCHANGED <<clockVars, pollVars, pc, timer, reg, active, seed, taskVars,
                            waitVars, halted>>
  <1> DEFINE t == Head(incoming)
  <1>1. incoming # <<>> /\ incoming \in Seq(Task) /\ incoming' = Tail(incoming) /\ pc = "incoming"
    BY DEF law_worker_incoming, TypeOK
  <1>2. /\ t \in Task /\ Elems(incoming) = {t} \cup Elems(incoming')
        /\ t \notin Elems(incoming') /\ incoming' \in Seq(Task)
        /\ \A i, j \in 1 .. Len(incoming') : incoming'[i] = incoming'[j] => i = j
    BY <1>1, TailElems DEF Control, Pipe
  <1> HIDE DEF t
  <1>3. t \in Elems(incoming) /\ t \notin table /\ tmode[t] = "spawned"
    BY <1>2 DEF Control, Pipe
  <1>4. Lookup(id[t]) = {}
    <2>1. id[t] \in 0 .. MaxIds
      BY <1>2 DEF TypeOK
    <2>2. Owner(id[t]) = {}
      BY <1>3 DEF Control, Ids, Known, Owner
    <2> QED BY <2>1, <2>2, LookupIsOwner
  <1>5. /\ table' = table \cup {t} /\ law_ready_set_push(t)
        /\ UNCHANGED <<clockVars, pollVars, pc, timer, reg, active, seed, taskVars,
                       waitVars, halted>>
    BY <1>3, <1>4 DEF law_worker_incoming, t
  <1> QED BY <1>1, <1>2, <1>3, <1>5 DEF t

\* The dispatcher enters or resumes the task it takes from the ready set.
LEMMA DispatchForm ==
  ASSUME TypeOK, Control, law_worker_dispatch
  PROVE  LET t == Head(ready)
         IN  /\ t \in Task /\ t \in table /\ mark[t] /\ tmode[t] \in {"spawned", "suspended"}
             /\ pc = "dispatch" /\ pc' = "run" /\ active' = t
             /\ ready' \in Seq(Task)
             /\ Elems(ready) = {t} \cup Elems(ready') /\ t \notin Elems(ready')
             /\ \A i, j \in 1 .. Len(ready') : ready'[i] = ready'[j] => i = j
             /\ mark' = [mark EXCEPT ![t] = FALSE]
             /\ version' = [version EXCEPT ![t] = (version[t] + 1) % VersModulo]
             /\ tmode' = [tmode EXCEPT ![t] = "running"]
             /\ room' = [room EXCEPT ![t] = -1]
             /\ buf' = [buf EXCEPT ![t] = <<>>]
             /\ UNCHANGED <<clockVars, pollVars, timer, reg, incoming, table, seed, id,
                            expiry, waits, halted>>
  <1> DEFINE t == Head(ready)
  <1>1. ready # <<>> /\ ready \in Seq(Task) /\ ready' = Tail(ready) /\ pc = "dispatch"
    BY DEF law_worker_dispatch, TypeOK
  <1>2. /\ t \in Task /\ Elems(ready) = {t} \cup Elems(ready')
        /\ t \notin Elems(ready') /\ ready' \in Seq(Task)
        /\ \A i, j \in 1 .. Len(ready') : ready'[i] = ready'[j] => i = j
    BY <1>1, TailElems DEF Control, ReadyIntegrity
  <1> HIDE DEF t
  <1>3. t \in Elems(ready) /\ t \in table /\ mark[t] /\ tmode[t] \in {"spawned", "suspended"}
    BY <1>2 DEF Control, ReadyIntegrity
  <1>4. /\ pc' = "run" /\ active' = t
        /\ mark' = [mark EXCEPT ![t] = FALSE]
        /\ version' = [version EXCEPT ![t] = (version[t] + 1) % VersModulo]
        /\ tmode' = [tmode EXCEPT ![t] = "running"]
        /\ room' = [room EXCEPT ![t] = -1]
        /\ buf' = [buf EXCEPT ![t] = <<>>]
        /\ UNCHANGED <<clockVars, pollVars, timer, reg, incoming, table, seed, id,
                       expiry, waits, halted>>
    BY <1>3 DEF law_worker_dispatch, NextVersion, t
  <1> QED BY <1>1, <1>2, <1>3, <1>4 DEF t

LEMMA ControlStep ==
  ASSUME MaxIds < KeyModulo, TypeOK, Control, [Next]_vars
  PROVE  Control'
  <1>a. Pipe /\ Ids /\ ReadyIntegrity /\ Stage
    BY DEF Control
  <1>b. /\ table \subseteq Task /\ mark \in [Task -> BOOLEAN] /\ id \in [Task -> 0 .. MaxIds]
        /\ tmode \in [Task -> {"created", "spawned", "running", "suspended"}]
        /\ seed \in 0 .. MaxIds /\ ready \in Seq(Task) /\ incoming \in Seq(Task)
    BY DEF TypeOK
  <1>c. Known \subseteq Task
    BY <1>b DEF Known, Elems
  <1>0. CASE UNCHANGED vars
    <2>1. Pipe' /\ Ids' /\ ReadyIntegrity'
      BY <1>0, <1>a, ControlFrame DEF vars
    <2>2. Stage'
      BY <1>0, <1>a DEF vars, Stage
    <2> QED BY <2>1, <2>2 DEF Control
  <1>1. CASE Still
    <2>1. Pipe' /\ Ids' /\ ReadyIntegrity'
      BY <1>1, <1>a, ControlFrame, StillFrame
    <2>2. UNCHANGED <<table, ready, mark, active, tmode>>
      BY <1>1, <1>a, StillFrame
    <2>3. \/ UNCHANGED pc
          \/ <<pc, pc'>> \in {<<"tick", "poll">>, <<"poll", "timers">>, <<"timers", "events">>,
                              <<"events", "incoming">>, <<"incoming", "dispatch">>}
          \/ pc = "dispatch" /\ pc' = "tick" /\ ready = <<>>
      BY <1>1, <1>a, StillFrame
    <2>4. ready = <<>> => \A t \in table : ~mark[t]
      <3>1. Elems(<<>>) = {}
        BY NoElems
      <3> QED BY <3>1, <1>a, <1>b DEF ReadyIntegrity
    <2>5. Stage'
      BY <1>a, <2>2, <2>3, <2>4 DEF Stage
    <2> QED BY <2>1, <2>5 DEF Control
  <1>2. ASSUME NEW t0 \in Task, law_task_setup(t0) PROVE Control'
    <2>1. /\ t0 \notin Known
          /\ seed' = seed + 1 /\ id' = [id EXCEPT ![t0] = seed + 1]
          /\ tmode' = [tmode EXCEPT ![t0] = "spawned"]
          /\ incoming' = Append(incoming, t0)
          /\ UNCHANGED <<pc, timer, table, ready, mark, active>>
      BY <1>2 DEF law_task_setup, Away, Known
    <2>2. /\ Elems(incoming') = Elems(incoming) \cup {t0}
          /\ \A i, j \in 1 .. Len(incoming') : incoming'[i] = incoming'[j] => i = j
      <3>1. /\ t0 \notin Elems(incoming)
            /\ \A i, j \in 1 .. Len(incoming) : incoming[i] = incoming[j] => i = j
        BY <1>a, <2>1 DEF Pipe, Known
      <3>2. Elems(incoming') = Elems(incoming) \cup {t0}
        BY <1>b, <2>1, AppendElems
      <3>3. \A i, j \in 1 .. Len(Append(incoming, t0)) :
              Append(incoming, t0)[i] = Append(incoming, t0)[j] => i = j
        BY <1>b, <3>1, AppendDistinct
      <3> QED BY <2>1, <3>2, <3>3
    <2>3. /\ id'[t0] = seed + 1 /\ tmode'[t0] = "spawned"
          /\ \A t \in Task : t # t0 => id'[t] = id[t] /\ tmode'[t] = tmode[t]
      BY <1>b, <2>1
    <2>4. Known' = Known \cup {t0}
      BY <2>1, <2>2 DEF Known
    <2>5. Pipe'
      BY <1>a, <1>b, <1>c, <2>1, <2>2, <2>3 DEF Pipe, Known
    <2>6. Ids'
      <3>1. \A t \in Task : id'[t] <= seed'
        BY <1>a, <1>b, <2>1, <2>3 DEF Ids
      <3>2. \A t \in Known' : id'[t] # 0
        BY <1>a, <1>b, <1>c, <2>3, <2>4 DEF Ids
      <3>3. \A t, u \in Known' : id'[t] = id'[u] => t = u
        <4>1. \A t \in Known : id'[t] = id[t] /\ id[t] <= seed /\ id[t] # seed + 1
          BY <1>a, <1>b, <1>c, <2>1, <2>3 DEF Ids
        <4> QED BY <1>a, <2>3, <2>4, <4>1 DEF Ids
      <3>4. \A e \in timer' : e.id <= seed' /\ e.id # seed + 1
        <4>1. \A e \in timer : e.id \in 0 .. MaxIds /\ e.id <= seed
          BY <1>a DEF Ids, TypeOK, Entry
        <4> QED BY <1>b, <2>1, <4>1
      <3>5. \A e \in timer', t \in Known' : e.id = id'[t] => tmode'[t] # "spawned"
        BY <1>a, <1>c, <2>1, <2>3, <2>4, <3>4 DEF Ids
      <3> QED BY <3>1, <3>2, <3>3, <3>4, <3>5 DEF Ids
    <2>7. \A t \in table : t # t0 /\ t \in Task
      BY <1>b, <2>1 DEF Known
    <2>8. ReadyIntegrity'
      BY <1>a, <2>1, <2>3, <2>7 DEF ReadyIntegrity, Elems
    <2>9. Stage'
      BY <1>a, <2>1, <2>3, <2>7 DEF Stage
    <2> QED BY <2>5, <2>6, <2>8, <2>9 DEF Control
  <1>3. CASE Missed
    <2>1. /\ UNCHANGED <<pc, incoming, table, ready, mark, active, seed, id, tmode>>
          /\ timer' \subseteq timer
      BY <1>3 DEF Missed
    <2> QED BY <1>a, <2>1, ControlFrame DEF Control, Stage
  <1>4. ASSUME NEW t0 \in table, NEW e \in {"TIM", "IO"}, Found(t0, e), ~halted
        PROVE  Control'
    <2>1. /\ t0 \in Task /\ law_task_push_event(t0, e)
          /\ pc \in {"timers", "events"} /\ timer' \subseteq timer
          /\ UNCHANGED <<pc, incoming, table, active, seed, id, tmode>>
      BY <1>4 DEF Found, TypeOK
    <2>2. tmode[t0] = "suspended"
      BY <1>a, <2>1 DEF Stage
    <2>3. /\ \A u \in Task : mark'[u] <=> u \in Elems(ready')
          /\ \A i, j \in 1 .. Len(ready') : ready'[i] = ready'[j] => i = j
          /\ Elems(ready') \subseteq Elems(ready) \cup {t0}
          /\ \A u \in Task : mark[u] => mark'[u]
      <3>1. /\ \A u \in Task : mark'[u] <=> u \in Elems(ready')
            /\ \A i, j \in 1 .. Len(ready') : ready'[i] = ready'[j] => i = j
            /\ \/ UNCHANGED <<ready, mark>>
               \/ Elems(ready') = Elems(ready) \cup {t0} /\ mark' = [mark EXCEPT ![t0] = TRUE]
        BY <1>4, <1>a, <2>1, PushEvent
      <3>2. Elems(ready') \subseteq Elems(ready) \cup {t0}
        BY <3>1 DEF Elems
      <3>3. \A u \in Task : mark[u] => mark'[u]
        BY <3>1, <1>b
      <3> QED BY <3>1, <3>2, <3>3
    <2>4. ReadyIntegrity'
      BY <1>a, <2>1, <2>2, <2>3 DEF ReadyIntegrity
    <2>5. Pipe' /\ Ids'
      BY <1>a, <2>1 DEF Pipe, Ids, Known, Elems
    <2>6. Stage'
      BY <1>a, <1>b, <2>1, <2>3 DEF Stage
    <2> QED BY <2>4, <2>5, <2>6 DEF Control
  <1>5. CASE law_worker_incoming
    <2>1. PICK t0 : t0 = Head(incoming)
      OBVIOUS
    <2>2. /\ t0 \in Task /\ t0 \in Elems(incoming) /\ t0 \notin table /\ tmode[t0] = "spawned"
          /\ pc = "incoming"
          /\ Elems(incoming) = {t0} \cup Elems(incoming') /\ t0 \notin Elems(incoming')
          /\ \A i, j \in 1 .. Len(incoming') : incoming'[i] = incoming'[j] => i = j
          /\ table' = table \cup {t0} /\ law_ready_set_push(t0)
          /\ UNCHANGED <<pc, timer, active, seed, id, tmode>>
      BY <1>5, <2>1, IncomingForm
    <2>3. /\ mark' = [mark EXCEPT ![t0] = TRUE]
          /\ Elems(ready') = Elems(ready) \cup {t0}
          /\ \A u \in Task : mark'[u] <=> u \in Elems(ready')
          /\ \A i, j \in 1 .. Len(ready') : ready'[i] = ready'[j] => i = j
      BY <1>a, <2>2, PushReady
    <2>4. Known' = Known
      BY <2>2 DEF Known
    <2>5. Pipe'
      BY <1>a, <2>2 DEF Pipe
    <2>6. Ids'
      BY <1>a, <2>2, <2>4 DEF Ids
    <2>7. ReadyIntegrity'
      BY <1>a, <2>2, <2>3 DEF ReadyIntegrity
    <2>8. Stage'
      BY <1>a, <1>b, <2>2, <2>3 DEF Stage
    <2> QED BY <2>5, <2>6, <2>7, <2>8 DEF Control
  <1>6. CASE law_worker_dispatch
    <2>1. PICK t0 : t0 = Head(ready)
      OBVIOUS
    <2>2. /\ t0 \in Task /\ t0 \in table /\ tmode[t0] \in {"spawned", "suspended"}
          /\ pc = "dispatch" /\ pc' = "run" /\ active' = t0
          /\ Elems(ready) = {t0} \cup Elems(ready') /\ t0 \notin Elems(ready')
          /\ \A i, j \in 1 .. Len(ready') : ready'[i] = ready'[j] => i = j
          /\ mark' = [mark EXCEPT ![t0] = FALSE]
          /\ tmode' = [tmode EXCEPT ![t0] = "running"]
          /\ UNCHANGED <<timer, incoming, table, seed, id>>
      BY <1>6, <2>1, DispatchForm
    <2>3. /\ ~mark'[t0] /\ tmode'[t0] = "running"
          /\ \A t \in Task : t # t0 => mark'[t] = mark[t] /\ tmode'[t] = tmode[t]
      BY <1>b, <2>2
    <2>4. Known' = Known
      BY <2>2 DEF Known
    <2>5. Pipe'
      BY <1>a, <1>b, <1>c, <2>2, <2>3 DEF Pipe, Known
    <2>6. Ids'
      BY <1>a, <1>c, <2>2, <2>3, <2>4 DEF Ids
    <2>7. ReadyIntegrity'
      <3>1. \A t \in Task : mark'[t] <=> t \in Elems(ready')
        BY <1>a, <2>2, <2>3 DEF ReadyIntegrity
      <3> QED BY <1>a, <1>b, <2>2, <2>3, <3>1 DEF ReadyIntegrity
    <2>8. Stage'
      BY <1>a, <1>b, <2>2, <2>3 DEF Stage
    <2> QED BY <2>5, <2>6, <2>7, <2>8 DEF Control
  <1>7. ASSUME NEW m \in Millis, NEW n \in {-1} \cup MaxEvents, Wait(m, n)
        PROVE  Control'
    <2>1. PICK t0 : t0 = active
      OBVIOUS
    <2>2. /\ pc = "run" /\ pc' = "dispatch" /\ t0 \in table /\ t0 \in Task /\ tmode[t0] = "running"
          /\ timer' = timer \cup {[exp |-> now + m, id |-> id[t0], vers |-> version[t0]]}
          /\ tmode' = [tmode EXCEPT ![t0] = "suspended"]
      BY <1>7, <1>a, <2>1, WaitForm
    <2>3. UNCHANGED <<incoming, table, ready, mark, active, seed, id>>
      BY <1>7 DEF Wait
    <2>4. /\ tmode'[t0] = "suspended" /\ t0 \in Known
          /\ \A t \in Task : t # t0 => tmode'[t] = tmode[t]
      BY <1>b, <2>2 DEF Known
    <2>5. t0 \notin Elems(ready) /\ ~mark[t0]
      BY <1>a, <2>2 DEF ReadyIntegrity
    <2>6. Pipe'
      BY <1>a, <1>b, <1>c, <2>2, <2>3, <2>4 DEF Pipe, Known, Elems
    <2>7. Ids'
      <3>1. \A x \in timer' : x \in timer \/ x.id = id[t0]
        BY <2>2
      <3>2. Known' = Known
        BY <2>3 DEF Known, Elems
      <3>3. \A x \in timer' : x.id <= seed'
        BY <1>a, <2>2, <2>3, <3>1 DEF Ids
      <3>4. \A x \in timer', t \in Known : x.id = id[t] => tmode'[t] # "spawned"
        BY <1>a, <1>c, <2>2, <2>4, <3>1 DEF Ids
      <3> QED BY <1>a, <2>3, <3>2, <3>3, <3>4 DEF Ids
    <2>8. ReadyIntegrity'
      BY <1>a, <1>b, <2>3, <2>4, <2>5 DEF ReadyIntegrity, Elems
    <2>9. Stage'
      BY <1>a, <1>b, <2>1, <2>2, <2>3, <2>4 DEF Stage
    <2> QED BY <2>6, <2>7, <2>8, <2>9 DEF Control
  <1>8. CASE law_task_finish
    <2>1. active \in table /\ active \in Task /\ tmode[active] = "running"
      BY <1>8, <1>a, ActiveTask DEF law_task_finish
    <2>2. /\ pc = "run" /\ pc' = "dispatch" /\ table' = table \ {active}
          /\ UNCHANGED <<timer, incoming, ready, mark, active, seed, id, tmode>>
      BY <1>8 DEF law_task_finish
    <2>3. active \notin Elems(ready)
      BY <1>a, <2>1 DEF ReadyIntegrity
    <2>4. Known' \subseteq Known
      BY <2>2 DEF Known, Elems
    <2>5. Pipe' /\ Ids'
      BY <1>a, <2>2, <2>4 DEF Pipe, Ids, Elems
    <2>6. ReadyIntegrity'
      BY <1>a, <1>b, <2>2, <2>3 DEF ReadyIntegrity, Elems
    <2>7. Stage'
      BY <1>a, <1>b, <2>1, <2>2 DEF Stage
    <2> QED BY <2>5, <2>6, <2>7 DEF Control
  <1> QED BY <1>0, <1>1, <1>2, <1>3, <1>4, <1>5, <1>6, <1>7, <1>8, NextCases

-----------------------------------------------------------------------------
(* Timers *)

Timing ==
  Ages /\ WaitIsTimed /\ NoEarlyTimeout /\ TimersServed /\ NoOversleep /\ AbortOnlyInSync

\* The parts of Timing that need no look at the step: nothing a timer or a
\* waiting task says has changed, and the poll is over.
LEMMA TimingFrame ==
  ASSUME Ages, WaitIsTimed, NoEarlyTimeout, AbortOnlyInSync, ~halted,
         UNCHANGED <<timer, table, mark, id, version, tmode, room, buf, expiry, waits, halted>>,
         seen \in Nat, seen' \in Nat, seen <= seen', expiry \in [Task -> 0 .. MaxTime],
         table \subseteq Task
  PROVE  Ages' /\ WaitIsTimed' /\ NoEarlyTimeout' /\ AbortOnlyInSync'
  <1>1. Suspended' = Suspended
    BY DEF Suspended
  <1>2. Ages'
    BY DEF Ages
  <1>3. WaitIsTimed'
    BY <1>1 DEF WaitIsTimed
  <1>4. NoEarlyTimeout'
    <2>1. \A t \in Suspended : t \in Task
      BY DEF Suspended
    <2>2. \A t \in Suspended : "TIM" \in Elems(buf[t]) => expiry[t] <= seen'
      BY <2>1, Params DEF NoEarlyTimeout
    <2> QED BY <1>1, <2>2 DEF NoEarlyTimeout, Elems
  <1> QED BY <1>2, <1>3, <1>4 DEF AbortOnlyInSync

LEMMA StillTiming ==
  ASSUME TypeOK, Clock, Control, Timing, ~halted, Still
  PROVE  Timing'
  <1>a. ReadyIntegrity /\ Stage
    BY DEF Control
  <1>b. Ages /\ WaitIsTimed /\ NoEarlyTimeout /\ TimersServed /\ NoOversleep /\ AbortOnlyInSync
    BY DEF Timing
  <1>c. /\ now \in Nat /\ seen \in Nat /\ deadline \in Nat /\ table \subseteq Task
        /\ expiry \in [Task -> 0 .. MaxTime]
        /\ \A x \in timer : x.exp \in Nat
        /\ \A t \in Suspended : t \in Task /\ t \in table /\ expiry[t] \in Nat
    BY Params DEF TypeOK, Entry, Suspended
  <1>1. /\ UNCHANGED <<timer, incoming, table, ready, mark, active, seed, id, version,
                        tmode, room, buf, expiry, waits, halted>>
        /\ now <= now' /\ now' \in Nat /\ seen' \in Nat
        /\ \/ UNCHANGED <<seen, deadline, pc>>
           \/ pc = "tick" /\ pc' = "poll" /\ deadline' = now + PollTimeout /\ UNCHANGED <<seen, now>>
           \/ pc = "poll" /\ pc' = "timers" /\ seen' = now /\ UNCHANGED now
           \/ /\ pc = "timers" /\ pc' = "events" /\ (\A x \in timer : x.exp > seen)
              /\ UNCHANGED <<seen, now>>
           \/ pc = "events" /\ pc' = "incoming" /\ UNCHANGED <<seen, now>>
           \/ pc = "incoming" /\ pc' = "dispatch" /\ UNCHANGED <<seen, now>>
           \/ pc = "dispatch" /\ pc' = "tick" /\ ready = <<>> /\ UNCHANGED <<seen, now>>
    BY <1>a, StillFrame, Params
  <1>2. Suspended' = Suspended
    BY <1>1 DEF Suspended
  <1>3. Ages' /\ WaitIsTimed' /\ NoEarlyTimeout' /\ AbortOnlyInSync'
    <2>1. seen <= seen'
      BY <1>1, <1>c DEF Clock
    <2> QED BY <1>b, <1>c, <1>1, <2>1, TimingFrame
  <1>4. TimersServed'
    <2>1. ASSUME pc' \in {"events", "incoming"}, NEW t \in Suspended, ~mark[t]
          PROVE  seen' < expiry[t]
      <3>1. CASE pc = "timers"
        <4>1. PICK x \in timer : x = [exp |-> expiry[t], id |-> id[t], vers |-> version[t]]
          BY <1>b, <2>1 DEF WaitIsTimed
        <4>2. x.exp > seen /\ seen' = seen
          BY <1>1, <2>1, <3>1
        <4> QED BY <4>1, <4>2, <1>c
      <3>2. CASE pc # "timers"
        <4>1. pc \in {"events", "incoming"} /\ seen' = seen
          BY <1>1, <2>1, <3>2
        <4> QED BY <4>1, <1>b, <2>1 DEF TimersServed
      <3> QED BY <3>1, <3>2
    <2>2. ASSUME pc' # "timers", NEW x \in timer PROVE seen' <= x.exp
      <3>1. CASE pc = "timers"
        BY <1>1, <1>c, <2>2, <3>1
      <3>2. CASE pc # "timers"
        BY <1>1, <1>b, <2>2, <3>2 DEF TimersServed
      <3> QED BY <3>1, <3>2
    <2> QED BY <1>1, <1>2, <2>1, <2>2 DEF TimersServed
  <1>5. NoOversleep'
    <2>1. SUFFICES ASSUME pc' = "poll", now' < deadline', NEW t \in Suspended
                   PROVE  deadline' <= expiry[t]
      BY <1>1, <1>2 DEF NoOversleep
    <2>2. CASE pc = "tick"
      <3>1. ready = <<>>
        BY <1>a, <2>2 DEF Stage
      <3>2. ~mark[t]
        BY <1>a, <1>c, <3>1, NoElems DEF ReadyIntegrity
      <3>3. PICK x \in timer : x = [exp |-> expiry[t], id |-> id[t], vers |-> version[t]]
        BY <1>b, <3>2 DEF WaitIsTimed
      <3>4. deadline' = now + PollTimeout /\ now' = now
        BY <1>1, <2>1, <2>2
      <3>5. PollTimeout \in Nat /\ (PollTimeout # 0 => now + PollTimeout <= x.exp)
        BY <3>3, PollTimeoutIs, Params
      <3> QED BY <1>c, <2>1, <3>3, <3>4, <3>5
    <2>3. CASE pc # "tick"
      <3>1. pc = "poll" /\ deadline' = deadline
        BY <1>1, <2>1, <2>3
      <3>2. now < deadline
        BY <1>1, <1>c, <2>1, <3>1
      <3> QED BY <1>b, <3>1, <3>2 DEF NoOversleep
    <2> QED BY <2>2, <2>3
  <1> QED BY <1>3, <1>4, <1>5 DEF Timing

\* A task that leaves the pool for this worker's pipe is not in its table.
LEMMA SetupTiming ==
  ASSUME TypeOK, Control, Timing, ~halted, NEW t0 \in Task, law_task_setup(t0)
  PROVE  Timing'
  <1>b. Ages /\ WaitIsTimed /\ NoEarlyTimeout /\ TimersServed /\ NoOversleep /\ AbortOnlyInSync
    BY DEF Timing
  <1>1. /\ t0 \notin table /\ table \subseteq Task
        /\ id' = [id EXCEPT ![t0] = seed + 1]
        /\ \E v \in RandVersions : version' = [version EXCEPT ![t0] = v]
        /\ tmode' = [tmode EXCEPT ![t0] = "spawned"]
        /\ waits' = [waits EXCEPT ![t0] = 0]
        /\ UNCHANGED <<now, seen, deadline, pc, timer, table, mark, room, buf, expiry, halted>>
    BY DEF law_task_setup, Away, TypeOK
  <1>2. \A t \in table : /\ id'[t] = id[t] /\ version'[t] = version[t]
                         /\ tmode'[t] = tmode[t] /\ waits'[t] = waits[t]
    BY <1>1 DEF TypeOK
  <1>3. Suspended' = Suspended /\ Suspended \subseteq table
    BY <1>1, <1>2 DEF Suspended
  <1>4. Ages'
    BY <1>b, <1>1, <1>2 DEF Ages
  <1>5. WaitIsTimed'
    BY <1>b, <1>1, <1>2, <1>3 DEF WaitIsTimed
  <1>6. NoEarlyTimeout'
    BY <1>b, <1>1, <1>3 DEF NoEarlyTimeout, Elems
  <1>7. TimersServed' /\ NoOversleep' /\ AbortOnlyInSync'
    BY <1>b, <1>1, <1>3 DEF TimersServed, NoOversleep, AbortOnlyInSync
  <1> QED BY <1>4, <1>5, <1>6, <1>7 DEF Timing

\* LAW_ERR_NOID and LAW_ERR_VERS: the entry is nobody's, or of a wait that
\* has ended.
LEMMA MissedTiming ==
  ASSUME TypeOK, Timing, ~halted, Missed
  PROVE  Timing'
  <1>b. Ages /\ WaitIsTimed /\ NoEarlyTimeout /\ TimersServed /\ NoOversleep /\ AbortOnlyInSync
    BY DEF Timing
  <1>1. /\ UNCHANGED <<now, seen, deadline, pc, table, mark, id, version, tmode, room, buf,
                       expiry, waits, halted>>
        /\ pc \in {"timers", "events"} /\ (pc = "events" => UNCHANGED timer)
        /\ timer' \subseteq timer
    BY DEF Missed
  <1>2. Suspended' = Suspended
    BY <1>1 DEF Suspended
  <1>3. Ages'
    BY <1>b, <1>1 DEF Ages
  <1>4. WaitIsTimed'
    <2>1. SUFFICES ASSUME NEW t \in Suspended, ~mark[t]
                   PROVE  [exp |-> expiry[t], id |-> id[t], vers |-> version[t]] \in timer'
      BY <1>1, <1>2 DEF WaitIsTimed
    <2> DEFINE own == [exp |-> expiry[t], id |-> id[t], vers |-> version[t]]
    <2>2. own \in timer /\ t \in table
      BY <1>b, <2>1 DEF WaitIsTimed, Suspended
    <2>3. ASSUME NEW x \in timer, \A u \in table : x.id = id[u] => ~Current(x, u)
          PROVE  x # own
      BY <2>2, <2>3 DEF Current
    <2> QED BY <2>2, <2>3 DEF Missed
  <1>5. NoEarlyTimeout'
    BY <1>b, <1>1, <1>2 DEF NoEarlyTimeout, Elems
  <1>6. TimersServed' /\ NoOversleep' /\ AbortOnlyInSync'
    BY <1>b, <1>1, <1>2 DEF TimersServed, NoOversleep, AbortOnlyInSync
  <1> QED BY <1>3, <1>4, <1>5, <1>6 DEF Timing

\* An entry with the version of the task is the entry of its current wait.
LEMMA CurrentIsOwn ==
  ASSUME TypeOK, Ages, NEW x \in timer, NEW t \in table, x.id = id[t], Current(x, t)
  PROVE  x.exp = expiry[t] /\ x = [exp |-> expiry[t], id |-> id[t], vers |-> version[t]]
  <1>1. t \in Task /\ x \in Entry /\ waits[t] \in 0 .. MaxWaits
    BY DEF TypeOK
  <1>2. PICK d \in 0 .. waits[t] : /\ version[t] = After(x.vers, d)
                                   /\ d = 0 => x.exp = expiry[t]
    BY DEF Ages
  <1>3. x.vers \in 0 .. (VersModulo - 1) /\ d \in 0 .. MaxWaits
    BY <1>1, <1>2, Params DEF Entry
  <1>4. version[t] = x.vers
    BY DEF Current
  <1>5. d = 0
    BY <1>2, <1>3, <1>4, AfterAfter
  <1>6. x.exp = expiry[t]
    BY <1>2, <1>5
  <1> QED BY <1>1, <1>4, <1>6 DEF Entry

LEMMA FoundTiming ==
  ASSUME TypeOK, Control, Timing, ~halted,
         NEW t0 \in table, NEW e \in {"TIM", "IO"}, Found(t0, e)
  PROVE  Timing'
  <1>a. Ids /\ ReadyIntegrity /\ Stage
    BY DEF Control
  <1>b. Ages /\ WaitIsTimed /\ NoEarlyTimeout /\ TimersServed /\ NoOversleep /\ AbortOnlyInSync
    BY DEF Timing
  <1>1. /\ UNCHANGED <<now, seen, deadline, pc, table, id, version, tmode, room, expiry, waits>>
        /\ pc \in {"timers", "events"} /\ timer' \subseteq timer
        /\ pc = "events" => UNCHANGED timer
        /\ t0 \in Task /\ law_task_push_event(t0, e)
    BY DEF Found, TypeOK
  <1>2. Suspended' = Suspended /\ Suspended \subseteq table /\ table \subseteq Task
    BY <1>1 DEF Suspended, TypeOK
  <1>3. t0 \in Suspended
    BY <1>a, <1>1 DEF Stage, Suspended
  <1>4. /\ \A u \in Task : Elems(buf'[u]) \subseteq
                              IF u = t0 THEN Elems(buf[u]) \cup {e} ELSE Elems(buf[u])
        /\ \/ halted' /\ room[t0] = -1 /\ UNCHANGED mark
           \/ ~halted' /\ mark' = [mark EXCEPT ![t0] = TRUE]
    BY <1>a, <1>1, PushEvent
  <1>5. /\ \A u \in Task : mark[u] => mark'[u]
        /\ ~halted' => mark'[t0]
    BY <1>1, <1>4 DEF TypeOK
  <1>6. Ages'
    BY <1>b, <1>1 DEF Ages
  <1>7. WaitIsTimed'
    <2>1. SUFFICES ASSUME ~halted', NEW t \in Suspended, ~mark'[t]
                   PROVE  [exp |-> expiry[t], id |-> id[t], vers |-> version[t]] \in timer'
      BY <1>1, <1>2 DEF WaitIsTimed
    <2> DEFINE own == [exp |-> expiry[t], id |-> id[t], vers |-> version[t]]
    <2>2. t # t0 /\ ~mark[t] /\ t \in table
      BY <1>2, <1>5, <2>1
    <2>3. own \in timer /\ own.id # id[t0]
      BY <1>a, <1>b, <2>2 DEF WaitIsTimed, Ids, Known
    <2> HIDE DEF own
    <2>4. own \in timer'
      BY <2>3 DEF Found
    <2> QED BY <2>4 DEF own
  <1>8. NoEarlyTimeout'
    <2>1. SUFFICES ASSUME NEW t \in Suspended, "TIM" \in Elems(buf'[t])
                   PROVE  expiry[t] <= seen
      BY <1>1, <1>2 DEF NoEarlyTimeout, Elems
    <2>2. CASE "TIM" \in Elems(buf[t])
      BY <1>b, <2>2 DEF NoEarlyTimeout
    <2>3. CASE "TIM" \notin Elems(buf[t])
      <3>1. t = t0 /\ e = "TIM"
        BY <1>2, <1>4, <2>1, <2>3
      <3>2. PICK x \in timer : x.exp <= seen /\ x.id = id[t0] /\ Current(x, t0)
        BY <3>1 DEF Found
      <3>3. x.exp = expiry[t0]
        BY <1>b, <3>2, CurrentIsOwn
      <3> QED BY <3>1, <3>2, <3>3
    <2> QED BY <2>2, <2>3
  <1>9. TimersServed' /\ NoOversleep'
    BY <1>b, <1>1, <1>2, <1>5 DEF TimersServed, NoOversleep
  <1>10. AbortOnlyInSync'
    BY <1>1, <1>2, <1>3, <1>4 DEF AbortOnlyInSync
  <1> QED BY <1>6, <1>7, <1>8, <1>9, <1>10 DEF Timing

LEMMA IncomingTiming ==
  ASSUME MaxIds < KeyModulo, TypeOK, Control, Timing, ~halted, law_worker_incoming
  PROVE  Timing'
  <1>a. Ids /\ ReadyIntegrity
    BY DEF Control
  <1>b. Ages /\ WaitIsTimed /\ NoEarlyTimeout /\ TimersServed /\ NoOversleep /\ AbortOnlyInSync
    BY DEF Timing
  <1>1. PICK t0 : t0 = Head(incoming)
    OBVIOUS
  <1>2. /\ t0 \in Task /\ t0 \in Elems(incoming) /\ t0 \notin table /\ tmode[t0] = "spawned"
        /\ pc = "incoming" /\ table' = table \cup {t0} /\ law_ready_set_push(t0)
        /\ UNCHANGED <<now, seen, deadline, pc, timer, id, version, tmode, room, buf, expiry,
                       waits, halted>>
    BY <1>1, IncomingForm
  <1>3. mark' = [mark EXCEPT ![t0] = TRUE]
    BY <1>a, <1>2, PushReady
  <1>4. Suspended' = Suspended
    BY <1>2 DEF Suspended
  <1>5. \A t \in Suspended : mark'[t] = mark[t]
    BY <1>2, <1>3 DEF Suspended, TypeOK
  <1>6. \A x \in timer : x.id # id[t0]
    BY <1>a, <1>2 DEF Ids, Known
  <1>7. Ages'
    BY <1>b, <1>2, <1>6 DEF Ages
  <1>8. WaitIsTimed' /\ TimersServed'
    BY <1>b, <1>2, <1>4, <1>5 DEF WaitIsTimed, TimersServed
  <1>9. NoEarlyTimeout'
    BY <1>b, <1>2, <1>4 DEF NoEarlyTimeout, Elems
  <1>10. NoOversleep' /\ AbortOnlyInSync'
    BY <1>2, <1>4 DEF NoOversleep, AbortOnlyInSync
  <1> QED BY <1>7, <1>8, <1>9, <1>10 DEF Timing

\* Every entry of a task that is dispatched gets one dispatch older.
LEMMA DispatchTiming ==
  ASSUME TypeOK, Control, Timing, ~halted, law_worker_dispatch
  PROVE  Timing'
  <1>a. Ids /\ ReadyIntegrity
    BY DEF Control
  <1>b. Ages /\ WaitIsTimed /\ NoEarlyTimeout /\ TimersServed /\ NoOversleep /\ AbortOnlyInSync
    BY DEF Timing
  <1>1. PICK t0 : t0 = Head(ready)
    OBVIOUS
  <1>2. /\ t0 \in Task /\ t0 \in table /\ tmode[t0] \in {"spawned", "suspended"}
        /\ pc = "dispatch" /\ pc' = "run"
        /\ mark' = [mark EXCEPT ![t0] = FALSE]
        /\ version' = [version EXCEPT ![t0] = (version[t0] + 1) % VersModulo]
        /\ tmode' = [tmode EXCEPT ![t0] = "running"]
        /\ buf' = [buf EXCEPT ![t0] = <<>>]
        /\ UNCHANGED <<now, seen, timer, table, id, expiry, waits, halted>>
    BY <1>1, DispatchForm
  <1>3. /\ tmode'[t0] = "running" /\ version'[t0] = (version[t0] + 1) % VersModulo
        /\ \A t \in Task : t # t0 => /\ tmode'[t] = tmode[t] /\ version'[t] = version[t]
                                     /\ mark'[t] = mark[t] /\ buf'[t] = buf[t]
    BY <1>2 DEF TypeOK
  <1>4. Suspended' = Suspended \ {t0} /\ Suspended \subseteq Task
    BY <1>2, <1>3 DEF Suspended, TypeOK
  <1>5. Ages'
    <2>1. SUFFICES ASSUME NEW x \in timer, NEW t \in table, x.id = id[t]
                   PROVE  \E d \in 0 .. waits[t] :
                            /\ version'[t] = After(x.vers, d)
                            /\ tmode'[t] = "suspended" => d # waits[t]
                            /\ d = 0 => tmode'[t] = "suspended" /\ x.exp = expiry[t]
      BY <1>2 DEF Ages
    <2>2. PICK d \in 0 .. waits[t] :
            /\ version[t] = After(x.vers, d)
            /\ tmode[t] = "suspended" => d # waits[t]
            /\ d = 0 => tmode[t] = "suspended" /\ x.exp = expiry[t]
      BY <1>b, <2>1 DEF Ages
    <2>3. CASE t # t0
      BY <1>3, <2>2, <2>3 DEF TypeOK
    <2>4. CASE t = t0
      <3>1. tmode[t0] = "suspended"
        BY <1>a, <1>2, <2>1, <2>4 DEF Ids, Known
      <3>2. waits[t] \in 0 .. MaxWaits /\ x.vers \in 0 .. (VersModulo - 1)
        BY <1>2, <2>4 DEF TypeOK, Entry
      <3>3. d + 1 \in 0 .. waits[t] /\ d \in 0 .. MaxWaits /\ d + 1 # 0
        BY <2>2, <2>4, <3>1, <3>2, Params
      <3>4. version[t0] \in 0 .. (VersModulo - 1)
        BY <1>2 DEF TypeOK
      <3>5. version'[t] = After(x.vers, d + 1)
        BY <1>3, <2>2, <2>4, <3>2, <3>3, <3>4, Increment, AfterAfter
      <3> QED BY <1>3, <2>4, <3>3, <3>5
    <2> QED BY <2>3, <2>4
  <1>6. WaitIsTimed'
    BY <1>b, <1>2, <1>3, <1>4 DEF WaitIsTimed
  <1>7. NoEarlyTimeout'
    BY <1>b, <1>2, <1>3, <1>4 DEF NoEarlyTimeout, Elems
  <1>8. TimersServed' /\ NoOversleep' /\ AbortOnlyInSync'
    BY <1>b, <1>2 DEF TimersServed, NoOversleep, AbortOnlyInSync
  <1> QED BY <1>5, <1>6, <1>7, <1>8 DEF Timing

\* The entry of a new wait has age zero; the entries of earlier waits of the
\* same task have been dispatched past.
LEMMA WaitTiming ==
  ASSUME TypeOK, Clock, Control, Timing, ~halted,
         NEW m \in Millis, NEW n \in {-1} \cup MaxEvents, Wait(m, n)
  PROVE  Timing'
  <1>a. Ids /\ ReadyIntegrity /\ Stage
    BY DEF Control
  <1>b. Ages /\ WaitIsTimed /\ NoEarlyTimeout /\ TimersServed /\ NoOversleep /\ AbortOnlyInSync
    BY DEF Timing
  <1>1. PICK t0 : t0 = active
    OBVIOUS
  <1>2. PICK x0 : x0 = [exp |-> now + m, id |-> id[t0], vers |-> version[t0]]
    OBVIOUS
  <1>3. /\ pc = "run" /\ pc' = "dispatch" /\ t0 \in table /\ t0 \in Task /\ tmode[t0] = "running"
        /\ waits[t0] < MaxWaits /\ now <= now + m /\ now + m \in 0 .. MaxTime
        /\ timer' = timer \cup {x0}
        /\ buf' = [buf EXCEPT ![t0] = <<>>]
        /\ expiry' = [expiry EXCEPT ![t0] = now + m]
        /\ waits' = [waits EXCEPT ![t0] = waits[t0] + 1]
        /\ tmode' = [tmode EXCEPT ![t0] = "suspended"]
        /\ UNCHANGED <<now, seen, table, mark, id, version, halted>>
    BY <1>a, <1>1, <1>2, WaitForm DEF Wait
  <1>4. /\ tmode'[t0] = "suspended" /\ expiry'[t0] = now + m /\ waits'[t0] = waits[t0] + 1
        /\ buf'[t0] = <<>>
        /\ \A t \in Task : t # t0 => /\ tmode'[t] = tmode[t] /\ expiry'[t] = expiry[t]
                                     /\ waits'[t] = waits[t] /\ buf'[t] = buf[t]
    BY <1>3 DEF TypeOK
  <1>5. /\ x0.exp = now + m /\ x0.id = id[t0] /\ x0.vers = version[t0]
        /\ version[t0] \in 0 .. (VersModulo - 1) /\ waits[t0] \in 0 .. MaxWaits
    BY <1>2, <1>3 DEF TypeOK
  <1>6. Suspended' = Suspended \cup {t0} /\ Suspended \subseteq table /\ table \subseteq Task
    BY <1>3, <1>4 DEF Suspended, TypeOK
  <1>7. \A t \in table : id[t] = id[t0] => t = t0
    BY <1>a, <1>3 DEF Ids, Known
  <1>8. Ages'
    <2>1. SUFFICES ASSUME NEW x \in timer', NEW t \in table, x.id = id[t]
                   PROVE  \E d \in 0 .. waits'[t] :
                            /\ version[t] = After(x.vers, d)
                            /\ tmode'[t] = "suspended" => d # waits'[t]
                            /\ d = 0 => tmode'[t] = "suspended" /\ x.exp = expiry'[t]
      BY <1>3 DEF Ages
    <2>2. CASE x = x0
      <3>1. t = t0
        BY <1>5, <1>7, <2>1, <2>2
      <3>2. version[t0] = After(x.vers, 0)
        BY <1>5, <2>2, AfterAfter, Params
      <3>3. 0 \in 0 .. waits'[t0] /\ 0 # waits'[t0]
        BY <1>4, <1>5
      <3> QED BY <1>4, <1>5, <2>2, <3>1, <3>2, <3>3
    <2>3. CASE x # x0
      <3>1. x \in timer
        BY <1>3, <2>1, <2>3
      <3>2. PICK d \in 0 .. waits[t] :
              /\ version[t] = After(x.vers, d)
              /\ tmode[t] = "suspended" => d # waits[t]
              /\ d = 0 => tmode[t] = "suspended" /\ x.exp = expiry[t]
        BY <1>b, <2>1, <3>1 DEF Ages
      <3>3. CASE t # t0
        BY <1>4, <1>6, <3>2, <3>3
      <3>4. CASE t = t0
        <4>1. d # 0 /\ d \in 0 .. waits'[t0] /\ d # waits'[t0]
          BY <1>3, <1>4, <1>5, <3>2, <3>4
        <4> QED BY <3>2, <3>4, <4>1
      <3> QED BY <3>3, <3>4
    <2> QED BY <2>2, <2>3
  <1>9. WaitIsTimed'
    <2>1. \A t \in Suspended : t # t0 => expiry'[t] = expiry[t]
      BY <1>4, <1>6
    <2> QED BY <1>b, <1>2, <1>3, <1>4, <1>6, <2>1 DEF WaitIsTimed
  <1>10. NoEarlyTimeout'
    <2>1. Elems(buf'[t0]) = {}
      BY <1>4, NoElems
    <2>2. \A t \in Suspended : t # t0 => expiry'[t] = expiry[t] /\ buf'[t] = buf[t]
      BY <1>4, <1>6
    <2>3. \A t \in Suspended' : "TIM" \in Elems(buf'[t]) => expiry'[t] <= seen
      BY <1>b, <1>6, <2>1, <2>2 DEF NoEarlyTimeout
    <2> QED BY <1>3, <2>3 DEF NoEarlyTimeout, Elems
  <1>11. TimersServed'
    <2>1. seen <= x0.exp
      BY <1>3, <1>5, Params DEF Clock, TypeOK
    <2> QED BY <1>b, <1>3, <2>1 DEF TimersServed
  <1>12. NoOversleep' /\ AbortOnlyInSync'
    BY <1>3 DEF NoOversleep, AbortOnlyInSync
  <1> QED BY <1>8, <1>9, <1>10, <1>11, <1>12 DEF Timing

LEMMA FinishTiming ==
  ASSUME TypeOK, Control, Timing, ~halted, law_task_finish
  PROVE  Timing'
  <1>a. Stage
    BY DEF Control
  <1>b. Ages /\ WaitIsTimed /\ NoEarlyTimeout /\ TimersServed /\ NoOversleep /\ AbortOnlyInSync
    BY DEF Timing
  <1>1. pc = "run" /\ active \in table /\ tmode[active] = "running"
    BY <1>a, ActiveTask DEF law_task_finish
  <1>2. /\ pc' = "dispatch" /\ table' = table \ {active} /\ ~halted'
        /\ UNCHANGED <<now, seen, timer, mark, id, version, tmode, room, buf, expiry, waits>>
    BY <1>1 DEF law_task_finish
  <1>3. Suspended' = Suspended
    BY <1>1, <1>2 DEF Suspended
  <1>4. Ages'
    BY <1>b, <1>2 DEF Ages
  <1>5. WaitIsTimed' /\ TimersServed'
    BY <1>b, <1>1, <1>2, <1>3 DEF WaitIsTimed, TimersServed
  <1>6. NoEarlyTimeout'
    BY <1>b, <1>2, <1>3 DEF NoEarlyTimeout, Elems
  <1>7. NoOversleep' /\ AbortOnlyInSync'
    BY <1>2 DEF NoOversleep, AbortOnlyInSync
  <1> QED BY <1>4, <1>5, <1>6, <1>7 DEF Timing

LEMMA TimingStep ==
  ASSUME MaxIds < KeyModulo, TypeOK, Clock, Control, Timing, [Next]_vars
  PROVE  Timing'
  <1>0. CASE UNCHANGED vars
    <2>1. UNCHANGED <<now, seen, deadline, pc, timer, table, mark, id, version, tmode, room,
                      buf, expiry, waits, halted>>
      BY <1>0 DEF vars
    <2>2. Ages' /\ WaitIsTimed'
      BY <2>1 DEF Timing, Ages, WaitIsTimed, Suspended
    <2>3. NoEarlyTimeout'
      BY <2>1 DEF Timing, NoEarlyTimeout, Suspended, Elems
    <2>4. TimersServed' /\ NoOversleep' /\ AbortOnlyInSync'
      BY <2>1 DEF Timing, TimersServed, NoOversleep, AbortOnlyInSync, Suspended
    <2> QED BY <2>2, <2>3, <2>4 DEF Timing
  <1> QED
    BY <1>0, NextCases, StillTiming, SetupTiming, MissedTiming, FoundTiming,
       IncomingTiming, DispatchTiming, WaitTiming, FinishTiming

-----------------------------------------------------------------------------
(* The inductive invariant, and what follows from it *)

\* That a timeout is never early needs the ages of the entries; the ages
\* need that an id has one owner and that a callback runs for the task that
\* was dispatched; and that needs the ready set to hold each task once.
Invariant == TypeOK /\ Clock /\ Control /\ Timing

LEMMA InvariantInit ==
  ASSUME Init
  PROVE  Invariant
  <1>1. TypeOK
    <2>0. 0 \in 0 .. MaxIds /\ 0 \in 0 .. MaxTime /\ 0 \in 0 .. MaxWaits
      BY Params
    <2>1. /\ version \in [Task -> 0 .. (VersModulo - 1)] /\ id \in [Task -> 0 .. MaxIds]
          /\ expiry \in [Task -> 0 .. MaxTime] /\ waits \in [Task -> 0 .. MaxWaits]
      BY <2>0, Params DEF Init
    <2>2. <<>> \in Seq({"TIM", "IO"}) /\ <<>> \in Seq(Task)
      OBVIOUS
    <2>3. /\ now \in 0 .. MaxTime /\ seen \in 0 .. MaxTime
          /\ deadline \in 0 .. (MaxTime + WorkerTimeout) /\ seed \in 0 .. MaxIds
          /\ reg \in [Fd -> 0 .. MaxIds]
      BY Params DEF Init
    <2> QED BY <2>1, <2>2, <2>3 DEF Init, TypeOK, Label
  <1>2. Elems(<<>>) = {}
    BY NoElems
  <1>3. Clock /\ Pipe /\ Ids /\ Stage
    BY <1>2 DEF Init, Clock, Pipe, Ids, Known, Stage
  <1>4. ReadyIntegrity
    BY <1>2 DEF Init, ReadyIntegrity
  <1>5. Timing
    BY DEF Init, Timing, Ages, WaitIsTimed, NoEarlyTimeout, TimersServed, NoOversleep,
           AbortOnlyInSync, Suspended
  <1> QED BY <1>1, <1>3, <1>4, <1>5 DEF Invariant, Control

\* In every behaviour the positions of law_worker_tick, the modes of the
\* tasks, the marks, and the versions and ids in the heap agree.
THEOREM InvariantAlways ==
  ASSUME MaxIds < KeyModulo
  PROVE  Spec => []Invariant
  <1>1. Init => Invariant
    BY InvariantInit
  <1>2. Invariant /\ [Next]_vars => Invariant'
    BY TypeStep, ControlStep, TimingStep DEF Invariant, Control
  <1> QED BY <1>1, <1>2, PTL DEF Spec

\* In every behaviour the variables stay in their types: versions within
\* law_vers_t, whatever rand() and ++task->version make of them, only tasks
\* in the pipe, the table and the ready set, only entries in the heap.
THEOREM TypeCorrect ==
  ASSUME MaxIds < KeyModulo
  PROVE  Spec => []TypeOK
  BY InvariantAlways, PTL DEF Invariant

\* In every behaviour a task is linked into the ready set at most once,
\* exactly when its mark is set, and only while it can be entered or resumed
\* (law_ready_set_push, law_ready_set_pop).
THEOREM ReadyIntegrityCorrect ==
  ASSUME MaxIds < KeyModulo
  PROVE  Spec => []ReadyIntegrity
  BY InvariantAlways, PTL DEF Invariant, Control

\* In every behaviour all tasks of the table wait in law_ewait while
\* law_worker_tick polls and reads timers and events.
THEOREM PolledAreSuspendedCorrect ==
  ASSUME MaxIds < KeyModulo
  PROVE  Spec => []PolledAreSuspended
  <1>1. Invariant => PolledAreSuspended
    BY DEF Invariant, Control, Stage, PolledAreSuspended, Suspended
  <1> QED BY <1>1, InvariantAlways, PTL

\* In every behaviour the entry that ends a wait stays in the heap until it
\* or an event has made the task ready (law_timer_insert, law_timer_pop).
THEOREM WaitIsTimedCorrect ==
  ASSUME MaxIds < KeyModulo
  PROVE  Spec => []WaitIsTimed
  BY InvariantAlways, PTL DEF Invariant, Timing

\* In every behaviour LAW_EV_TIM is delivered only to a wait that has
\* expired, although the heap keeps the entries of waits that ended early,
\* task objects are reused and versions wrap.
THEOREM NoEarlyTimeoutCorrect ==
  ASSUME MaxIds < KeyModulo
  PROVE  Spec => []NoEarlyTimeout
  BY InvariantAlways, PTL DEF Invariant, Timing

\* In every behaviour a tick serves all waits that had expired when it read
\* the clock, and empties the heap of entries older than that.
THEOREM TimersServedCorrect ==
  ASSUME MaxIds < KeyModulo
  PROVE  Spec => []TimersServed
  BY InvariantAlways, PTL DEF Invariant, Timing

\* In every behaviour law_evo_wait is entered for no longer than the shortest
\* wait of a suspended task.
THEOREM NoOversleepCorrect ==
  ASSUME MaxIds < KeyModulo
  PROVE  Spec => []NoOversleep
  BY InvariantAlways, PTL DEF Invariant, Timing

\* In every behaviour the only assertion of the worker's path that fails is
\* that of law_task_push_event, and only for a task in law_sync: tables,
\* modes and the ready set never trip the others.
THEOREM AbortOnlyInSyncCorrect ==
  ASSUME MaxIds < KeyModulo
  PROVE  Spec => []AbortOnlyInSync
  BY InvariantAlways, PTL DEF Invariant, Timing

-----------------------------------------------------------------------------
(* Events reach their owner *)

\* What law_slot_decode makes of what law_slot_encode stored.  It is an
\* induction over the bytes of a slot, which TLC checks on the runs.
SlotsDecode == \A i \in 0 .. MaxIds : law_slot_decode(law_slot_encode(i)) = i

\* In every behaviour an event makes the task that registered the descriptor
\* ready, and no other task, provided that slots decode to what was encoded.
THEOREM EventsReachOwnerCorrect ==
  ASSUME MaxIds < KeyModulo, SlotsDecode
  PROVE  Spec => EventsReachOwner
  <1> DEFINE Reach == \A f \in evs : pc = "events" /\ f \notin evs' /\ ~halted' =>
                        /\ Owner(reg[f]) \subseteq Elems(ready')
                        /\ Elems(ready') \subseteq Elems(ready) \cup Owner(reg[f])
  <1>1. ASSUME Invariant, [Next]_vars PROVE [Reach]_vars
    <2>a. TypeOK /\ ReadyIntegrity /\ Ids
      BY <1>1 DEF Invariant, Control
    <2>1. SUFFICES ASSUME Next, NEW f \in evs, pc = "events", f \notin evs', ~halted'
                   PROVE  /\ Owner(reg[f]) \subseteq Elems(ready')
                          /\ Elems(ready') \subseteq Elems(ready) \cup Owner(reg[f])
      BY <1>1
    <2>2. law_evo_next
      BY <2>1 DEF Next, Tick, law_task_setup, WorkerStep, Callback, Leave, law_worker_tick,
         law_evo_wait, law_worker_timers, law_worker_timers_end, law_evo_next_end,
         law_worker_incoming, law_worker_incoming_end, law_worker_dispatch,
         law_worker_dispatch_end, law_ewait, law_sync_wait, Wait, law_ectl, law_task_finish
    <2>3. evs \subseteq Fd /\ reg[f] \in 0 .. MaxIds
      BY <2>a, <2>1 DEF TypeOK
    <2>4. PICK g \in evs :
            LET i == law_slot_decode(law_slot_encode(reg[g]))
            IN  /\ evs' = evs \ {g}
                /\ \/ /\ i = 0 \/ Lookup(i) = {}
                      /\ UNCHANGED <<buf, readyVars, halted>>
                   \/ i # 0 /\ \E t \in Lookup(i) : law_task_push_event(t, "IO")
      BY <2>2 DEF law_evo_next
    <2>5. g = f
      BY <2>1, <2>4
    <2>6. law_slot_decode(law_slot_encode(reg[f])) = reg[f]
      BY <2>3 DEF SlotsDecode
    <2>7. /\ \/ /\ reg[f] = 0 \/ Lookup(reg[f]) = {}
                /\ UNCHANGED <<buf, readyVars, halted>>
             \/ reg[f] # 0 /\ \E t \in Lookup(reg[f]) : law_task_push_event(t, "IO")
      BY <2>4, <2>5, <2>6
    <2>0. Lookup(reg[f]) = Owner(reg[f])
      BY <2>a, <2>3, LookupIsOwner
    <2>8. Owner(0) = {}
      BY <2>a DEF Owner, Ids, Known
    <2>9. \A t, u \in Owner(reg[f]) : t = u
      BY <2>a DEF Owner, Ids, Known
    <2>10. CASE UNCHANGED <<buf, readyVars, halted>> /\ Owner(reg[f]) = {}
      BY <2>10 DEF Elems
    <2>11. ASSUME NEW t \in Owner(reg[f]), law_task_push_event(t, "IO")
           PROVE  /\ Owner(reg[f]) = {t}
                  /\ Elems(ready') = Elems(ready) \cup {t}
      <3>1. Owner(reg[f]) = {t} /\ t \in Task
        BY <2>a, <2>9, <2>11 DEF Owner, TypeOK
      <3>2. ~halted
        BY <2>1 DEF Next
      <3> QED BY <2>a, <2>1, <2>11, <3>1, <3>2, PushEvent
    <2> QED BY <2>0, <2>7, <2>8, <2>10, <2>11
  <1>2. Invariant /\ [Next]_vars => [Reach]_vars
    BY <1>1
  <1> QED BY <1>2, InvariantAlways, PTL DEF Spec, EventsReachOwner

-----------------------------------------------------------------------------
(* One worker implements the life of a task *)

\* The values that stand for the variables of TaskLife.
lifeOf(t) == IF t \in Away THEN "idle" ELSE tmode[t]
homeOf(t) == IF t \in table /\ tmode[t] # "spawned" THEN {0} ELSE {}

\* Nothing TaskLife speaks of has changed.
LEMMA LifeStutter ==
  ASSUME \A t \in Task : (lifeOf(t))' = lifeOf(t) /\ (homeOf(t))' = homeOf(t)
  PROVE  UNCHANGED Life!vars
  BY DEF Life!vars, lifeOf, homeOf

\* One task has moved on, the others have not.
LEMMA LifeMove ==
  ASSUME NEW t0 \in Task, NEW l, NEW h, (lifeOf(t0))' = l, (homeOf(t0))' = h,
         \A t \in Task : t # t0 => (lifeOf(t))' = lifeOf(t) /\ (homeOf(t))' = homeOf(t)
  PROVE  /\ [t \in Task |-> IF t \in Away THEN "idle" ELSE tmode[t]]'
              = [[t \in Task |-> IF t \in Away THEN "idle" ELSE tmode[t]] EXCEPT ![t0] = l]
         /\ [t \in Task |-> IF t \in table /\ tmode[t] # "spawned" THEN {0} ELSE {}]'
              = [[t \in Task |-> IF t \in table /\ tmode[t] # "spawned" THEN {0} ELSE {}]
                   EXCEPT ![t0] = h]
  BY DEF lifeOf, homeOf

LEMMA LifeStep ==
  ASSUME MaxIds < KeyModulo, Invariant, [Next]_vars
  PROVE  [Life!Next]_Life!vars
  <1>a. TypeOK /\ Pipe /\ Ids /\ ReadyIntegrity /\ Stage
    BY DEF Invariant, Control
  <1>b. /\ table \subseteq Task /\ Known \subseteq Task
        /\ tmode \in [Task -> {"created", "spawned", "running", "suspended"}]
        /\ Away = Task \ Known
    <2>1. Elems(incoming) \subseteq Task
      BY <1>a DEF TypeOK, Elems
    <2> QED BY <1>a, <2>1 DEF TypeOK, Known, Away
  <1>c. ASSUME UNCHANGED <<table, incoming, tmode>> PROVE UNCHANGED Life!vars
    <2>1. Away' = Away
      BY <1>c DEF Away, Elems
    <2> QED BY <1>c, <2>1, LifeStutter DEF lifeOf, homeOf
  <1>0. CASE UNCHANGED vars
    BY <1>0, <1>c DEF vars
  <1>1. CASE Still
    BY <1>1, <1>a, <1>c, StillFrame
  <1>2. ASSUME NEW t0 \in Task, law_task_setup(t0) PROVE Life!Next
    <2>1. /\ t0 \in Away /\ UNCHANGED table
          /\ tmode' = [tmode EXCEPT ![t0] = "spawned"]
          /\ Elems(incoming') = Elems(incoming) \cup {t0}
      BY <1>2, <1>a, AppendElems DEF law_task_setup, TypeOK
    <2>2. Away' = Away \ {t0}
      BY <2>1 DEF Away
    <2>3. /\ lifeOf(t0) = "idle" /\ (lifeOf(t0))' = "spawned"
          /\ homeOf(t0) = {} /\ (homeOf(t0))' = {}
          /\ \A t \in Task : t # t0 => (lifeOf(t))' = lifeOf(t) /\ (homeOf(t))' = homeOf(t)
      BY <1>b, <2>1, <2>2 DEF lifeOf, homeOf, Away
    <2>4. Life!Spawn(t0)
      BY <2>3, LifeMove DEF Life!Spawn, lifeOf, homeOf
    <2> QED BY <2>4 DEF Life!Next
  <1>3. CASE Missed
    BY <1>3, <1>c DEF Missed
  <1>4. ASSUME NEW t0 \in table, NEW e \in {"TIM", "IO"}, Found(t0, e)
        PROVE  UNCHANGED Life!vars
    BY <1>4, <1>c DEF Found
  <1>5. CASE law_worker_incoming
    <2>1. PICK t0 : t0 = Head(incoming)
      OBVIOUS
    <2>2. /\ t0 \in Task /\ tmode[t0] = "spawned" /\ table' = table \cup {t0}
          /\ Elems(incoming) = {t0} \cup Elems(incoming') /\ UNCHANGED tmode
      BY <1>5, <2>1, IncomingForm DEF Invariant
    <2>3. Away' = Away
      BY <2>2 DEF Away
    <2>4. \A t \in Task : (lifeOf(t))' = lifeOf(t) /\ (homeOf(t))' = homeOf(t)
      BY <2>2, <2>3 DEF lifeOf, homeOf
    <2> QED BY <2>4, LifeStutter
  <1>6. CASE law_worker_dispatch
    <2>1. PICK t0 : t0 = Head(ready)
      OBVIOUS
    <2>2. /\ t0 \in Task /\ t0 \in table /\ tmode[t0] \in {"spawned", "suspended"}
          /\ pc = "dispatch" /\ tmode' = [tmode EXCEPT ![t0] = "running"]
          /\ UNCHANGED <<incoming, table>>
      BY <1>6, <2>1, DispatchForm DEF Invariant
    <2>3. t0 \notin Away /\ Away' = Away
      BY <1>b, <2>2 DEF Away, Elems
    <2>4. /\ lifeOf(t0) = tmode[t0] /\ (lifeOf(t0))' = "running"
          /\ homeOf(t0) = IF tmode[t0] = "suspended" THEN {0} ELSE {}
          /\ (homeOf(t0))' = {0}
          /\ \A t \in Task : t # t0 => (lifeOf(t))' = lifeOf(t) /\ (homeOf(t))' = homeOf(t)
      BY <1>b, <2>2, <2>3 DEF lifeOf, homeOf
    <2>5. \A t \in Task : lifeOf(t) = "running" => FALSE
      BY <1>a, <1>b, <2>2 DEF lifeOf, Stage, Pipe, Known
    <2>6. Life!Vacant(0)
      BY <2>5 DEF Life!Vacant, lifeOf
    <2>7. CASE tmode[t0] = "spawned"
      <3>1. /\ [t \in Task |-> IF t \in Away THEN "idle" ELSE tmode[t]]'
                 = [[t \in Task |-> IF t \in Away THEN "idle" ELSE tmode[t]]
                      EXCEPT ![t0] = "running"]
            /\ [t \in Task |-> IF t \in table /\ tmode[t] # "spawned" THEN {0} ELSE {}]'
                 = [[t \in Task |-> IF t \in table /\ tmode[t] # "spawned" THEN {0} ELSE {}]
                      EXCEPT ![t0] = {0}]
        BY <2>2, <2>4, LifeMove
      <3>2. [t \in Task |-> IF t \in Away THEN "idle" ELSE tmode[t]][t0] = "spawned"
        BY <2>2, <2>3, <2>7
      <3>3. Life!Start(t0, 0)
        BY <2>6, <3>1, <3>2 DEF Life!Start
      <3> QED BY <3>3, <2>2 DEF Life!Next
    <2>8. CASE tmode[t0] = "suspended"
      <3>1. UNCHANGED [t \in Task |-> IF t \in table /\ tmode[t] # "spawned" THEN {0} ELSE {}]
        BY <2>4, <2>8 DEF homeOf
      <3>2. [t \in Task |-> IF t \in Away THEN "idle" ELSE tmode[t]]'
              = [[t \in Task |-> IF t \in Away THEN "idle" ELSE tmode[t]]
                   EXCEPT ![t0] = "running"]
        BY <2>2, <2>4, LifeMove
      <3>3. /\ [t \in Task |-> IF t \in Away THEN "idle" ELSE tmode[t]][t0] = "suspended"
            /\ [t \in Task |-> IF t \in table /\ tmode[t] # "spawned" THEN {0} ELSE {}][t0] = {0}
        BY <2>2, <2>3, <2>8
      <3>4. Life!Resume(t0, 0)
        BY <2>6, <3>1, <3>2, <3>3 DEF Life!Resume
      <3> QED BY <3>4, <2>2 DEF Life!Next
    <2> QED BY <2>2, <2>7, <2>8
  <1>7. ASSUME NEW m \in Millis, NEW n \in {-1} \cup MaxEvents, Wait(m, n) PROVE Life!Next
    <2>1. PICK t0 : t0 = active
      OBVIOUS
    <2>2. /\ t0 \in table /\ t0 \in Task /\ tmode[t0] = "running"
          /\ tmode' = [tmode EXCEPT ![t0] = "suspended"]
      BY <1>7, <1>a, <2>1, WaitForm
    <2>3. UNCHANGED <<incoming, table>>
      BY <1>7 DEF Wait
    <2>4. t0 \notin Away /\ Away' = Away
      BY <1>b, <2>2, <2>3 DEF Away, Elems
    <2>5. /\ lifeOf(t0) = "running" /\ (lifeOf(t0))' = "suspended"
          /\ (homeOf(t0))' = homeOf(t0)
          /\ \A t \in Task : t # t0 => (lifeOf(t))' = lifeOf(t) /\ (homeOf(t))' = homeOf(t)
      BY <1>b, <2>2, <2>3, <2>4 DEF lifeOf, homeOf
    <2>6. UNCHANGED [t \in Task |-> IF t \in table /\ tmode[t] # "spawned" THEN {0} ELSE {}]
      BY <2>5 DEF homeOf
    <2>7. Life!Suspend(t0)
      BY <2>2, <2>5, <2>6, LifeMove DEF Life!Suspend, lifeOf, homeOf
    <2> QED BY <2>2, <2>7 DEF Life!Next
  <1>8. CASE law_task_finish
    <2>0. PICK t0 : t0 = active
      OBVIOUS
    <2>1. t0 \in table /\ t0 \in Task /\ tmode[t0] = "running"
      BY <1>8, <1>a, <2>0, ActiveTask DEF law_task_finish
    <2>2. table' = table \ {t0} /\ UNCHANGED <<incoming, tmode>>
      BY <1>8, <2>0 DEF law_task_finish
    <2>3. t0 \notin Away /\ Away' = Away \cup {t0}
      BY <1>a, <1>b, <2>1, <2>2 DEF Away, Elems, Pipe, Known
    <2>4. /\ lifeOf(t0) = "running" /\ (lifeOf(t0))' = "idle" /\ (homeOf(t0))' = {}
          /\ \A t \in Task : t # t0 => (lifeOf(t))' = lifeOf(t) /\ (homeOf(t))' = homeOf(t)
      BY <1>b, <2>1, <2>2, <2>3 DEF lifeOf, homeOf
    <2>5. /\ [t \in Task |-> IF t \in Away THEN "idle" ELSE tmode[t]]'
               = [[t \in Task |-> IF t \in Away THEN "idle" ELSE tmode[t]]
                    EXCEPT ![t0] = "idle"]
          /\ [t \in Task |-> IF t \in table /\ tmode[t] # "spawned" THEN {0} ELSE {}]'
               = [[t \in Task |-> IF t \in table /\ tmode[t] # "spawned" THEN {0} ELSE {}]
                    EXCEPT ![t0] = {}]
      BY <2>1, <2>4, LifeMove
    <2>6. [t \in Task |-> IF t \in Away THEN "idle" ELSE tmode[t]][t0] = "running"
      BY <2>1, <2>3
    <2>7. Life!Finish(t0)
      BY <2>5, <2>6 DEF Life!Finish
    <2> QED BY <2>1, <2>7 DEF Life!Next
  <1> QED BY <1>a, <1>0, <1>1, <1>2, <1>3, <1>4, <1>5, <1>6, <1>7, <1>8, NextCases

\* In every behaviour a task object goes through the life TaskLife promises:
\* entered once, on this worker, resumed only after it was suspended, and
\* back in the pool when its callback has returned; however the heap, the
\* events and the ready set bring that about.
THEOREM LifeSpecCorrect ==
  ASSUME MaxIds < KeyModulo
  PROVE  Spec => LifeSpec
  <1>1. Init => Life!Init
    <2>1. ASSUME Init PROVE Away = Task /\ table = {}
      BY <2>1, NoElems DEF Init, Away
    <2> QED BY <2>1 DEF Life!Init
  <1>2. Invariant /\ [Next]_vars => [Life!Next]_Life!vars
    BY LifeStep
  <1> QED BY <1>1, <1>2, InvariantAlways, PTL DEF Spec, LifeSpec, Life!Spec
=============================================================================
