----------------------------- MODULE Scheduler -----------------------------
(***************************************************************************)
(* One worker of source/lawd/server.c in detail: the timer heap with its  *)
(* versioned entries, the socket registrations of law_ectl, the ready set *)
(* with its marks, the event arrays callers of law_ewait pass, and the    *)
(* tick that ties them together.  Module Server abstracts all of this to  *)
(* "a poll makes some suspended tasks ready".                             *)
(*                                                                         *)
(* The worker is one thread, so a step is one iteration of one of the     *)
(* loops of law_worker_tick; the clock and the dispatching thread move in *)
(* between.  Shutdown is in module Server.  LAW_MSG_WAKEUP has a handler  *)
(* but no sender, and is left out.                                        *)
(***************************************************************************)
EXTENDS Integers, Sequences, FiniteSets, FiniteSetsExt

CONSTANTS
  Task,           \* task objects that may be sent to this worker
  NoTask,         \* a null task pointer
  Fd,             \* file descriptors callbacks register with law_ectl
  WorkerTasks,    \* cfg.worker_tasks
  WorkerEvents,   \* cfg.worker_events
  WorkerTimeout,  \* cfg.worker_timeout
  Millis,         \* values callers pass to law_ewait as its timeout
  MaxEvents,      \* values callers pass to law_ewait as max_events
  NullEvents,     \* BOOLEAN: do callbacks wait through law_sync
  RandVersions,   \* values of rand() in law_task_setup
  VersModulo,     \* 2^32, the size of law_vers_t, scaled down
  KeyModulo,      \* 2^(8 * sizeof(int)), the ids law_table tells apart, scaled down
  SlotBase,       \* 256, the values of a byte, scaled down
  SlotBytes,      \* 7, the bytes of a slot that hold a task id, scaled down
  TimerMemory,    \* entries the heap can grow to before realloc fails
  MaxWaits,       \* bound: law_ewait calls of one callback
  AllWaits,       \* bound: the sum of waits, over all tasks
  MaxIds,         \* bound: tasks sent to the worker in one behaviour
  MaxTime         \* bound: the last instant of the clock

ASSUME SchedulerAssumption ==
  /\ IsFiniteSet(Task) /\ NoTask \notin Task
  /\ WorkerTasks \in Nat /\ WorkerEvents \in Nat \ {0} /\ WorkerTimeout \in Nat
  /\ Millis \subseteq Nat /\ MaxEvents \subseteq Nat
  /\ NullEvents \in BOOLEAN
  /\ VersModulo \in Nat \ {0}
  /\ RandVersions \subseteq 0 .. (VersModulo - 1)
  /\ MaxWaits \in Nat /\ MaxWaits < VersModulo /\ AllWaits \in Nat
  /\ KeyModulo \in Nat \ {0}
  /\ SlotBase \in Nat \ {0, 1} /\ SlotBytes \in Nat /\ MaxIds < SlotBase ^ SlotBytes
  /\ TimerMemory \in Nat /\ MaxIds \in Nat /\ MaxTime \in Nat

VARIABLES
  now,        \* law_time_millis()
  seen,       \* the local now of law_worker_tick
  deadline,   \* when the current law_evo_wait times out
  pc,         \* where law_worker_tick is
  timer,      \* worker->timer: [exp, id, vers], popped by least exp
  reg,        \* epoll registrations: the id of the task that made them, or 0
  evs,        \* worker->evo: descriptors whose events are still to be read
  incoming,   \* worker->incoming
  table,      \* worker->table
  ready,      \* worker->ready, a LIFO list
  active,     \* worker->active
  seed,       \* server->seed
  id, version, tmode, mark,  \* fields of law_task_t
  room,       \* task->max_events, or -1 when task->events is NULL
  buf,        \* the events written to task->events
  expiry,     \* the local expiry of the task's last law_ewait
  waits,      \* how often its callback has called law_ewait (for MaxWaits)
  halted      \* has abort() been called

clockVars == <<now>>
pollVars  == <<seen, deadline, evs>>
taskVars  == <<id, version, tmode>>
readyVars == <<ready, mark>>
waitVars  == <<room, buf, expiry, waits>>
vars == <<clockVars, pollVars, pc, timer, reg, incoming, table, readyVars,
          active, seed, taskVars, waitVars, halted>>

Label == {"tick", "poll", "timers", "events", "incoming", "dispatch", "run"}

Entry == [exp : 0 .. MaxTime, id : 0 .. MaxIds, vers : 0 .. (VersModulo - 1)]

TypeOK ==
  /\ now \in 0 .. MaxTime /\ seen \in 0 .. MaxTime
  /\ deadline \in 0 .. (MaxTime + WorkerTimeout)
  /\ pc \in Label
  /\ timer \in SUBSET Entry
  /\ reg \in [Fd -> 0 .. MaxIds]
  /\ evs \in SUBSET Fd
  /\ incoming \in Seq(Task)
  /\ table \in SUBSET Task
  /\ ready \in Seq(Task)
  /\ active \in Task \cup {NoTask}
  /\ seed \in 0 .. MaxIds
  /\ id \in [Task -> 0 .. MaxIds]
  /\ version \in [Task -> 0 .. (VersModulo - 1)]
  /\ tmode \in [Task -> {"created", "spawned", "running", "suspended"}]
  /\ mark \in [Task -> BOOLEAN]
  /\ room \in [Task -> {-1} \cup MaxEvents]
  /\ buf \in [Task -> Seq({"TIM", "IO"})]
  /\ expiry \in [Task -> 0 .. MaxTime]
  /\ waits \in [Task -> 0 .. MaxWaits]
  /\ halted \in BOOLEAN

Init ==
  /\ now = 0 /\ seen = 0 /\ deadline = 0
  /\ pc = "tick"
  /\ timer = {}
  /\ reg = [f \in Fd |-> 0]
  /\ evs = {}
  /\ incoming = <<>> /\ table = {} /\ ready = <<>>
  /\ active = NoTask
  /\ seed = 0
  /\ id = [t \in Task |-> 0]
  /\ version \in [Task -> RandVersions]
  /\ tmode = [t \in Task |-> "created"]
  /\ mark = [t \in Task |-> FALSE]
  /\ room = [t \in Task |-> -1]
  /\ buf = [t \in Task |-> <<>>]
  /\ expiry = [t \in Task |-> 0]
  /\ waits = [t \in Task |-> 0]
  /\ halted = FALSE

Elems(s) == {s[i] : i \in 1 .. Len(s)}

\* Tasks this worker, and the pipe to it, know nothing of.
Away == Task \ (table \cup Elems(incoming))

-----------------------------------------------------------------------------
(* Operations on tasks and on the ready set *)

\* Mutant: the mark is not looked at.
law_ready_set_push_Again(t) ==
  /\ ready' = <<t>> \o ready
  /\ mark' = [mark EXCEPT ![t] = TRUE]

law_ready_set_push(t) ==
  IF mark[t]
    THEN UNCHANGED readyVars
    ELSE /\ ready' = <<t>> \o ready
         /\ mark' = [mark EXCEPT ![t] = TRUE]

HasSlot(t) == Len(buf[t]) < room[t]

\* SEL_ASSERT(task->events && ...); then the event is stored, or dropped
\* when the array is full.  The task is made ready in any case.
law_task_push_event(t, e) ==
  IF room[t] = -1
    THEN /\ halted' = TRUE
         /\ UNCHANGED <<buf, readyVars>>
    ELSE /\ buf' = IF HasSlot(t) THEN [buf EXCEPT ![t] = Append(@, e)] ELSE buf
         /\ law_ready_set_push(t)
         /\ UNCHANGED halted

\* law_table_equals and law_table_hash read the key as an int.
law_table_key(i) == i % KeyModulo

\* law_table_lookup
Lookup(i) == {t \in table : law_table_key(id[t]) = law_table_key(i)}

\* Byte x of the slot of task id i; the byte of user data is left out.
law_slot_encode_Short(i) ==
  [x \in 1..SlotBytes |-> IF x = SlotBytes THEN 0 ELSE (i \div SlotBase ^ (x - 1)) % SlotBase]
law_slot_encode(i) ==
  [x \in 1..SlotBytes |-> (i \div SlotBase ^ (x - 1)) % SlotBase]

law_slot_decode(s) ==
  MapThenSumSet(LAMBDA x : s[x] * SlotBase ^ (x - 1), 1..SlotBytes)

\* Mutant: an entry of an earlier wait wakes the task.
Current_Any(e, t) == TRUE

\* task->version == version
Current(e, t) == version[t] = e.vers

Earliest(e) == \A f \in timer : e.exp <= f.exp

-----------------------------------------------------------------------------
(* The clock, and the threads that send tasks to this worker *)

Tick ==
  /\ now < MaxTime
  /\ now' = now + 1
  /\ UNCHANGED <<pollVars, pc, timer, reg, incoming, table, readyVars, active,
                 seed, taskVars, waitVars, halted>>

\* law_task_pool_pop, law_task_setup and law_task_queue_push elsewhere.
law_task_setup(t) ==
  /\ t \in Away
  /\ seed < MaxIds
  /\ seed' = seed + 1
  /\ id' = [id EXCEPT ![t] = seed + 1]
  /\ \E v \in RandVersions : version' = [version EXCEPT ![t] = v]
  /\ tmode' = [tmode EXCEPT ![t] = "spawned"]
  /\ incoming' = Append(incoming, t)
  /\ waits' = [waits EXCEPT ![t] = 0]
  /\ UNCHANGED <<clockVars, pollVars, pc, timer, reg, table, readyVars, active,
                 room, buf, expiry, halted>>

-----------------------------------------------------------------------------
(* law_worker_tick *)

\* Mutant: the wait ignores the heap.
PollTimeout_Fixed == WorkerTimeout

\* The timeout passed to law_evo_wait: to the first expiry, at most
\* cfg.worker_timeout.
PollTimeout ==
  IF \E e \in timer : e.exp <= now + WorkerTimeout
    THEN IF \E e \in timer : e.exp <= now
           THEN 0
           ELSE (CHOOSE e \in timer : Earliest(e)).exp - now
    ELSE WorkerTimeout

law_worker_tick ==
  /\ pc = "tick"
  /\ deadline' = now + PollTimeout
  /\ pc' = "poll"
  /\ UNCHANGED <<clockVars, seen, evs, timer, reg, incoming, table, readyVars,
                 active, seed, taskVars, waitVars, halted>>

\* epoll_wait returns at most worker_events registered descriptors; the
\* pipe of new tasks ends the wait too (its slot is 0 and is skipped).
law_evo_wait ==
  /\ pc = "poll"
  /\ \E S \in SUBSET {f \in Fd : reg[f] # 0} :
       /\ Cardinality(S) <= WorkerEvents
       /\ S # {} \/ incoming # <<>> \/ deadline <= now
       /\ evs' = S
  /\ seen' = now
  /\ pc' = "timers"
  /\ UNCHANGED <<clockVars, deadline, timer, reg, incoming, table, readyVars,
                 active, seed, taskVars, waitVars, halted>>

\* law_timer_peek, law_timer_pop: LAW_ERR_NOID, LAW_ERR_VERS, or a wake-up.
law_worker_timers ==
  /\ pc = "timers"
  /\ \E e \in timer :
       /\ Earliest(e) /\ e.exp <= seen
       /\ timer' = timer \ {e}
       /\ \/ /\ \A t \in Lookup(e.id) : ~Current(e, t)
             /\ UNCHANGED <<buf, readyVars, halted>>
          \/ \E t \in Lookup(e.id) :
               Current(e, t) /\ law_task_push_event(t, "TIM")
  /\ UNCHANGED <<clockVars, pollVars, pc, reg, incoming, table, active, seed,
                 taskVars, room, expiry, waits>>

\* Mutant: the loop stops at entries that expire right now.
law_worker_timers_end_Early ==
  /\ pc = "timers"
  /\ \A e \in timer : e.exp >= seen
  /\ pc' = "events"
  /\ UNCHANGED <<clockVars, pollVars, timer, reg, incoming, table, readyVars,
                 active, seed, taskVars, waitVars, halted>>

law_worker_timers_end ==
  /\ pc = "timers"
  /\ \A e \in timer : e.exp > seen
  /\ pc' = "events"
  /\ UNCHANGED <<clockVars, pollVars, timer, reg, incoming, table, readyVars,
                 active, seed, taskVars, waitVars, halted>>

\* law_evo_next, law_slot_decode; an id nobody has any more is skipped, and
\* so is the slot 0 of the pipes, which no task has.
law_evo_next ==
  /\ pc = "events"
  /\ \E f \in evs :
       LET i == law_slot_decode(law_slot_encode(reg[f]))
       IN  /\ evs' = evs \ {f}
           /\ \/ /\ i = 0 \/ Lookup(i) = {}
                 /\ UNCHANGED <<buf, readyVars, halted>>
              \/ i # 0 /\ \E t \in Lookup(i) : law_task_push_event(t, "IO")
  /\ UNCHANGED <<clockVars, seen, deadline, pc, timer, reg, incoming, table,
                 active, seed, taskVars, room, expiry, waits>>

law_evo_next_end ==
  /\ pc = "events"
  /\ evs = {}
  /\ pc' = "incoming"
  /\ UNCHANGED <<clockVars, pollVars, timer, reg, incoming, table, readyVars,
                 active, seed, taskVars, waitVars, halted>>

HasRoom == Cardinality(table) <= WorkerTasks

\* law_task_queue_pop, law_table_insert, law_ready_set_push
law_worker_incoming ==
  /\ pc = "incoming"
  /\ HasRoom /\ incoming # <<>>
  /\ LET t == Head(incoming) IN
       IF tmode[t] = "spawned" /\ Lookup(id[t]) = {}
         THEN /\ table' = table \cup {t}
              /\ law_ready_set_push(t)
              /\ UNCHANGED halted
         ELSE /\ halted' = TRUE
              /\ UNCHANGED <<table, readyVars>>
  /\ incoming' = Tail(incoming)
  /\ UNCHANGED <<clockVars, pollVars, pc, timer, reg, active, seed, taskVars,
                 waitVars>>

law_worker_incoming_end ==
  /\ pc = "incoming"
  /\ ~(HasRoom /\ incoming # <<>>)
  /\ pc' = "dispatch"
  /\ UNCHANGED <<clockVars, pollVars, timer, reg, incoming, table, readyVars,
                 active, seed, taskVars, waitVars, halted>>

-----------------------------------------------------------------------------
(* law_worker_dispatch and what callbacks do *)

\* Mutant: a version that does not wrap.
NextVersion_Wide(t) == version[t] + 1

NextVersion(t) == (version[t] + 1) % VersModulo

\* law_ready_set_pop, ++task->version, law_cor_call or law_cor_resume.  A
\* resumed task first runs the end of law_ewait, which takes its array away.
law_worker_dispatch ==
  /\ pc = "dispatch"
  /\ ready # <<>>
  /\ LET t == Head(ready) IN
       /\ ready' = Tail(ready)
       /\ mark' = [mark EXCEPT ![t] = FALSE]
       /\ version' = [version EXCEPT ![t] = NextVersion(t)]
       /\ active' = t
       /\ IF tmode[t] \in {"spawned", "suspended"}
            THEN /\ tmode' = [tmode EXCEPT ![t] = "running"]
                 /\ room' = [room EXCEPT ![t] = -1]
                 /\ buf' = [buf EXCEPT ![t] = <<>>]
                 /\ pc' = "run"
                 /\ UNCHANGED halted
            ELSE /\ halted' = TRUE
                 /\ UNCHANGED <<tmode, room, buf, pc>>
  /\ UNCHANGED <<clockVars, pollVars, timer, reg, incoming, table, seed, id,
                 expiry, waits>>

\* Mutant: one task is dispatched per tick.
law_worker_dispatch_end_Early ==
  /\ pc = "dispatch"
  /\ pc' = "tick"
  /\ UNCHANGED <<clockVars, pollVars, timer, reg, incoming, table, readyVars,
                 active, seed, taskVars, waitVars, halted>>

\* The ready set is empty: the next tick.
law_worker_dispatch_end ==
  /\ pc = "dispatch"
  /\ ready = <<>>
  /\ pc' = "tick"
  /\ UNCHANGED <<clockVars, pollVars, timer, reg, incoming, table, readyVars,
                 active, seed, taskVars, waitVars, halted>>

\* Mutant: the entry carries the version of the next dispatch.
law_timer_insert_Ahead(t, x) ==
  /\ Cardinality(timer) < TimerMemory
  /\ timer' = timer \cup {[exp |-> x, id |-> id[t], vers |-> NextVersion(t)]}

\* law_timer_insert; when it fails law_ewait returns LAW_ERR_OOM at once.
law_timer_insert(t, x) ==
  /\ Cardinality(timer) < TimerMemory
  /\ timer' = timer \cup {[exp |-> x, id |-> id[t], vers |-> version[t]]}

\* The active task waits m milliseconds with room for n events, up to
\* law_cor_yield.  The bounds: a callback waits MaxWaits times, the last ones
\* of all tasks AllWaits times, and no longer than to MaxTime.
WaitsLeft == MapThenSumSet(LAMBDA t : waits[t], Task) < AllWaits

Wait(m, n) ==
  /\ pc = "run"
  /\ waits[active] < MaxWaits /\ WaitsLeft /\ now + m <= MaxTime
  /\ law_timer_insert(active, now + m)
  /\ room' = [room EXCEPT ![active] = n]
  /\ buf' = [buf EXCEPT ![active] = <<>>]
  /\ expiry' = [expiry EXCEPT ![active] = now + m]
  /\ waits' = [waits EXCEPT ![active] = @ + 1]
  /\ tmode' = [tmode EXCEPT ![active] = "suspended"]
  /\ pc' = "dispatch"
  /\ UNCHANGED <<clockVars, pollVars, incoming, table, readyVars, active,
                 seed, id, version, halted>>

law_ewait(m, n) == Wait(m, n) /\ UNCHANGED reg

\* LAW_EV_MOD of a descriptor that is registered, then a wait with
\* events == NULL and max_events == 0.
law_sync_wait(f, m) ==
  /\ NullEvents
  /\ reg[f] # 0
  /\ Wait(m, -1)
  /\ reg' = [reg EXCEPT ![f] = id[active]]

\* LAW_EV_ADD or LAW_EV_MOD of a descriptor; LAW_EV_DEL, or close().
law_ectl(f, i) ==
  /\ pc = "run"
  /\ i \in {0, id[active]}
  /\ reg[f] # i
  /\ reg' = [reg EXCEPT ![f] = i]
  /\ UNCHANGED <<clockVars, pollVars, pc, timer, incoming, table, readyVars,
                 active, seed, taskVars, waitVars, halted>>

\* Mutant: the entry stays in the table.
law_task_finish_Kept ==
  /\ pc = "run"
  /\ pc' = "dispatch"
  /\ UNCHANGED <<clockVars, pollVars, timer, reg, incoming, table, readyVars,
                 active, seed, taskVars, waitVars, halted>>

\* The callback returns: law_table_remove, law_task_pool_push.
law_task_finish ==
  /\ pc = "run"
  /\ table' = table \ {active}
  /\ halted' = (active \notin table)
  /\ pc' = "dispatch"
  /\ UNCHANGED <<clockVars, pollVars, timer, reg, incoming, readyVars, active,
                 seed, taskVars, waitVars>>

-----------------------------------------------------------------------------
Leave ==
  \/ \E m \in Millis, n \in MaxEvents : law_ewait(m, n)
  \/ \E f \in Fd, m \in Millis : law_sync_wait(f, m)
  \/ law_task_finish

Callback ==
  \/ Leave
  \/ pc = "run" /\ \E f \in Fd, i \in {0, id[active]} : law_ectl(f, i)

WorkerStep ==
  \/ law_worker_tick \/ law_evo_wait
  \/ law_worker_timers \/ law_worker_timers_end
  \/ law_evo_next \/ law_evo_next_end
  \/ law_worker_incoming \/ law_worker_incoming_end
  \/ law_worker_dispatch \/ law_worker_dispatch_end

Next ==
  /\ ~halted
  /\ \/ Tick
     \/ \E t \in Task : law_task_setup(t)
     \/ WorkerStep
     \/ Callback

Spec == Init /\ [][Next]_vars

\* Time passes, the worker thread is scheduled, and a callback does not run
\* for ever without waiting or returning (tasks are not pre-empted).
Fairness ==
  /\ WF_vars(~halted /\ Tick)
  /\ WF_vars(~halted /\ WorkerStep)
  /\ WF_vars(~halted /\ Leave)

FairSpec == Spec /\ Fairness

-----------------------------------------------------------------------------
(* Properties *)

Suspended == {t \in table : tmode[t] = "suspended"}

\* The ready set is a set, although it is an intrusive list whose link field
\* the pool's list uses too: a task is linked once, exactly when its mark is
\* set, and only while this worker owns it and it can be entered or resumed
\* (law_ready_set_push, law_ready_set_pop).
ReadyIntegrity ==
  /\ \A t \in Task : mark[t] <=> t \in Elems(ready)
  /\ \A i, j \in 1 .. Len(ready) : ready[i] = ready[j] => i = j
  /\ Elems(ready) \subseteq table
  /\ \A t \in Elems(ready) : tmode[t] \in {"spawned", "suspended"}

\* Timers and socket events only ever find tasks that wait in law_ewait: a
\* tick dispatches everything that is ready before the next poll.
PolledAreSuspended ==
  /\ pc \in {"tick", "poll", "timers", "events"} => Suspended = table
  /\ pc \in {"tick", "poll"} => ready = <<>>

\* A task that waits has the timer that ends its wait in the heap, with its
\* current version: it can not sleep for ever (law_ewait).
WaitIsTimed ==
  ~halted => \A t \in Suspended :
    ~mark[t] => [exp |-> expiry[t], id |-> id[t], vers |-> version[t]] \in timer

\* LAW_EV_TIM is delivered to a wait that has expired: entries which earlier
\* waits, or earlier owners of the task object, left in the heap are never
\* taken for the current one (task->version, law_server_genid).
NoEarlyTimeout ==
  \A t \in Suspended : "TIM" \in Elems(buf[t]) => expiry[t] <= seen

\* No wait that had expired when the tick read the clock is left behind; and
\* what waits that ended early leave in the heap goes when its time is over,
\* so the heap holds no more than the waits begun within the longest timeout.
TimersServed ==
  /\ pc \in {"events", "incoming"} =>
       \A t \in Suspended : ~mark[t] => seen < expiry[t]
  /\ pc # "timers" => \A e \in timer : seen <= e.exp

\* The poll is not entered for longer than the shortest wait.
NoOversleep ==
  pc = "poll" /\ now < deadline => \A t \in Suspended : deadline <= expiry[t]

\* The task with that id, of all the bits an id has.
Owner(i) == {t \in table : id[t] = i}

\* A socket event wakes the task that registered the descriptor, whether or
\* not the array of the task has a slot left for it, and no other task
\* (law_slot_encode, law_slot_decode, law_table_lookup).
EventsReachOwner ==
  [][\A f \in evs : pc = "events" /\ f \notin evs' /\ ~halted' =>
       /\ Owner(reg[f]) \subseteq Elems(ready')
       /\ Elems(ready') \subseteq Elems(ready) \cup Owner(reg[f])]_vars

\* None of the SEL_ASSERT, SEL_TEST and SEL_HALT on the worker's path fails.
NoAbort == ~halted

\* The one assertion that can fail is that of law_task_push_event, for a task
\* that law_sync suspended without an event array.
AbortOnlyInSync ==
  halted => pc \in {"timers", "events"} /\ \E t \in Suspended : room[t] = -1

\* Every wait ends, unless the process has aborted.
WaitEnds ==
  \A t \in Task : t \in Suspended ~> (pc = "run" /\ active = t) \/ halted

\* A task that was sent to the worker is entered, also when it has to stay in
\* the pipe because the worker has all the tasks it may have: the pipe is
\* read again once one of them returns (the loop at law_task_queue_pop).
QueuedRuns ==
  \A t \in Task : t \in Elems(incoming) ~> (pc = "run" /\ active = t) \/ halted

\* The scheduler moves tasks through their abstract life on one worker.
Life == INSTANCE TaskLife WITH
  Worker <- {0},
  life <- [t \in Task |-> IF t \in Away THEN "idle" ELSE tmode[t]],
  home <- [t \in Task |-> IF t \in table /\ tmode[t] # "spawned" THEN {0} ELSE {}]

LifeSpec == Life!Spec
=============================================================================
