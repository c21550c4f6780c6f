------------------------------- MODULE Server -------------------------------
(***************************************************************************)
(* The threads of source/lawd/server.c around the task pool: the main     *)
(* thread in law_start (accept loop, dispatch to the workers, draining,   *)
(* shutdown), one thread per worker in law_worker_run (poll, messages,    *)
(* incoming tasks, dispatch of ready coroutines), the user callbacks the  *)
(* workers run (which may call law_spawn, wait, and return), a thread     *)
(* that calls law_stop, and the clients that open connections.            *)
(*                                                                         *)
(* A step is a stretch of code that touches shared state once.  Critical  *)
(* sections of the pool's mutex are one step; poolLock is "free" between  *)
(* them unless a section returned without unlocking.  SEL_TEST and        *)
(* SEL_ASSERT call abort() when they fail: halted becomes TRUE and no     *)
(* thread moves any more.                                                 *)
(***************************************************************************)
EXTENDS Integers, Sequences, FiniteSets

CONSTANTS
  Task,          \* the task objects law_task_pool_create allocates
  NoTask,        \* a null task pointer
  NWorkers,      \* cfg.workers
  WorkerTasks,   \* cfg.worker_tasks
  QueueCap,      \* task pointers the incoming pipe of a worker can hold
  IdModulo,      \* LAW_ID_MODULO, scaled down
  KeyModulo,     \* 2^(8 * sizeof(int)), the ids law_table tells apart
  MaxIds,        \* bound: calls of law_server_genid in one behaviour
  MaxConns,      \* bound: connections the clients open in one behaviour
  AcceptErrors,  \* BOOLEAN: may accept() and fcntl() fail
  Spawning       \* BOOLEAN: do user callbacks call law_spawn

ASSUME ServerAssumption ==
  /\ NWorkers \in Nat \ {0} /\ WorkerTasks \in Nat \ {0}
  /\ QueueCap \in Nat \ {0}
  /\ IsFiniteSet(Task) /\ Cardinality(Task) = NWorkers * WorkerTasks
  /\ NoTask \notin Task
  /\ IdModulo \in Nat /\ KeyModulo \in Nat \ {0}
  /\ MaxIds \in Nat /\ MaxConns \in Nat
  /\ MaxIds < IdModulo
  /\ AcceptErrors \in BOOLEAN /\ Spawning \in BOOLEAN

Worker == 0 .. (NWorkers - 1)

VARIABLES
  mode,       \* server->mode
  stopper,    \* the thread in law_stop: "idle", or "checked" after its test
  pc,         \* what the main thread does next in law_start
  hand,       \* the task the main thread is dispatching
  try,        \* the loop index x or n of the main thread
  backlog,    \* connections waiting in the listen queue (external: kernel)
  opened,     \* connections the clients have opened so far
  pool,       \* server->pool->list
  poolLock,   \* server->pool->lock: "free", or "leaked"
  seed,       \* server->seed
  id,         \* task->id
  tmode,      \* task->mode
  incoming,   \* worker->incoming, a pipe of task pointers
  shutdown,   \* is LAW_MSG_SHUTDOWN in worker->messages
  wpc,        \* what the worker does next in law_worker_tick
  reloop,     \* the local reloop of law_worker_tick
  table,      \* worker->table
  ready,      \* worker->ready
  active,     \* worker->active
  child,      \* the task a callback is spawning in law_spawn
  wtry,       \* the loop index x of law_spawn
  halted      \* has abort() been called

mainVars   == <<pc, hand, try>>
clientVars == <<backlog, opened>>
poolVars   == <<pool, poolLock>>
taskVars   == <<seed, id, tmode>>
spawnVars  == <<child, wtry>>
workerVars == <<wpc, reloop, table, ready, active>>
vars == <<mode, stopper, mainVars, clientVars, poolVars, taskVars, incoming,
          shutdown, workerVars, spawnVars, halted>>

MainLabel   == {"created", "spin", "accept", "accepting", "pop", "dispatch",
                "wait", "drain", "shutdown", "join", "stopped"}
WorkerLabel == {"created", "poll", "messages", "incoming", "dispatch", "run",
                "push", "exit"}

TypeMain ==
  /\ mode \in {"created", "running", "stopping", "stopped"}
  /\ stopper \in {"idle", "checked"}
  /\ pc \in MainLabel
  /\ hand \in Task \cup {NoTask}
  /\ try \in 0 .. NWorkers
  /\ backlog \in Nat /\ opened \in 0 .. MaxConns

TypePool ==
  /\ pool \in SUBSET Task
  /\ poolLock \in {"free", "leaked"}
  /\ seed \in 0 .. MaxIds
  /\ id \in [Task -> 0 .. MaxIds]
  /\ tmode \in [Task -> {"created", "spawned", "running", "suspended"}]
  /\ halted \in BOOLEAN

TypeWorker ==
  /\ incoming \in [Worker -> Seq(Task)]
  /\ shutdown \in [Worker -> BOOLEAN]
  /\ wpc \in [Worker -> WorkerLabel]
  /\ reloop \in [Worker -> BOOLEAN]
  /\ table \in [Worker -> SUBSET Task]
  /\ ready \in [Worker -> SUBSET Task]
  /\ active \in [Worker -> Task \cup {NoTask}]
  /\ child \in [Worker -> Task \cup {NoTask}]
  /\ wtry \in [Worker -> 0 .. NWorkers]

TypeOK == TypeMain /\ TypePool /\ TypeWorker

\* Every task is created and pushed to the pool.
law_task_pool_create ==
  /\ pool = Task /\ poolLock = "free"
  /\ id = [t \in Task |-> 0]
  /\ tmode = [t \in Task |-> "created"]

\* Empty pipes, table and ready set; no thread runs yet.
law_worker_create ==
  /\ incoming = [w \in Worker |-> <<>>]
  /\ shutdown = [w \in Worker |-> FALSE]
  /\ wpc = [w \in Worker |-> "created"]
  /\ reloop = [w \in Worker |-> TRUE]
  /\ table = [w \in Worker |-> {}]
  /\ ready = [w \in Worker |-> {}]
  /\ active = [w \in Worker |-> NoTask]
  /\ child = [w \in Worker |-> NoTask]
  /\ wtry = [w \in Worker |-> 0]

\* law_server_create
Init ==
  /\ mode = "created" /\ stopper = "idle" /\ pc = "created"
  /\ hand = NoTask /\ try = 0
  /\ backlog = 0 /\ opened = 0
  /\ seed = 0
  /\ law_task_pool_create
  /\ law_worker_create
  /\ halted = FALSE

-----------------------------------------------------------------------------
(* Helpers shared by the threads *)

\* law_table_equals and law_table_hash read a law_id_t through an int.
law_table_key(i) == i % KeyModulo

\* Mutant: the seed is returned without being advanced.
law_server_genid_Same == seed % IdModulo

law_server_genid == (seed + 1) % IdModulo

\* law_task_pool_pop took t, law_server_genid advanced the seed and
\* law_task_setup stored the new identity in t.  The seed has a lock of its
\* own and is read by nobody else, so the two sections are one step.
\* Mutant: the task is not unlinked from the list.
law_task_setup_Linked(t) ==
  /\ seed < MaxIds
  /\ pool' = pool
  /\ seed' = law_server_genid
  /\ id' = [id EXCEPT ![t] = seed']
  /\ tmode' = [tmode EXCEPT ![t] = "spawned"]

\* Mutant: the mode of the previous callback is kept.
law_task_setup_OldMode(t) ==
  /\ seed < MaxIds
  /\ pool' = pool \ {t}
  /\ seed' = law_server_genid
  /\ id' = [id EXCEPT ![t] = seed']
  /\ tmode' = tmode

law_task_setup(t) ==
  /\ seed < MaxIds
  /\ pool' = pool \ {t}
  /\ seed' = law_server_genid
  /\ id' = [id EXCEPT ![t] = seed']
  /\ tmode' = [tmode EXCEPT ![t] = "spawned"]

\* Mutant: a finished task is not returned.
law_task_pool_push_Lost(t) == pool' = pool

law_task_pool_push(t) == pool' = pool \cup {t}

\* Mutant: law_server_accept does not ask before it pops.
PoolIsEmpty_Never == FALSE

PoolIsEmpty == pool = {}

\* Mutant: some task is back, not all of them.
PoolIsFull_Any == pool # {}

\* Mutant: off by one.
PoolIsFull_More == Cardinality(pool) > NWorkers * WorkerTasks

\* pool->size == pool->capacity
PoolIsFull == Cardinality(pool) = NWorkers * WorkerTasks

law_ready_set_push(w, t) == ready' = [ready EXCEPT ![w] = @ \cup {t}]

\* law_pipe_write to a non-blocking pipe: LAW_ERR_WANTW when it is full.
CanPush(w) == Len(incoming[w]) < QueueCap

law_task_queue_push(w, t) ==
  incoming' = [incoming EXCEPT ![w] = Append(@, t)]

-----------------------------------------------------------------------------
(* The main thread: law_start, law_server_spin, law_server_accept *)

law_start ==
  /\ mode = "created" /\ pc = "created"
  /\ mode' = "running"
  /\ pc' = "spin"
  /\ wpc' = [w \in Worker |-> "poll"]
  /\ UNCHANGED <<stopper, hand, try, clientVars, poolVars, taskVars, incoming,
                 shutdown, reloop, table, ready, active, spawnVars, halted>>

\* while(s->mode == LAW_MODE_RUNNING)
law_server_spin ==
  /\ pc = "spin"
  /\ pc' = IF mode = "running" THEN "accept" ELSE "drain"
  /\ UNCHANGED <<mode, stopper, hand, try, clientVars, poolVars, taskVars,
                 incoming, shutdown, workerVars, spawnVars, halted>>

\* while(!law_task_pool_is_empty(server->pool)), then law_time_sleep
law_task_pool_is_empty ==
  /\ pc = "accept"
  /\ poolLock = "free"
  /\ pc' = IF PoolIsEmpty THEN "wait" ELSE "accepting"
  /\ UNCHANGED <<mode, stopper, hand, try, clientVars, poolVars, taskVars,
                 incoming, shutdown, workerVars, spawnVars, halted>>

\* accept() and the two fcntl() calls.  EAGAIN, and errors of the pending
\* connection that end this round ("wait") or are skipped ("accept"); any
\* other error leaves the accept loop for good ("drain").
law_server_accept ==
  /\ pc = "accepting"
  /\ \/ /\ backlog = 0
        /\ pc' = "wait"
        /\ UNCHANGED backlog
     \/ /\ backlog > 0
        /\ backlog' = backlog - 1
        /\ pc' \in {"pop"} \cup (IF AcceptErrors THEN {"wait", "accept", "drain"}
                                                 ELSE {})
     \/ /\ AcceptErrors
        /\ pc' = "drain"
        /\ UNCHANGED backlog
  /\ UNCHANGED <<mode, stopper, hand, try, opened, poolVars, taskVars,
                 incoming, shutdown, workerVars, spawnVars, halted>>

\* task = law_task_pool_pop(server->pool); SEL_TEST(task); law_task_setup
law_server_accept_pop ==
  /\ pc = "pop"
  /\ poolLock = "free"
  /\ \/ /\ pool = {}
        /\ poolLock' = "leaked"
        /\ halted' = TRUE
        /\ UNCHANGED <<mainVars, pool, taskVars>>
     \/ \E t \in pool :
          /\ law_task_setup(t)
          /\ hand' = t
          /\ try' = 0
          /\ pc' = "dispatch"
          /\ UNCHANGED <<poolLock, halted>>
  /\ UNCHANGED <<mode, stopper, clientVars, incoming, shutdown, workerVars,
                 spawnVars>>

\* One attempt of law_spawn_dispatch_once: worker (x + task->id) % workers.
law_spawn_dispatch_once ==
  /\ pc = "dispatch"
  /\ try < NWorkers
  /\ LET w == (try + id[hand]) % NWorkers IN
       \/ /\ CanPush(w)
          /\ law_task_queue_push(w, hand)
          /\ hand' = NoTask
          /\ pc' = "accept"
          /\ UNCHANGED try
       \/ /\ ~CanPush(w)
          /\ try' = try + 1
          /\ UNCHANGED <<incoming, hand, pc>>
  /\ UNCHANGED <<mode, stopper, clientVars, poolVars, taskVars, shutdown,
                 workerVars, spawnVars, halted>>

\* Every pipe was full: wait at most 100ms for one of them, start over.
law_spawn_dispatch ==
  /\ pc = "dispatch"
  /\ try = NWorkers
  /\ try' = 0
  /\ UNCHANGED <<mode, stopper, pc, hand, clientVars, poolVars, taskVars,
                 incoming, shutdown, workerVars, spawnVars, halted>>

\* law_evo_wait(s->evo, s->cfg.server_timeout) returns.
law_server_wait ==
  /\ pc = "wait"
  /\ pc' = "spin"
  /\ UNCHANGED <<mode, stopper, hand, try, clientVars, poolVars, taskVars,
                 incoming, shutdown, workerVars, spawnVars, halted>>

\* while(!law_task_pool_is_full(s->pool)) law_time_sleep(50)
law_task_pool_is_full ==
  /\ pc = "drain"
  /\ poolLock = "free"
  /\ PoolIsFull
  /\ pc' = "shutdown"
  /\ try' = 0
  /\ UNCHANGED <<mode, stopper, hand, clientVars, poolVars, taskVars,
                 incoming, shutdown, workerVars, spawnVars, halted>>

\* Mutant: the loop runs once too often.
law_server_shutdown_Past ==
  /\ pc = "shutdown"
  /\ IF try <= NWorkers
       THEN /\ shutdown' = [shutdown EXCEPT ![try] = TRUE]
            /\ try' = try + 1
            /\ UNCHANGED pc
       ELSE /\ pc' = "join"
            /\ UNCHANGED <<shutdown, try>>
  /\ UNCHANGED <<mode, stopper, hand, clientVars, poolVars, taskVars,
                 incoming, workerVars, spawnVars, halted>>

\* law_msg_queue_push of LAW_MSG_SHUTDOWN to worker number try
law_server_shutdown ==
  /\ pc = "shutdown"
  /\ IF try < NWorkers
       THEN /\ shutdown' = [shutdown EXCEPT ![try] = TRUE]
            /\ try' = try + 1
            /\ UNCHANGED pc
       ELSE /\ pc' = "join"
            /\ UNCHANGED <<shutdown, try>>
  /\ UNCHANGED <<mode, stopper, hand, clientVars, poolVars, taskVars,
                 incoming, workerVars, spawnVars, halted>>

\* pthread_join of every worker; law_start sets the mode and returns.
law_server_run_threads ==
  /\ pc = "join"
  /\ \A w \in Worker : wpc[w] = "exit"
  /\ pc' = "stopped"
  /\ mode' = "stopped"
  /\ UNCHANGED <<stopper, hand, try, clientVars, poolVars, taskVars, incoming,
                 shutdown, workerVars, spawnVars, halted>>

-----------------------------------------------------------------------------
(* A thread that calls law_stop, and the clients *)

\* if(s->mode != LAW_MODE_RUNNING) return LAW_ERR_MODE
law_stop ==
  /\ mode = "running" /\ stopper = "idle"
  /\ stopper' = "checked"
  /\ UNCHANGED <<mode, mainVars, clientVars, poolVars, taskVars, incoming,
                 shutdown, workerVars, spawnVars, halted>>

\* s->mode = LAW_MODE_STOPPING, unsynchronised with the main thread
law_stop_set ==
  /\ stopper = "checked"
  /\ stopper' = "idle"
  /\ mode' = "stopping"
  /\ UNCHANGED <<mainVars, clientVars, poolVars, taskVars, incoming,
                 shutdown, workerVars, spawnVars, halted>>

Connect ==
  /\ opened < MaxConns
  /\ opened' = opened + 1
  /\ backlog' = backlog + 1
  /\ UNCHANGED <<mode, stopper, mainVars, poolVars, taskVars, incoming,
                 shutdown, workerVars, spawnVars, halted>>

-----------------------------------------------------------------------------
(* Worker w: law_worker_tick, law_worker_dispatch *)

\* law_evo_wait returns, expired timers and socket events make some of the
\* suspended tasks ready.  Module Scheduler models which ones and when.
law_worker_poll(w) ==
  /\ wpc[w] = "poll"
  /\ \E S \in SUBSET {t \in table[w] : tmode[t] = "suspended"} :
       ready' = [ready EXCEPT ![w] = @ \cup S]
  /\ wpc' = [wpc EXCEPT ![w] = "messages"]
  /\ UNCHANGED <<mode, stopper, mainVars, clientVars, poolVars, taskVars,
                 incoming, shutdown, reloop, table, active, spawnVars, halted>>

\* The worker's tick picks t among the tasks it makes ready.
Wake(w, t) == law_worker_poll(w) /\ t \in ready'[w] \ ready[w]

\* while(law_msg_queue_pop(&worker->messages, &msg) == LAW_ERR_OK)
law_worker_messages(w) ==
  /\ wpc[w] = "messages"
  /\ reloop' = [reloop EXCEPT ![w] = ~shutdown[w]]
  /\ shutdown' = [shutdown EXCEPT ![w] = FALSE]
  /\ wpc' = [wpc EXCEPT ![w] = "incoming"]
  /\ UNCHANGED <<mode, stopper, mainVars, clientVars, poolVars, taskVars,
                 incoming, table, ready, active, spawnVars, halted>>

\* The condition of the loop that takes new tasks.
HasRoom(w) == Cardinality(table[w]) <= WorkerTasks

\* The task popped from the pipe passes the SEL_ASSERT on its mode and the
\* SEL_TEST on law_table_insert.
Insertable(w, t) ==
  /\ tmode[t] = "spawned"
  /\ \A u \in table[w] : law_table_key(id[u]) # law_table_key(id[t])

law_worker_incoming(w) ==
  /\ wpc[w] = "incoming"
  /\ \/ /\ HasRoom(w) /\ incoming[w] # <<>>
        /\ incoming' = [incoming EXCEPT ![w] = Tail(@)]
        /\ LET t == Head(incoming[w]) IN
             IF Insertable(w, t)
               THEN /\ table' = [table EXCEPT ![w] = @ \cup {t}]
                    /\ law_ready_set_push(w, t)
                    /\ UNCHANGED halted
               ELSE /\ halted' = TRUE
                    /\ UNCHANGED <<table, ready>>
        /\ UNCHANGED wpc
     \/ /\ ~(HasRoom(w) /\ incoming[w] # <<>>)
        /\ wpc' = [wpc EXCEPT ![w] = "dispatch"]
        /\ UNCHANGED <<incoming, table, ready, halted>>
  /\ UNCHANGED <<mode, stopper, mainVars, clientVars, poolVars, taskVars,
                 shutdown, reloop, active, spawnVars>>

\* law_ready_set_pop, then law_cor_call or law_cor_resume; any other mode is
\* a SEL_HALT.  An empty set ends the tick.
law_worker_dispatch(w) ==
  /\ wpc[w] = "dispatch"
  /\ \/ /\ ready[w] = {}
        /\ wpc' = [wpc EXCEPT ![w] = IF reloop[w] THEN "poll" ELSE "exit"]
        /\ UNCHANGED <<ready, active, tmode, halted>>
     \/ \E t \in ready[w] :
          /\ ready' = [ready EXCEPT ![w] = @ \ {t}]
          /\ active' = [active EXCEPT ![w] = t]
          /\ IF tmode[t] \in {"spawned", "suspended"}
               THEN /\ tmode' = [tmode EXCEPT ![t] = "running"]
                    /\ wpc' = [wpc EXCEPT ![w] = "run"]
                    /\ UNCHANGED halted
               ELSE /\ halted' = TRUE
                    /\ UNCHANGED <<tmode, wpc>>
  /\ UNCHANGED <<mode, stopper, mainVars, clientVars, poolVars, seed, id,
                 incoming, shutdown, reloop, table, spawnVars>>

\* The callback calls law_ewait: law_cor_yield with LAW_MODE_SUSPENDED.
law_ewait(w) ==
  /\ wpc[w] = "run"
  /\ tmode' = [tmode EXCEPT ![active[w]] = "suspended"]
  /\ wpc' = [wpc EXCEPT ![w] = "dispatch"]
  /\ UNCHANGED <<mode, stopper, mainVars, clientVars, poolVars, seed, id,
                 incoming, shutdown, reloop, table, ready, active, spawnVars,
                 halted>>

\* The callback returns: law_table_remove, law_task_pool_push.
law_task_finish(w) ==
  /\ wpc[w] = "run"
  /\ poolLock = "free"
  /\ IF active[w] \in table[w]
       THEN /\ table' = [table EXCEPT ![w] = @ \ {active[w]}]
            /\ law_task_pool_push(active[w])
            /\ wpc' = [wpc EXCEPT ![w] = "dispatch"]
            /\ UNCHANGED halted
       ELSE /\ halted' = TRUE
            /\ UNCHANGED <<table, pool, wpc>>
  /\ UNCHANGED <<mode, stopper, mainVars, clientVars, poolLock, taskVars,
                 incoming, shutdown, reloop, ready, active, spawnVars>>

\* The callback calls law_spawn: law_task_pool_pop returns NULL with the
\* mutex still locked (LAW_ERR_LIMIT), or a task that is set up.
law_spawn(w) ==
  /\ Spawning
  /\ wpc[w] = "run"
  /\ poolLock = "free"
  /\ \/ /\ pool = {}
        /\ poolLock' = "leaked"
        /\ UNCHANGED <<pool, taskVars, spawnVars, wpc>>
     \/ \E t \in pool :
          /\ law_task_setup(t)
          /\ child' = [child EXCEPT ![w] = t]
          /\ wtry' = [wtry EXCEPT ![w] = 0]
          /\ wpc' = [wpc EXCEPT ![w] = "push"]
          /\ UNCHANGED poolLock
  /\ UNCHANGED <<mode, stopper, mainVars, clientVars, incoming, shutdown,
                 reloop, table, ready, active, halted>>

\* One attempt of the loop in law_spawn: worker number x; after the last
\* one LAW_ERR_WANTW is returned and nobody holds the task any more.
law_spawn_push(w) ==
  /\ wpc[w] = "push"
  /\ IF wtry[w] < NWorkers /\ ~CanPush(wtry[w])
       THEN /\ wtry' = [wtry EXCEPT ![w] = @ + 1]
            /\ UNCHANGED <<incoming, child, wpc>>
       ELSE /\ \/ /\ wtry[w] < NWorkers
                  /\ law_task_queue_push(wtry[w], child[w])
               \/ /\ wtry[w] = NWorkers
                  /\ UNCHANGED incoming
            /\ child' = [child EXCEPT ![w] = NoTask]
            /\ wpc' = [wpc EXCEPT ![w] = "run"]
            /\ UNCHANGED wtry
  /\ UNCHANGED <<mode, stopper, mainVars, clientVars, poolVars, taskVars,
                 shutdown, reloop, table, ready, active, halted>>

-----------------------------------------------------------------------------
MainStep ==
  \/ law_server_spin \/ law_task_pool_is_empty \/ law_server_accept
  \/ law_server_accept_pop \/ law_spawn_dispatch_once \/ law_spawn_dispatch
  \/ law_server_wait \/ law_task_pool_is_full \/ law_server_shutdown
  \/ law_server_run_threads

WorkerStep(w) ==
  \/ law_worker_poll(w) \/ law_worker_messages(w) \/ law_worker_incoming(w)
  \/ law_worker_dispatch(w) \/ law_ewait(w) \/ law_task_finish(w)
  \/ law_spawn(w) \/ law_spawn_push(w)

Next ==
  /\ ~halted
  /\ \/ law_start \/ MainStep \/ law_stop \/ law_stop_set \/ Connect
     \/ \E w \in Worker : WorkerStep(w)

Spec == Init /\ [][Next]_vars

\* The operating system runs every thread; a suspended task's timer expires
\* (module Scheduler), so some tick makes it ready; the user's callbacks
\* return after finitely many waits.
Fairness ==
  /\ WF_vars(~halted /\ MainStep)
  /\ WF_vars(~halted /\ law_stop_set)
  /\ \A w \in Worker : WF_vars(~halted /\ WorkerStep(w))
  /\ \A w \in Worker, t \in Task :
       /\ SF_vars(~halted /\ Wake(w, t))
       /\ SF_vars(~halted /\ active[w] = t /\ law_task_finish(w))

FairSpec == Spec /\ Fairness

-----------------------------------------------------------------------------
(* Properties *)

\* The places a task pointer can be kept in, and what they hold.
Places == {<<"pool", 0>>, <<"hand", 0>>}
            \cup ({"child", "queue", "table"} \X Worker)

InSeq(s, t) == \E i \in 1 .. Len(s) : s[i] = t

Holds(p, t) ==
  \/ p[1] = "pool"  /\ t \in pool
  \/ p[1] = "hand"  /\ t = hand
  \/ p[1] = "child" /\ t = child[p[2]]
  \/ p[1] = "queue" /\ InSeq(incoming[p[2]], t)
  \/ p[1] = "table" /\ t \in table[p[2]]

Exclusive ==
  \A t \in Task : \A p, q \in Places : Holds(p, t) /\ Holds(q, t) => p = q

NoDup(s) == \A i, j \in 1 .. Len(s) : s[i] = s[j] => i = j

\* No task pointer is in two places, or twice in one pipe: a task whose
\* stack one thread uses is never also available to another, although
\* pool, pipes and tables are updated by different threads without a
\* common lock (law_task_pool_push and _pop, law_task_queue_push and _pop,
\* law_table_insert and _remove).
Placement == Exclusive /\ \A w \in Worker : NoDup(incoming[w])

\* Every task is somewhere: the pool can fill up again.
NoTaskLost == \A t \in Task : \E p \in Places : Holds(p, t)

\* Two tasks that are not in the pool have different ids: an event, a timer
\* or a message that names an id means one task (law_server_genid).
UniqueIds ==
  \A t, u \in Task \ pool : t # u => id[t] # id[u]

\* Shutdown is orderly (law_server_spin): once the first LAW_MSG_SHUTDOWN
\* may be sent no task is outside the pool and none can leave it again, so
\* a worker thread that ends leaves no task in its pipe, table or ready set.
OrderlyShutdown ==
  /\ pc \in {"shutdown", "join", "stopped"} => pool = Task
  /\ \A w \in Worker : wpc[w] = "exit" =>
       /\ pool = Task
       /\ incoming[w] = <<>> /\ table[w] = {} /\ ready[w] = {}

\* The positions of the threads agree with the data they work on.  With
\* TypeOK and Placement this is the inductive invariant of ServerProofs.
Quiet == pc \in {"shutdown", "join", "stopped"}

MainControls ==
  /\ hand # NoTask <=> pc = "dispatch"
  /\ hand # NoTask => tmode[hand] = "spawned"
  /\ Quiet => pool = Task

WorkerControls(w) ==
  /\ child[w] # NoTask <=> wpc[w] = "push"
  /\ child[w] # NoTask => tmode[child[w]] = "spawned"
  /\ \A t \in Task : InSeq(incoming[w], t) => tmode[t] = "spawned"
  /\ wpc[w] \in {"run", "push"} =>
       active[w] \in table[w] /\ tmode[active[w]] = "running"
  /\ \A t \in table[w] :
       tmode[t] = "running" => active[w] = t /\ wpc[w] \in {"run", "push"}
  /\ ready[w] \subseteq table[w]
  /\ \A t \in ready[w] : tmode[t] \in {"spawned", "suspended"}
  /\ shutdown[w] \/ ~reloop[w] \/ wpc[w] = "exit" => Quiet
  /\ pc = "created" => wpc[w] = "created"

Control == MainControls /\ \A w \in Worker : WorkerControls(w)

\* None of the SEL_TEST, SEL_ASSERT and SEL_HALT of the tasks' paths fails.
NoAbort == ~halted

\* SEL_TEST(task) in law_server_accept: the pool that was not empty before
\* accept() still has a task after it.
AcceptFindsTask == pc = "pop" => pool # {}

\* "Signal the server to (eventually) stop." (law_stop)
StopEventually == mode = "stopping" ~> pc = "stopped"

\* While the server runs the backlog is taken, even if every task is busy
\* when a connection arrives.
BacklogTaken == backlog > 0 ~> (backlog = 0 \/ mode # "running")

\* Every step of the threads is a step of the abstract life of the tasks.
Life == INSTANCE TaskLife WITH
  life <- [t \in Task |-> IF t \in pool THEN "idle" ELSE tmode[t]],
  home <- [t \in Task |-> {w \in Worker : t \in table[w] /\ tmode[t] # "spawned"}]

LifeSpec == Life!Spec
=============================================================================
