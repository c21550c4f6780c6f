# A verification of lawd in TLA+

lawd is a C library for web servers: one thread accepts connections, a fixed
number of worker threads run one coroutine per connection, and an HTTP layer
runs on top of them. This directory holds TLA+ models of its core, the
configurations that check them with TLC, and proofs for TLAPS. Paths are
relative to the repository; `server.c` and the like are under
`source/lawd/`, headers under `include/lawd/`.

## The system

| part | state | operations | interacts with |
|---|---|---|---|
| main thread (`server.c`: `law_start`, `law_server_spin`, `law_server_accept`) | `mode`, the listening socket, its event port | accept loop, dispatch, draining, shutdown | pool, pipes to the workers |
| `law_stop` | `mode` | test and set, from any thread, without a lock | main thread |
| task pool (`server.c:358-465`) | an intrusive list, its size, a mutex | push, pop, is_empty, is_full | main thread, workers, callbacks in `law_spawn` |
| pipes (`server.c:160-281`) | task pointers, and messages, on their way to a worker | write (may be full), read | everybody to one worker |
| worker (`law_worker_tick`, `law_worker_dispatch`) | event port, timer heap, task table, ready list, the active task | one tick: poll, timers, events, messages, new tasks, dispatch | pipes, pool, coroutines |
| task (`law_task_t`) | id, version, mode, mark, event array, stack, one link field | spawn, wait (`law_ewait`), resume, return | the worker it was dispatched to |
| `law_sync`, `law_ectl` | the deadline and the registrations of a callback | repeat a non-blocking call until it succeeds or time is up | worker, HTTP layer |
| set-up and tear-down | memory, sockets, pipes, epoll instances | create, create_socket, open, close, destroy | all of the above |
| HTTP server (`http_server.c`) | per worker: pools of buffers and stacks | `law_hts_entry` for every connection | worker, connection, error stack |
| HTTP connection (`http_conn.c`, `buffer.c`) | two ring buffers, the SSL object | read_scan, ensure_input, ensure_output, flush, SSL accept and shutdown | socket, OpenSSL |
| error stack (`error.c`) | an array per thread | push, clear, read | all tasks of a thread |
| timers, table, event port (`time.c`, `table.c`, `event.c`) | heap, hash map, epoll | thin wrappers | worker |
| coroutine switch (`cor_x86_64.s`, `cor_x86_64.c`) | registers, stacks, two saved pointers per context | call, swap (resume, yield) | worker, callbacks |
| slots (`law_slot_encode`, `law_slot_decode`) | none | task id to epoll data and back | `law_ectl`, the event loop |
| guarded memory (`safemem.c`) | mappings | create, destroy | tasks, HTTP pools |
| web sockets (`web_sockets.c`, not part of the build) | head, masking key and offset | accept, read a head, write a head, mask | HTTP connection |
| grammars, URI, headers | none | pure parsers built from pgenc combinators | HTTP server |
| `http.c` | — | older HTTP server that is not part of the build | — |
| log | stdio | formatting | — |

What is hard here, and what the models are for:

* **Threads without a common lock.** The pool has a mutex, the pipes are
  kernel pipes, the tables belong to one thread each and `mode` to nobody. A
  task pointer moves between them; it must never be in two places, nor in none.
* **Test, then act.** The accept loop tests the pool before `accept()` and
  pops after it; `law_stop` tests the mode before it sets it.
* **Shutdown** has to wait for tasks that callbacks may still be creating.
* **Stale wake-ups.** Timers are never cancelled. They outlive the wait, and
  the task object, they were made for; ids and versions tell them apart.
* **Limits.** Empty pool, full pipe, a worker with all its tasks, a full
  event array, a full ring buffer.
* **Cleaning up.** Labels in `law_open` and `law_hts_entry_setup` release what
  was acquired so far, and jump over one another.
* **Fragmentation.** Delimiters cut in two by a read, short writes, a read
  that brings in two elements at once, frames cut anywhere.
* **Changing stacks.** A coroutine is entered by one routine and left by
  another; registers, stack and result have to survive every order of both.

`PROJECT.json` lists these at their lines under `hazards`, with the properties
that cover each one.

## The modules

    TaskLife            what the server promises about one task
      ^        ^
      | refines| refines
    Server   Scheduler  the threads            one worker in detail
    HttpEntry           a request from accept to close, several per worker
    HttpConn            one connection: bytes in, bytes out
    Lifecycle           create, open, close, destroy, with failures
      ^
      | extends
    HttpLifecycle       the same for the buffers of the HTTP server
    Coroutine           the switch that TaskLife takes for granted
    WebSocket           frames through the input buffer of a connection

    ServerProofs  SchedulerProofs  HttpEntryProofs
    HttpConnProofs  LifecycleProofs  CoroutineProofs
    WebSocketProofs  TaskLifeProofs
                        theorems about the module each is named for

`MCServer`, `MCScheduler`, `MCHttpEntry`, `MCHttpConn`, `MCCoroutine` and
`MCWebSocket` add what TLC needs
(model values, symmetry). The correspondence of every definition to lines of
the source is in `PROJECT.json` under `map`. A definition with the name of a C
function models that function; definitions marked *Mutant* are plausible
mistakes in the code, used to see that a property notices them, and are not
part of any specification.

**TaskLife** is the abstract specification. A task is idle, spawned, running
or suspended; its coroutine stays on one worker from the first instruction to
the last, and a worker executes one coroutine at a time. (Spawned tasks have
no home yet: both modules map `home` from the tables, for tasks entered.)

**Server** has one step per access to shared state. `pc` is the position of
the main thread, `wpc[w]` that of worker `w` in its tick; `hand` and
`child[w]` are the local variables that hold a task between two steps. A
critical section of the pool's mutex is one step. `poolLock` becomes
`"leaked"` when `law_task_pool_pop` returns without unlocking (server.c:381),
and whatever needs the lock is then blocked. `halted` stands for `abort()`.
What a poll makes ready is left open: any set of suspended tasks.
Callbacks are external: they wait, spawn and return in any order.

**Scheduler** is the tick of one worker, loop by loop, with a clock. Timer
entries carry expiry, id and version as in `time.c`; the ready list is a LIFO
sequence with marks; `reg` maps a descriptor to the id that was registered,
which the event loop gets through `law_slot_encode` and `law_slot_decode`.
Timers and events find their task as the table does, by the part of the id
that fits in an `int` (`law_table_key`), and an insertion that meets another
task's key aborts; `room` and `buf` are the event array a caller of `law_ewait` passes. Tasks
arrive, end, and come back with new ids, so stale entries and registrations
of earlier owners are met. `law_timer_insert` fails when `TimerMemory` is
used up; `law_ewait` returns at once then.

**HttpEntry** is `law_hts_entry` with every path of `law_hts_entry_setup`,
`_stream` and `_handler`, for tasks that share the buffers and the error stack
of one worker. Tasks are coroutines, so they interleave only where `law_sync`
or a callback waits. TLS or not is chosen in the initial state. A wait inside
`law_sync` has two ends. In a build without `SEL_ASSERT` the task is resumed
(`Resume`); with it the process aborts, since the wait has no event array
(`law_task_push_event_assert`, finding 4). Both are steps.

**HttpConn** follows the bytes of one connection. A cell of a ring buffer
holds the stream position of the byte last stored in it: a byte overwritten
too early is visible as the wrong position. The client sends byte by byte, or
closes; reads and writes transfer any number of bytes; TLS reads may want to
write and the reverse. The grammar is reduced to the two delimiters
`law_htc_read_scan` looks for.

**Lifecycle** writes each routine as data: its steps with what they acquire
and the label taken on failure, and its labels with what they release before
falling through. Any step may fail, those of `law_smem_create` for the stack
of a task included, and `law_open` may be tried again. `law_open` without a
socket aborts. `law_close` of a server that is not open, as the tests call it
(`tests/lawd/ping.c:108`), closes numbers that are not open and leads to
`misclosed`, from where only `law_server_destroy` follows.

**HttpLifecycle** adds the memory of a `law_htserver_t` in the same form: a
group of four pools for every worker, `worker_tasks` objects in every pool,
each made of a `calloc` and a `law_smem_create` in three steps. Calls of both
servers follow each other in any order, by one thread. The `calloc` of a group
(http_server.c:439) is not checked; when it fails the process is gone
(`crashed`).

**Coroutine** is a small machine: six callee-saved registers, a stack pointer,
one stack per task and one for the worker, and the environments (`law_cor`)
with their two words. Instructions are functions from machines to machines,
and the two assembly routines compositions of them. C code between them may
change its registers and its part of the stack in any way the calling
convention allows; `law_worker_dispatch` decides by the result of the switch
whether the task goes on.

**WebSocket** has a peer that writes heads with `law_ws_write_head` and masks
payloads with `law_ws_xor_apply`, and a reader made of `law_ws_accept`,
`law_ws_read_head` and `law_ws_xor_apply`, with any cuts in between. A byte is
a number and the set of key bytes it is masked with, so that unmasking with
the wrong byte of the key, or twice, shows. `Byte` scales 256 down, and the
limits of the three forms of a head with it. `law_ws_read_head_large` drops
the length it decodes, as the code does; the reader is then out of step
(`astray`) and its calls go on, taking any number of bytes for a payload or a
head (`ReadAstray`). The file calls an interface that
is not in the repository any more: `law_htc_ensure_input` is that of
`http_conn.c`, and the retry loop is taken from how it is used.

## The runs

| run | instance | shows |
|---|---|---|
| `server_safety` | 2 workers with 1 task each, pipes of 1, 3 ids, 2 connections, accept errors, callbacks that spawn | `TypeOK`; `Placement`: no task pointer in two places; `OrderlyShutdown`: shutdown messages go out only with all tasks in the pool, none leaves it then, and workers leave nothing behind; `UniqueIds`; `LifeSpec`: the threads implement `TaskLife` |
| `server_live` | 1 worker with 2 tasks, a pipe of 1, 4 ids and connections, no spawning, fairness | `NoAbort`; `StopEventually`, `BacklogTaken` |
| `sched` | 3 task objects on a worker with `worker_tasks` 1, 3 ids, 1 descriptor, waits of 0 and 1 ms, 2 waits in all, an array for 1 event, slots of 2 binary digits, clock up to 2, `law_sync` included, fairness | `ReadyIntegrity`, `PolledAreSuspended`, `WaitIsTimed`, `NoEarlyTimeout`, `TimersServed`, `NoOversleep`; `AbortOnlyInSync`: finding 4 is the only way an assertion fails; `EventsReachOwner`: an event makes the task ready that registered for it, and no other; `WaitEnds`; `QueuedRuns`: a task in the pipe of a worker at its limit is dispatched in the end; `LifeSpec` |
| `http_entry` | 3 requests, 2 of each buffer, 3 descriptors, TLS and plain, fairness | `Ownership`, `SocketsOwned`, `SslLifetime`, `ErrorsAreOwn`, `AssertOnlyOverLimit`; `RequestEnds` |
| `http_conn` | input ring of 6, output ring of 2, replies up to 4 bytes, 245 texts | `InputIntact`, `OutputIntact`, `ScanExact`, `NoMissedElement` |
| `lifecycle` | 3 workers with 2 tasks each, up to 4 sockets, 3 groups of 4 pools of 2 | `NothingStray`, `OpenAllOrNothing`, `DestroyFreesAll`, `HttpFreesAll` |
| `coroutine` | 2 tasks, 2 contents of registers, 1 word of locals | `ContextKept`: whoever gets control back finds registers and stack as it left them; `SuspendedAreLive`: the worker takes for suspended exactly the coroutines that have not returned |
| `web_socket` | 2 frames of lengths 0, 1, 2, 6 or 64 with bytes of 8 values, a buffer of 20, 10 requests | `FramesAgree`: frames arrive as written, whatever the cuts, up to the first large head; `RefusedWhenCrowded`: when `law_htc_ensure_input` refuses one that fits |
| `server_leak`, `server_lost`, `server_accept_race`, `sched_sync` | see Findings | what the code does not keep |

`CHECK_DEADLOCK FALSE` is set for `Server` and `Scheduler`: a stopped or
aborted server, or a clock at its bound, has no next step. The other modules
say explicitly when they have ended (`Ended`) and are checked for deadlock.

### Bounds, and why they are enough

* Two workers are the least number for which the walk over the workers, the
  round of the dispatcher, and two threads at one pool mean something; one
  task each and a pipe of one pointer bring every limit within reach at once.
  Task objects are used again after they return (3 ids for 2 tasks).
  All properties of this run are proved for all sizes.
* `IdModulo` and `KeyModulo` (64) stand for 2^56 and 2^32; `MaxIds` keeps the
  seed below both. What happens beyond is named under *Not covered*.
* `server_live` needs a worker with more than one task so that one can wait
  while another is started, and the pipe can be full.
* In `Scheduler`, three tasks are the least for which one waits in the pipe of
  a worker at its limit: with `worker_tasks` 1 the tick takes two
  (server.c:1306). `MCScheduler` takes the objects from the pool in a fixed
  order, one that has returned before a fresh one, as a LIFO list does. A wait
  of 0 and one of 1 with a clock of 2 lets an entry
  expire before, with and after the wait that a socket event ended, and after
  its task object was used again; `MaxWaits` 2 is a wait and the one that the
  stale entry must not end, `AllWaits` 2 allows these two, of one task or of
  two. `VersModulo` 3 is passed, so versions wrap;
  `MaxWaits < VersModulo` says that no task is dispatched 2^32 times while
  one entry is pending. The ids 1 and 2 need one and two digits of a slot, as
  `MaxIds < SlotBase ^ SlotBytes` demands (2^56 in the code). `MaxIds` 3 is
  below `KeyModulo`; what happens beyond is named under *Not covered*.
* In `HttpEntry`, three requests on two sets of buffers are `worker_tasks + 1`,
  the most a worker runs, and the least for which the assertion in
  `law_hts_entry` matters.
* In `HttpConn`, an input ring of 6 is the least that holds the shortest
  request line and the shortest headers together, which `NoMissedElement`
  needs; it wraps within the headers of most texts and is full with and
  without a delimiter in both elements. The texts are all of up to 4 bytes
  before a blank line or a plain rest, so a delimiter's prefix repeats in
  every way, one with both elements and a body, and two with an element that
  is too long. The invariants are proved for all texts and sizes.
* In `Lifecycle` and `HttpLifecycle`, three workers are before, at and behind
  the one that fails, as are six tasks; two objects in a pool are the first
  and the last. Four sockets are any mix of those the application makes
  and of retries of `law_open`.
* In `Coroutine`, two tasks can each be waiting while the other starts, waits,
  is resumed or returns, and a task returns in the dispatch that entered it or
  in a later one; two contents tell a kept register from a changed one, and
  each register names itself, so that two of them can not be exchanged.
* In `WebSocket`, with bytes of 8 values, 1 is the longest small and 2 the
  shortest medium payload, 64 needs a large head, and 6 bytes of payload pass
  the end of the key at any cut. 20 is the least buffer that holds the
  shortest medium frame twice; 10 bytes under way (`MaxWire`) are such a frame,
  behind which the head of the next may follow. Two frames are the one that is
  read and the one that crowds it, or a large one and what is read behind it.
  Both invariants are proved for all values of these.

### Fairness

* `Server`: the operating system runs every thread (weak fairness of the main
  thread, of the thread in `law_stop`, of each worker). A suspended task is
  made ready by some later poll: strong fairness of `Wake`, justified by
  `WaitEnds` of `Scheduler`. A callback that is resumed again and again
  returns at some point: strong fairness of `law_task_finish`. Clients owe
  nothing.
* `Scheduler`: time passes, the worker thread runs, a running callback waits
  or returns (coroutines are not pre-empted).
* `HttpEntry`: the thread runs its active task and callbacks return, a waiting
  task is resumed at the latest by its timer, the clock reaches deadlines.
  `RequestEnds` is a statement about builds without `SEL_ASSERT`, in which a
  wait inside `law_sync` ends this way; where the assertion is compiled in,
  the first such wait ends the process, and the property allows that end
  (`aborted`).

`server_live` excludes spawning callbacks because with them the statement is
false (finding 1).

## The proofs

Eight modules hold theorems, one for each module (`LifecycleProofs` for
`Lifecycle` and `HttpLifecycle`). Each proves one inductive
invariant (`InvariantAlways`) for all values of the constants that the module's
assumption allows, and takes from it the properties that the runs check. A
property is seldom inductive itself; what had to be added, and why, is said
here. TLC checked the inductive invariants
on the instances of the runs; of that of `Coroutine` all but `Types`, which
ranges over infinite sets, and that of `WebSocket` with the positions of the
frames computed from their sizes, where the invariant says that there are some.

### TaskLifeProofs

What the promise is good for. `Invariant == TypeOK /\ OneHome /\ OneAtATime`: a
coroutine has one worker from where it is entered to its return, and no worker
executes two. `StaysCorrect` adds that a suspended coroutine goes on on the
worker it was entered on. `ServerProofs` and `SchedulerProofs` prove that
their modules implement `TaskLife`; `ServerProofs` takes the step that follows
and states both results of the pool, the pipes and the tables.

### ServerProofs

`ServerAssumption`: positive sizes, a finite pool of `workers * worker_tasks`
tasks, a null pointer outside it, a seed that does not wrap within `MaxIds`.

`Invariant == TypeOK /\ Placement /\ Control`. That a task popped from a pipe
is not in the table already is `Placement`, but that a worker which returns its
active task takes it out of its own table needs to know where the thread
stands. `Control` says that: `hand` is set exactly in the dispatch loop,
`child[w]` exactly between pop and push in `law_spawn`, tasks in transit are
`spawned`, the running task of a worker is its active one, ready tasks are in
the table and can be entered, and a shutdown message exists only after the pool
was found full. The last conjunct, with `Placement`, gives `OrderlyShutdown`:
if every task is in the pool, it is in no pipe and no table, no callback runs,
and so nothing can leave the pool. The argument for a step rests on `MoveTask`
(moving one task from one place to another keeps places exclusive) and
`KeepTasks` (so do places that only lose tasks). `FullPool` is the only place
where cardinality is used.

* `TypeCorrect`, `PlacementCorrect`, `OrderlyShutdownCorrect`.
* `UniqueIdsCorrect` adds that no id in use is beyond the seed.
* `LifeSpecCorrect`: `Spec => LifeSpec`. Every step of a thread is one step of
  `TaskLife` for one task, or none.
* `OneHomeCorrect`, `StaysCorrect`: the theorems of `TaskLifeProofs`, of the
  threads.
* `TablesBoundedCorrect`: a table holds at most `worker_tasks + 1` tasks (the
  loop that takes new ones stops above `worker_tasks`, not at it), the number
  of requests that `HttpAssumption` allows on a worker.
* `AbortOnlyInAcceptCorrect` and `NoAbortCorrect` have two hypotheses more.
  `MaxIds < KeyModulo` says that ids stay below 2^32, the width of a table key:
  beyond it `law_table_insert` can meet the key of another task, and
  `SEL_TEST` aborts. Then the accept loop is the only place where an assertion
  fails; and without `law_spawn` (`~Spawning`) not even there, which is
  finding 3 from the other side.

### SchedulerProofs

All theorems have the hypothesis `MaxIds < KeyModulo`: ids stay below 2^32, the
width of a table key. Beyond it a timer or an event of one task can find
another, and an insertion can abort, so the theorems would be false.

`Invariant == TypeOK /\ Clock /\ Control /\ Timing`. The hard part is that a
timeout is never early although timers are never cancelled. `Ids`: an id is
given out once, so an entry that an earlier owner of a task object left behind
carries an id no task has any more. `Ages`: an entry that carries the id of a
task in the table was made `d` dispatches ago, with `d` at most the waits of
this owner, which are fewer than would bring the version counter round
(`MaxWaits < VersModulo`); so an entry with id *and* version of the task is
that of the current wait. Both need that a callback runs for the task that was
dispatched (`Stage`), and this that the ready list holds each task once
(`ReadyIntegrity`), also when a socket event and a timer ask for it in one tick.

* `TypeCorrect`, `ReadyIntegrityCorrect`, `PolledAreSuspendedCorrect`,
  `WaitIsTimedCorrect`, `NoEarlyTimeoutCorrect`, `TimersServedCorrect`,
  `NoOversleepCorrect`, `AbortOnlyInSyncCorrect`.
* `EventsReachOwnerCorrect` (an action property) under the hypothesis
  `SlotsDecode`: `law_slot_decode` gives back what `law_slot_encode` was given,
  for ids up to `MaxIds`. This is a sum over the bytes of a slot, and needs
  induction over their number; TLC evaluates both codecs in run `sched`.
* `LifeSpecCorrect`: `Spec => LifeSpec`, the tick of a worker step by step.

### HttpEntryProofs

`HttpAssumption`: positive sizes, at most `worker_tasks + 1` requests (which
is what a worker runs), an error stack of more than that and two entries, and
`NULL` different from requests, descriptors and objects of the pools.
`Invariant` adds to the properties where a request is when its error callback returns (`Going`): the label it goes on to decides
what is still to be undone. `Sockets` ties the registration with the event
port to positions between `LAW_EV_ADD` and `LAW_EV_DEL`; `Ssl` says at which
positions the SSL object is live; `Errors` bounds the error stack by the
requests that may still push without clearing; `Count` says that what is in a pool and the requests
that hold buffers add up to `worker_tasks`, from which the assertion in
`law_hts_entry` follows.

* `TypeCorrect`, `OwnershipCorrect`, `SocketsOwnedCorrect`,
  `SslLifetimeCorrect`, `ErrorsAreOwnCorrect`, `AssertOnlyOverLimitCorrect`.
* `NoAssertWithinLimit`: if a worker runs at most `worker_tasks` requests, the
  assertion of `law_hts_entry` never fails, and only that of
  `law_task_push_event`, for a task inside `law_sync`, ends the process. A
  worker may run one request more (server.c:1306).

### HttpConnProofs

`ConnAssumption`: positive sizes; texts made of line ends and other bytes.
`Invariant` adds what a repeated call counts on (`Asked`) and `Scanned`: behind
what `law_htc_read_scan` has passed over, no delimiter begins, since a byte has
been seen that contradicts it. That the ring does not overwrite an unread cell
is arithmetic of offsets that differ by less than the size of the ring.

* `TypeCorrect`, `InputIntactCorrect`, `OutputIntactCorrect`,
  `NoMissedElementCorrect`, and `ScanExactCorrect` (an action property): for
  all texts, sizes of the buffers and the socket, and cuts.

### LifecycleProofs

`LifecycleAssumption`: positive numbers. `Allocated` says, at each call of
`law_server_create` and `law_open`, that what is live is what the calls before
it have acquired: `Made(at)`, and `Opened(s, at)` on top. The lemmas about
routines (`TaskRoutine`, `WorkerRoutine`, `WorkerOpenRoutine` ...) say that
the label a step fails to releases what the steps before acquired; `MadeUndone`
and `OpenUndone` say it of the labels of the callers. `OpenedApart` says that
nothing `law_open` acquires is there already, for which its socket has to be
new (`LastIsOurs`). Behind an early `law_close` the invariant only says that
the memory of the server is complete and nothing else is live but sockets of
the application.

* `NothingStrayCorrect`, `OpenAllOrNothingCorrect`, `DestroyFreesAllCorrect`,
  for all numbers of workers and tasks and a failure at any step of any of them.
* `HttpFreesAllCorrect` has `HttpLifecycleAssumption` besides (a positive
  `worker_tasks`, `worker_tasks` times `workers` tasks). Its invariant says what
  is live when object `count + 1` of pool `filling` of group `group` is to be
  made: the groups before, the pools before, and the objects before.
* `ServerAlone`: `HttpSpec => Spec`, so the three theorems above hold of the
  composition, in which run `lifecycle` checks them.

### CoroutineProofs

The invariant is the picture one has of the stacks: a context without control
has, on its own stack, what it had there, its return address and its kept
registers, and its environment points behind them (`AllSaved`); the stack of a
callback begins with the frame of the trampoline, whose kept `%r15` is the
environment of the worker (`Frames`); `Modes` ties the coroutines that are
live to the modes of their tasks.

* `SuspendedAreLiveCorrect`, `ContextKeptCorrect` (an action property), and
  `TypesCorrect`, for any number of tasks and any contents of registers.

### WebSocketProofs

`WebSocketAssumption`: a byte has an even number of values, of which half is a
multiple of the number of opcodes (256, 128 and 16 in the code), and the buffer
holds the two bytes a head starts with. `Laid` describes the stream without
concatenating frames: each frame has a position, those of two frames in a row
differ by the size of the first, and any byte that is in the buffer or under
way is the one that its frame has there (`FrameByte`: a byte of the head as
`law_ws_write_head` makes it, or of the payload, masked with the byte of the
key for its offset). `Reached` says at which of these positions the reader is,
by the call it is in. Both are needed together: only a reader that is at the
start of a frame takes the right two bytes for its head, and only the right
head brings it to the start of the next one. `Reader` carries the form of the
head and the key from one call to the next. `EnsureInput` says of every outcome of
`law_htc_ensure_input` that no byte is lost or moved; `LayHead` and `LayPayload`
that what the peer writes is laid behind what is there; `Unmasked` that a piece
of a payload is unmasked wherever it was cut. For `RefusedWhenCrowded`, a
refusal while the frame that is read is the last one means that what is in
the buffer belongs to this frame, as do the bytes that are asked for
(`Crowded`).

* `FramesAgreeCorrect`, `RefusedWhenCrowdedCorrect`.

Neither property claims the length of a large head, nor what is read behind
one, for the code gets both wrong (see *Findings*). The reader that is out of
step is in the model; what is proved of it is that it disturbs none of the
frames read before.

### Only model-checked

* Liveness under fairness (`StopEventually`, `QueuedRuns`, `BacklogTaken`,
  `WaitEnds`, `RequestEnds`): temporal reasoning with ENABLED is out of the
  prover's reach.
* `SlotsDecode` (above): induction over the bytes of a number.
* The counterexamples of the next section.

## Findings

Four runs end with a counterexample on purpose. Each checks what a header, a
document or an assertion of the repository says.

1. **`server_leak`** (server.c:381). `law_task_pool_pop` returns NULL from an
   empty pool without unlocking the mutex. One `law_spawn` answered with
   `LAW_ERR_LIMIT` blocks every later use of the pool; a stopping server never
   stops. `server.h:130`: "Signal the server to (eventually) stop."
2. **`server_lost`** (server.c:1075). When every pipe is full `law_spawn`
   returns `LAW_ERR_WANTW` and keeps the task it popped from everybody. The
   pool can not become full again, so draining does not end either.
3. **`server_accept_race`** (server.c:1390). A callback's `law_spawn` takes the
   last task between the test of the pool and the pop; `SEL_TEST(task)` aborts.
4. **`sched_sync`** (server.c:512). `law_sync_wait` waits without an event
   array, and `law_task_push_event` asserts that there is one: the first event
   for a task inside `law_sync` aborts.

The violations of 1-3 need a callback that uses `law_spawn`.

Other deviations are part of what a passing property says:

* The loop at server.c:1306 takes new tasks while `size <= worker_tasks`, one
  more than "Max Tasks per Worker" (`server.h:52`). `http_server.c` sizes its
  pools by that number: `AssertOnlyOverLimit` shows that this one task is the
  only way its assertion fails.
* `law_ws_read_head_large` (web_sockets.c:200) decodes the 64-bit length and
  drops it, although `web_sockets.h:34` gives `payload_length` 64 bits: the
  head says 127, the call returns `LAW_ERR_OK`, and the rest of the stream is
  read out of step. The file is not built. `FramesAgree` stops before the
  length of such a head.
* `law_htc_ensure_input` (http_conn.c:54) adds the bytes already there to
  `nbytes`, so whether a length is refused depends on fragmentation.
  `tests/lawd/http_conn.c:126` expects this; `RefusedWhenCrowded` bounds it.
* `law_smem_create` (safemem.c:45) leaves its mapping behind when `mprotect`
  fails; `DestroyFreesAll` and `HttpFreesAll` allow that and nothing else.
* `law_hts_pool_group_create` (http_server.c:439) does not check its `calloc`;
  `HttpFreesAll` claims nothing after it has failed.
* `law_close` of a server that is not open (`tests/lawd/ping.c:108`, after a
  failed `law_open`) closes descriptors that `law_open` has closed, or were
  never opened; `server.h` describes it for an open server. `NothingStray`
  claims nothing behind such a call, `DestroyFreesAll` still does.
* The comment at cor_x86_64.s:81 says that the swap returns 1. It returns the
  signal, and `SuspendedAreLive` depends on that.

## Not covered

* `law_open` makes a socket of its own although it asserts that
  `law_create_socket` was called; the first socket is counted as the
  application's, so `OpenAllOrNothing` does not show that it is lost.
* The table compares keys as `int` while ids have 56 bits: two tasks that
  live 2^32 spawns apart collide. `Server` and `Scheduler` look tasks up by
  the truncated key, but `MaxIds` is below `KeyModulo` in the runs, and the
  theorems that need it assume it.
* The late store of `law_stop` (server.c:1484) may leave a stopped server with
  `LAW_MODE_STOPPING`. It is a step of `Server`; nothing is claimed of the
  mode afterwards.
* The timer heap grows with waits that events end early, beyond
  `worker_tasks` entries, although `README.md:20` says "All memory is
  allocated up front and pooled." The model includes the failure to grow.
  `TimersServed` says that expired entries go; nothing bounds the others.
* `conn.ssl` dangles after a failed `law_htc_ssl_accept`; `on_error` gets it.
  `HttpEntry` lets `on_error` use the error stack only.
* Requests without headers: the second delimiter is two line ends, of which
  the first was consumed with the request line; `grammar/http.g:94` asks for
  both. `HttpConn` reads exactly as the code does.
* A callback that returns 6, the value of `LAW_MODE_SUSPENDED`
  (server.c:1179), is taken for one that waits; callbacks of the models return
  error codes, which are zero or negative. `law_sync_wait` takes a failed
  `law_ewait` for a wake-up (server.c:1090).
* The table is created for exactly `worker_tasks` entries (server.c:540) and
  holds one more at times; what its library does at the limit is not in the
  repository. `law_table_insert` does not test `calloc`.
* `law_time_sleep` ignores its argument: pauses of 75 and 50 ms
  (server.c:1403, 1421) last 1 ms. The models let any time pass.
* Signals (`EINTR` makes the poll abort), jumps of the real-time clock,
  2^32 dispatches within one wait.
* The C memory model: `mode` is read and written without synchronisation;
  the models let each access see the last store.

### Not modelled

* `http.c`: an older HTTP server that is not built; it includes a header that
  is not in the repository, and `http_server.c` and `http_conn.c` replace it.
* The grammars, URIs and header parsers: tables of combinators whose meaning
  is in pgenc, outside the repository, and accessors that walk a list. Of them
  `law_hth_get` is in `WebSocket`.
* The heap and the hash map (pubmt), OpenSSL, epoll: external.
* `law_ws_gen_accept` (a hash), status texts, log formats.
* `LAW_MSG_WAKEUP`: it has a handler in the tick and nobody sends it.
* Caller-saved registers, stack overflow and alignment in the switch.

## Plan

Done: inventory, `TaskLife`, `Server`, `Scheduler`, `HttpEntry`, `HttpConn`,
`Lifecycle`, `HttpLifecycle`, `Coroutine`, `WebSocket` and their runs; the proofs of all safety
properties that passing runs check, of both refinements of `TaskLife`, and of
the action properties.

Next: the bound on the heap of `Scheduler` (the entries of one task are at most
the waits of its owners within one timeout).
