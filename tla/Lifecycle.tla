------------------------------ MODULE Lifecycle ------------------------------
(***************************************************************************)
(* Set-up and tear-down of a server: law_server_create, law_create_socket, *)
(* law_open, law_close and law_server_destroy, with the memory and the     *)
(* descriptors they acquire one after the other and release, from a goto   *)
(* label on, when a step fails (server.c, event.c).                        *)
(*                                                                         *)
(* A routine is the sequence of its steps - what a step acquires and the   *)
(* label its failure goes to - and the sequence of its labels, with what   *)
(* the code under a label releases before it falls through to the next.    *)
(***************************************************************************)
EXTENDS Integers, Sequences

CONSTANTS
  NWorkers,     \* cfg.workers
  NTasks,       \* worker_tasks * workers
  MaxSockets    \* bound on the calls of socket()

ASSUME LifecycleAssumption == {NWorkers, NTasks, MaxSockets} \subseteq Nat \ {0}

VARIABLES
  phase,     \* what the application has called
  at,        \* the step that law_server_create or law_open is at
  live,      \* memory and descriptors that are allocated
  sockets,   \* calls of socket() that succeeded
  own,       \* those of them that law_create_socket made for the application
  socket,    \* server->socket; 0: none
  stray      \* what was released without being allocated

vars == <<phase, at, live, sockets, own, socket, stray>>

Worker == 1..NWorkers

Init ==
  /\ phase = "none" /\ at = 1 /\ live = {}
  /\ sockets = 0 /\ own = {} /\ socket = 0 /\ stray = {}

--------------------------------------------------------------------------
(***************************************************************************)
(* Routines.                                                               *)
(***************************************************************************)
Step(gets, label) == [gets |-> gets, label |-> label]
Label(label, frees) == [label |-> label, frees |-> frees]

\* A call that acquires all of `gets` or nothing.
Plain(gets) == [steps |-> <<Step(gets, "none")>>, labels |-> <<>>]

\* What steps 1..n acquire, and what is released from a label on.
Acquired(steps, n) == UNION {steps[i].gets : i \in 1..n}

Released_Next(labels, label) ==
  UNION {labels[j].frees : j \in {i \in 1..Len(labels) :
           \E h \in 1..(i - 1) : labels[h].label = label}}
Released(labels, label) ==
  UNION {labels[j].frees : j \in {i \in 1..Len(labels) :
           \E h \in 1..i : labels[h].label = label}}

\* What a routine acquired, and released again, when step k of it fails.
Gained(R, k) == Acquired(R.steps, k - 1)
Undone(R, k) == Released(R.labels, R.steps[k].label)

All(R) == Acquired(R.steps, Len(R.steps))

\* law_smem_create of the stack: calloc, then open and mmap (the descriptor
\* of /dev/zero is closed at once), then mprotect.  FAILURE frees the first
\* only: when mprotect fails the mapping stays.
law_smem_create(n) ==
  [steps |-> <<Step({<<"stack", n>>}, "FREE_COR"),
               Step({<<"mapping", n>>}, "FAILURE"),
               Step({}, "FAILURE")>>,
   labels |-> <<Label("FAILURE", {<<"stack", n>>})>>]

law_task_create(n) ==
  [steps |-> <<Step({<<"task", n>>}, "none"),
               Step({<<"callee", n>>}, "FREE_TASK")>> \o law_smem_create(n).steps,
   labels |-> law_smem_create(n).labels \o
              <<Label("FREE_COR", {<<"callee", n>>}),
                Label("FREE_TASK", {<<"task", n>>})>>]

law_task_destroy(n) == All(law_task_create(n))

law_worker_create(w) ==
  [steps |-> <<Step({<<"worker", w>>}, "none"),
               Step({<<"caller", w>>}, "FREE_WORKER"),
               Step({<<"timer", w>>}, "FREE_CALLER"),
               Step({<<"events", w>>}, "FREE_TIMER"),
               Step({<<"table", w>>}, "FREE_EVO")>>,
   labels |-> <<Label("FREE_EVO", {<<"events", w>>}),
                Label("FREE_TIMER", {<<"timer", w>>}),
                Label("FREE_CALLER", {<<"caller", w>>}),
                Label("FREE_WORKER", {<<"worker", w>>})>>]

law_worker_destroy_NoTable(w) == All(law_worker_create(w)) \ {<<"table", w>>}
law_worker_destroy(w) == All(law_worker_create(w))

\* law_pipe_open closes what pipe() gave when fcntl fails.
Pipe(name, w) == {<<name, w, 0>>, <<name, w, 1>>}

law_pipe_open(name, w) ==
  [steps |-> <<Step(Pipe(name, w), "none"), Step({}, "law_pipe_close")>>,
   labels |-> <<Label("law_pipe_close", Pipe(name, w))>>]

\* law_pipe_open of the two queues, law_evo_open, and law_evo_ctl twice.
law_worker_open(w) ==
  [steps |-> <<Step(All(law_pipe_open("incoming", w)), "none"),
               Step(All(law_pipe_open("messages", w)), "CLOSE_INCOMING"),
               Step({<<"epoll", w>>}, "CLOSE_MESSAGES"),
               Step({}, "CLOSE_EVO"),
               Step({}, "CLOSE_EVO")>>,
   labels |-> <<Label("CLOSE_EVO", {<<"epoll", w>>}),
                Label("CLOSE_MESSAGES", Pipe("messages", w)),
                Label("CLOSE_INCOMING", Pipe("incoming", w))>>]

law_worker_close(w) == {<<"epoll", w>>} \cup Pipe("messages", w) \cup Pipe("incoming", w)

law_create_socket(s) ==
  [steps |-> <<Step({<<"socket", s>>}, "none"), Step({}, "FAILURE")>>,
   labels |-> <<Label("FAILURE", {<<"socket", s>>})>>]

--------------------------------------------------------------------------
(***************************************************************************)
(* law_server_create and law_open as sequences of calls: the routine that  *)
(* is called and the label its failure goes to.                            *)
(***************************************************************************)
Call(routine, label) == [routine |-> routine, label |-> label]

\* law_task_pool_create is the call for its own memory and one per task.
CreateCalls ==
  <<Call(Plain({<<"server", 0>>}), "none"),
    Call(Plain({<<"threads", 0>>}), "FREE_SERVER"),
    Call(Plain({<<"workers", 0>>}), "FREE_PTHREADS"),
    Call(Plain({<<"events", 0>>}), "FREE_WORKER_PTRS"),
    Call(Plain({<<"pool", 0>>}), "FREE_EVO")>>
  \o [n \in 1..NTasks |-> Call(law_task_create(n), "law_task_pool_destroy")]
  \o [w \in Worker |-> Call(law_worker_create(w), "FREE_WORKERS")]

law_task_pool_destroy(T) == {<<"pool", 0>>} \cup UNION {law_task_destroy(n) : n \in T}

\* The labels of law_server_create when the tasks T and the workers W exist;
\* law_task_pool_create ends like law_task_pool_destroy when a task fails.
CreateLabels(T, W) ==
  <<Label("FREE_WORKERS", UNION {law_worker_destroy(w) : w \in W}),
    Label("law_task_pool_destroy", law_task_pool_destroy(T)),
    Label("FREE_EVO", {<<"events", 0>>}),
    Label("FREE_WORKER_PTRS", {<<"workers", 0>>}),
    Label("FREE_PTHREADS", {<<"threads", 0>>}),
    Label("FREE_SERVER", {<<"server", 0>>})>>

\* law_bind_socket, law_listen and law_evo_ctl acquire nothing.
OpenCalls ==
  <<Call(law_create_socket(sockets + 1), "none"),
    Call(Plain({}), "CLOSE_SOCKET"),
    Call(Plain({}), "CLOSE_SOCKET"),
    Call(Plain({<<"epoll", 0>>}), "CLOSE_SOCKET"),
    Call(Plain({}), "CLOSE_EVO")>>
  \o [w \in Worker |-> Call(law_worker_open(w), "CLOSE_WORKERS")]

\* The local variable `socket` of law_open holds the last socket.
OpenLabels(W) ==
  <<Label("CLOSE_WORKERS", UNION {law_worker_close(w) : w \in W}),
    Label("CLOSE_EVO", {<<"epoll", 0>>}),
    Label("CLOSE_SOCKET", {<<"socket", sockets>>})>>

Calls == IF phase = "creating" THEN CreateCalls ELSE OpenCalls

\* Which of the tasks or workers are complete at call `at`, if the first is
\* the call after `before`.
Done_Too(S, before) == {m \in S : before + m <= at}
Done(S, before) == {m \in S : before + m < at}

Labels ==
  IF phase = "creating"
  THEN CreateLabels(Done(1..NTasks, 5), Done(Worker, 5 + NTasks))
  ELSE OpenLabels(Done(Worker, 5))

Release(l, s) ==
  /\ live' = l \ s
  /\ stray' = stray \cup (s \ l)

--------------------------------------------------------------------------
law_server_create ==
  /\ phase = "none"
  /\ phase' = "creating" /\ at' = 1
  /\ UNCHANGED <<live, sockets, own, socket, stray>>

\* The application calls law_create_socket before law_open asserts it.
law_create_socket_first ==
  /\ phase = "created" /\ sockets < MaxSockets
  /\ sockets' = sockets + 1 /\ socket' = sockets + 1 /\ own' = own \cup {sockets + 1}
  /\ live' = live \cup All(law_create_socket(sockets + 1))
  /\ UNCHANGED <<phase, at, stray>>

\* SEL_ASSERT(server->socket): without a call of law_create_socket before it,
\* law_open ends the process.
law_open ==
  /\ phase = "created" /\ sockets < MaxSockets
  /\ phase' = (IF socket # 0 THEN "opening" ELSE "aborted") /\ at' = 1
  /\ UNCHANGED <<live, sockets, own, socket, stray>>

Last(a) == a = Len(Calls)

\* The call at `at` succeeds.
Proceeds ==
  /\ phase \in {"creating", "opening"}
  /\ live' = live \cup All(Calls[at].routine)
  /\ IF Last(at)
     THEN phase' = (IF phase = "creating" THEN "created" ELSE "open") /\ at' = 1
     ELSE phase' = phase /\ at' = at + 1
  /\ IF phase = "opening" /\ at = 1
     THEN sockets' = sockets + 1 /\ socket' = sockets + 1
     ELSE UNCHANGED <<sockets, socket>>
  /\ UNCHANGED <<own, stray>>

\* Step k of the routine that is called fails; the routine undoes what it
\* did, and the caller goes on at its own label.
Fails(k) ==
  LET R == Calls[at].routine
  IN  /\ phase \in {"creating", "opening"} /\ k \in 1..Len(R.steps)
      /\ Release(live \cup Gained(R, k), Undone(R, k) \cup Released(Labels, Calls[at].label))
      /\ phase' = (IF phase = "creating" THEN "failed" ELSE "created") /\ at' = 1
      /\ UNCHANGED <<sockets, own, socket>>

Closed ==
  {<<"epoll", 0>>, <<"socket", socket>>} \cup UNION {law_worker_close(w) : w \in Worker}

\* It closes the numbers of all workers, open or not.  Of an open server that
\* is right; the tests also call it when law_open, or a call before it, has
\* failed (tests/lawd/ping.c:108).
law_close ==
  /\ phase \in {"created", "open"}
  /\ Release(live, Closed)
  /\ phase' = (IF phase = "open" THEN "closed" ELSE "misclosed")
  /\ UNCHANGED <<at, sockets, own, socket>>

law_server_destroy ==
  /\ phase \in {"created", "closed", "misclosed"}
  /\ Release(live, {<<n, 0>> : n \in {"events", "workers", "threads", "server"}}
                   \cup law_task_pool_destroy(1..NTasks)
                   \cup UNION {law_worker_destroy(w) : w \in Worker})
  /\ phase' = (IF phase = "misclosed" THEN "misdestroyed" ELSE "destroyed")
  /\ UNCHANGED <<at, sockets, own, socket>>

Ended ==
  /\ phase \in {"failed", "aborted", "destroyed", "misdestroyed"}
  /\ UNCHANGED vars

Next ==
  \/ law_server_create \/ law_create_socket_first \/ law_open
  \/ Proceeds \/ \E k \in 1..5 : Fails(k)
  \/ law_close \/ law_server_destroy
  \/ Ended

Spec == Init /\ [][Next]_vars

--------------------------------------------------------------------------
Memory == UNION {All(CreateCalls[i].routine) : i \in 1..Len(CreateCalls)}
Sockets(S) == {<<"socket", s>> : s \in S}

\* No memory is freed and no descriptor is closed that is not allocated at
\* that moment, whichever steps fail (the goto labels).  Nothing is claimed
\* once law_close has been called of a server that is not open.
NothingStray == phase \notin {"misclosed", "misdestroyed"} => stray = {}

\* A failed law_open, and law_close after one that succeeded, leave what was
\* there before: the memory of the server and the sockets the application
\* made itself.
OpenAllOrNothing ==
  phase \in {"created", "closed"} => live = Memory \cup Sockets(own)

\* A failed law_server_create, at any of its steps, and law_server_destroy
\* leave no memory of the server behind, be law_close called too early or not;
\* but one mapping of the former stays when mprotect was refused in
\* law_smem_create.
DestroyFreesAll ==
  /\ phase = "destroyed" => live = Sockets(own)
  /\ phase = "misdestroyed" => live \subseteq Sockets(own)
  /\ phase = "failed" =>
       \/ live = {}
       \/ \E n \in 1..NTasks : live = {<<"mapping", n>>}
=============================================================================
