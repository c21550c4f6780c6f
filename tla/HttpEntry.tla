------------------------------ MODULE HttpEntry ------------------------------
(***************************************************************************)
(* The HTTP server on one worker: the pools of buffers and stacks that     *)
(* law_htserver_create has made for the worker (module HttpLifecycle),     *)
(* law_hts_entry for every connection, and the error stack all tasks of    *)
(* the thread share (http_server.c, http_conn.c, error.c).                 *)
(*                                                                         *)
(* Tasks are coroutines.  `active` is the one that runs; it gives up the   *)
(* thread only where law_sync waits and where a callback of the            *)
(* application chooses to wait, so the other tasks interleave there and    *)
(* nowhere else.  pc names the label or the call a task has reached.       *)
(***************************************************************************)
EXTENDS Integers, Sequences, FiniteSets

CONSTANTS
  WorkerTasks,   \* cfg.worker_tasks: objects per pool
  Req,           \* the tasks a worker may run at the same time
  Fd,            \* descriptor numbers
  ErrMax,        \* LAW_ERR_STACK_MAX
  NULL

Kind == {"heap", "stack", "in", "out"}
Object == Kind \X (1..WorkerTasks)

(***************************************************************************)
(* A worker runs up to worker_tasks + 1 tasks (server.c:1306).             *)
(***************************************************************************)
ASSUME HttpAssumption ==
  /\ WorkerTasks \in Nat \ {0}
  /\ IsFiniteSet(Req) /\ Cardinality(Req) <= WorkerTasks + 1
  /\ ErrMax \in Nat /\ ErrMax > Cardinality(Req) + 2
  /\ Fd \subseteq Nat /\ NULL \notin Req \cup Fd \cup Object

VARIABLES
  srv,        \* the law_htserver_t: created, open, closed
  security,   \* cfg.security
  pool,       \* law_hts_pool_group_t: the list of free objects per kind
  active,     \* worker->active
  aborted,    \* a failed assertion has ended the process
  pc,         \* where a task is
  next,       \* the label a task goes to when the error callback returns
  held,       \* in, out, heap, stack of law_hts_entry
  fd,         \* conn.socket
  ssl,        \* what conn.ssl points to: none, live, freed
  late,       \* the deadline of the current law_sync has passed
  open,       \* open descriptors
  reg,        \* which task a descriptor is registered for in the event port
  errs        \* law_errors: who pushed the entries of the error stack

server == <<srv, security>>
request == <<next, held, fd, ssl, late>>
kernel == <<open, reg>>
vars == <<server, pool, active, aborted, pc, request, kernel, errs>>

Nothing == [k \in Kind |-> NULL]

Init ==
  /\ srv = "created" /\ security \in {"SSL", "UNSECURED"}
  /\ pool = [k \in Kind |-> [i \in 1..WorkerTasks |-> <<k, i>>]]
  /\ active = NULL /\ aborted = FALSE
  /\ pc = [r \in Req |-> "idle"] /\ next = [r \in Req |-> "close"]
  /\ held = [r \in Req |-> Nothing] /\ fd = [r \in Req |-> NULL]
  /\ ssl = [r \in Req |-> "none"] /\ late = [r \in Req |-> FALSE]
  /\ open = {} /\ reg = [f \in Fd |-> NULL] /\ errs = <<>>

--------------------------------------------------------------------------
(***************************************************************************)
(* The server is opened and closed.                                        *)
(***************************************************************************)

Listed(k) == {pool[k][i] : i \in 1..Len(pool[k])}

\* Without a context (law_hts_init_ssl_ctx failed) the server is not started.
law_htserver_open ==
  /\ srv = "created"
  /\ srv' \in {"open", "closed"}
  /\ UNCHANGED <<security, pool, active, aborted, pc, request, kernel, errs>>

\* After law_start has returned: no task is left.
law_htserver_close ==
  /\ srv = "open" /\ active = NULL /\ ~aborted
  /\ \A r \in Req : pc[r] = "idle"
  /\ srv' = "closed"
  /\ UNCHANGED <<security, pool, active, aborted, pc, request, kernel, errs>>

--------------------------------------------------------------------------
(***************************************************************************)
(* The error stack of the thread.                                          *)
(***************************************************************************)
law_err_clear_Never(e) == e
law_err_clear(e) == <<>>

law_err_push(e, r) == IF Len(e) < ErrMax THEN Append(e, r) ELSE e

(***************************************************************************)
(* Control of a task.  A task that enters law_sync gets a new deadline.    *)
(***************************************************************************)
Runs(r, l) == srv = "open" /\ ~aborted /\ active = r /\ pc[r] = l

Goto(r, l) == pc' = [pc EXCEPT ![r] = l] /\ late' = [late EXCEPT ![r] = FALSE]

\* LAW_ERR_PUSH and the call of cfg.on_error; l is the label that follows.
on_error(r, e, l) ==
  /\ pc' = [pc EXCEPT ![r] = "on_error"]
  /\ next' = [next EXCEPT ![r] = l]
  /\ errs' = law_err_push(e, r)
  /\ late' = [late EXCEPT ![r] = FALSE]

\* Where law_hts_entry_setup goes on after law_hts_entry_stream.
AfterStream(ok) ==
  CASE security # "SSL" -> "delete"
    [] security = "SSL" /\ ok -> "shutdown"
    [] security = "SSL" /\ ~ok -> "free"

--------------------------------------------------------------------------
\* The server accepts a connection and the worker enters its task; the
\* kernel gives the socket the lowest free number.
Accept(r, f) ==
  /\ srv = "open" /\ ~aborted /\ active = NULL
  /\ pc[r] = "idle" /\ f \notin open
  /\ \A g \in Fd : g < f => g \in open
  /\ active' = r /\ pc' = [pc EXCEPT ![r] = "entry"]
  /\ fd' = [fd EXCEPT ![r] = f] /\ open' = open \cup {f}
  /\ UNCHANGED <<server, pool, aborted, next, held, ssl, late, reg, errs>>

\* law_hts_buf_pool_push, law_hts_stk_pool_push
PoolPush_Lost(k, o) == IF k = "out" THEN pool[k] ELSE <<o>> \o pool[k]
PoolPush(k, o) == <<o>> \o pool[k]

\* What law_hts_buf_pool_pop, law_hts_stk_pool_pop leave.
PoolPop_Peek(k) == IF k = "heap" THEN pool[k] ELSE Tail(pool[k])
PoolPop(k) == Tail(pool[k])

\* law_hts_entry, up to law_hts_entry_setup.
law_hts_entry(r) ==
  /\ Runs(r, "entry")
  /\ \A k \in Kind : pool[k] # <<>>
  /\ held' = [held EXCEPT ![r] = [k \in Kind |-> Head(pool[k])]]
  /\ pool' = [k \in Kind |-> PoolPop(k)]
  /\ Goto(r, "setup")
  /\ UNCHANGED <<server, active, aborted, next, fd, ssl, kernel, errs>>

\* SEL_ASSERT(in && out && heap && stack); without it the copies of the
\* buffers read through NULL and end the process all the same.
law_hts_entry_assert(r) ==
  /\ Runs(r, "entry")
  /\ \E k \in Kind : pool[k] = <<>>
  /\ aborted' = TRUE
  /\ UNCHANGED <<server, pool, active, pc, request, kernel, errs>>

\* law_hts_entry_setup: LAW_EV_ADD.
law_hts_entry_add(r) ==
  /\ Runs(r, "setup")
  /\ reg' = [reg EXCEPT ![fd[r]] = r]
  /\ Goto(r, IF security = "SSL" THEN "accept" ELSE "reqline")
  /\ errs' = law_err_clear(errs)
  /\ UNCHANGED <<server, pool, active, aborted, next, held, fd, ssl, open>>

AddFailed_Leak == "return"
AddFailed == "close"

law_hts_entry_add_fails(r) ==
  /\ Runs(r, "setup")
  /\ on_error(r, law_err_clear(errs), AddFailed)
  /\ UNCHANGED <<server, pool, active, aborted, held, fd, ssl, kernel>>

\* law_htc_ssl_accept; the handshake may have to go on in later reads.
law_htc_ssl_accept(r) ==
  /\ Runs(r, "accept")
  /\ ssl' = [ssl EXCEPT ![r] = "live"]
  /\ Goto(r, "reqline")
  /\ errs' = law_err_clear(errs)
  /\ UNCHANGED <<server, pool, active, aborted, next, held, fd, kernel>>

AcceptFailed_Free == "free"
AcceptFailed == "delete"

\* It fails before or after conn->ssl is set, and frees what SSL_new made.
law_htc_ssl_accept_fails(r) ==
  /\ Runs(r, "accept")
  /\ \E s \in {"none", "freed"} : ssl' = [ssl EXCEPT ![r] = s]
  /\ on_error(r, law_err_clear(errs), AcceptFailed)
  /\ UNCHANGED <<server, pool, active, aborted, held, fd, kernel>>

(***************************************************************************)
(* law_sync: the callback clears the error stack and returns c.  Every     *)
(* result but LAW_ERR_OK becomes LAW_ERR_TIME once the deadline is past,   *)
(* and a wish to read or write lets the task wait.                         *)
(***************************************************************************)
law_sync_Forever(r, c) == c
law_sync(r, c) == IF c # "OK" /\ late[r] THEN "TIME" ELSE c

\* The entries the callback leaves: an error of its own is pushed.
Called(r, c) ==
  IF c \in {"OK", "WANT"} THEN law_err_clear(errs)
                          ELSE law_err_push(law_err_clear(errs), r)

law_sync_wait(r, l) ==
  /\ Runs(r, l)
  /\ law_sync(r, "WANT") = "WANT"
  /\ active' = NULL
  /\ errs' = Called(r, "WANT")
  /\ UNCHANGED <<server, pool, aborted, pc, request, kernel>>

\* The labels at which a task is inside law_sync.
Syncing == {"reqline", "headers", "shutdown"}

\* An event or the timer of the wait makes the task ready.
Resume(r) ==
  /\ srv = "open" /\ ~aborted /\ active = NULL /\ pc[r] # "idle"
  /\ active' = r
  /\ UNCHANGED <<server, pool, aborted, pc, request, kernel, errs>>

\* Where SEL_ASSERT is compiled in, the process ends instead when the task is
\* in law_sync: that waits without an array for events, and
\* law_task_push_event asserts that there is one.
law_task_push_event_assert(r) ==
  /\ srv = "open" /\ ~aborted /\ active = NULL /\ pc[r] \in Syncing
  /\ active' = r /\ aborted' = TRUE
  /\ UNCHANGED <<server, pool, pc, request, kernel, errs>>

\* The clock passes the deadline of a law_sync.
Expire(r) ==
  /\ ~aborted /\ pc[r] \in Syncing /\ ~late[r]
  /\ late' = [late EXCEPT ![r] = TRUE]
  /\ UNCHANGED <<server, pool, active, aborted, pc, next, held, fd, ssl,
                 kernel, errs>>

\* law_hts_read_reqline_sync and law_hts_read_headers_sync succeed.
law_hts_read(r, l, after) ==
  /\ Runs(r, l)
  /\ errs' = Called(r, "OK")
  /\ Goto(r, after)
  /\ UNCHANGED <<server, pool, active, aborted, next, held, fd, ssl, kernel>>

\* The cases of law_hts_entry_handler: an answer to the client is possible
\* (the stream ends well) or not.
law_hts_read_fails(r, l, c) ==
  /\ Runs(r, l)
  /\ law_sync(r, c) # "WANT"
  /\ on_error(r, Called(r, c), AfterStream(law_sync(r, c) \in {"TIME", "SYN", "OOB"}))
  /\ UNCHANGED <<server, pool, active, aborted, held, fd, ssl, kernel>>

\* cfg.on_accept may wait, may use the error stack, and returns a result.
\* One wait stands for all the waits of the callback.
on_accept_wait(r) ==
  /\ Runs(r, "on_accept")
  /\ pc' = [pc EXCEPT ![r] = "accepted"]
  /\ active' = NULL /\ errs' \in {errs, law_err_push(<<>>, r)}
  /\ UNCHANGED <<server, pool, aborted, request, kernel>>

on_accept(r, ok) ==
  /\ Runs(r, "on_accept") \/ Runs(r, "accepted")
  /\ Goto(r, AfterStream(ok))
  /\ UNCHANGED <<server, pool, active, aborted, next, held, fd, ssl, kernel, errs>>

\* cfg.on_error reads the error stack, or leaves it, may wait, and returns.
on_error_read(r) ==
  /\ Runs(r, "on_error")
  /\ pc' = [pc EXCEPT ![r] = "handling"]
  /\ errs' \in {errs, <<>>}
  /\ active' \in {r, NULL}
  /\ UNCHANGED <<server, pool, aborted, request, kernel>>

on_error_return(r) ==
  /\ Runs(r, "handling")
  /\ Goto(r, next[r])
  /\ next' = [next EXCEPT ![r] = "close"]
  /\ UNCHANGED <<server, pool, active, aborted, held, fd, ssl, kernel, errs>>

\* law_htc_ssl_shutdown_sync
law_htc_ssl_shutdown(r) ==
  /\ Runs(r, "shutdown")
  /\ errs' = Called(r, "OK")
  /\ Goto(r, "free")
  /\ UNCHANGED <<server, pool, active, aborted, next, held, fd, ssl, kernel>>

law_htc_ssl_shutdown_fails(r, c) ==
  /\ Runs(r, "shutdown")
  /\ law_sync(r, c) # "WANT"
  /\ on_error(r, Called(r, c), "free")
  /\ UNCHANGED <<server, pool, active, aborted, held, fd, ssl, kernel>>

law_htc_ssl_free(r) ==
  /\ Runs(r, "free")
  /\ ssl' = [ssl EXCEPT ![r] = "freed"]
  /\ Goto(r, "delete")
  /\ UNCHANGED <<server, pool, active, aborted, next, held, fd, kernel, errs>>

\* LAW_EV_DEL
law_hts_entry_del(r) ==
  /\ Runs(r, "delete")
  /\ reg' = [reg EXCEPT ![fd[r]] = NULL]
  /\ Goto(r, "close")
  /\ UNCHANGED <<server, pool, active, aborted, next, held, fd, ssl, open, errs>>

law_hts_entry_del_fails(r) ==
  /\ Runs(r, "delete")
  /\ on_error(r, errs, "close")
  /\ UNCHANGED <<server, pool, active, aborted, held, fd, ssl, kernel>>

\* close() also ends a registration that is left.
law_hts_entry_close(r) ==
  /\ Runs(r, "close")
  /\ open' = open \ {fd[r]}
  /\ reg' = [reg EXCEPT ![fd[r]] = NULL]
  /\ Goto(r, "return")
  /\ UNCHANGED <<server, pool, active, aborted, next, held, fd, ssl, errs>>

\* What the pool of kind k gets back.
Returned_Swapped(r, k) == held[r][IF k = "in" THEN "out" ELSE k]
Returned(r, k) == held[r][k]

law_hts_entry_return(r) ==
  /\ Runs(r, "return")
  /\ pool' = [k \in Kind |-> PoolPush(k, Returned(r, k))]
  /\ held' = [held EXCEPT ![r] = Nothing]
  /\ fd' = [fd EXCEPT ![r] = NULL]
  /\ ssl' = [ssl EXCEPT ![r] = "none"]
  /\ Goto(r, "idle")
  /\ active' = NULL
  /\ UNCHANGED <<server, aborted, next, kernel, errs>>

--------------------------------------------------------------------------
\* What a read reports besides success; OTHER: EOF, SYS, SSL, OOM.
Results == {"WANT", "SYN", "OOB", "OTHER"}

Task(r) ==
  \/ law_hts_entry(r) \/ law_hts_entry_assert(r)
  \/ law_hts_entry_add(r) \/ law_hts_entry_add_fails(r)
  \/ law_htc_ssl_accept(r) \/ law_htc_ssl_accept_fails(r)
  \/ \E l \in Syncing : law_sync_wait(r, l)
  \/ law_hts_read(r, "reqline", "headers") \/ law_hts_read(r, "headers", "on_accept")
  \/ \E l \in {"reqline", "headers"}, c \in Results : law_hts_read_fails(r, l, c)
  \/ on_accept_wait(r) \/ \E ok \in BOOLEAN : on_accept(r, ok)
  \/ on_error_read(r) \/ on_error_return(r)
  \/ law_htc_ssl_shutdown(r)
  \/ \E c \in {"WANT", "OTHER"} : law_htc_ssl_shutdown_fails(r, c)
  \/ law_htc_ssl_free(r)
  \/ law_hts_entry_del(r) \/ law_hts_entry_del_fails(r)
  \/ law_hts_entry_close(r) \/ law_hts_entry_return(r)

\* The process has ended or the server is closed.
Ended == (aborted \/ srv = "closed") /\ UNCHANGED vars

Next ==
  \/ law_htserver_open \/ law_htserver_close
  \/ \E r \in Req : \/ \E f \in Fd : Accept(r, f)
                    \/ Task(r) \/ Expire(r)
                    \/ Resume(r) \/ law_task_push_event_assert(r)
  \/ Ended

Spec == Init /\ [][Next]_vars

(***************************************************************************)
(* Fairness.  The thread runs the active task, callbacks return, a waiting *)
(* task is resumed, at the latest by its timer, and the clock advances.    *)
(***************************************************************************)
Fairness ==
  /\ WF_vars(\E r \in Req : Task(r))
  /\ \A r \in Req : SF_vars(Resume(r)) /\ WF_vars(Expire(r))

FairSpec == Spec /\ Fairness

--------------------------------------------------------------------------
Label == {"idle", "entry", "setup", "accept", "reqline", "headers", "on_accept",
          "accepted", "on_error", "handling", "shutdown", "free", "delete", "close", "return"}

\* The types of the variables, in particular that a pool holds objects of
\* its own kind only and the error stack keeps within LAW_ERR_STACK_MAX.
TypeOK ==
  /\ srv \in {"created", "open", "closed"}
  /\ security \in {"SSL", "UNSECURED"} /\ aborted \in BOOLEAN
  /\ DOMAIN pool = Kind /\ \A k \in Kind : Listed(k) \subseteq {k} \X (1..WorkerTasks)
  /\ active \in Req \cup {NULL}
  /\ pc \in [Req -> Label] /\ next \in [Req -> Label]
  /\ held \in [Req -> [Kind -> Object \cup {NULL}]]
  /\ fd \in [Req -> Fd \cup {NULL}] /\ ssl \in [Req -> {"none", "live", "freed"}]
  /\ late \in [Req -> BOOLEAN] /\ open \subseteq Fd
  /\ reg \in [Fd -> Req \cup {NULL}]
  /\ Len(errs) <= ErrMax /\ \A i \in 1..Len(errs) : errs[i] \in Req

\* No buffer or stack is handed to two requests, and none is lost: whatever
\* the paths of the requests that interleave, every object of the worker is
\* once in its pool or held by one request (law_hts_entry).
Ownership ==
  /\ \A k \in Kind : \A i, j \in 1..Len(pool[k]) : pool[k][i] = pool[k][j] => i = j
  /\ \A r, q \in Req, k \in Kind :
       held[r][k] # NULL => /\ held[r][k] \notin Listed(k)
                            /\ r # q => held[q][k] # held[r][k]
  /\ \A o \in Object : o \in Listed(o[1]) \/ \E r \in Req : held[r][o[1]] = o

\* Every path out of law_hts_entry_setup closes the socket of its request,
\* once: the open sockets are those of the requests that have not closed
\* theirs yet, no two requests share one although numbers are reused, and a
\* registration in the event port belongs to the owner of the socket.
SocketsOwned ==
  /\ open = {fd[r] : r \in {q \in Req : pc[q] \notin {"idle", "return"}}}
  /\ \A r, q \in Req : (r # q /\ fd[r] # NULL /\ pc[r] # "return" /\ pc[q] # "return")
                          => fd[r] # fd[q]
  /\ \A f \in Fd : reg[f] # NULL => f \in open /\ fd[reg[f]] = f

\* The SSL object exists while the request reads, writes or shuts down
\* through it, law_htc_ssl_free gets it exactly once, and none is left when
\* the request closes its socket (the labels of law_hts_entry_setup).
SslLifetime ==
  \A r \in Req :
    /\ (security = "SSL" /\ pc[r] \in {"reqline", "headers", "on_accept",
                                     "accepted", "shutdown", "free"})
         => ssl[r] = "live"
    /\ pc[r] \in {"idle", "delete", "close", "return"} => ssl[r] # "live"

\* cfg.on_error finds the entries of its own request on the error stack of
\* the thread and no others, although other tasks push theirs while the
\* request waits in law_sync.  When LAW_EV_DEL fails, after callbacks that
\* may have waited, only the top entry is sure to be its own.
ErrorsAreOwn ==
  \A r \in Req : pc[r] = "on_error" =>
    /\ errs # <<>> /\ errs[Len(errs)] = r
    /\ \/ \A i \in 1..Len(errs) : errs[i] = r
       \/ next[r] = "close" /\ reg[fd[r]] = r

\* The assertion in law_hts_entry fails only for a request that is one too
\* many: all worker_tasks others hold their objects.  The only other one
\* that can fail is that of law_task_push_event, for a task in law_sync.
AssertOnlyOverLimit ==
  aborted =>
    \/ pc[active] = "entry" /\ Cardinality({r \in Req : held[r] # Nothing}) = WorkerTasks
    \/ pc[active] \in Syncing

\* Every request that got its buffers gives them back, whatever the client
\* does: the deadlines of law_sync bound each wait.  So it is in a build
\* without SEL_ASSERT; with it the first wait that ends in law_sync ends the
\* process.
RequestEnds == \A r \in Req : pc[r] = "setup" ~> (pc[r] = "idle" \/ aborted)
=============================================================================
