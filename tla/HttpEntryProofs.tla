-------------------------- MODULE HttpEntryProofs --------------------------
(***************************************************************************)
(* Proofs about module HttpEntry, for every size of the pools, any set of  *)
(* requests a worker may run and any set of descriptors.                   *)
(***************************************************************************)
EXTENDS HttpEntry, FiniteSetTheorems, TLAPS

USE DEF server, request, kernel

-----------------------------------------------------------------------------
(* The inductive invariant *)

\* Where a request is, or goes on when its error callback returns.
Going(r) == IF pc[r] \in {"on_error", "handling"} THEN next[r] ELSE pc[r]

Types == TypeOK /\ pool \in [Kind -> Seq(Object)] /\ errs \in Seq(Req)

\* A task is off the thread only where it waits; without an open server
\* there is no task.
Waiting == {"idle", "reqline", "headers", "shutdown", "accepted", "handling"}

Thread ==
  /\ \A r \in Req : pc[r] \notin Waiting => active = r
  /\ active # NULL => pc[active] # "idle"
  /\ srv # "open" => \A r \in Req : pc[r] = "idle"
  /\ \A r \in Req : next[r] \in {"close", "delete", "shutdown", "free"}

\* The registration of a request lasts from LAW_EV_ADD to LAW_EV_DEL, or to
\* close() when that has failed.
Sockets ==
  /\ SocketsOwned
  /\ \A r \in Req : pc[r] = "idle" <=> fd[r] = NULL
  /\ \A f \in Fd : reg[f] # NULL => pc[reg[f]] \notin {"idle", "return"}
  /\ \A r \in Req : Going(r) \notin {"idle", "entry", "setup", "close", "return"}
                      => reg[fd[r]] = r

Ssl ==
  \A r \in Req :
    /\ Going(r) \in {"accept", "shutdown", "free"} => security = "SSL"
    /\ security = "SSL" /\ Going(r) \in {"reqline", "headers", "on_accept", "accepted",
                                         "shutdown", "free"} => ssl[r] = "live"
    /\ security # "SSL" => ssl[r] # "live"
    /\ Going(r) \in {"idle", "entry", "setup", "accept", "delete", "close", "return"}
         => ssl[r] # "live"

\* The requests that can not push an error any more without clearing the
\* stack before.
Past == {r \in Req : Going(r) \in {"close", "return", "idle", "entry", "setup"}}

Errors == ErrorsAreOwn /\ Len(errs) <= 2 + Cardinality(Past)

Holders == {r \in Req : held[r] # Nothing}

Objects ==
  /\ Ownership
  /\ \A r \in Req, k \in Kind :
       IF pc[r] \in {"idle", "entry"} THEN held[r][k] = NULL
                                      ELSE held[r][k] \in {k} \X (1..WorkerTasks)

\* Each pool and the requests that hold buffers add up to worker_tasks.
Count ==
  /\ \A k \in Kind : Len(pool[k]) + Cardinality(Holders) = WorkerTasks
  /\ AssertOnlyOverLimit

Invariant == Types /\ Thread /\ Sockets /\ Ssl /\ Errors /\ Objects /\ Count

-----------------------------------------------------------------------------
(* The shape of the steps *)

LEMMA Params ==
  /\ WorkerTasks \in Nat \ {0} /\ ErrMax \in Nat /\ ErrMax > 2
  /\ IsFiniteSet(Req) /\ NULL \notin Req /\ NULL \notin Fd /\ NULL \notin Object
  /\ Cardinality(Req) \in Nat /\ ErrMax > Cardinality(Req) + 2
  BY HttpAssumption, FS_CardinalityType

\* An error stack with entries of request r only: what law_sync and one
\* LAW_ERR_PUSH leave.
Own(r, e) == e \in Seq({r}) /\ Len(e) <= 2

LEMMA PushForm ==
  ASSUME NEW r \in Req, NEW e \in Seq(Req)
  PROVE  /\ law_err_push(e, r) \in Seq(Req)
         /\ Len(e) < ErrMax => law_err_push(e, r) = Append(e, r)
         /\ Len(e) <= ErrMax => Len(law_err_push(e, r)) <= ErrMax
  BY Params DEF law_err_push

LEMMA OwnForm ==
  ASSUME NEW r \in Req
  PROVE  /\ Own(r, <<>>)
         /\ \A e : Own(r, e) => e \in Seq(Req)
         /\ \A e : Own(r, e) /\ Len(e) < 2 =>
              /\ Own(r, law_err_push(e, r))
              /\ Len(law_err_push(e, r)) = Len(e) + 1
  <1>1. Own(r, <<>>)
    BY DEF Own
  <1>2. ASSUME NEW e, Own(r, e) PROVE e \in Seq(Req)
    BY <1>2 DEF Own
  <1>3. ASSUME NEW e, Own(r, e), Len(e) < 2
        PROVE  Own(r, law_err_push(e, r)) /\ Len(law_err_push(e, r)) = Len(e) + 1
    <2>1. e \in Seq({r}) /\ Len(e) \in Nat
      BY <1>3 DEF Own
    <2>2. Append(e, r) \in Seq({r}) /\ Len(Append(e, r)) = Len(e) + 1
      BY <2>1
    <2>3. law_err_push(e, r) = Append(e, r)
      BY <1>3, <2>1, Params DEF law_err_push
    <2> QED BY <1>3, <2>1, <2>2, <2>3 DEF Own
  <1> QED BY <1>1, <1>2, <1>3

LEMMA CalledForm ==
  ASSUME NEW r \in Req, NEW c
  PROVE  /\ Own(r, Called(r, c))
         /\ Own(r, law_err_push(Called(r, c), r))
         /\ law_err_push(Called(r, c), r) # <<>>
  <1>1. Called(r, c) = <<>> \/ Called(r, c) = law_err_push(<<>>, r)
    BY DEF Called, law_err_clear
  <1>2. Len(<<>>) = 0
    OBVIOUS
  <1>3. Own(r, Called(r, c)) /\ Len(Called(r, c)) < 2
    BY <1>1, <1>2, OwnForm
  <1>4. Own(r, law_err_push(Called(r, c), r))
    BY <1>3, OwnForm
  <1>5. Len(law_err_push(Called(r, c), r)) = Len(Called(r, c)) + 1 /\ Len(Called(r, c)) \in Nat
    BY <1>3, OwnForm DEF Own
  <1> QED BY <1>2, <1>3, <1>4, <1>5

\* The actions of a task between the pops and the pushes of law_hts_entry.
Inside(r) ==
  \/ law_hts_entry_add(r) \/ law_hts_entry_add_fails(r)
  \/ law_htc_ssl_accept(r) \/ law_htc_ssl_accept_fails(r)
  \/ \E l \in {"reqline", "headers", "shutdown"} : law_sync_wait(r, l)
  \/ law_hts_read(r, "reqline", "headers") \/ law_hts_read(r, "headers", "on_accept")
  \/ \E l \in {"reqline", "headers"}, c \in Results : law_hts_read_fails(r, l, c)
  \/ on_accept_wait(r) \/ \E ok \in BOOLEAN : on_accept(r, ok)
  \/ on_error_read(r) \/ on_error_return(r)
  \/ law_htc_ssl_shutdown(r)
  \/ \E c \in {"WANT", "OTHER"} : law_htc_ssl_shutdown_fails(r, c)
  \/ law_htc_ssl_free(r)
  \/ law_hts_entry_del(r) \/ law_hts_entry_del_fails(r)
  \/ law_hts_entry_close(r)

Serving == law_htserver_open \/ law_htserver_close

\* An assertion fails.
Asserts(r) == law_hts_entry_assert(r) \/ law_task_push_event_assert(r)

LEMMA NextCases ==
  ASSUME [Next]_vars
  PROVE  \/ Serving \/ UNCHANGED vars
         \/ \E r \in Req : \/ \E f \in Fd : Accept(r, f)
                           \/ Inside(r) \/ Resume(r) \/ Expire(r)
                           \/ law_hts_entry(r) \/ Asserts(r)
                           \/ law_hts_entry_return(r)
  BY DEF Next, Task, Inside, Syncing, Serving, Ended, Asserts

\* What no action of Inside does, and where it leads.
Moves(r, m, n) ==
  /\ srv = "open" /\ ~aborted /\ active = r
  /\ UNCHANGED <<srv, security, pool, aborted, held, fd>>
  /\ pc' = [pc EXCEPT ![r] = m] /\ next' = [next EXCEPT ![r] = n]
  /\ pc[r] \notin {"idle", "entry", "return"}
  /\ m \in Label \ {"idle", "entry", "setup"}
  /\ n \in {"close", "delete", "shutdown", "free"}
  /\ active' \in {r, NULL} /\ (active' = NULL => m \in Waiting)

LEMMA AfterStreamForm ==
  ASSUME NEW ok PROVE
    /\ security # "SSL" => AfterStream(ok) = "delete"
    /\ security = "SSL" => AfterStream(ok) \in {"shutdown", "free"}
  BY DEF AfterStream

LEMMA InsideMoves ==
  ASSUME Types, Thread, NEW r \in Req, Inside(r)
  PROVE  Moves(r, pc'[r], next'[r])
  <1>a. /\ pc \in [Req -> Label] /\ next \in [Req -> Label]
        /\ next[r] \in {"close", "delete", "shutdown", "free"}
        /\ pc = [pc EXCEPT ![r] = pc[r]] /\ next = [next EXCEPT ![r] = next[r]]
        /\ r # NULL
    BY Params DEF Types, TypeOK, Thread
  <1> USE DEF Moves, Runs, Goto, on_error, Label, Waiting
  <1>1. CASE law_hts_entry_add(r) \/ law_hts_entry_add_fails(r)
    BY <1>a, <1>1 DEF law_hts_entry_add, law_hts_entry_add_fails, AddFailed
  <1>2. CASE law_htc_ssl_accept(r) \/ law_htc_ssl_accept_fails(r)
    BY <1>a, <1>2 DEF law_htc_ssl_accept, law_htc_ssl_accept_fails, AcceptFailed
  <1>3. CASE \E l \in {"reqline", "headers", "shutdown"} : law_sync_wait(r, l)
    BY <1>a, <1>3 DEF law_sync_wait
  <1>4. CASE law_hts_read(r, "reqline", "headers") \/ law_hts_read(r, "headers", "on_accept")
    BY <1>a, <1>4 DEF law_hts_read
  <1>5. CASE \E l \in {"reqline", "headers"}, c \in Results : law_hts_read_fails(r, l, c)
    BY <1>a, <1>5, AfterStreamForm DEF law_hts_read_fails
  <1>6. CASE on_accept_wait(r) \/ \E ok \in BOOLEAN : on_accept(r, ok)
    BY <1>a, <1>6, AfterStreamForm DEF on_accept_wait, on_accept
  <1>7. CASE on_error_read(r)
    BY <1>a, <1>7 DEF on_error_read
  <1>8. CASE on_error_return(r)
    BY <1>a, <1>8 DEF on_error_return
  <1>9. CASE law_htc_ssl_shutdown(r) \/ \E c \in {"WANT", "OTHER"} : law_htc_ssl_shutdown_fails(r, c)
    BY <1>a, <1>9 DEF law_htc_ssl_shutdown, law_htc_ssl_shutdown_fails
  <1>10. CASE law_htc_ssl_free(r) \/ law_hts_entry_del(r) \/ law_hts_entry_del_fails(r)
              \/ law_hts_entry_close(r)
    BY <1>a, <1>10 DEF law_htc_ssl_free, law_hts_entry_del, law_hts_entry_del_fails,
       law_hts_entry_close
  <1> QED BY <1>1, <1>2, <1>3, <1>4, <1>5, <1>6, <1>7, <1>8, <1>9, <1>10 DEF Inside

\* What the actions of Inside leave on the error stack.
LEMMA InsideErrors ==
  ASSUME NEW r \in Req, Inside(r)
  PROVE  \/ errs' = errs \/ Own(r, errs')
         \/ law_hts_entry_del_fails(r) /\ errs' = law_err_push(errs, r)
  <1>a. Own(r, <<>>) /\ Own(r, law_err_push(<<>>, r))
    <2>1. Own(r, <<>>) /\ Len(<<>>) < 2
      BY OwnForm
    <2> QED BY <2>1, OwnForm
  <1>1. CASE law_hts_entry_add(r) \/ law_hts_entry_add_fails(r) \/ law_htc_ssl_accept(r)
             \/ law_htc_ssl_accept_fails(r)
    BY <1>1, <1>a DEF law_hts_entry_add, law_hts_entry_add_fails, law_htc_ssl_accept,
       law_htc_ssl_accept_fails, on_error, law_err_clear
  <1>2. CASE \/ \E l \in {"reqline", "headers", "shutdown"} : law_sync_wait(r, l)
             \/ law_hts_read(r, "reqline", "headers") \/ law_hts_read(r, "headers", "on_accept")
             \/ \E l \in {"reqline", "headers"}, c \in Results : law_hts_read_fails(r, l, c)
             \/ law_htc_ssl_shutdown(r)
             \/ \E c \in {"WANT", "OTHER"} : law_htc_ssl_shutdown_fails(r, c)
    BY <1>2, CalledForm DEF law_sync_wait, law_hts_read, law_hts_read_fails,
       law_htc_ssl_shutdown, law_htc_ssl_shutdown_fails, on_error
  <1>3. CASE \/ on_accept_wait(r) \/ \E ok \in BOOLEAN : on_accept(r, ok)
             \/ on_error_read(r) \/ on_error_return(r)
    BY <1>3, <1>a DEF on_accept_wait, on_accept, on_error_read, on_error_return
  <1>4. CASE law_htc_ssl_free(r) \/ law_hts_entry_del(r) \/ law_hts_entry_del_fails(r)
             \/ law_hts_entry_close(r)
    BY <1>4 DEF law_htc_ssl_free, law_hts_entry_del, law_hts_entry_del_fails,
       law_hts_entry_close, on_error
  <1> QED BY <1>1, <1>2, <1>3, <1>4 DEF Inside

\* The SSL object, the deadline and the kernel's tables stay in their types.
LEMMA InsideData ==
  ASSUME Types, NEW r \in Req, Inside(r)
  PROVE  /\ ssl' \in [Req -> {"none", "live", "freed"}]
         /\ late' \in [Req -> BOOLEAN] /\ open' \subseteq Fd
         /\ reg' \in [Fd -> Req \cup {NULL}]
  <1>a. /\ ssl \in [Req -> {"none", "live", "freed"}] /\ late \in [Req -> BOOLEAN]
        /\ open \subseteq Fd /\ reg \in [Fd -> Req \cup {NULL}]
    BY DEF Types, TypeOK
  <1>1. CASE law_hts_entry_add(r) \/ law_hts_entry_add_fails(r) \/ law_htc_ssl_accept(r)
             \/ law_htc_ssl_accept_fails(r)
    BY <1>1, <1>a DEF law_hts_entry_add, law_hts_entry_add_fails, law_htc_ssl_accept,
       law_htc_ssl_accept_fails, on_error, Goto
  <1>2. CASE \/ \E l \in {"reqline", "headers", "shutdown"} : law_sync_wait(r, l)
             \/ law_hts_read(r, "reqline", "headers") \/ law_hts_read(r, "headers", "on_accept")
             \/ \E l \in {"reqline", "headers"}, c \in Results : law_hts_read_fails(r, l, c)
             \/ law_htc_ssl_shutdown(r)
             \/ \E c \in {"WANT", "OTHER"} : law_htc_ssl_shutdown_fails(r, c)
    BY <1>2, <1>a DEF law_sync_wait, law_hts_read, law_hts_read_fails,
       law_htc_ssl_shutdown, law_htc_ssl_shutdown_fails, on_error, Goto
  <1>3. CASE \/ on_accept_wait(r) \/ \E ok \in BOOLEAN : on_accept(r, ok)
             \/ on_error_read(r) \/ on_error_return(r)
    BY <1>3, <1>a DEF on_accept_wait, on_accept, on_error_read, on_error_return, Goto
  <1>4. CASE law_htc_ssl_free(r) \/ law_hts_entry_del(r) \/ law_hts_entry_del_fails(r)
             \/ law_hts_entry_close(r)
    BY <1>4, <1>a DEF law_htc_ssl_free, law_hts_entry_del, law_hts_entry_del_fails,
       law_hts_entry_close, on_error, Goto
  <1> QED BY <1>1, <1>2, <1>3, <1>4 DEF Inside

-----------------------------------------------------------------------------
(* Lists of free objects *)

\* law_hts_buf_pool_push puts an object in front.
LEMMA PushList ==
  ASSUME NEW S, NEW s \in Seq(S), NEW x \in S
  PROVE  /\ <<x>> \o s \in Seq(S) /\ Len(<<x>> \o s) = Len(s) + 1
         /\ (<<x>> \o s)[1] = x
         /\ \A i \in 1 .. Len(s) : (<<x>> \o s)[i + 1] = s[i]
         /\ \A i \in 2 .. (Len(s) + 1) : i - 1 \in 1 .. Len(s) /\ (<<x>> \o s)[i] = s[i - 1]
  OBVIOUS

\* law_hts_buf_pool_pop takes the object in front.
LEMMA PopList ==
  ASSUME NEW S, NEW s \in Seq(S), s # <<>>
  PROVE  /\ Tail(s) \in Seq(S) /\ Len(Tail(s)) + 1 = Len(s)
         /\ Head(s) \in S /\ Head(s) = s[1]
         /\ \A i \in 1 .. Len(Tail(s)) : i + 1 \in 1 .. Len(s) /\ Tail(s)[i] = s[i + 1]
         /\ \A i \in 1 .. Len(s) : i # 1 => i - 1 \in 1 .. Len(Tail(s)) /\ Tail(s)[i - 1] = s[i]
         /\ 1 \in 1 .. Len(s)
  OBVIOUS

Elems(s) == {s[i] : i \in 1 .. Len(s)}
Distinct(s) == \A i, j \in 1 .. Len(s) : s[i] = s[j] => i = j

LEMMA PushElems ==
  ASSUME NEW S, NEW s \in Seq(S), NEW x \in S
  PROVE  /\ Elems(<<x>> \o s) = Elems(s) \cup {x}
         /\ Distinct(s) /\ x \notin Elems(s) => Distinct(<<x>> \o s)
  <1> DEFINE p == <<x>> \o s
  <1>1. /\ Len(p) = Len(s) + 1 /\ Len(s) \in Nat /\ p[1] = x
        /\ \A i \in 1 .. Len(s) : p[i + 1] = s[i]
        /\ \A i \in 2 .. (Len(s) + 1) : i - 1 \in 1 .. Len(s) /\ p[i] = s[i - 1]
    BY PushList
  <1> HIDE DEF p
  <1>2. \A i : i \in 1 .. Len(p) <=> i = 1 \/ i \in 2 .. (Len(s) + 1)
    BY <1>1
  <1>3. \A i \in 1 .. Len(s) : i + 1 \in 1 .. Len(p)
    BY <1>1
  <1>4. Elems(p) \subseteq Elems(s) \cup {x}
    BY <1>1, <1>2 DEF Elems
  <1>5. Elems(s) \cup {x} \subseteq Elems(p)
    BY <1>1, <1>2, <1>3 DEF Elems
  <1>6. ASSUME Distinct(s), x \notin Elems(s) PROVE Distinct(p)
    <2>1. ASSUME NEW i \in 2 .. (Len(s) + 1) PROVE p[i] # x
      BY <1>1, <1>6, <2>1 DEF Elems
    <2>2. ASSUME NEW i \in 2 .. (Len(s) + 1), NEW j \in 2 .. (Len(s) + 1), p[i] = p[j]
          PROVE  i = j
      <3>1. i - 1 \in 1 .. Len(s) /\ j - 1 \in 1 .. Len(s) /\ s[i - 1] = s[j - 1]
        BY <1>1, <2>2
      <3>2. i - 1 = j - 1
        BY <3>1, <1>6 DEF Distinct
      <3> QED BY <3>2
    <2> QED BY <1>1, <1>2, <2>1, <2>2 DEF Distinct
  <1> QED BY <1>4, <1>5, <1>6 DEF p

LEMMA PopElems ==
  ASSUME NEW S, NEW s \in Seq(S), s # <<>>
  PROVE  /\ Elems(s) = {Head(s)} \cup Elems(Tail(s))
         /\ Distinct(s) => Distinct(Tail(s)) /\ Head(s) \notin Elems(Tail(s))
  <1> DEFINE p == Tail(s)
  <1>1. /\ Len(p) + 1 = Len(s) /\ Len(p) \in Nat /\ Head(s) = s[1] /\ 1 \in 1 .. Len(s)
        /\ \A i \in 1 .. Len(p) : i + 1 \in 1 .. Len(s) /\ p[i] = s[i + 1]
        /\ \A i \in 1 .. Len(s) : i # 1 => i - 1 \in 1 .. Len(p) /\ p[i - 1] = s[i]
    BY PopList
  <1> HIDE DEF p
  <1>2. Elems(p) \subseteq Elems(s) /\ Head(s) \in Elems(s)
    BY <1>1 DEF Elems
  <1>3. Elems(s) \subseteq {Head(s)} \cup Elems(p)
    BY <1>1 DEF Elems
  <1>4. ASSUME Distinct(s) PROVE Distinct(p) /\ Head(s) \notin Elems(p)
    <2>1. ASSUME NEW i \in 1 .. Len(p), NEW j \in 1 .. Len(p), p[i] = p[j] PROVE i = j
      <3>1. s[i + 1] = s[j + 1] /\ i + 1 \in 1 .. Len(s) /\ j + 1 \in 1 .. Len(s)
        BY <1>1, <2>1
      <3>2. i + 1 = j + 1
        BY <3>1, <1>4 DEF Distinct
      <3> QED BY <3>2
    <2>2. ASSUME NEW i \in 1 .. Len(p) PROVE p[i] # Head(s)
      <3>1. i + 1 \in 1 .. Len(s) /\ p[i] = s[i + 1] /\ i + 1 # 1
        BY <1>1, <2>2
      <3> QED BY <3>1, <1>1, <1>4 DEF Distinct
    <2> QED BY <2>1, <2>2 DEF Distinct, Elems
  <1> QED BY <1>2, <1>3, <1>4 DEF p

LEMMA EmptyList ==
  /\ Elems(<<>>) = {} /\ Distinct(<<>>) /\ Len(<<>>) = 0
  /\ \A S : <<>> \in Seq(S)
  /\ \A S : \A s \in Seq(S) : Len(s) = 0 => s = <<>>
  BY DEF Elems, Distinct

LEMMA ListedElems ==
  ASSUME NEW k PROVE Listed(k) = Elems(pool[k]) /\ Listed(k)' = Elems(pool'[k])
  BY DEF Listed, Elems

-----------------------------------------------------------------------------
(* The pools: pops and pushes *)

PoolTypes ==
  /\ pool \in [Kind -> Seq(Object)]
  /\ \A k \in Kind : Listed(k) \subseteq {k} \X (1 .. WorkerTasks)

\* law_hts_entry takes the first object of every pool.
LEMMA EntryForm ==
  ASSUME Types, NEW r \in Req, law_hts_entry(r)
  PROVE  /\ srv = "open" /\ ~aborted /\ active = r /\ pc[r] = "entry"
         /\ pc' = [pc EXCEPT ![r] = "setup"] /\ late' = [late EXCEPT ![r] = FALSE]
         /\ held' = [held EXCEPT ![r] = held'[r]]
         /\ \A k \in Kind :
              /\ pool[k] \in Seq(Object) /\ pool'[k] \in Seq(Object)
              /\ Len(pool'[k]) + 1 = Len(pool[k])
              /\ Listed(k) = {held'[r][k]} \cup Listed(k)'
              /\ Distinct(pool[k]) => Distinct(pool'[k]) /\ held'[r][k] \notin Listed(k)'
              /\ held'[r][k] \in {k} \X (1 .. WorkerTasks)
              /\ Listed(k)' \subseteq {k} \X (1 .. WorkerTasks)
         /\ DOMAIN pool' = Kind /\ pool' \in [Kind -> Seq(Object)]
         /\ DOMAIN held'[r] = Kind /\ held'[r] \in [Kind -> Object \cup {NULL}]
  <1>1. /\ srv = "open" /\ ~aborted /\ active = r /\ pc[r] = "entry"
        /\ pc' = [pc EXCEPT ![r] = "setup"] /\ late' = [late EXCEPT ![r] = FALSE]
        /\ \A k \in Kind : pool[k] # <<>>
        /\ held' = [held EXCEPT ![r] = [k \in Kind |-> Head(pool[k])]]
        /\ pool' = [k \in Kind |-> Tail(pool[k])]
    BY DEF law_hts_entry, Runs, Goto, PoolPop
  <1>2. held'[r] = [k \in Kind |-> Head(pool[k])]
    BY <1>1 DEF Types, TypeOK
  <1>3. ASSUME NEW k \in Kind
        PROVE  /\ pool[k] \in Seq(Object) /\ pool'[k] \in Seq(Object)
               /\ Len(pool'[k]) + 1 = Len(pool[k])
               /\ Listed(k) = {held'[r][k]} \cup Listed(k)'
               /\ Distinct(pool[k]) => Distinct(pool'[k]) /\ held'[r][k] \notin Listed(k)'
    <2>1. pool[k] \in Seq(Object) /\ pool[k] # <<>> /\ pool'[k] = Tail(pool[k])
          /\ held'[r][k] = Head(pool[k])
      BY <1>1, <1>2 DEF Types
    <2>2. pool'[k] \in Seq(Object) /\ Len(pool'[k]) + 1 = Len(pool[k])
      BY <2>1, PopList
    <2>3. /\ Elems(pool[k]) = {held'[r][k]} \cup Elems(pool'[k])
          /\ Distinct(pool[k]) => Distinct(pool'[k]) /\ held'[r][k] \notin Elems(pool'[k])
      BY <2>1, PopElems
    <2> QED BY <2>1, <2>2, <2>3, ListedElems
  <1>4. \A k \in Kind : Listed(k) \subseteq {k} \X (1 .. WorkerTasks)
    BY DEF Types, TypeOK
  <1>5. \A k \in Kind : /\ held'[r][k] \in {k} \X (1 .. WorkerTasks)
                        /\ Listed(k)' \subseteq {k} \X (1 .. WorkerTasks)
    BY <1>3, <1>4
  <1>6. pool' \in [Kind -> Seq(Object)]
    BY <1>1, <1>3
  <1>7. \A k \in Kind : held'[r][k] \in Object
    BY <1>5 DEF Object
  <1>8. held'[r] \in [Kind -> Object \cup {NULL}]
    BY <1>2, <1>7
  <1> QED BY <1>1, <1>2, <1>3, <1>5, <1>6, <1>8

\* law_hts_entry gives every object back to the pool of its kind.
LEMMA ReturnForm ==
  ASSUME Types, NEW r \in Req, law_hts_entry_return(r),
         \A k \in Kind : held[r][k] \in {k} \X (1 .. WorkerTasks)
  PROVE  /\ srv = "open" /\ ~aborted /\ active = r /\ pc[r] = "return"
         /\ pc' = [pc EXCEPT ![r] = "idle"] /\ late' = [late EXCEPT ![r] = FALSE]
         /\ held' = [held EXCEPT ![r] = Nothing]
         /\ \A k \in Kind :
              /\ pool[k] \in Seq(Object) /\ pool'[k] \in Seq(Object)
              /\ Len(pool'[k]) = Len(pool[k]) + 1
              /\ Listed(k)' = {held[r][k]} \cup Listed(k)
              /\ Distinct(pool[k]) /\ held[r][k] \notin Listed(k) => Distinct(pool'[k])
              /\ Listed(k)' \subseteq {k} \X (1 .. WorkerTasks)
         /\ DOMAIN pool' = Kind /\ pool' \in [Kind -> Seq(Object)]
  <1>1. /\ srv = "open" /\ ~aborted /\ active = r /\ pc[r] = "return"
        /\ pc' = [pc EXCEPT ![r] = "idle"] /\ late' = [late EXCEPT ![r] = FALSE]
        /\ held' = [held EXCEPT ![r] = Nothing]
        /\ pool' = [k \in Kind |-> <<held[r][k]>> \o pool[k]]
    BY DEF law_hts_entry_return, Runs, Goto, PoolPush, Returned
  <1>2. ASSUME NEW k \in Kind
        PROVE  /\ pool[k] \in Seq(Object) /\ pool'[k] \in Seq(Object)
               /\ Len(pool'[k]) = Len(pool[k]) + 1
               /\ Listed(k)' = {held[r][k]} \cup Listed(k)
               /\ Distinct(pool[k]) /\ held[r][k] \notin Listed(k) => Distinct(pool'[k])
    <2>1. pool[k] \in Seq(Object) /\ held[r][k] \in Object
          /\ pool'[k] = <<held[r][k]>> \o pool[k]
      BY <1>1 DEF Types, Object
    <2>2. pool'[k] \in Seq(Object) /\ Len(pool'[k]) = Len(pool[k]) + 1
      BY <2>1, PushList
    <2>3. /\ Elems(pool'[k]) = {held[r][k]} \cup Elems(pool[k])
          /\ Distinct(pool[k]) /\ held[r][k] \notin Elems(pool[k]) => Distinct(pool'[k])
      BY <2>1, PushElems
    <2> QED BY <2>1, <2>2, <2>3, ListedElems
  <1>3. \A k \in Kind : Listed(k) \subseteq {k} \X (1 .. WorkerTasks)
    BY DEF Types, TypeOK
  <1>4. \A k \in Kind : Listed(k)' \subseteq {k} \X (1 .. WorkerTasks)
    BY <1>2, <1>3
  <1>5. pool' \in [Kind -> Seq(Object)]
    BY <1>1, <1>2
  <1> QED BY <1>1, <1>2, <1>4, <1>5

-----------------------------------------------------------------------------
(* Type correctness *)

LEMMA TypesStep ==
  ASSUME Types, Thread, Objects, [Next]_vars
  PROVE  Types'
  <1>a. /\ srv \in {"created", "open", "closed"}
        /\ security \in {"SSL", "UNSECURED"} /\ aborted \in BOOLEAN
        /\ PoolTypes /\ DOMAIN pool = Kind
        /\ active \in Req \cup {NULL}
        /\ pc \in [Req -> Label] /\ next \in [Req -> Label]
        /\ held \in [Req -> [Kind -> Object \cup {NULL}]]
        /\ fd \in [Req -> Fd \cup {NULL}] /\ ssl \in [Req -> {"none", "live", "freed"}]
        /\ late \in [Req -> BOOLEAN] /\ open \subseteq Fd
        /\ reg \in [Fd -> Req \cup {NULL}] /\ errs \in Seq(Req)
        /\ Len(errs) <= ErrMax
    BY DEF Types, TypeOK, PoolTypes
  <1>b. ASSUME PoolTypes', errs' \in Seq(Req), Len(errs') <= ErrMax,
               srv' \in {"created", "open", "closed"},
               UNCHANGED security, aborted' \in BOOLEAN,
               active' \in Req \cup {NULL},
               pc' \in [Req -> Label], next' \in [Req -> Label],
               held' \in [Req -> [Kind -> Object \cup {NULL}]],
               fd' \in [Req -> Fd \cup {NULL}], ssl' \in [Req -> {"none", "live", "freed"}],
               late' \in [Req -> BOOLEAN], open' \subseteq Fd,
               reg' \in [Fd -> Req \cup {NULL}]
        PROVE  Types'
    <2>1. \A i \in 1 .. Len(errs') : errs'[i] \in Req
      BY <1>b
    <2>2. DOMAIN pool' = Kind
      BY <1>b DEF PoolTypes
    <2> QED BY <1>a, <1>b, <2>1, <2>2 DEF Types, TypeOK, PoolTypes
  <1>c. ASSUME UNCHANGED pool PROVE PoolTypes'
    BY <1>a, <1>c DEF PoolTypes, Listed
  <1>1. CASE Serving
    <2>1. /\ UNCHANGED <<security, active, aborted, pc, next, held, fd, ssl, late,
                        open, reg, errs, pool>>
          /\ srv' \in {"created", "open", "closed"}
      BY <1>1, <1>a DEF Serving, law_htserver_open, law_htserver_close
    <2> QED BY <1>a, <1>b, <1>c, <2>1
  <1>2. CASE UNCHANGED vars
    BY <1>2, <1>a, <1>b, <1>c DEF vars
  <1>3. ASSUME NEW r \in Req, NEW f \in Fd, Accept(r, f) PROVE Types'
    <2>1. PoolTypes'
      BY <1>3, <1>c DEF Accept
    <2>2. /\ pc' \in [Req -> Label] /\ fd' \in [Req -> Fd \cup {NULL}]
          /\ open' \subseteq Fd /\ active' \in Req \cup {NULL}
      BY <1>3, <1>a DEF Accept, Label
    <2> QED BY <1>3, <1>a, <1>b, <2>1, <2>2 DEF Accept
  <1>4. ASSUME NEW r \in Req, Inside(r) PROVE Types'
    <2>1. Moves(r, pc'[r], next'[r])
      BY <1>4, InsideMoves
    <2>2. PoolTypes' /\ pc' \in [Req -> Label] /\ active' \in Req \cup {NULL}
      BY <2>1, <1>a, <1>c DEF Moves
    <2>3. next' \in [Req -> Label]
      BY <2>1, <1>a DEF Moves, Label
    <2>4. errs' \in Seq(Req) /\ Len(errs') <= ErrMax
      <3>1. CASE errs' = errs
        BY <3>1, <1>a
      <3>2. CASE Own(r, errs')
        BY <3>2, OwnForm, Params DEF Own
      <3>3. CASE errs' = law_err_push(errs, r)
        BY <3>3, <1>a, PushForm
      <3> QED BY <1>4, <3>1, <3>2, <3>3, InsideErrors
    <2> QED BY <1>4, <1>a, <1>b, <2>1, <2>2, <2>3, <2>4, InsideData DEF Moves
  <1>5. ASSUME NEW r \in Req, Resume(r) \/ Expire(r) \/ Asserts(r) PROVE Types'
    <2>1. PoolTypes'
      BY <1>5, <1>c DEF Resume, Expire, Asserts, law_hts_entry_assert,
               law_task_push_event_assert
    <2>2. late' \in [Req -> BOOLEAN] /\ active' \in Req \cup {NULL} /\ aborted' \in BOOLEAN
      BY <1>5, <1>a DEF Resume, Expire, Asserts, law_hts_entry_assert,
               law_task_push_event_assert
    <2> QED BY <1>5, <1>a, <1>b, <2>1, <2>2 DEF Resume, Expire, Asserts, law_hts_entry_assert,
               law_task_push_event_assert
  <1>6. ASSUME NEW r \in Req, law_hts_entry(r) PROVE Types'
    <2>1. PoolTypes'
      BY <1>6, EntryForm DEF PoolTypes
    <2>a. /\ pc' = [pc EXCEPT ![r] = "setup"] /\ late' = [late EXCEPT ![r] = FALSE]
          /\ "setup" \in Label
      BY <1>6, EntryForm DEF Label
    <2>2. pc' \in [Req -> Label] /\ late' \in [Req -> BOOLEAN]
      BY <2>a, <1>a
    <2>3. held' \in [Req -> [Kind -> Object \cup {NULL}]]
      BY <1>6, <1>a, EntryForm
    <2> QED BY <1>6, <1>a, <1>b, <2>1, <2>2, <2>3 DEF law_hts_entry
  <1>7. ASSUME NEW r \in Req, law_hts_entry_return(r) PROVE Types'
    <2>0. pc[r] = "return"
      BY <1>7 DEF law_hts_entry_return, Runs
    <2>a. \A k \in Kind : held[r][k] \in {k} \X (1 .. WorkerTasks)
      BY <2>0 DEF Objects
    <2>1. PoolTypes'
      BY <1>7, <2>a, ReturnForm DEF PoolTypes
    <2>b. /\ pc' = [pc EXCEPT ![r] = "idle"] /\ late' = [late EXCEPT ![r] = FALSE]
          /\ held' = [held EXCEPT ![r] = Nothing] /\ "idle" \in Label
      BY <1>7, <2>a, ReturnForm DEF Label
    <2>2. pc' \in [Req -> Label] /\ late' \in [Req -> BOOLEAN]
      BY <2>b, <1>a
    <2>3. Nothing \in [Kind -> Object \cup {NULL}]
      BY DEF Nothing
    <2>4. held' \in [Req -> [Kind -> Object \cup {NULL}]]
      BY <2>b, <2>3, <1>a
    <2>5. /\ fd' \in [Req -> Fd \cup {NULL}] /\ ssl' \in [Req -> {"none", "live", "freed"}]
          /\ active' \in Req \cup {NULL}
      BY <1>7, <1>a DEF law_hts_entry_return
    <2> QED BY <1>7, <1>a, <1>b, <2>1, <2>2, <2>4, <2>5 DEF law_hts_entry_return
  <1> QED BY <1>1, <1>2, <1>3, <1>4, <1>5, <1>6, <1>7, NextCases

-----------------------------------------------------------------------------
(* The thread and its tasks *)

LEMMA ThreadStep ==
  ASSUME Types, Thread, [Next]_vars
  PROVE  Thread'
  <1>a. /\ pc \in [Req -> Label] /\ next \in [Req -> Label]
        /\ active \in Req \cup {NULL} /\ NULL \notin Req
    BY Params DEF Types, TypeOK
  <1>b. /\ \A q \in Req : pc[q] \notin Waiting => active = q
        /\ active # NULL => pc[active] # "idle"
        /\ srv # "open" => \A q \in Req : pc[q] = "idle"
        /\ \A q \in Req : next[q] \in {"close", "delete", "shutdown", "free"}
    BY DEF Thread
  <1>1. CASE Serving
    <2>1. UNCHANGED <<active, pc, next>>
      BY <1>1 DEF Serving, law_htserver_open, law_htserver_close
    <2>2. srv' # "open" => \A q \in Req : pc[q] = "idle"
      BY <1>1, <1>b DEF Serving, law_htserver_open, law_htserver_close
    <2> QED BY <2>1, <2>2 DEF Thread
  <1>2. CASE UNCHANGED vars
    BY <1>2 DEF vars, Thread
  <1>3. ASSUME NEW r \in Req, NEW f \in Fd, Accept(r, f) PROVE Thread'
    <2>1. /\ srv' = "open" /\ active = NULL /\ active' = r /\ UNCHANGED next
          /\ pc' = [pc EXCEPT ![r] = "entry"]
      BY <1>3 DEF Accept
    <2>2. pc'[r] = "entry" /\ \A q \in Req : q # r => pc'[q] = pc[q]
      BY <1>a, <2>1
    <2> QED BY <1>a, <1>b, <2>1, <2>2 DEF Thread
  <1>4. ASSUME NEW r \in Req, Inside(r) PROVE Thread'
    <2>1. Moves(r, pc'[r], next'[r])
      BY <1>4, InsideMoves
    <2>2. /\ \A q \in Req : q # r => pc'[q] = pc[q] /\ next'[q] = next[q]
          /\ active = r /\ active' \in {r, NULL} /\ srv' = "open"
          /\ next'[r] \in {"close", "delete", "shutdown", "free"}
          /\ pc'[r] # "idle" /\ (active' = NULL => pc'[r] \in Waiting)
      BY <2>1, <1>a DEF Moves
    <2> QED BY <1>a, <1>b, <2>2 DEF Thread
  <1>5. ASSUME NEW r \in Req, Resume(r) \/ law_task_push_event_assert(r) PROVE Thread'
    <2>1. srv = "open" /\ active = NULL /\ pc[r] # "idle" /\ active' = r
          /\ UNCHANGED <<pc, next, srv>>
      BY <1>5 DEF Resume, law_task_push_event_assert, Syncing
    <2> QED BY <1>a, <1>b, <2>1 DEF Thread
  <1>6. ASSUME NEW r \in Req, Expire(r) \/ law_hts_entry_assert(r) PROVE Thread'
    BY <1>6, <1>b DEF Expire, law_hts_entry_assert, Thread
  <1>7. ASSUME NEW r \in Req, law_hts_entry(r) PROVE Thread'
    <2>1. /\ active = r /\ UNCHANGED <<srv, next, active>> /\ srv = "open"
          /\ pc' = [pc EXCEPT ![r] = "setup"]
      BY <1>7 DEF law_hts_entry, Runs, Goto
    <2>2. pc'[r] = "setup" /\ \A q \in Req : q # r => pc'[q] = pc[q]
      BY <1>a, <2>1
    <2> QED BY <1>a, <1>b, <2>1, <2>2 DEF Thread
  <1>8. ASSUME NEW r \in Req, law_hts_entry_return(r) PROVE Thread'
    <2>1. /\ active = r /\ UNCHANGED <<srv, next>> /\ srv = "open" /\ active' = NULL
          /\ pc' = [pc EXCEPT ![r] = "idle"]
      BY <1>8 DEF law_hts_entry_return, Runs, Goto
    <2>2. pc'[r] = "idle" /\ \A q \in Req : q # r => pc'[q] = pc[q]
      BY <1>a, <2>1
    <2> QED BY <1>a, <1>b, <2>1, <2>2 DEF Thread, Waiting
  <1> QED BY <1>1, <1>2, <1>3, <1>4, <1>5, <1>6, <1>7, <1>8, NextCases DEF Asserts

\* Where a request is in the course of the actions of Inside: whether its
\* descriptor is registered, and whether it may still push an error.
Registered == Label \ {"idle", "entry", "setup", "close", "return"}
PastLabel == {"close", "return", "idle", "entry", "setup"}

LEMMA InsideGoing ==
  ASSUME Types, Thread, NEW r \in Req, Inside(r)
  PROVE  /\ \/ law_hts_entry_add(r) \/ law_hts_entry_del(r) \/ law_hts_entry_close(r)
            \/ /\ UNCHANGED <<open, reg>> /\ pc'[r] # "return"
               /\ Going(r)' \in Registered => Going(r) \in Registered
         /\ Going(r) \in PastLabel =>
              Going(r)' \in PastLabel \/ law_hts_entry_add(r) \/ law_hts_entry_add_fails(r)
         /\ pc'[r] = "on_error" =>
              (Own(r, errs') /\ errs' # <<>>) \/ law_hts_entry_del_fails(r)
  <1>a. /\ pc \in [Req -> Label] /\ next \in [Req -> Label]
        /\ next[r] \in {"close", "delete", "shutdown", "free"}
    BY DEF Types, TypeOK, Thread
  <1>b. Own(r, law_err_push(<<>>, r)) /\ law_err_push(<<>>, r) # <<>>
    <2>1. Own(r, <<>>) /\ Len(<<>>) = 0 /\ Len(<<>>) < 2
      BY OwnForm
    <2>2. Own(r, law_err_push(<<>>, r)) /\ Len(law_err_push(<<>>, r)) = Len(<<>>) + 1
      BY <2>1, OwnForm
    <2>3. Len(law_err_push(<<>>, r)) = 1
      BY <2>1, <2>2
    <2> QED BY <2>2, <2>3
  <1> USE DEF Going, Runs, Goto, on_error, Registered, PastLabel, Label
  <1>1. CASE law_hts_entry_add(r) \/ law_hts_entry_del(r)
    BY <1>a, <1>1 DEF law_hts_entry_add, law_hts_entry_del
  <1>2. CASE law_hts_entry_close(r)
    BY <1>a, <1>2 DEF law_hts_entry_close
  <1>3. CASE law_hts_entry_add_fails(r)
    BY <1>a, <1>b, <1>3 DEF law_hts_entry_add_fails, law_err_clear, AddFailed
  <1>4. CASE law_htc_ssl_accept(r) \/ law_htc_ssl_accept_fails(r)
    BY <1>a, <1>b, <1>4
       DEF law_htc_ssl_accept, law_htc_ssl_accept_fails, law_err_clear, AcceptFailed
  <1>5. CASE \E l \in {"reqline", "headers", "shutdown"} : law_sync_wait(r, l)
    BY <1>a, <1>5 DEF law_sync_wait
  <1>6. CASE law_hts_read(r, "reqline", "headers") \/ law_hts_read(r, "headers", "on_accept")
    BY <1>a, <1>6 DEF law_hts_read
  <1>7. ASSUME NEW l \in {"reqline", "headers"}, NEW c \in Results, law_hts_read_fails(r, l, c)
        PROVE  /\ UNCHANGED <<open, reg>> /\ pc'[r] = "on_error"
               /\ Going(r) \in Registered \ PastLabel
               /\ Own(r, errs') /\ errs' # <<>>
    BY <1>a, <1>7, CalledForm DEF law_hts_read_fails
  <1>8. CASE on_accept_wait(r) \/ \E ok \in BOOLEAN : on_accept(r, ok)
    BY <1>a, <1>8, AfterStreamForm DEF on_accept_wait, on_accept
  <1>9. CASE on_error_read(r)
    BY <1>a, <1>9 DEF on_error_read
  <1>10. CASE on_error_return(r)
    BY <1>a, <1>10 DEF on_error_return
  <1>11. CASE law_htc_ssl_shutdown(r)
    BY <1>a, <1>11 DEF law_htc_ssl_shutdown
  <1>12. ASSUME NEW c \in {"WANT", "OTHER"}, law_htc_ssl_shutdown_fails(r, c)
         PROVE  /\ UNCHANGED <<open, reg>> /\ pc'[r] = "on_error"
                /\ Going(r) \in Registered \ PastLabel
                /\ Own(r, errs') /\ errs' # <<>>
    BY <1>a, <1>12, CalledForm DEF law_htc_ssl_shutdown_fails
  <1>13. CASE law_htc_ssl_free(r) \/ law_hts_entry_del_fails(r)
    BY <1>a, <1>13 DEF law_htc_ssl_free, law_hts_entry_del_fails
  <1> HIDE DEF Going, Runs, Goto, on_error, Registered, PastLabel, Label
  <1>14. "on_error" # "return" /\ \A l \in Registered \ PastLabel : l \in Registered
                                                                   /\ l \notin PastLabel
    OBVIOUS
  <1> QED BY <1>1, <1>2, <1>3, <1>4, <1>5, <1>6, <1>7, <1>8, <1>9, <1>10, <1>11, <1>12,
             <1>13, <1>14 DEF Inside

-----------------------------------------------------------------------------
(* Sockets *)

\* A request whose label has not changed goes on as before.
LEMMA GoingSame ==
  ASSUME NEW q, pc'[q] = pc[q], next'[q] = next[q] PROVE Going(q)' = Going(q)
  BY DEF Going

LEMMA GoingForm ==
  ASSUME Types, Thread, NEW q \in Req
  PROVE  /\ Going(q) \in Label
         /\ Going(q) \in Registered => pc[q] \notin {"idle", "entry", "setup", "return"}
         /\ pc[q] \notin {"on_error", "handling"} => Going(q) = pc[q]
         /\ Going(q) \in {"idle", "entry", "setup", "return"} => pc[q] = Going(q)
  BY DEF Types, TypeOK, Thread, Going, Registered, Label

\* The open descriptors.
Owners == {q \in Req : pc[q] \notin {"idle", "return"}}

LEMMA SocketsForm ==
  ASSUME Types
  PROVE  Sockets <=>
         /\ open = {fd[r] : r \in Owners}
         /\ \A r, q \in Req : (r # q /\ fd[r] # NULL /\ pc[r] # "return" /\ pc[q] # "return")
                                => fd[r] # fd[q]
         /\ \A f \in Fd : reg[f] # NULL => f \in open /\ fd[reg[f]] = f
         /\ \A r \in Req : pc[r] = "idle" <=> fd[r] = NULL
         /\ \A f \in Fd : reg[f] # NULL => pc[reg[f]] \notin {"idle", "return"}
         /\ \A r \in Req : Going(r) \in Registered => reg[fd[r]] = r
  <1>1. ASSUME NEW r \in Req
        PROVE  Going(r) \notin {"idle", "entry", "setup", "close", "return"}
                 <=> Going(r) \in Registered
    <2>1. Going(r) \in Label
      BY DEF Types, TypeOK, Going
    <2> QED BY <2>1 DEF Registered
  <1> QED BY <1>1 DEF Sockets, SocketsOwned, Owners

LEMMA SocketsStep ==
  ASSUME Types, Types', Thread, Sockets, [Next]_vars
  PROVE  Sockets'
  <1>a. /\ pc \in [Req -> Label] /\ next \in [Req -> Label]
        /\ fd \in [Req -> Fd \cup {NULL}] /\ open \subseteq Fd
        /\ reg \in [Fd -> Req \cup {NULL}] /\ NULL \notin Req /\ NULL \notin Fd
    BY Params DEF Types, TypeOK
  <1>b. /\ open = {fd[r] : r \in Owners}
        /\ \A r, q \in Req : (r # q /\ fd[r] # NULL /\ pc[r] # "return" /\ pc[q] # "return")
                               => fd[r] # fd[q]
        /\ \A f \in Fd : reg[f] # NULL => f \in open /\ fd[reg[f]] = f
        /\ \A r \in Req : pc[r] = "idle" <=> fd[r] = NULL
        /\ \A f \in Fd : reg[f] # NULL => pc[reg[f]] \notin {"idle", "return"}
        /\ \A r \in Req : Going(r) \in Registered => reg[fd[r]] = r
    BY SocketsForm
  <1>c. ASSUME open' = {fd'[r] : r \in Owners'},
               \A r, q \in Req : (r # q /\ fd'[r] # NULL /\ pc'[r] # "return"
                                  /\ pc'[q] # "return") => fd'[r] # fd'[q],
               \A f \in Fd : reg'[f] # NULL => f \in open' /\ fd'[reg'[f]] = f,
               \A r \in Req : pc'[r] = "idle" <=> fd'[r] = NULL,
               \A f \in Fd : reg'[f] # NULL => pc'[reg'[f]] \notin {"idle", "return"},
               \A r \in Req : Going(r)' \in Registered => reg'[fd'[r]] = r
        PROVE  Sockets'
    <2>1. \A r \in Req : Going(r)' \notin {"idle", "entry", "setup", "close", "return"}
                          <=> Going(r)' \in Registered
      <3>1. \A r \in Req : Going(r)' \in Label
        BY DEF Types, TypeOK, Going
      <3> QED BY <3>1 DEF Registered
    <2>2. SocketsOwned'
      BY <1>c DEF SocketsOwned, Owners
    <2> QED BY <1>c, <2>1, <2>2 DEF Sockets
  <1>1. CASE UNCHANGED <<pc, next, fd, open, reg>>
    BY <1>1, <1>b, <1>c DEF Owners, Going
  <1>2. CASE Serving
    BY <1>2, <1>1 DEF Serving, law_htserver_open, law_htserver_close
  <1>3. CASE UNCHANGED vars
    BY <1>3, <1>1 DEF vars
  <1>4. ASSUME NEW r \in Req, Resume(r) \/ Expire(r) \/ Asserts(r) PROVE Sockets'
    BY <1>4, <1>1 DEF Resume, Expire, Asserts, law_hts_entry_assert,
               law_task_push_event_assert
  <1>5. ASSUME NEW r \in Req, NEW f \in Fd, Accept(r, f) PROVE Sockets'
    <2>1. /\ pc[r] = "idle" /\ f \notin open /\ open' = open \cup {f}
          /\ pc' = [pc EXCEPT ![r] = "entry"] /\ fd' = [fd EXCEPT ![r] = f]
          /\ UNCHANGED <<next, reg>>
      BY <1>5 DEF Accept
    <2>2. /\ pc'[r] = "entry" /\ fd'[r] = f /\ f # NULL
          /\ \A q \in Req : q # r => pc'[q] = pc[q] /\ fd'[q] = fd[q]
      BY <1>a, <2>1
    <2>3. Owners' = Owners \cup {r} /\ r \notin Owners
      BY <2>1, <2>2 DEF Owners
    <2>4. open' = {fd'[q] : q \in Owners'}
      BY <1>b, <2>1, <2>2, <2>3 DEF Owners
    <2>5. \A q \in Req : q # r /\ pc[q] # "return" => fd[q] # f
      <3>1. \A q \in Req : pc[q] \notin {"idle", "return"} => fd[q] \in open
        BY <1>b DEF Owners
      <3> QED BY <1>b, <2>1, <2>2, <3>1
    <2>6. \A g \in Fd : reg'[g] # NULL => /\ g \in open' /\ reg[g] # r /\ reg[g] \in Req
                                          /\ fd'[reg'[g]] = g
      BY <1>a, <1>b, <2>1, <2>2
    <2>7. Going(r)' = "entry" /\ \A q \in Req : q # r => Going(q)' = Going(q)
      BY <2>1, <2>2 DEF Going
    <2>8. \A q \in Req : Going(q)' \in Registered => reg'[fd'[q]] = q
      BY <1>b, <2>1, <2>2, <2>7 DEF Registered
    <2> QED BY <1>b, <1>c, <2>1, <2>2, <2>4, <2>5, <2>6, <2>8
  <1>6. ASSUME NEW r \in Req, Inside(r) PROVE Sockets'
    <2>1. Moves(r, pc'[r], next'[r])
      BY <1>6, InsideMoves
    <2>2. /\ UNCHANGED fd /\ pc[r] \notin {"idle", "return"} /\ pc'[r] # "idle"
          /\ \A q \in Req : q # r => pc'[q] = pc[q] /\ Going(q)' = Going(q)
      BY <2>1, <1>a, GoingSame DEF Moves
    <2>3. /\ fd[r] \in Fd /\ fd[r] \in open /\ r \in Owners
          /\ \A q \in Req : q # r /\ pc[q] # "return" => fd[q] # fd[r]
      BY <1>a, <1>b, <2>2 DEF Owners
    <2>4. CASE UNCHANGED <<open, reg>> /\ pc'[r] # "return"
               /\ (Going(r)' \in Registered => Going(r) \in Registered)
      <3>1. Owners' = Owners
        BY <2>2, <2>4 DEF Owners
      <3>2. \A q \in Req : Going(q)' \in Registered => reg'[fd'[q]] = q
        BY <1>b, <2>2, <2>4
      <3> QED BY <1>a, <1>b, <1>c, <2>2, <2>4, <3>1, <3>2
    <2>5. CASE law_hts_entry_add(r)
      <3>1. /\ reg' = [reg EXCEPT ![fd[r]] = r] /\ UNCHANGED open /\ pc'[r] # "return"
        BY <2>5, <1>a DEF law_hts_entry_add, Goto
      <3>2. reg'[fd[r]] = r /\ \A g \in Fd : g # fd[r] => reg'[g] = reg[g]
        BY <3>1, <2>3, <1>a
      <3>3. Owners' = Owners
        BY <2>2, <3>1 DEF Owners
      <3>4. ASSUME NEW q \in Req, Going(q)' \in Registered PROVE reg'[fd'[q]] = q
        <4>1. CASE q = r
          BY <4>1, <3>2, <2>2
        <4>2. CASE q # r
          <5>1. Going(q) \in Registered
            BY <3>4, <4>2, <2>2
          <5>2. pc[q] \notin {"idle", "return"} /\ reg[fd[q]] = q
            BY <5>1, <1>b, GoingForm
          <5>3. fd[q] \in Fd /\ fd[q] # fd[r]
            BY <5>2, <4>2, <2>3, <1>a, <1>b
          <5> QED BY <5>2, <5>3, <3>2, <2>2
        <4> QED BY <4>1, <4>2
      <3>5. \A g \in Fd : reg'[g] # NULL => g \in open' /\ fd'[reg'[g]] = g
                                           /\ pc'[reg'[g]] \notin {"idle", "return"}
        BY <1>a, <1>b, <2>2, <2>3, <3>1, <3>2
      <3> QED BY <1>b, <1>c, <2>2, <3>1, <3>3, <3>4, <3>5
    <2>6. CASE law_hts_entry_del(r) \/ law_hts_entry_close(r)
      <3>1. /\ reg' = [reg EXCEPT ![fd[r]] = NULL]
            /\ \/ UNCHANGED open /\ pc'[r] = "close"
               \/ open' = open \ {fd[r]} /\ pc'[r] = "return"
        BY <2>6, <1>a DEF law_hts_entry_del, law_hts_entry_close, Goto
      <3>2. reg'[fd[r]] = NULL /\ \A g \in Fd : g # fd[r] => reg'[g] = reg[g]
        BY <3>1, <2>3, <1>a
      <3>3. Going(r)' \notin Registered
        BY <3>1 DEF Going, Registered
      <3>4. ASSUME NEW q \in Req, Going(q)' \in Registered PROVE reg'[fd'[q]] = q
        <4>1. q # r /\ Going(q) \in Registered
          BY <3>3, <3>4, <2>2
        <4>2. pc[q] \notin {"idle", "return"} /\ reg[fd[q]] = q
          BY <4>1, <1>b, GoingForm
        <4>3. fd[q] \in Fd /\ fd[q] # fd[r]
          BY <4>1, <4>2, <2>3, <1>a, <1>b
        <4> QED BY <4>2, <4>3, <3>2, <2>2
      <3>5. open' = {fd'[q] : q \in Owners'}
        <4>1. CASE UNCHANGED open /\ pc'[r] = "close"
          <5>1. Owners' = Owners
            BY <4>1, <2>2 DEF Owners
          <5> QED BY <4>1, <5>1, <1>b, <2>2
        <4>2. CASE open' = open \ {fd[r]} /\ pc'[r] = "return"
          <5>1. Owners' = Owners \ {r}
            BY <4>2, <2>2 DEF Owners
          <5>2. \A q \in Owners : q # r => fd[q] # fd[r]
            BY <2>3 DEF Owners
          <5> QED BY <4>2, <5>1, <5>2, <1>b, <2>2
        <4> QED BY <3>1, <4>1, <4>2
      <3>6. \A g \in Fd : reg'[g] # NULL => g \in open' /\ fd'[reg'[g]] = g
                                           /\ pc'[reg'[g]] \notin {"idle", "return"}
        <4>1. SUFFICES ASSUME NEW g \in Fd, reg'[g] # NULL
                       PROVE  g \in open' /\ fd'[reg'[g]] = g
                              /\ pc'[reg'[g]] \notin {"idle", "return"}
          OBVIOUS
        <4>2. g # fd[r] /\ reg'[g] = reg[g]
          BY <3>2, <4>1
        <4>3. reg[g] \in Req /\ reg[g] # r /\ g \in open /\ fd[reg[g]] = g
              /\ pc[reg[g]] \notin {"idle", "return"}
          BY <4>1, <4>2, <1>a, <1>b
        <4> QED BY <4>2, <4>3, <3>1, <2>2
      <3> QED BY <1>b, <1>c, <2>2, <3>1, <3>4, <3>5, <3>6
    <2> QED BY <1>6, <2>4, <2>5, <2>6, InsideGoing
  <1>7. ASSUME NEW r \in Req, law_hts_entry(r) PROVE Sockets'
    <2>1. /\ pc[r] = "entry" /\ pc' = [pc EXCEPT ![r] = "setup"]
          /\ UNCHANGED <<next, fd, open, reg>>
      BY <1>7 DEF law_hts_entry, Runs, Goto
    <2>2. pc'[r] = "setup" /\ \A q \in Req : q # r => pc'[q] = pc[q] /\ Going(q)' = Going(q)
      BY <1>a, <2>1, GoingSame
    <2>3. Owners' = Owners
      BY <2>1, <2>2 DEF Owners
    <2>4. Going(r)' \notin Registered
      BY <2>2 DEF Going, Registered
    <2> QED BY <1>a, <1>b, <1>c, <2>1, <2>2, <2>3, <2>4
  <1>8. ASSUME NEW r \in Req, law_hts_entry_return(r) PROVE Sockets'
    <2>1. /\ pc[r] = "return" /\ pc' = [pc EXCEPT ![r] = "idle"]
          /\ fd' = [fd EXCEPT ![r] = NULL] /\ UNCHANGED <<next, open, reg>>
      BY <1>8 DEF law_hts_entry_return, Runs, Goto
    <2>2. /\ pc'[r] = "idle" /\ fd'[r] = NULL
          /\ \A q \in Req : q # r => /\ pc'[q] = pc[q] /\ fd'[q] = fd[q]
                                     /\ Going(q)' = Going(q)
      BY <1>a, <2>1, GoingSame
    <2>3. Owners' = Owners /\ r \notin Owners
      BY <2>1, <2>2 DEF Owners
    <2>4. Going(r)' \notin Registered
      BY <2>2 DEF Going, Registered
    <2>5. open' = {fd'[q] : q \in Owners'}
      BY <1>b, <2>1, <2>2, <2>3 DEF Owners
    <2>6. \A g \in Fd : reg[g] # NULL => reg[g] \in Req /\ reg[g] # r
      BY <1>a, <1>b, <2>1
    <2> QED BY <1>a, <1>b, <1>c, <2>1, <2>2, <2>4, <2>5, <2>6
  <1> QED BY <1>2, <1>3, <1>4, <1>5, <1>6, <1>7, <1>8, NextCases

-----------------------------------------------------------------------------
(* The SSL object *)

SslOf(r) ==
  /\ Going(r) \in {"accept", "shutdown", "free"} => security = "SSL"
  /\ security = "SSL" /\ Going(r) \in {"reqline", "headers", "on_accept", "accepted",
                                       "shutdown", "free"} => ssl[r] = "live"
  /\ security # "SSL" => ssl[r] # "live"
  /\ Going(r) \in {"idle", "entry", "setup", "accept", "delete", "close", "return"}
       => ssl[r] # "live"

LEMMA InsideSsl ==
  ASSUME Types, Thread, NEW r \in Req, SslOf(r), Inside(r)
  PROVE  /\ SslOf(r)'
         /\ \A q \in Req : q # r => ssl'[q] = ssl[q]
  <1>a. /\ pc \in [Req -> Label] /\ next \in [Req -> Label]
        /\ ssl \in [Req -> {"none", "live", "freed"}]
        /\ next[r] \in {"close", "delete", "shutdown", "free"}
        /\ UNCHANGED security
    BY InsideMoves DEF Types, TypeOK, Thread, Moves
  <1> USE DEF SslOf, Going, Runs, Goto, on_error
  <1>1. CASE law_hts_entry_add(r)
    BY <1>a, <1>1 DEF law_hts_entry_add
  <1>2. CASE law_hts_entry_add_fails(r)
    BY <1>a, <1>2 DEF law_hts_entry_add_fails, AddFailed
  <1>3. CASE law_htc_ssl_accept(r)
    BY <1>a, <1>3 DEF law_htc_ssl_accept
  <1>4. CASE law_htc_ssl_accept_fails(r)
    BY <1>a, <1>4 DEF law_htc_ssl_accept_fails, AcceptFailed
  <1>5. CASE \E l \in {"reqline", "headers", "shutdown"} : law_sync_wait(r, l)
    BY <1>a, <1>5 DEF law_sync_wait
  <1>6. CASE law_hts_read(r, "reqline", "headers") \/ law_hts_read(r, "headers", "on_accept")
    BY <1>a, <1>6 DEF law_hts_read
  <1>7. CASE \E l \in {"reqline", "headers"}, c \in Results : law_hts_read_fails(r, l, c)
    BY <1>a, <1>7, AfterStreamForm DEF law_hts_read_fails
  <1>8. CASE on_accept_wait(r) \/ \E ok \in BOOLEAN : on_accept(r, ok)
    BY <1>a, <1>8, AfterStreamForm DEF on_accept_wait, on_accept
  <1>9. CASE on_error_read(r) \/ on_error_return(r)
    BY <1>a, <1>9 DEF on_error_read, on_error_return
  <1>10. CASE \/ law_htc_ssl_shutdown(r)
              \/ \E c \in {"WANT", "OTHER"} : law_htc_ssl_shutdown_fails(r, c)
    BY <1>a, <1>10 DEF law_htc_ssl_shutdown, law_htc_ssl_shutdown_fails
  <1>11. CASE law_htc_ssl_free(r)
    BY <1>a, <1>11 DEF law_htc_ssl_free
  <1>12. CASE law_hts_entry_del(r) \/ law_hts_entry_del_fails(r) \/ law_hts_entry_close(r)
    BY <1>a, <1>12 DEF law_hts_entry_del, law_hts_entry_del_fails, law_hts_entry_close
  <1> QED BY <1>1, <1>2, <1>3, <1>4, <1>5, <1>6, <1>7, <1>8, <1>9, <1>10, <1>11, <1>12
             DEF Inside

LEMMA SslStep ==
  ASSUME Types, Thread, Ssl, [Next]_vars
  PROVE  Ssl'
  <1>a. /\ pc \in [Req -> Label] /\ next \in [Req -> Label]
        /\ ssl \in [Req -> {"none", "live", "freed"}]
    BY DEF Types, TypeOK
  <1>b. \A q \in Req : SslOf(q)
    BY DEF Ssl, SslOf
  <1>c. ASSUME \A q \in Req : SslOf(q)' PROVE Ssl'
    BY <1>c DEF Ssl, SslOf
  <1>d. ASSUME NEW q \in Req, UNCHANGED security, pc'[q] = pc[q], next'[q] = next[q],
               ssl'[q] = ssl[q]
        PROVE  SslOf(q)'
    BY <1>b, <1>d, GoingSame DEF SslOf
  <1>1. CASE UNCHANGED <<pc, next, ssl, security>>
    BY <1>1, <1>c, <1>d
  <1>2. CASE Serving
    BY <1>2, <1>1 DEF Serving, law_htserver_open, law_htserver_close
  <1>3. CASE UNCHANGED vars
    BY <1>3, <1>1 DEF vars
  <1>4. ASSUME NEW r \in Req, Resume(r) \/ Expire(r) \/ Asserts(r) PROVE Ssl'
    BY <1>4, <1>1 DEF Resume, Expire, Asserts, law_hts_entry_assert,
               law_task_push_event_assert
  <1>5. ASSUME NEW r \in Req, Inside(r) PROVE Ssl'
    <2>1. Moves(r, pc'[r], next'[r])
      BY <1>5, InsideMoves
    <2>2. SslOf(r)' /\ \A q \in Req : q # r => ssl'[q] = ssl[q]
      BY <1>5, <1>b, InsideSsl
    <2>3. \A q \in Req : q # r => pc'[q] = pc[q] /\ next'[q] = next[q]
      BY <2>1, <1>a DEF Moves
    <2>4. UNCHANGED security
      BY <2>1 DEF Moves
    <2> QED BY <1>c, <1>d, <2>2, <2>3, <2>4
  <1>6. ASSUME NEW r \in Req, (\E f \in Fd : Accept(r, f)) \/ law_hts_entry(r) PROVE Ssl'
    <2>1. /\ pc[r] \in {"idle", "entry"} /\ UNCHANGED <<next, ssl, security>>
          /\ \E l \in {"entry", "setup"} : pc' = [pc EXCEPT ![r] = l]
      BY <1>6 DEF Accept, law_hts_entry, Runs, Goto
    <2>2. /\ pc'[r] \in {"entry", "setup"} /\ \A q \in Req : q # r => pc'[q] = pc[q]
      BY <2>1, <1>a
    <2>3. SslOf(r)'
      BY <1>b, <2>1, <2>2 DEF SslOf, Going
    <2> QED BY <1>c, <1>d, <2>1, <2>2, <2>3
  <1>7. ASSUME NEW r \in Req, law_hts_entry_return(r) PROVE Ssl'
    <2>1. /\ pc' = [pc EXCEPT ![r] = "idle"] /\ ssl' = [ssl EXCEPT ![r] = "none"]
          /\ UNCHANGED <<next, security>>
      BY <1>7 DEF law_hts_entry_return, Runs, Goto
    <2>2. /\ pc'[r] = "idle" /\ ssl'[r] = "none"
          /\ \A q \in Req : q # r => pc'[q] = pc[q] /\ ssl'[q] = ssl[q]
      BY <2>1, <1>a
    <2>3. SslOf(r)'
      BY <2>2 DEF SslOf, Going
    <2> QED BY <1>c, <1>d, <2>1, <2>2, <2>3
  <1> QED BY <1>2, <1>3, <1>4, <1>5, <1>6, <1>7, NextCases

-----------------------------------------------------------------------------
(* The error stack *)

LEMMA OwnEntries ==
  ASSUME NEW r \in Req, NEW e, Own(r, e), e # <<>>
  PROVE  e[Len(e)] = r /\ \A i \in 1 .. Len(e) : e[i] = r
  <1>1. e \in Seq({r}) /\ Len(e) \in Nat /\ Len(e) # 0
    BY DEF Own
  <1>2. Len(e) \in 1 .. Len(e)
    BY <1>1
  <1> QED BY <1>1, <1>2

LEMMA PastForm ==
  /\ Past = {q \in Req : Going(q) \in PastLabel}
  /\ IsFiniteSet(Past) /\ Cardinality(Past) \in Nat
  <1>1. Past = {q \in Req : Going(q) \in PastLabel} /\ Past \subseteq Req
    BY DEF Past, PastLabel
  <1> QED BY <1>1, Params, FS_Subset, FS_CardinalityType

LEMMA PastFormNext ==
  /\ Past' = {q \in Req : Going(q)' \in PastLabel}
  /\ IsFiniteSet(Past') /\ Cardinality(Past') \in Nat
  <1>1. Past' = {q \in Req : Going(q)' \in PastLabel} /\ Past' \subseteq Req
    BY DEF Past, PastLabel
  <1> QED BY <1>1, Params, FS_Subset, FS_CardinalityType

\* While the requests that are past their last push only grow in number,
\* the bound on the error stack is kept.
LEMMA PastGrows ==
  ASSUME Past \subseteq Past', Len(errs) <= 2 + Cardinality(Past), Len(errs) \in Nat
  PROVE  Len(errs) <= 2 + Cardinality(Past')
  <1>1. Cardinality(Past) <= Cardinality(Past')
    BY PastFormNext, FS_Subset
  <1> QED BY <1>1, PastForm, PastFormNext

\* LAW_EV_DEL has failed: the stack has room for the error.
LEMMA DelFailsRoom ==
  ASSUME NEW r \in Req, r \notin Past, Len(errs) <= 2 + Cardinality(Past), Len(errs) \in Nat
  PROVE  Len(errs) < ErrMax
  <1>1. Past \subseteq Req \ {r}
    BY DEF Past
  <1>2. IsFiniteSet(Req \ {r}) /\ Cardinality(Req \ {r}) = Cardinality(Req) - 1
    BY Params, FS_RemoveElement
  <1>3. Cardinality(Past) <= Cardinality(Req \ {r})
    BY <1>1, <1>2, FS_Subset
  <1> QED BY <1>2, <1>3, PastForm, Params

LEMMA ErrorsStep ==
  ASSUME Types, Types', Thread, Sockets, Errors, [Next]_vars
  PROVE  Errors'
  <1>a. /\ pc \in [Req -> Label] /\ next \in [Req -> Label] /\ NULL \notin Req
        /\ errs \in Seq(Req) /\ Len(errs) \in Nat
    BY Params DEF Types, TypeOK
  <1>b. /\ Len(errs) <= 2 + Cardinality(Past)
        /\ \A q \in Req : pc[q] = "on_error" =>
             /\ errs # <<>> /\ errs[Len(errs)] = q
             /\ \/ \A i \in 1 .. Len(errs) : errs[i] = q
                \/ next[q] = "close" /\ reg[fd[q]] = q
    BY DEF Errors, ErrorsAreOwn
  \* A request in its error callback holds the thread.
  <1>c. \A q \in Req : pc[q] = "on_error" => active = q
    BY DEF Thread, Waiting
  <1>1. CASE UNCHANGED <<pc, next, fd, reg, errs>>
    <2>1. Past' = Past
      BY <1>1 DEF Past, Going
    <2> QED BY <1>1, <2>1 DEF Errors, ErrorsAreOwn
  <1>2. CASE Serving
    BY <1>2, <1>1 DEF Serving, law_htserver_open, law_htserver_close
  <1>3. CASE UNCHANGED vars
    BY <1>3, <1>1 DEF vars
  <1>4. ASSUME NEW r \in Req, Resume(r) \/ Expire(r) \/ Asserts(r) PROVE Errors'
    BY <1>4, <1>1 DEF Resume, Expire, Asserts, law_hts_entry_assert,
               law_task_push_event_assert
  <1>5. ASSUME NEW r \in Req, Inside(r) PROVE Errors'
    <2>1. Moves(r, pc'[r], next'[r])
      BY <1>5, InsideMoves
    <2>2. /\ active = r /\ UNCHANGED fd
          /\ \A q \in Req : q # r => pc'[q] = pc[q] /\ Going(q)' = Going(q)
      BY <2>1, <1>a, GoingSame DEF Moves
    <2>3. \A q \in Req : pc'[q] = "on_error" => q = r
      BY <1>c, <2>2
    <2>4. ASSUME pc'[r] = "on_error"
          PROVE  /\ errs' # <<>> /\ errs'[Len(errs')] = r
                 /\ \/ \A i \in 1 .. Len(errs') : errs'[i] = r
                    \/ next'[r] = "close" /\ reg'[fd'[r]] = r
      <3>1. CASE Own(r, errs') /\ errs' # <<>>
        BY <3>1, OwnEntries
      <3>2. CASE law_hts_entry_del_fails(r)
        <4>1. pc[r] = "delete" /\ errs' = law_err_push(errs, r)
              /\ next' = [next EXCEPT ![r] = "close"] /\ UNCHANGED <<reg, fd>>
          BY <3>2 DEF law_hts_entry_del_fails, on_error, Runs
        <4>2. next'[r] = "close"
          BY <4>1, <1>a
        <4>3. Going(r) = "delete" /\ reg[fd[r]] = r
          BY <4>1 DEF Going, Sockets
        <4>4. r \notin Past
          BY <4>3 DEF Past
        <4>5. Len(errs) < ErrMax
          BY <4>4, <1>a, <1>b, DelFailsRoom
        <4>6. errs' = Append(errs, r)
          BY <4>1, <4>5, <1>a, PushForm
        <4>7. errs' # <<>> /\ errs'[Len(errs')] = r
          BY <4>6, <1>a
        <4> QED BY <4>1, <4>2, <4>3, <4>7
      <3> QED BY <2>4, <3>1, <3>2, <1>5, InsideGoing
    <2>5. ErrorsAreOwn'
      BY <2>3, <2>4 DEF ErrorsAreOwn
    <2>6. Len(errs') <= 2 + Cardinality(Past')
      <3>1. CASE Own(r, errs')
        BY <3>1, PastFormNext DEF Own
      <3>2. CASE errs' = errs /\ ~Own(r, errs')
        <4>a. ~law_hts_entry_add(r) /\ ~law_hts_entry_add_fails(r)
          <5>1. Own(r, <<>>) /\ Own(r, law_err_push(<<>>, r))
            <6>1. Own(r, <<>>) /\ Len(<<>>) < 2
              BY OwnForm
            <6> QED BY <6>1, OwnForm
          <5> QED BY <3>2, <5>1 DEF law_hts_entry_add, law_hts_entry_add_fails, on_error,
                                  law_err_clear
        <4>1. Going(r) \in PastLabel => Going(r)' \in PastLabel
          BY <4>a, <1>5, InsideGoing
        <4>2. Past \subseteq Past'
          BY <4>1, <2>2, PastForm, PastFormNext
        <4>3. Len(errs) <= 2 + Cardinality(Past')
          BY <4>2, <1>a, <1>b, PastGrows
        <4> QED BY <3>2, <4>3
      <3>3. CASE law_hts_entry_del_fails(r) /\ errs' = law_err_push(errs, r)
        <4>1. pc[r] = "delete" /\ pc'[r] = "on_error" /\ next'[r] = "close"
          BY <3>3, <1>a DEF law_hts_entry_del_fails, on_error, Runs
        <4>2. Going(r) \notin PastLabel /\ Going(r)' \in PastLabel
          BY <4>1 DEF Going, PastLabel
        <4>3. Past' = Past \cup {r} /\ r \notin Past
          BY <4>2, <2>2, PastForm, PastFormNext
        <4>4. Cardinality(Past') = Cardinality(Past) + 1
          BY <4>3, PastForm, FS_AddElement
        <4>5. Len(errs') <= Len(errs) + 1
          <5>1. errs' = errs \/ errs' = Append(errs, r)
            BY <3>3 DEF law_err_push
          <5>2. Len(Append(errs, r)) = Len(errs) + 1
            BY <1>a
          <5> QED BY <5>1, <5>2, <1>a
        <4>6. Len(errs') \in Nat
          BY DEF Types
        <4> QED BY <4>4, <4>5, <4>6, <1>a, <1>b, PastForm
      <3> QED BY <3>1, <3>2, <3>3, <1>5, InsideErrors
    <2> QED BY <2>5, <2>6 DEF Errors
  <1>6. ASSUME NEW r \in Req,
               \E m \in {"entry", "setup", "idle"} : pc' = [pc EXCEPT ![r] = m],
               pc[r] \in {"idle", "entry", "return"}, UNCHANGED <<next, reg, errs>>,
               \A q \in Req : q # r => fd'[q] = fd[q]
        PROVE  Errors'
    <2>1. pc'[r] \in {"entry", "setup", "idle"} /\ \A q \in Req : q # r => pc'[q] = pc[q]
      BY <1>6, <1>a
    <2>2. Past \subseteq Past'
      BY <1>6, <2>1 DEF Past, Going
    <2>3. Len(errs') <= 2 + Cardinality(Past')
      BY <1>6, <2>2, <1>a, <1>b, PastGrows
    <2>4. ErrorsAreOwn'
      BY <1>6, <1>b, <2>1 DEF ErrorsAreOwn
    <2> QED BY <2>3, <2>4 DEF Errors
  <1>7. ASSUME NEW r \in Req, NEW f \in Fd, Accept(r, f) PROVE Errors'
    <2>1. fd \in [Req -> Fd \cup {NULL}]
      BY DEF Types, TypeOK
    <2> QED BY <1>6, <1>7, <2>1 DEF Accept
  <1>8. ASSUME NEW r \in Req, law_hts_entry(r) PROVE Errors'
    BY <1>6, <1>8 DEF law_hts_entry, Runs, Goto
  <1>9. ASSUME NEW r \in Req, law_hts_entry_return(r) PROVE Errors'
    <2>1. fd \in [Req -> Fd \cup {NULL}]
      BY DEF Types, TypeOK
    <2> QED BY <1>6, <1>9, <2>1 DEF law_hts_entry_return, Runs, Goto
  <1> QED BY <1>2, <1>3, <1>4, <1>5, <1>7, <1>8, <1>9, NextCases

-----------------------------------------------------------------------------
(* Who owns a buffer or a stack *)

\* The parts of Objects.
Unique == \A k \in Kind : Distinct(pool[k])
Apart ==
  \A r, q \in Req, k \in Kind :
    held[r][k] # NULL => held[r][k] \notin Listed(k) /\ (r # q => held[q][k] # held[r][k])
Accounted ==
  \A o \in Object : o \in Listed(o[1]) \/ \E r \in Req : held[r][o[1]] = o
HeldKinds ==
  \A r \in Req, k \in Kind :
    IF pc[r] \in {"idle", "entry"} THEN held[r][k] = NULL
                                   ELSE held[r][k] \in {k} \X (1 .. WorkerTasks)

LEMMA ObjectsForm == Objects <=> Unique /\ Apart /\ Accounted /\ HeldKinds
  BY DEF Objects, Ownership, Unique, Distinct, Apart, Accounted, HeldKinds

LEMMA ObjectsFormNext ==
  ASSUME Unique', Apart', Accounted', HeldKinds' PROVE Objects'
  BY DEF Objects, Ownership, Unique, Distinct, Apart, Accounted, HeldKinds

LEMMA ObjectKind ==
  ASSUME NEW k \in Kind, NEW o \in {k} \X (1 .. WorkerTasks)
  PROVE  o \in Object /\ o[1] = k /\ o # NULL
  BY Params DEF Object

LEMMA KindObject ==
  ASSUME NEW o \in Object
  PROVE  o[1] \in Kind /\ o \in {o[1]} \X (1 .. WorkerTasks)
  BY DEF Object

\* The steps that leave pools and requests' buffers alone.
LEMMA ObjectsKept ==
  ASSUME Objects, UNCHANGED <<pool, held>>,
         \A q \in Req : pc'[q] \in {"idle", "entry"} <=> pc[q] \in {"idle", "entry"}
  PROVE  Objects'
  <1>1. Unique /\ Apart /\ Accounted /\ HeldKinds
    BY ObjectsForm
  <1>2. HeldKinds'
    BY <1>1 DEF HeldKinds
  <1> QED BY <1>1, <1>2, ObjectsFormNext DEF Unique, Apart, Accounted, Listed

LEMMA ObjectsStep ==
  ASSUME Types, Thread, Objects, [Next]_vars
  PROVE  Objects'
  <1>a. /\ Unique /\ Apart /\ Accounted /\ HeldKinds
        /\ pc \in [Req -> Label]
        /\ held \in [Req -> [Kind -> Object \cup {NULL}]]
    BY ObjectsForm DEF Types, TypeOK
  <1>1. CASE Serving
    BY <1>1, ObjectsKept DEF Serving, law_htserver_open, law_htserver_close
  <1>2. CASE UNCHANGED vars
    BY <1>2, ObjectsKept DEF vars
  <1>3. ASSUME NEW r \in Req, Resume(r) \/ Expire(r) \/ Asserts(r) PROVE Objects'
    BY <1>3, ObjectsKept DEF Resume, Expire, Asserts, law_hts_entry_assert,
               law_task_push_event_assert
  <1>4. ASSUME NEW r \in Req, NEW f \in Fd, Accept(r, f) PROVE Objects'
    <2>1. /\ UNCHANGED <<pool, held>> /\ pc[r] = "idle"
          /\ pc' = [pc EXCEPT ![r] = "entry"]
      BY <1>4 DEF Accept
    <2>2. \A q \in Req : pc'[q] \in {"idle", "entry"} <=> pc[q] \in {"idle", "entry"}
      BY <2>1, <1>a
    <2> QED BY <2>1, <2>2, ObjectsKept
  <1>5. ASSUME NEW r \in Req, Inside(r) PROVE Objects'
    <2>1. Moves(r, pc'[r], next'[r])
      BY <1>5, InsideMoves
    <2>2. \A q \in Req : pc'[q] \in {"idle", "entry"} <=> pc[q] \in {"idle", "entry"}
      BY <2>1, <1>a DEF Moves
    <2> QED BY <2>1, <2>2, ObjectsKept DEF Moves
  <1>6. ASSUME NEW r \in Req, law_hts_entry(r) PROVE Objects'
    <2>1. /\ srv = "open" /\ pc[r] = "entry" /\ pc' = [pc EXCEPT ![r] = "setup"]
          /\ held' = [held EXCEPT ![r] = held'[r]]
          /\ \A k \in Kind :
               /\ Listed(k) = {held'[r][k]} \cup Listed(k)'
               /\ Distinct(pool[k]) => Distinct(pool'[k]) /\ held'[r][k] \notin Listed(k)'
               /\ held'[r][k] \in {k} \X (1 .. WorkerTasks)
      BY <1>6, EntryForm DEF law_hts_entry
    <2>2. /\ pc'[r] = "setup"
          /\ \A q \in Req : q # r => pc'[q] = pc[q] /\ held'[q] = held[q]
          /\ \A k \in Kind : held[r][k] = NULL
      BY <2>1, <1>a DEF HeldKinds
    <2>3. Unique'
      BY <1>a, <2>1 DEF Unique
    <2>4. HeldKinds'
      BY <1>a, <2>1, <2>2 DEF HeldKinds
    <2>5. Apart'
      <3>1. SUFFICES ASSUME NEW p \in Req, NEW q \in Req, NEW k \in Kind, held'[p][k] # NULL
                     PROVE  held'[p][k] \notin Listed(k)'
                            /\ (p # q => held'[q][k] # held'[p][k])
        BY DEF Apart
      <3>2. \A s \in Req : s # r /\ held[s][k] # NULL => held[s][k] \notin Listed(k)
        BY <1>a DEF Apart
      <3>3. held'[p][k] \notin Listed(k)'
        BY <1>a, <2>1, <2>2, <3>1, <3>2 DEF Unique
      <3>4. held'[r][k] \in Listed(k) /\ held'[r][k] # NULL
        BY <2>1, ObjectKind
      <3>5. p # q => held'[q][k] # held'[p][k]
        BY <1>a, <2>2, <3>1, <3>2, <3>4 DEF Apart
      <3> QED BY <3>3, <3>5
    <2>6. Accounted'
      <3>1. ASSUME NEW o \in Object
            PROVE  (o \in Listed(o[1]) \/ \E q \in Req : held[q][o[1]] = o)
                     <=> (o \in Listed(o[1])' \/ \E q \in Req : held'[q][o[1]] = o)
        <4>1. PICK k : k = o[1]
          OBVIOUS
        <4>2. k \in Kind /\ o # NULL
          BY <4>1, KindObject, Params
        <4>3. Listed(k) = {held'[r][k]} \cup Listed(k)' /\ held[r][k] = NULL
          BY <2>1, <2>2, <4>2
        <4>4. (o \in Listed(k) \/ \E q \in Req : held[q][k] = o)
                <=> (o \in Listed(k)' \/ \E q \in Req : held'[q][k] = o)
          BY <2>2, <4>2, <4>3
        <4> QED BY <4>1, <4>4
      <3> QED BY <1>a, <2>1, <3>1 DEF Accounted
    <2> QED BY <2>3, <2>4, <2>5, <2>6, ObjectsFormNext
  <1>7. ASSUME NEW r \in Req, law_hts_entry_return(r) PROVE Objects'
    <2>0. pc[r] = "return"
      BY <1>7 DEF law_hts_entry_return, Runs
    <2>a. \A k \in Kind : held[r][k] \in {k} \X (1 .. WorkerTasks)
      BY <2>0, <1>a DEF HeldKinds
    <2>1. /\ srv = "open" /\ pc' = [pc EXCEPT ![r] = "idle"]
          /\ held' = [held EXCEPT ![r] = Nothing]
          /\ \A k \in Kind :
               /\ Listed(k)' = {held[r][k]} \cup Listed(k)
               /\ Distinct(pool[k]) /\ held[r][k] \notin Listed(k) => Distinct(pool'[k])
      BY <1>7, <2>a, ReturnForm DEF law_hts_entry_return
    <2>2. /\ pc'[r] = "idle" /\ \A k \in Kind : held'[r][k] = NULL
          /\ \A q \in Req : q # r => pc'[q] = pc[q] /\ held'[q] = held[q]
      BY <2>1, <1>a DEF Nothing
    <2>3. \A k \in Kind : held[r][k] # NULL /\ held[r][k] \notin Listed(k)
      BY <2>a, <1>a, ObjectKind DEF Apart
    <2>4. Unique'
      BY <1>a, <2>1, <2>3 DEF Unique
    <2>5. HeldKinds'
      BY <1>a, <2>2 DEF HeldKinds
    <2>6. Apart'
      <3>1. SUFFICES ASSUME NEW p \in Req, NEW q \in Req, NEW k \in Kind, held'[p][k] # NULL
                     PROVE  held'[p][k] \notin Listed(k)'
                            /\ (p # q => held'[q][k] # held'[p][k])
        BY DEF Apart
      <3>2. p # r /\ held'[p][k] = held[p][k]
        BY <2>2, <3>1
      <3>3. held[p][k] \notin Listed(k) /\ held[r][k] # held[p][k]
        BY <1>a, <3>1, <3>2 DEF Apart
      <3>4. held'[p][k] \notin Listed(k)'
        BY <2>1, <3>2, <3>3
      <3>5. p # q => held'[q][k] # held'[p][k]
        BY <1>a, <2>2, <3>1, <3>2 DEF Apart
      <3> QED BY <3>4, <3>5
    <2>7. Accounted'
      <3>1. ASSUME NEW o \in Object
            PROVE  (o \in Listed(o[1]) \/ \E q \in Req : held[q][o[1]] = o)
                     <=> (o \in Listed(o[1])' \/ \E q \in Req : held'[q][o[1]] = o)
        <4>1. PICK k : k = o[1]
          OBVIOUS
        <4>2. k \in Kind /\ o # NULL
          BY <4>1, KindObject, Params
        <4>3. Listed(k)' = {held[r][k]} \cup Listed(k) /\ held'[r][k] = NULL
          BY <2>1, <2>2, <4>2
        <4>4. (o \in Listed(k) \/ \E q \in Req : held[q][k] = o)
                <=> (o \in Listed(k)' \/ \E q \in Req : held'[q][k] = o)
          BY <2>2, <4>2, <4>3
        <4> QED BY <4>1, <4>4
      <3> QED BY <1>a, <2>1, <3>1 DEF Accounted
    <2> QED BY <2>4, <2>5, <2>6, <2>7, ObjectsFormNext
  <1> QED BY <1>1, <1>2, <1>3, <1>4, <1>5, <1>6, <1>7, NextCases

-----------------------------------------------------------------------------
(* How many requests hold buffers *)

LEMMA HoldsNothing ==
  ASSUME NEW h \in [Kind -> Object \cup {NULL}]
  PROVE  h = Nothing <=> \A k \in Kind : h[k] = NULL
  BY DEF Nothing

LEMMA HoldersForm ==
  ASSUME Types, HeldKinds
  PROVE  Holders = {r \in Req : pc[r] \notin {"idle", "entry"}}
  <1>1. ASSUME NEW r \in Req PROVE held[r] # Nothing <=> pc[r] \notin {"idle", "entry"}
    <2>1. held[r] \in [Kind -> Object \cup {NULL}]
      BY DEF Types, TypeOK
    <2>2. held[r] = Nothing <=> \A k \in Kind : held[r][k] = NULL
      BY <2>1, HoldsNothing
    <2>3. CASE pc[r] \in {"idle", "entry"}
      BY <2>2, <2>3 DEF HeldKinds
    <2>4. CASE pc[r] \notin {"idle", "entry"}
      <3>1. "heap" \in Kind /\ held[r]["heap"] \in {"heap"} \X (1 .. WorkerTasks)
        BY <2>4 DEF HeldKinds, Kind
      <3>2. held[r]["heap"] # NULL
        BY <3>1, ObjectKind
      <3> QED BY <2>2, <2>4, <3>1, <3>2
    <2> QED BY <2>3, <2>4
  <1> QED BY <1>1 DEF Holders

LEMMA HoldersFinite ==
  IsFiniteSet(Holders) /\ Cardinality(Holders) \in Nat
  <1>1. Holders \subseteq Req
    BY DEF Holders
  <1> QED BY <1>1, Params, FS_Subset, FS_CardinalityType

LEMMA CountStep ==
  ASSUME Types, Types', Thread, Objects, Objects', Count, [Next]_vars
  PROVE  Count'
  <1>a. /\ Holders = {q \in Req : pc[q] \notin {"idle", "entry"}}
        /\ Holders' = {q \in Req : pc'[q] \notin {"idle", "entry"}}
    <2>1. HeldKinds /\ HeldKinds'
      BY DEF Objects, HeldKinds
    <2>2. Types /\ HeldKinds => Holders = {q \in Req : pc[q] \notin {"idle", "entry"}}
      BY HoldersForm
    <2>3. ASSUME NEW q \in Req PROVE held'[q] # Nothing <=> pc'[q] \notin {"idle", "entry"}
      <3>1. held'[q] \in [Kind -> Object \cup {NULL}]
        BY DEF Types, TypeOK
      <3>2. held'[q] = Nothing <=> \A k \in Kind : held'[q][k] = NULL
        BY <3>1, HoldsNothing
      <3>3. CASE pc'[q] \in {"idle", "entry"}
        BY <2>1, <3>2, <3>3 DEF HeldKinds
      <3>4. CASE pc'[q] \notin {"idle", "entry"}
        <4>1. "heap" \in Kind /\ held'[q]["heap"] \in {"heap"} \X (1 .. WorkerTasks)
          BY <2>1, <3>4 DEF HeldKinds, Kind
        <4>2. held'[q]["heap"] # NULL
          BY <4>1, ObjectKind
        <4> QED BY <3>2, <3>4, <4>1, <4>2
      <3> QED BY <3>3, <3>4
    <2>4. Holders' = {q \in Req : held'[q] # Nothing}
      BY DEF Holders, Nothing
    <2> QED BY <2>1, <2>2, <2>3, <2>4
  <1>b. pc \in [Req -> Label] /\ \A k \in Kind : Len(pool[k]) \in Nat
    BY DEF Types, TypeOK
  <1>c. /\ \A k \in Kind : Len(pool[k]) + Cardinality(Holders) = WorkerTasks
        /\ aborted => \/ pc[active] = "entry" /\ Cardinality(Holders) = WorkerTasks
                      \/ pc[active] \in Syncing
    BY DEF Count, AssertOnlyOverLimit, Holders
  <1>d. ASSUME \A k \in Kind : Len(pool'[k]) + Cardinality(Holders') = WorkerTasks,
               aborted' => \/ pc'[active'] = "entry" /\ Cardinality(Holders') = WorkerTasks
                           \/ pc'[active'] \in Syncing
        PROVE  Count'
    BY <1>d DEF Count, AssertOnlyOverLimit, Holders, Syncing
  <1>e. ASSUME UNCHANGED <<pool, held>>
        PROVE  /\ Holders' = Holders
               /\ \A k \in Kind : Len(pool'[k]) + Cardinality(Holders') = WorkerTasks
    <2>1. Holders' = Holders
      BY <1>e DEF Holders, Nothing
    <2> QED BY <1>c, <1>e, <2>1
  <1>1. ASSUME UNCHANGED <<pool, held, aborted>>,
               ~aborted \/ UNCHANGED <<pc, active>>
        PROVE  Count'
    BY <1>1, <1>c, <1>d, <1>e
  <1>2. CASE UNCHANGED vars
    BY <1>1, <1>2 DEF vars
  <1>3. CASE Serving
    BY <1>1, <1>3 DEF Serving, law_htserver_open, law_htserver_close
  <1>4. ASSUME NEW r \in Req, (\E f \in Fd : Accept(r, f)) \/ Resume(r) \/ Expire(r)
        PROVE  Count'
    BY <1>1, <1>4 DEF Accept, Resume, Expire
  <1>9. ASSUME NEW r \in Req, law_task_push_event_assert(r) PROVE Count'
    BY <1>d, <1>e, <1>9 DEF law_task_push_event_assert
  <1>5. ASSUME NEW r \in Req, Inside(r) PROVE Count'
    <2>1. Moves(r, pc'[r], next'[r])
      BY <1>5, InsideMoves
    <2> QED BY <2>1, <1>1 DEF Moves
  <1>6. ASSUME NEW r \in Req, law_hts_entry_assert(r) PROVE Count'
    <2>1. /\ UNCHANGED <<pool, held, pc, active>> /\ active = r /\ pc[r] = "entry"
          /\ \E k \in Kind : pool[k] = <<>>
      BY <1>6 DEF law_hts_entry_assert, Runs
    <2>2. Cardinality(Holders) = WorkerTasks
      <3>1. PICK k \in Kind : pool[k] = <<>>
        BY <2>1
      <3>2. Len(pool[k]) = 0 /\ Len(pool[k]) + Cardinality(Holders) = WorkerTasks
        BY <3>1, <1>c, EmptyList
      <3> QED BY <3>2, HoldersFinite, Params
    <2>3. pc'[active'] = "entry" /\ Cardinality(Holders') = WorkerTasks
      BY <1>e, <2>1, <2>2
    <2> QED BY <1>d, <1>e, <2>1, <2>3
  <1>7. ASSUME NEW r \in Req, law_hts_entry(r) PROVE Count'
    <2>1. /\ srv = "open" /\ ~aborted' /\ pc[r] = "entry"
          /\ pc' = [pc EXCEPT ![r] = "setup"]
          /\ \A k \in Kind : Len(pool'[k]) + 1 = Len(pool[k]) /\ Len(pool'[k]) \in Nat
      <3>1. \A k \in Kind : Len(pool'[k]) \in Nat
        BY DEF Types
      <3> QED BY <1>7, <3>1, EntryForm DEF law_hts_entry
    <2>2. pc'[r] = "setup" /\ \A q \in Req : q # r => pc'[q] = pc[q]
      BY <2>1, <1>b
    <2>3. Holders' = Holders \cup {r} /\ r \notin Holders
      BY <1>a, <2>1, <2>2
    <2>4. Cardinality(Holders') = Cardinality(Holders) + 1
      BY <2>3, HoldersFinite, FS_AddElement
    <2>5. ASSUME NEW k \in Kind PROVE Len(pool'[k]) + Cardinality(Holders') = WorkerTasks
      <3>1. Len(pool[k]) + Cardinality(Holders) = WorkerTasks
        BY <1>c, <2>1
      <3>2. Len(pool'[k]) + 1 = Len(pool[k]) /\ Len(pool'[k]) \in Nat
        BY <2>1
      <3> QED BY <2>4, <3>1, <3>2, HoldersFinite, Params
    <2> QED BY <1>d, <2>1, <2>5
  <1>8. ASSUME NEW r \in Req, law_hts_entry_return(r) PROVE Count'
    <2>0. pc[r] = "return"
      BY <1>8 DEF law_hts_entry_return, Runs
    <2>a. \A k \in Kind : held[r][k] \in {k} \X (1 .. WorkerTasks)
      BY <2>0 DEF Objects
    <2>1. /\ srv = "open" /\ ~aborted'
          /\ pc' = [pc EXCEPT ![r] = "idle"]
          /\ \A k \in Kind : Len(pool'[k]) = Len(pool[k]) + 1
      BY <1>8, <2>a, ReturnForm DEF law_hts_entry_return
    <2>2. pc'[r] = "idle" /\ \A q \in Req : q # r => pc'[q] = pc[q]
      BY <2>1, <1>b
    <2>3. Holders = Holders' \cup {r} /\ r \notin Holders'
      BY <1>a, <2>0, <2>2
    <2>4. IsFiniteSet(Holders') /\ Cardinality(Holders') \in Nat
      <3>1. Holders' \subseteq Req
        BY <1>a
      <3> QED BY <3>1, Params, FS_Subset, FS_CardinalityType
    <2>5. Cardinality(Holders) = Cardinality(Holders') + 1
      BY <2>3, <2>4, FS_AddElement
    <2>6. ASSUME NEW k \in Kind PROVE Len(pool'[k]) + Cardinality(Holders') = WorkerTasks
      <3>1. Len(pool[k]) + Cardinality(Holders) = WorkerTasks
        BY <1>c, <2>1
      <3>2. Len(pool'[k]) = Len(pool[k]) + 1 /\ Len(pool[k]) \in Nat
        BY <1>b, <2>1
      <3> QED BY <2>4, <2>5, <3>1, <3>2, Params
    <2> QED BY <1>d, <2>1, <2>6
  <1> QED BY <1>2, <1>3, <1>4, <1>5, <1>6, <1>7, <1>8, <1>9, NextCases DEF Asserts

-----------------------------------------------------------------------------
(* The invariant holds, and what follows from it *)

LEMMA InvariantInit ==
  ASSUME Init
  PROVE  Invariant
  <1>a. /\ srv = "created" /\ security \in {"SSL", "UNSECURED"}
        /\ pool = [k \in Kind |-> [i \in 1 .. WorkerTasks |-> <<k, i>>]]
        /\ active = NULL /\ ~aborted
        /\ aborted \in BOOLEAN
        /\ pc = [r \in Req |-> "idle"] /\ next = [r \in Req |-> "close"]
        /\ held = [r \in Req |-> Nothing] /\ fd = [r \in Req |-> NULL]
        /\ ssl = [r \in Req |-> "none"] /\ late = [r \in Req |-> FALSE]
        /\ open = {} /\ reg = [f \in Fd |-> NULL] /\ errs = <<>>
    BY DEF Init
  <1>b. ASSUME NEW k \in Kind
        PROVE  /\ pool[k] \in Seq(Object) /\ Len(pool[k]) = WorkerTasks
               /\ Distinct(pool[k]) /\ Listed(k) = {k} \X (1 .. WorkerTasks)
    <2>1. pool[k] = [i \in 1 .. WorkerTasks |-> <<k, i>>]
      BY <1>a
    <2>2. \A i \in 1 .. WorkerTasks : <<k, i>> \in Object
      BY DEF Object
    <2>3. pool[k] \in Seq(Object) /\ Len(pool[k]) = WorkerTasks
      BY <2>1, <2>2, Params
    <2>4. \A i \in 1 .. WorkerTasks : pool[k][i] = <<k, i>>
      BY <2>1
    <2>5. Distinct(pool[k])
      BY <2>3, <2>4 DEF Distinct
    <2>6. Listed(k) = {<<k, i>> : i \in 1 .. WorkerTasks}
      BY <2>3, <2>4 DEF Listed
    <2> QED BY <2>3, <2>5, <2>6
  <1>c. \A r \in Req : Going(r) = "idle"
    BY <1>a DEF Going
  <1>1. Types
    <2>1. pool \in [Kind -> Seq(Object)] /\ errs \in Seq(Req) /\ Len(errs) <= ErrMax
      <3>1. DOMAIN pool = Kind /\ pool = [k \in Kind |-> pool[k]]
        BY <1>a
      <3>2. pool \in [Kind -> Seq(Object)]
        BY <1>b, <3>1
      <3> QED BY <1>a, <3>2, EmptyList, Params
    <2>2. \A i \in 1 .. Len(errs) : errs[i] \in Req
      BY <2>1
    <2>3. held \in [Req -> [Kind -> Object \cup {NULL}]]
      BY <1>a DEF Nothing
    <2>4. DOMAIN pool = Kind /\ \A k \in Kind : Listed(k) \subseteq {k} \X (1 .. WorkerTasks)
      BY <1>a, <1>b
    <2> QED BY <1>a, <2>1, <2>2, <2>3, <2>4 DEF Types, TypeOK, Label
  <1>2. Thread
    BY <1>a DEF Thread, Waiting
  <1>3. Sockets
    BY <1>a, <1>c DEF Sockets, SocketsOwned
  <1>4. Ssl
    BY <1>a, <1>c DEF Ssl
  <1>5. Errors
    <2>1. ErrorsAreOwn
      BY <1>a DEF ErrorsAreOwn
    <2>2. Len(errs) = 0
      BY <1>a, EmptyList
    <2> QED BY <2>1, <2>2, PastForm DEF Errors
  <1>6. Objects
    <2>1. Unique
      BY <1>b DEF Unique
    <2>2. Apart /\ HeldKinds
      BY <1>a DEF Apart, HeldKinds, Nothing
    <2>3. Accounted
      BY <1>b, KindObject DEF Accounted
    <2> QED BY <2>1, <2>2, <2>3, ObjectsForm
  <1>7. Count
    <2>1. Holders = {}
      BY <1>a DEF Holders
    <2>2. Cardinality(Holders) = 0
      BY <2>1, FS_EmptySet
    <2> QED BY <1>a, <1>b, <2>2, Params DEF Count, AssertOnlyOverLimit
  <1> QED BY <1>1, <1>2, <1>3, <1>4, <1>5, <1>6, <1>7 DEF Invariant

LEMMA InvariantStep ==
  ASSUME Invariant, [Next]_vars
  PROVE  Invariant'
  <1>1. Types /\ Thread /\ Sockets /\ Ssl /\ Errors /\ Objects /\ Count
    BY DEF Invariant
  <1>2. Types'
    BY <1>1, TypesStep
  <1>3. Thread' /\ Ssl'
    BY <1>1, ThreadStep, SslStep
  <1>4. Sockets' /\ Errors'
    BY <1>1, <1>2, SocketsStep, ErrorsStep
  <1>5. Objects'
    BY <1>1, ObjectsStep
  <1>6. Count'
    BY <1>1, <1>2, <1>5, CountStep
  <1> QED BY <1>2, <1>3, <1>4, <1>5, <1>6 DEF Invariant

\* In every behaviour the thread, the pools, the sockets, the SSL objects and
\* the error stack agree with the labels the requests have reached in
\* law_hts_entry and law_hts_entry_setup; the theorems below are parts of
\* this invariant, which every label and every callback preserves.
THEOREM InvariantAlways == Spec => []Invariant
  <1>1. Init => Invariant
    BY InvariantInit
  <1>2. Invariant /\ [Next]_vars => Invariant'
    BY InvariantStep
  <1> QED BY <1>1, <1>2, PTL DEF Spec

\* In every behaviour the variables stay in their types: a pool holds
\* objects of its own kind only, whatever law_hts_entry pushes back, and the
\* error stack stays within LAW_ERR_STACK_MAX.
THEOREM TypeCorrect == Spec => []TypeOK
  BY InvariantAlways, PTL DEF Invariant, Types

\* In every behaviour every buffer and stack of the worker is either once in the
\* list of its pool or held by exactly one request: law_hts_entry never gets
\* an object that another coroutine uses, and no path of it loses one.
THEOREM OwnershipCorrect == Spec => []Ownership
  BY InvariantAlways, PTL DEF Invariant, Objects

\* In every behaviour every path out of law_hts_entry_setup closes the
\* socket of its request once, and no other; a registration in the event
\* port never outlives the socket, although the kernel reuses numbers.
THEOREM SocketsOwnedCorrect == Spec => []SocketsOwned
  BY InvariantAlways, PTL DEF Invariant, Sockets

\* In every behaviour the SSL object lives while a request works through it,
\* and law_htc_ssl_free or the failed handshake has ended it when the socket
\* is closed.
THEOREM SslLifetimeCorrect == Spec => []SslLifetime
  <1>1. Invariant => SslLifetime
    <2>1. SUFFICES ASSUME Invariant, NEW r \in Req
          PROVE  /\ (security = "SSL" /\ pc[r] \in {"reqline", "headers", "on_accept",
                                                    "accepted", "shutdown", "free"})
                      => ssl[r] = "live"
                 /\ pc[r] \in {"idle", "delete", "close", "return"} => ssl[r] # "live"
      BY DEF SslLifetime
    <2>2. Types /\ Thread /\ SslOf(r)
      BY <2>1 DEF Invariant, Ssl, SslOf
    <2>3. pc[r] \notin {"on_error", "handling"} => Going(r) = pc[r]
      BY <2>2, GoingForm
    <2> QED BY <2>2, <2>3 DEF SslOf
  <1> QED BY <1>1, InvariantAlways, PTL

\* In every behaviour cfg.on_error finds the entries of its own request on
\* the stack of errors that all coroutines of the thread share; only the
\* callback for a failed LAW_EV_DEL may find older ones below its own.
THEOREM ErrorsAreOwnCorrect == Spec => []ErrorsAreOwn
  BY InvariantAlways, PTL DEF Invariant, Errors

\* In every behaviour SEL_ASSERT(in && out && heap && stack) of law_hts_entry
\* fails only while worker_tasks other requests hold an object of each pool:
\* the pools are exhausted by the one request too many that the worker's
\* loop admits, never by a leak.  Every other end of the process is that of
\* law_task_push_event, for a task in law_sync.
THEOREM AssertOnlyOverLimitCorrect == Spec => []AssertOnlyOverLimit
  BY InvariantAlways, PTL DEF Invariant, Count

\* In every behaviour of a worker that runs no more requests than its pools
\* have objects the assertion of law_hts_entry never fails: only that of
\* law_task_push_event, of a task in law_sync, can end the process.
THEOREM NoAssertWithinLimit ==
  ASSUME Cardinality(Req) <= WorkerTasks
  PROVE  Spec => [](aborted => pc[active] \in Syncing)
  <1> DEFINE Short == aborted => pc[active] \in Syncing
  <1>1. Init => Short
    BY DEF Init
  <1>2. Invariant /\ Short /\ [Next]_vars => Short'
    <2>0. ASSUME aborted, [Next]_vars PROVE UNCHANGED <<pc, active>>
      <3>1. ASSUME NEW q \in Req PROVE ~Task(q)
        BY <2>0 DEF Task, Runs, law_hts_entry, law_hts_entry_assert, law_hts_entry_add,
           law_hts_entry_add_fails, law_htc_ssl_accept, law_htc_ssl_accept_fails,
           law_sync_wait, law_hts_read, law_hts_read_fails, on_accept_wait, on_accept,
           on_error_read, on_error_return, law_htc_ssl_shutdown,
           law_htc_ssl_shutdown_fails, law_htc_ssl_free, law_hts_entry_del,
           law_hts_entry_del_fails, law_hts_entry_close, law_hts_entry_return
      <3> QED BY <2>0, <3>1 DEF Next, law_htserver_open, law_htserver_close, Accept, Resume,
              Expire, law_task_push_event_assert, Ended, vars
    <2>b. Syncing' = Syncing
      BY DEF Syncing
    <2>1. SUFFICES ASSUME Invariant, ~aborted, [Next]_vars, aborted', ~ pc'[active'] \in Syncing
                   PROVE  FALSE
      BY <2>0, <2>b
    <2>a. Types /\ HeldKinds /\ Count
      BY <2>1 DEF Invariant, Objects, HeldKinds
    <2>2. PICK r \in Req : law_hts_entry_assert(r)
      <3>1. ASSUME NEW q \in Req, Inside(q) PROVE ~aborted'
        BY <3>1, <2>1, InsideMoves DEF Moves, Invariant
      <3>2. ASSUME Serving \/ UNCHANGED vars PROVE ~aborted'
        BY <3>2, <2>1 DEF Serving, law_htserver_open, law_htserver_close, vars
      <3>3. ASSUME NEW q \in Req, \/ \E f \in Fd : Accept(q, f)
                                  \/ Resume(q) \/ Expire(q) \/ law_hts_entry(q)
                                  \/ law_hts_entry_return(q)
            PROVE  ~aborted'
        BY <3>3, <2>1 DEF Accept, Resume, Expire, law_hts_entry, law_hts_entry_return
      <3>4. ASSUME NEW q \in Req PROVE ~law_task_push_event_assert(q)
        BY <2>1 DEF law_task_push_event_assert
      <3> QED BY <2>1, <3>1, <3>2, <3>3, <3>4, NextCases DEF Asserts
    <2>3. pc[r] = "entry" /\ \E k \in Kind : pool[k] = <<>>
      BY <2>2 DEF law_hts_entry_assert, Runs
    <2>4. Cardinality(Holders) = WorkerTasks
      <3>1. PICK k \in Kind : pool[k] = <<>>
        BY <2>3
      <3>2. Len(pool[k]) = 0 /\ Len(pool[k]) + Cardinality(Holders) = WorkerTasks
        BY <3>1, <2>a, <2>3, EmptyList DEF Count
      <3> QED BY <3>2, HoldersFinite, Params
    <2>5. Holders \subseteq Req \ {r}
      BY <2>a, <2>3, HoldersForm
    <2>6. IsFiniteSet(Req \ {r}) /\ Cardinality(Req \ {r}) = Cardinality(Req) - 1
      BY Params, FS_RemoveElement
    <2>7. Cardinality(Holders) <= Cardinality(Req) - 1
      BY <2>5, <2>6, FS_Subset
    <2> QED BY <2>4, <2>7, Params
  <1> QED BY <1>1, <1>2, InvariantAlways, PTL DEF Spec
=============================================================================
