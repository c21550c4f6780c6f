---------------------------- MODULE ServerProofs ----------------------------
(***************************************************************************)
(* Proofs about module Server, for every number of workers and tasks, any  *)
(* pipe capacity and any number of connections.                            *)
(***************************************************************************)
EXTENDS Server, FiniteSetTheorems, TLAPS

USE DEF mainVars, clientVars, poolVars, taskVars, spawnVars, workerVars

-----------------------------------------------------------------------------
(* Arithmetic and sequences *)

\* The assumption on the constants without the size of the pool, whose
\* product of constants the provers do not need in most steps.
LEMMA Params ==
  /\ NWorkers \in Nat \ {0} /\ WorkerTasks \in Nat \ {0} /\ NoTask \notin Task
  /\ IdModulo \in Nat /\ MaxIds \in Nat /\ MaxConns \in Nat
  /\ MaxIds < IdModulo
  BY ServerAssumption

\* What % gives with a positive modulus.
LEMMA ModRange ==
  ASSUME NEW x \in Nat, NEW n \in Nat \ {0}
  PROVE  x % n \in 0 .. (n - 1)
  OBVIOUS

\* Ids do not wrap within the bound MaxIds.
LEMMA GenId ==
  ASSUME seed \in 0 .. MaxIds, seed < MaxIds
  PROVE  law_server_genid = seed + 1
  BY Params DEF law_server_genid

\* law_spawn_dispatch_once, law_spawn and the shutdown loop index workers.
LEMMA DispatchIndex ==
  ASSUME NEW x \in Nat, NEW y \in Nat PROVE (x + y) % NWorkers \in Worker
  BY Params, ModRange DEF Worker

LEMMA SpawnIndex ==
  ASSUME NEW x \in 0 .. NWorkers, x < NWorkers PROVE x \in Worker
  BY Params DEF Worker

\* Writing a task pointer to a pipe.
LEMMA AppendIn ==
  ASSUME NEW S, NEW s \in Seq(S), NEW x \in S
  PROVE  /\ Append(s, x) \in Seq(S)
         /\ \A t : InSeq(Append(s, x), t) <=> InSeq(s, t) \/ t = x
         /\ NoDup(s) /\ ~InSeq(s, x) => NoDup(Append(s, x))
  <1> DEFINE a == Append(s, x)
  <1>1. /\ a \in Seq(S)
        /\ Len(a) = Len(s) + 1 /\ Len(s) \in Nat
        /\ \A i \in 1 .. Len(s) : a[i] = s[i]
        /\ a[Len(s) + 1] = x
    OBVIOUS
  <1> HIDE DEF a
  <1>2. \A i : i \in 1 .. Len(a) <=> i \in 1 .. Len(s) \/ i = Len(s) + 1
    BY <1>1
  <1>3. \A t : InSeq(a, t) <=> InSeq(s, t) \/ t = x
    BY <1>1, <1>2 DEF InSeq
  <1>4. ASSUME NoDup(s), ~InSeq(s, x) PROVE NoDup(a)
    BY <1>1, <1>2, <1>4 DEF InSeq, NoDup
  <1> QED BY <1>1, <1>3, <1>4 DEF a

\* Reading a task pointer from a pipe.
LEMMA TailIn ==
  ASSUME NEW S, NEW s \in Seq(S), s # <<>>
  PROVE  /\ Tail(s) \in Seq(S)
         /\ Head(s) \in S /\ InSeq(s, Head(s))
         /\ \A t : InSeq(Tail(s), t) => InSeq(s, t)
         /\ \A t : InSeq(s, t) => InSeq(Tail(s), t) \/ t = Head(s)
         /\ NoDup(s) => NoDup(Tail(s)) /\ ~InSeq(Tail(s), Head(s))
  <1> DEFINE r == Tail(s)
  <1>1. /\ r \in Seq(S) /\ Head(s) \in S
        /\ Len(s) \in Nat \ {0} /\ Len(r) = Len(s) - 1
        /\ \A i \in 1 .. Len(r) : r[i] = s[i + 1]
        /\ Head(s) = s[1]
    OBVIOUS
  <1> HIDE DEF r
  <1>2. \A i : i \in 1 .. Len(r) => i + 1 \in 1 .. Len(s)
    BY <1>1
  <1>3. \A i \in 1 .. Len(s) : i = 1 \/ (i - 1 \in 1 .. Len(r) /\ r[i - 1] = s[i])
    BY <1>1
  <1>4. InSeq(s, Head(s)) /\ \A t : InSeq(r, t) => InSeq(s, t)
    BY <1>1, <1>2 DEF InSeq
  <1>5. \A t : InSeq(s, t) => InSeq(r, t) \/ t = Head(s)
    BY <1>1, <1>3 DEF InSeq
  <1>6. ASSUME NoDup(s) PROVE NoDup(r) /\ ~InSeq(r, Head(s))
    BY <1>1, <1>2, <1>6 DEF NoDup, InSeq
  <1> QED BY <1>1, <1>4, <1>5, <1>6 DEF r

-----------------------------------------------------------------------------
(* Type correctness *)

\* Setting up a task that was popped.
LEMMA SetupTask ==
  ASSUME TypePool, NEW t \in pool, law_task_setup(t)
  PROVE  /\ t \in Task /\ pool' = pool \ {t} /\ pool' \in SUBSET Task
         /\ seed < MaxIds /\ seed' = seed + 1 /\ seed' \in 0 .. MaxIds
         /\ id' = [id EXCEPT ![t] = seed'] /\ id' \in [Task -> 0 .. MaxIds]
         /\ tmode' = [tmode EXCEPT ![t] = "spawned"]
         /\ tmode' \in [Task -> {"created", "spawned", "running", "suspended"}]
  <1>1. t \in Task /\ seed < MaxIds /\ seed \in 0 .. MaxIds /\ pool' = pool \ {t}
    BY DEF TypePool, law_task_setup
  <1>2. seed' = seed + 1 /\ seed' \in 0 .. MaxIds
    BY <1>1, GenId, Params DEF law_task_setup
  <1> QED BY <1>1, <1>2 DEF TypePool, law_task_setup

\* The task in the main thread's hand, or in a callback's, is a task.
LEMMA CarriedTask ==
  ASSUME TypeOK, Control
  PROVE  /\ pc = "dispatch" => hand \in Task
         /\ \A w \in Worker : wpc[w] = "push" => child[w] \in Task
  BY Params DEF TypeOK, TypeMain, TypeWorker, Control, MainControls, WorkerControls

\* Next, split by what the actions touch: first those that move control of
\* the main thread, the stopping thread or a client only.
MainControl ==
  \/ law_server_spin \/ law_task_pool_is_empty \/ law_server_accept
  \/ law_spawn_dispatch \/ law_server_wait \/ law_task_pool_is_full
  \/ law_server_run_threads \/ law_stop \/ law_stop_set \/ Connect

LEMMA MainControlFrame ==
  ASSUME MainControl
  PROVE  UNCHANGED <<hand, pool, poolLock, seed, id, tmode, incoming, shutdown,
                     wpc, reloop, table, ready, active, child, wtry, halted>>
  BY DEF MainControl, law_server_spin, law_task_pool_is_empty,
         law_server_accept, law_spawn_dispatch, law_server_wait,
         law_task_pool_is_full, law_server_run_threads, law_stop,
         law_stop_set, Connect

LEMMA TypeStep ==
  ASSUME TypeOK, Control, [Next]_vars
  PROVE  TypeOK'
  <1> USE Params DEF MainLabel, WorkerLabel
  <1>a. TypeMain /\ TypePool /\ TypeWorker
    BY DEF TypeOK
  <1>0. CASE UNCHANGED vars
    BY <1>0, <1>a DEF TypeOK, TypeMain, TypePool, TypeWorker, vars
  <1>1. CASE MainControl
    <2>1. TypePool' /\ TypeWorker'
      BY <1>1, <1>a, MainControlFrame DEF TypePool, TypeWorker
    <2>2. TypeMain'
      BY <1>1, <1>a DEF TypeMain, MainControl, law_server_spin,
         law_task_pool_is_empty, law_server_accept, law_spawn_dispatch,
         law_server_wait, law_task_pool_is_full, law_server_run_threads,
         law_stop, law_stop_set, Connect
    <2> QED BY <2>1, <2>2 DEF TypeOK
  <1>2. CASE law_start
    BY <1>2, <1>a DEF TypeOK, TypeMain, TypePool, TypeWorker, law_start
  <1>3. CASE law_server_shutdown
    <2>1. TypePool' /\ TypeMain'
      BY <1>3, <1>a DEF TypePool, TypeMain, law_server_shutdown
    <2>2. TypeWorker'
      BY <1>3, <1>a DEF TypeWorker, law_server_shutdown
    <2> QED BY <2>1, <2>2 DEF TypeOK
  <1>4. CASE law_server_accept_pop
    <2>1. CASE pool = {}
      BY <2>1, <1>4, <1>a DEF TypeOK, TypeMain, TypePool, TypeWorker, law_server_accept_pop
    <2>2. CASE pool # {}
      <3>1. PICK t \in pool : /\ law_task_setup(t) /\ hand' = t /\ try' = 0
                              /\ pc' = "dispatch" /\ UNCHANGED <<poolLock, halted>>
        BY <2>2, <1>4 DEF law_server_accept_pop
      <3>2. TypeMain'
        BY <3>1, <1>4, <1>a DEF TypeMain, TypePool, law_server_accept_pop
      <3>3. TypePool'
        BY <3>1, <1>a, SetupTask DEF TypePool
      <3>4. TypeWorker'
        BY <1>4, <1>a DEF TypeWorker, law_server_accept_pop
      <3> QED BY <3>2, <3>3, <3>4 DEF TypeOK
    <2> QED BY <2>1, <2>2
  <1>5. CASE law_spawn_dispatch_once
    <2> DEFINE w == (try + id[hand]) % NWorkers
    <2>1. hand \in Task /\ w \in Worker
      BY <1>5, <1>a, CarriedTask, DispatchIndex
         DEF law_spawn_dispatch_once, TypeMain, TypePool
    <2> HIDE DEF w
    <2>2. \/ /\ incoming' = [incoming EXCEPT ![w] = Append(@, hand)]
             /\ hand' = NoTask /\ pc' = "accept" /\ UNCHANGED try
          \/ try < NWorkers /\ try' = try + 1 /\ UNCHANGED <<incoming, hand, pc>>
      BY <1>5 DEF law_spawn_dispatch_once, law_task_queue_push, w
    <2>3. TypeMain'
      BY <1>5, <1>a, <2>2 DEF TypeMain, law_spawn_dispatch_once
    <2>4. TypePool'
      BY <1>5, <1>a DEF TypePool, law_spawn_dispatch_once
    <2>5. incoming' \in [Worker -> Seq(Task)]
      <3>1. incoming[w] \in Seq(Task)
        BY <1>a, <2>1 DEF TypeWorker
      <3>2. Append(incoming[w], hand) \in Seq(Task)
        BY <2>1, <3>1, AppendIn
      <3> QED BY <1>a, <2>2, <3>2 DEF TypeWorker
    <2>6. TypeWorker'
      BY <1>5, <1>a, <2>5 DEF TypeWorker, law_spawn_dispatch_once
    <2> QED BY <2>3, <2>4, <2>6 DEF TypeOK
  <1>6. ASSUME NEW w \in Worker, WorkerStep(w) PROVE TypeOK'
    <2>1. CASE law_worker_poll(w)
      BY <2>1, <1>a DEF TypeOK, TypeMain, TypePool, TypeWorker, law_worker_poll
    <2>2. CASE law_worker_messages(w)
      BY <2>2, <1>a DEF TypeOK, TypeMain, TypePool, TypeWorker, law_worker_messages
    <2>3. CASE law_worker_incoming(w)
      <3>1. incoming' \in [Worker -> Seq(Task)]
        <4>1. incoming[w] \in Seq(Task)
          BY <1>a DEF TypeWorker
        <4>2. \/ UNCHANGED incoming
              \/ incoming[w] # <<>> /\ incoming' = [incoming EXCEPT ![w] = Tail(@)]
          BY <2>3 DEF law_worker_incoming
        <4>3. incoming[w] # <<>> => Tail(incoming[w]) \in Seq(Task)
          BY <4>1, TailIn
        <4> QED BY <1>a, <4>2, <4>3 DEF TypeWorker
      <3>2. table' \in [Worker -> SUBSET Task] /\ ready' \in [Worker -> SUBSET Task]
        <4>1. CASE UNCHANGED <<table, ready>>
          BY <4>1, <1>a DEF TypeWorker
        <4>2. CASE ~UNCHANGED <<table, ready>>
          <5>1. /\ incoming[w] # <<>>
                /\ table' = [table EXCEPT ![w] = @ \cup {Head(incoming[w])}]
                /\ ready' = [ready EXCEPT ![w] = @ \cup {Head(incoming[w])}]
            BY <4>2, <2>3 DEF law_worker_incoming, law_ready_set_push
          <5>2. Head(incoming[w]) \in Task
            BY <5>1, <1>a, TailIn DEF TypeWorker
          <5> QED BY <5>1, <5>2, <1>a DEF TypeWorker
        <4> QED BY <4>1, <4>2
      <3>3. TypeMain' /\ TypePool'
        BY <2>3, <1>a DEF TypeMain, TypePool, law_worker_incoming
      <3>4. TypeWorker'
        BY <2>3, <1>a, <3>1, <3>2 DEF TypeWorker, law_worker_incoming
      <3> QED BY <3>3, <3>4 DEF TypeOK
    <2>4. CASE law_worker_dispatch(w)
      <3>1. TypeMain' /\ TypePool'
        BY <2>4, <1>a DEF TypeMain, TypePool, law_worker_dispatch
      <3>2. ready' \in [Worker -> SUBSET Task] /\ active' \in [Worker -> Task \cup {NoTask}]
        <4>1. \/ UNCHANGED <<ready, active>>
              \/ \E t \in ready[w] : /\ ready' = [ready EXCEPT ![w] = @ \ {t}]
                                     /\ active' = [active EXCEPT ![w] = t]
          BY <2>4 DEF law_worker_dispatch
        <4>2. ready[w] \in SUBSET Task
          BY <1>a DEF TypeWorker
        <4>3. \A t \in ready[w] : t \in Task /\ ready[w] \ {t} \in SUBSET Task
          BY <4>2
        <4>4. CASE UNCHANGED <<ready, active>>
          BY <4>4, <1>a DEF TypeWorker
        <4>5. CASE \E t \in ready[w] : /\ ready' = [ready EXCEPT ![w] = @ \ {t}]
                                       /\ active' = [active EXCEPT ![w] = t]
          <5>1. PICK t \in ready[w] : /\ ready' = [ready EXCEPT ![w] = @ \ {t}]
                                      /\ active' = [active EXCEPT ![w] = t]
            BY <4>5
          <5>2. ready' = [ready EXCEPT ![w] = ready[w] \ {t}]
            BY <5>1
          <5>3. ready' \in [Worker -> SUBSET Task]
            BY <5>2, <4>3, <1>a DEF TypeWorker
          <5> QED BY <5>1, <5>3, <4>3, <1>a DEF TypeWorker
        <4> QED BY <4>1, <4>4, <4>5
      <3>3. TypeWorker'
        BY <2>4, <1>a, <3>2 DEF TypeWorker, law_worker_dispatch
      <3> QED BY <3>1, <3>3 DEF TypeOK
    <2>5. CASE law_ewait(w)
      BY <2>5, <1>a DEF TypeOK, TypeMain, TypePool, TypeWorker, law_ewait
    <2>6. CASE law_task_finish(w)
      <3>1. pool' \in SUBSET Task
        BY <2>6, <1>a DEF TypePool, TypeWorker, law_task_finish, law_task_pool_push
      <3>2. TypeMain' /\ TypePool'
        BY <2>6, <1>a, <3>1 DEF TypeMain, TypePool, law_task_finish
      <3>3. table' \in [Worker -> SUBSET Task] /\ wpc' \in [Worker -> WorkerLabel]
        <4>1. \/ UNCHANGED <<table, wpc>>
              \/ /\ table' = [table EXCEPT ![w] = @ \ {active[w]}]
                 /\ wpc' = [wpc EXCEPT ![w] = "dispatch"]
          BY <2>6 DEF law_task_finish
        <4>2. table[w] \ {active[w]} \in SUBSET Task
          BY <1>a DEF TypeWorker
        <4>3. CASE UNCHANGED <<table, wpc>>
          BY <4>3, <1>a DEF TypeWorker
        <4>4. CASE /\ table' = [table EXCEPT ![w] = table[w] \ {active[w]}]
                   /\ wpc' = [wpc EXCEPT ![w] = "dispatch"]
          <5>1. table' \in [Worker -> SUBSET Task]
            BY <4>2, <4>4, <1>a DEF TypeWorker
          <5> QED BY <5>1, <4>4, <1>a DEF TypeWorker
        <4> QED BY <4>1, <4>3, <4>4
      <3>4. TypeWorker'
        BY <2>6, <1>a, <3>3 DEF TypeWorker, law_task_finish
      <3> QED BY <3>2, <3>4 DEF TypeOK
    <2>7. CASE law_spawn(w)
      <3>1. CASE pool = {}
        BY <3>1, <2>7, <1>a DEF TypeOK, TypeMain, TypePool, TypeWorker, law_spawn
      <3>2. CASE pool # {}
        <4>1. PICK t \in pool : /\ law_task_setup(t)
                                /\ child' = [child EXCEPT ![w] = t]
                                /\ wtry' = [wtry EXCEPT ![w] = 0]
                                /\ wpc' = [wpc EXCEPT ![w] = "push"]
                                /\ UNCHANGED poolLock
          BY <3>2, <2>7 DEF law_spawn
        <4>2. TypePool' /\ t \in Task
          BY <4>1, <2>7, <1>a, SetupTask DEF TypePool, law_spawn
        <4>3. TypeMain'
          BY <2>7, <1>a DEF TypeMain, law_spawn
        <4>4. TypeWorker'
          BY <2>7, <1>a, <4>1, <4>2 DEF TypeWorker, law_spawn
        <4> QED BY <4>2, <4>3, <4>4 DEF TypeOK
      <3> QED BY <3>1, <3>2
    <2>8. CASE law_spawn_push(w)
      <3>1. child[w] \in Task
        BY <2>8, CarriedTask DEF law_spawn_push
      <3>2. incoming' \in [Worker -> Seq(Task)]
        <4>1. \/ UNCHANGED incoming
              \/ /\ wtry[w] < NWorkers
                 /\ incoming' = [incoming EXCEPT ![wtry[w]] = Append(@, child[w])]
          BY <2>8 DEF law_spawn_push, law_task_queue_push
        <4>2. ASSUME wtry[w] < NWorkers
              PROVE  /\ wtry[w] \in Worker
                     /\ Append(incoming[wtry[w]], child[w]) \in Seq(Task)
          <5>1. wtry[w] \in Worker
            BY <4>2, <1>a, SpawnIndex DEF TypeWorker
          <5>2. incoming[wtry[w]] \in Seq(Task)
            BY <5>1, <1>a DEF TypeWorker
          <5> QED BY <5>1, <5>2, <3>1, AppendIn
        <4> QED BY <1>a, <4>1, <4>2 DEF TypeWorker
      <3>3. /\ child' \in [Worker -> Task \cup {NoTask}]
            /\ wtry' \in [Worker -> 0 .. NWorkers]
            /\ wpc' \in [Worker -> WorkerLabel]
        <4>1. \/ /\ wtry[w] < NWorkers /\ wtry' = [wtry EXCEPT ![w] = @ + 1]
                 /\ UNCHANGED <<child, wpc>>
              \/ /\ child' = [child EXCEPT ![w] = NoTask]
                 /\ wpc' = [wpc EXCEPT ![w] = "run"] /\ UNCHANGED wtry
          BY <2>8 DEF law_spawn_push
        <4>2. wtry[w] \in 0 .. NWorkers
          BY <1>a DEF TypeWorker
        <4>3. wtry[w] < NWorkers => wtry[w] + 1 \in 0 .. NWorkers
          BY <4>2
        <4> QED BY <1>a, <4>1, <4>3 DEF TypeWorker
      <3>4. TypeMain' /\ TypePool'
        BY <2>8, <1>a DEF TypeMain, TypePool, law_spawn_push
      <3>5. TypeWorker'
        BY <2>8, <1>a, <3>2, <3>3 DEF TypeWorker, law_spawn_push
      <3> QED BY <3>4, <3>5 DEF TypeOK
    <2> QED BY <1>6, <2>1, <2>2, <2>3, <2>4, <2>5, <2>6, <2>7, <2>8 DEF WorkerStep
  <1> QED
    BY <1>0, <1>1, <1>2, <1>3, <1>4, <1>5, <1>6 DEF Next, MainStep, MainControl

-----------------------------------------------------------------------------
(* A task pointer is in one place *)

LEMMA PlaceForm ==
  /\ \A p \in Places : p = <<p[1], p[2]>>
  /\ <<"pool", 0>> \in Places /\ <<"hand", 0>> \in Places
  /\ \A w \in Worker : /\ <<"child", w>> \in Places
                       /\ <<"queue", w>> \in Places
                       /\ <<"table", w>> \in Places
  /\ \A p \in Places : \/ p = <<"pool", 0>> \/ p = <<"hand", 0>>
                       \/ \E w \in Worker : \/ p = <<"child", w>>
                                            \/ p = <<"queue", w>>
                                            \/ p = <<"table", w>>
  BY DEF Places

LEMMA HoldsForm ==
  ASSUME NEW t
  PROVE  /\ Holds(<<"pool", 0>>, t) <=> t \in pool
         /\ Holds(<<"hand", 0>>, t) <=> t = hand
         /\ \A w \in Worker : /\ Holds(<<"child", w>>, t) <=> t = child[w]
                              /\ Holds(<<"queue", w>>, t) <=> InSeq(incoming[w], t)
                              /\ Holds(<<"table", w>>, t) <=> t \in table[w]
  <1>1. Holds(<<"pool", 0>>, t) <=> t \in pool
    BY DEF Holds
  <1>2. Holds(<<"hand", 0>>, t) <=> t = hand
    BY DEF Holds
  <1>3. ASSUME NEW w \in Worker PROVE Holds(<<"child", w>>, t) <=> t = child[w]
    BY DEF Holds
  <1>4. ASSUME NEW w \in Worker PROVE Holds(<<"queue", w>>, t) <=> InSeq(incoming[w], t)
    BY DEF Holds
  <1>5. ASSUME NEW w \in Worker PROVE Holds(<<"table", w>>, t) <=> t \in table[w]
    BY DEF Holds
  <1> QED BY <1>1, <1>2, <1>3, <1>4, <1>5

\* What Exclusive says of a task in each of the five kinds of place.
LEMMA Apart ==
  ASSUME Exclusive, NEW t \in Task
  PROVE  /\ t \in pool =>
              /\ t # hand
              /\ \A w \in Worker : /\ t # child[w] /\ ~InSeq(incoming[w], t)
                                   /\ t \notin table[w]
         /\ t = hand =>
              \A w \in Worker : /\ t # child[w] /\ ~InSeq(incoming[w], t)
                                /\ t \notin table[w]
         /\ \A v, w \in Worker :
              /\ t = child[w] =>
                   ~InSeq(incoming[v], t) /\ t \notin table[v] /\ (t = child[v] => v = w)
              /\ InSeq(incoming[w], t) =>
                   t \notin table[v] /\ (InSeq(incoming[v], t) => v = w)
              /\ t \in table[w] => (t \in table[v] => v = w)
  <1>1. \A p, q \in Places : Holds(p, t) /\ Holds(q, t) => p = q
    BY DEF Exclusive
  <1>2. /\ \A v, w \in Worker :
             /\ <<"child", v>> # <<"queue", w>> /\ <<"child", v>> # <<"table", w>>
             /\ <<"queue", v>> # <<"table", w>>
             /\ <<"child", v>> = <<"child", w>> => v = w
             /\ <<"queue", v>> = <<"queue", w>> => v = w
             /\ <<"table", v>> = <<"table", w>> => v = w
             /\ <<"pool", 0>> # <<"child", v>> /\ <<"pool", 0>> # <<"queue", v>>
             /\ <<"pool", 0>> # <<"table", v>>
             /\ <<"hand", 0>> # <<"child", v>> /\ <<"hand", 0>> # <<"queue", v>>
             /\ <<"hand", 0>> # <<"table", v>>
        /\ <<"pool", 0>> # <<"hand", 0>>
    OBVIOUS
  <1> DEFINE P == <<"pool", 0>>
             H == <<"hand", 0>>
             C(w) == <<"child", w>>
             Q(w) == <<"queue", w>>
             T(w) == <<"table", w>>
  <1>3. /\ P \in Places /\ H \in Places /\ P # H
        /\ \A w \in Worker : /\ C(w) \in Places /\ Q(w) \in Places /\ T(w) \in Places
                             /\ P # C(w) /\ P # Q(w) /\ P # T(w)
                             /\ H # C(w) /\ H # Q(w) /\ H # T(w)
        /\ \A v, w \in Worker : /\ C(v) # Q(w) /\ C(v) # T(w) /\ Q(v) # T(w)
                                /\ (C(v) = C(w) => v = w) /\ (Q(v) = Q(w) => v = w)
                                /\ (T(v) = T(w) => v = w)
    BY <1>2, PlaceForm
  <1>4. /\ Holds(P, t) <=> t \in pool
        /\ Holds(H, t) <=> t = hand
        /\ \A w \in Worker : /\ Holds(C(w), t) <=> t = child[w]
                             /\ Holds(Q(w), t) <=> InSeq(incoming[w], t)
                             /\ Holds(T(w), t) <=> t \in table[w]
    BY HoldsForm
  <1> HIDE DEF P, H, C, Q, T
  <1>5. t \in pool =>
          /\ t # hand
          /\ \A w \in Worker : /\ t # child[w] /\ ~InSeq(incoming[w], t)
                               /\ t \notin table[w]
    BY <1>1, <1>3, <1>4
  <1>6. t = hand =>
          \A w \in Worker : /\ t # child[w] /\ ~InSeq(incoming[w], t)
                            /\ t \notin table[w]
    BY <1>1, <1>3, <1>4
  <1>7. ASSUME NEW v \in Worker, NEW w \in Worker
        PROVE  /\ t = child[w] =>
                    ~InSeq(incoming[v], t) /\ t \notin table[v] /\ (t = child[v] => v = w)
               /\ InSeq(incoming[w], t) =>
                    t \notin table[v] /\ (InSeq(incoming[v], t) => v = w)
               /\ t \in table[w] => (t \in table[v] => v = w)
    BY <1>1, <1>3, <1>4
  <1> QED BY <1>5, <1>6, <1>7

\* A step that takes t0 out of p0 and puts it at most into p1.
LEMMA MoveTask ==
  ASSUME Exclusive, NEW t0 \in Task, NEW p0 \in Places, NEW p1 \in Places,
         Holds(p0, t0),
         p0 = p1 \/ ~Holds(p0, t0)',
         \A p \in Places, t \in Task : Holds(p, t)' => Holds(p, t) \/ (p = p1 /\ t = t0)
  PROVE  Exclusive'
  BY DEF Exclusive

LEMMA KeepTasks ==
  ASSUME Exclusive, \A p \in Places, t \in Task : Holds(p, t)' => Holds(p, t)
  PROVE  Exclusive'
  BY DEF Exclusive

\* The actions that move no task pointer.
Still ==
  \/ MainControl \/ law_start \/ law_server_shutdown
  \/ \E w \in Worker : \/ law_worker_poll(w) \/ law_worker_messages(w)
                       \/ law_worker_dispatch(w) \/ law_ewait(w)

LEMMA StillFrame ==
  ASSUME Still \/ UNCHANGED vars
  PROVE  UNCHANGED <<pool, hand, child, incoming, table>>
  <1>1. CASE MainControl
    BY <1>1, MainControlFrame
  <1>2. CASE law_start \/ law_server_shutdown \/ UNCHANGED vars
    BY <1>2 DEF law_start, law_server_shutdown, vars
  <1>3. CASE \E w \in Worker : \/ law_worker_poll(w) \/ law_worker_messages(w)
                               \/ law_worker_dispatch(w) \/ law_ewait(w)
    BY <1>3 DEF law_worker_poll, law_worker_messages, law_worker_dispatch, law_ewait
  <1> QED BY <1>1, <1>2, <1>3 DEF Still

\* The actions that move one, each with its two places.
LEMMA NextCases ==
  ASSUME [Next]_vars
  PROVE  \/ Still \/ UNCHANGED vars
         \/ law_server_accept_pop \/ law_spawn_dispatch_once
         \/ \E w \in Worker : \/ law_worker_incoming(w) \/ law_task_finish(w)
                              \/ law_spawn(w) \/ law_spawn_push(w)
  BY DEF Next, MainStep, WorkerStep, Still, MainControl

LEMMA ExclusiveStep ==
  ASSUME TypeOK, Exclusive, \A w \in Worker : NoDup(incoming[w]), Control, [Next]_vars
  PROVE  Exclusive'
  <1>a. TypeMain /\ TypePool /\ TypeWorker
    BY DEF TypeOK
  <1>1. CASE Still \/ UNCHANGED vars
    <2>1. UNCHANGED <<pool, hand, child, incoming, table>>
      BY <1>1, StillFrame
    <2>2. \A p \in Places, t \in Task : Holds(p, t)' => Holds(p, t)
      BY <2>1 DEF Holds
    <2> QED BY <2>2, KeepTasks
  <1>2. CASE law_server_accept_pop
    <2>1. CASE pool = {}
      <3>1. \A p \in Places, t \in Task : Holds(p, t)' => Holds(p, t)
        BY <2>1, <1>2 DEF law_server_accept_pop, Holds
      <3> QED BY <3>1, KeepTasks
    <2>2. CASE pool # {}
      <3>1. PICK t0 \in pool : law_task_setup(t0) /\ hand' = t0
        BY <2>2, <1>2 DEF law_server_accept_pop
      <3>2. t0 \in Task /\ pool' = pool \ {t0} /\ UNCHANGED <<child, incoming, table>>
        BY <3>1, <1>2, <1>a, SetupTask DEF law_server_accept_pop
      <3>3. <<"pool", 0>> \in Places /\ <<"hand", 0>> \in Places
        BY PlaceForm
      <3>4. Holds(<<"pool", 0>>, t0)
        BY <3>1, HoldsForm
      <3>5. ~Holds(<<"pool", 0>>, t0)'
        BY <3>2 DEF Holds
      <3>6. ASSUME NEW p \in Places, NEW t \in Task, Holds(p, t)'
            PROVE  Holds(p, t) \/ (p = <<"hand", 0>> /\ t = t0)
        BY <3>1, <3>2, <3>6, PlaceForm DEF Holds
      <3> QED BY <3>2, <3>3, <3>4, <3>5, <3>6, MoveTask
    <2> QED BY <2>1, <2>2
  <1>3. CASE law_spawn_dispatch_once
    <2> DEFINE w == (try + id[hand]) % NWorkers
    <2>1. hand \in Task /\ w \in Worker
      BY <1>3, <1>a, CarriedTask, DispatchIndex, Params
         DEF law_spawn_dispatch_once, TypeMain, TypePool
    <2>2. \/ /\ incoming' = [incoming EXCEPT ![w] = Append(@, hand)]
             /\ hand' = NoTask
          \/ UNCHANGED <<incoming, hand>>
      BY <1>3 DEF law_spawn_dispatch_once, law_task_queue_push
    <2>3. UNCHANGED <<pool, child, table>>
      BY <1>3 DEF law_spawn_dispatch_once
    <2> HIDE DEF w
    <2>4. CASE UNCHANGED <<incoming, hand>>
      <3>1. \A p \in Places, t \in Task : Holds(p, t)' => Holds(p, t)
        BY <2>3, <2>4 DEF Holds
      <3> QED BY <3>1, KeepTasks
    <2>5. CASE incoming' = [incoming EXCEPT ![w] = Append(@, hand)] /\ hand' = NoTask
      <3>1. incoming[w] \in Seq(Task) /\ incoming'[w] = Append(incoming[w], hand)
        BY <2>1, <2>5, <1>a DEF TypeWorker
      <3>2. \A t : InSeq(incoming'[w], t) => InSeq(incoming[w], t) \/ t = hand
        BY <3>1, <2>1, AppendIn
      <3>3. \A v \in Worker : v # w => incoming'[v] = incoming[v]
        BY <2>5, <1>a DEF TypeWorker
      <3>4. <<"hand", 0>> \in Places /\ <<"queue", w>> \in Places
        BY <2>1, PlaceForm
      <3>5. Holds(<<"hand", 0>>, hand)
        BY HoldsForm
      <3>6. \A t \in Task : ~Holds(<<"hand", 0>>, t)'
        BY <2>5, Params DEF Holds
      <3>7. ASSUME NEW p \in Places, NEW t \in Task, Holds(p, t)'
            PROVE  Holds(p, t) \/ (p = <<"queue", w>> /\ t = hand)
        BY <2>3, <2>5, <3>2, <3>3, <3>6, <3>7, PlaceForm DEF Holds
      <3>8. PICK t0 \in Task : t0 = hand
        BY <2>1
      <3> QED BY <3>4, <3>5, <3>6, <3>7, <3>8, MoveTask
    <2> QED BY <2>2, <2>4, <2>5
  <1>4. ASSUME NEW w \in Worker, law_worker_incoming(w) PROVE Exclusive'
    <2>1. UNCHANGED <<pool, hand, child>>
      BY <1>4 DEF law_worker_incoming
    <2>2. CASE UNCHANGED <<incoming, table>>
      <3>1. \A p \in Places, t \in Task : Holds(p, t)' => Holds(p, t)
        BY <2>1, <2>2 DEF Holds
      <3> QED BY <3>1, KeepTasks
    <2>3. CASE ~UNCHANGED <<incoming, table>>
      <3>0. incoming[w] # <<>> /\ incoming' = [incoming EXCEPT ![w] = Tail(@)]
        BY <2>3, <1>4 DEF law_worker_incoming
      <3>a. PICK t0 : t0 = Head(incoming[w])
        OBVIOUS
      <3>1. \/ table' = [table EXCEPT ![w] = @ \cup {t0}]
            \/ table' = table
        BY <2>3, <3>a, <1>4 DEF law_worker_incoming
      <3>2. incoming[w] \in Seq(Task) /\ incoming'[w] = Tail(incoming[w])
        BY <3>0, <1>a DEF TypeWorker
      <3>3. /\ t0 \in Task /\ InSeq(incoming[w], t0)
            /\ \A t : InSeq(incoming'[w], t) => InSeq(incoming[w], t)
            /\ ~InSeq(incoming'[w], t0)
        BY <3>0, <3>a, <3>2, TailIn
      <3>4. \A v \in Worker : /\ v # w => incoming'[v] = incoming[v] /\ table'[v] = table[v]
                              /\ \A t : t \in table'[w] => t \in table[w] \/ t = t0
        BY <3>0, <3>1, <1>a DEF TypeWorker
      <3>5. <<"queue", w>> \in Places /\ <<"table", w>> \in Places
        BY PlaceForm
      <3>6. Holds(<<"queue", w>>, t0)
        BY <3>3, HoldsForm
      <3>7. ~Holds(<<"queue", w>>, t0)'
        BY <3>3 DEF Holds
      <3>8. ASSUME NEW p \in Places, NEW t \in Task, Holds(p, t)'
            PROVE  Holds(p, t) \/ (p = <<"table", w>> /\ t = t0)
        BY <2>1, <3>3, <3>4, <3>8, PlaceForm DEF Holds
      <3> QED BY <3>3, <3>5, <3>6, <3>7, <3>8, MoveTask
    <2> QED BY <2>2, <2>3
  <1>5. ASSUME NEW w \in Worker, law_task_finish(w) PROVE Exclusive'
    <2>1. UNCHANGED <<hand, child, incoming>>
      BY <1>5 DEF law_task_finish
    <2>2. CASE UNCHANGED <<pool, table>>
      <3>1. \A p \in Places, t \in Task : Holds(p, t)' => Holds(p, t)
        BY <2>1, <2>2 DEF Holds
      <3> QED BY <3>1, KeepTasks
    <2>3. CASE ~UNCHANGED <<pool, table>>
      <3>a. PICK t0 : t0 = active[w]
        OBVIOUS
      <3>1. /\ t0 \in table[w]
            /\ table' = [table EXCEPT ![w] = @ \ {t0}]
            /\ pool' = pool \cup {t0}
        BY <2>3, <3>a, <1>5 DEF law_task_finish, law_task_pool_push
      <3>2. t0 \in Task
        BY <3>1, <1>a DEF TypeWorker
      <3>3. /\ table'[w] = table[w] \ {t0}
            /\ \A v \in Worker : v # w => table'[v] = table[v]
        BY <3>1, <1>a DEF TypeWorker
      <3>4. <<"pool", 0>> \in Places /\ <<"table", w>> \in Places
        BY PlaceForm
      <3>5. Holds(<<"table", w>>, t0)
        BY <3>1, HoldsForm
      <3>6. ~Holds(<<"table", w>>, t0)'
        BY <3>3 DEF Holds
      <3>7. ASSUME NEW p \in Places, NEW t \in Task, Holds(p, t)'
            PROVE  Holds(p, t) \/ (p = <<"pool", 0>> /\ t = t0)
        BY <2>1, <3>1, <3>3, <3>7, PlaceForm DEF Holds
      <3> QED BY <3>2, <3>4, <3>5, <3>6, <3>7, MoveTask
    <2> QED BY <2>2, <2>3
  <1>6. ASSUME NEW w \in Worker, law_spawn(w) PROVE Exclusive'
    <2>1. UNCHANGED <<hand, incoming, table>>
      BY <1>6 DEF law_spawn
    <2>2. CASE pool = {}
      <3>1. \A p \in Places, t \in Task : Holds(p, t)' => Holds(p, t)
        BY <2>1, <2>2, <1>6 DEF Holds, law_spawn
      <3> QED BY <3>1, KeepTasks
    <2>3. CASE pool # {}
      <3>1. PICK t0 \in pool : law_task_setup(t0) /\ child' = [child EXCEPT ![w] = t0]
        BY <2>3, <1>6 DEF law_spawn
      <3>2. t0 \in Task /\ pool' = pool \ {t0}
        BY <3>1, <1>a, SetupTask
      <3>3. /\ child'[w] = t0
            /\ \A v \in Worker : v # w => child'[v] = child[v]
        BY <3>1, <1>a DEF TypeWorker
      <3>4. <<"pool", 0>> \in Places /\ <<"child", w>> \in Places
        BY PlaceForm
      <3>5. Holds(<<"pool", 0>>, t0)
        BY <3>1, HoldsForm
      <3>6. ~Holds(<<"pool", 0>>, t0)'
        BY <3>2 DEF Holds
      <3>7. ASSUME NEW p \in Places, NEW t \in Task, Holds(p, t)'
            PROVE  Holds(p, t) \/ (p = <<"child", w>> /\ t = t0)
        BY <2>1, <3>2, <3>3, <3>7, PlaceForm DEF Holds
      <3> QED BY <3>2, <3>4, <3>5, <3>6, <3>7, MoveTask
    <2> QED BY <2>2, <2>3
  <1>7. ASSUME NEW w \in Worker, law_spawn_push(w) PROVE Exclusive'
    <2>a. PICK v, t0 : v = wtry[w] /\ t0 = child[w]
      OBVIOUS
    <2>1. UNCHANGED <<pool, hand, table>>
      BY <1>7 DEF law_spawn_push
    <2>2. t0 \in Task
      BY <2>a, <1>7, CarriedTask DEF law_spawn_push
    <2>3. \/ UNCHANGED <<incoming, child>>
          \/ /\ child' = [child EXCEPT ![w] = NoTask]
             /\ \/ UNCHANGED incoming
                \/ v < NWorkers /\ incoming' = [incoming EXCEPT ![v] = Append(@, t0)]
      BY <2>a, <1>7 DEF law_spawn_push, law_task_queue_push
    <2>4. CASE UNCHANGED <<incoming, child>>
      <3>1. \A p \in Places, t \in Task : Holds(p, t)' => Holds(p, t)
        BY <2>1, <2>4 DEF Holds
      <3> QED BY <3>1, KeepTasks
    <2>5. CASE child' = [child EXCEPT ![w] = NoTask] /\ UNCHANGED incoming
      <3>1. \A u \in Worker : child'[u] = child[u] \/ child'[u] = NoTask
        BY <2>5, <1>a DEF TypeWorker
      <3>2. \A p \in Places, t \in Task : Holds(p, t)' => Holds(p, t)
        BY <2>1, <2>5, <3>1, Params, PlaceForm DEF Holds
      <3> QED BY <3>2, KeepTasks
    <2>6. CASE /\ child' = [child EXCEPT ![w] = NoTask]
               /\ v < NWorkers /\ incoming' = [incoming EXCEPT ![v] = Append(@, t0)]
      <3>1. v \in Worker
        BY <2>a, <2>6, <1>a, SpawnIndex DEF TypeWorker
      <3>2. incoming[v] \in Seq(Task) /\ incoming'[v] = Append(incoming[v], t0)
        BY <2>6, <3>1, <1>a DEF TypeWorker
      <3>3. \A t : InSeq(incoming'[v], t) => InSeq(incoming[v], t) \/ t = t0
        BY <2>2, <3>2, AppendIn
      <3>4. /\ \A u \in Worker : u # v => incoming'[u] = incoming[u]
            /\ \A u \in Worker : u # w => child'[u] = child[u]
            /\ child'[w] = NoTask
        BY <2>6, <1>a DEF TypeWorker
      <3>5. <<"child", w>> \in Places /\ <<"queue", v>> \in Places
        BY <3>1, PlaceForm
      <3>6. Holds(<<"child", w>>, t0)
        BY <2>a, HoldsForm
      <3>7. ~Holds(<<"child", w>>, t0)'
        BY <2>2, <3>4, Params DEF Holds
      <3>8. ASSUME NEW p \in Places, NEW t \in Task, Holds(p, t)'
            PROVE  Holds(p, t) \/ (p = <<"queue", v>> /\ t = t0)
        BY <2>1, <3>3, <3>4, <3>8, Params, PlaceForm DEF Holds
      <3> QED BY <2>2, <3>5, <3>6, <3>7, <3>8, MoveTask
    <2> QED BY <2>3, <2>4, <2>5, <2>6
  <1> QED BY <1>1, <1>2, <1>3, <1>4, <1>5, <1>6, <1>7, NextCases

LEMMA NoDupStep ==
  ASSUME TypeOK, Placement, Control, [Next]_vars, NEW w \in Worker
  PROVE  NoDup(incoming'[w])
  <1>a. TypeMain /\ TypePool /\ TypeWorker /\ Exclusive
    BY DEF TypeOK, Placement
  <1>b. incoming[w] \in Seq(Task) /\ NoDup(incoming[w])
    BY <1>a DEF TypeWorker, Placement
  <1>c. ASSUME NEW x \in Worker, NEW t \in Task, \A v \in Worker : ~InSeq(incoming[v], t),
               incoming' = [incoming EXCEPT ![x] = Append(@, t)]
        PROVE  NoDup(incoming'[w])
    <2>1. CASE w = x
      <3>1. incoming'[w] = Append(incoming[w], t)
        BY <1>a, <1>c, <2>1 DEF TypeWorker
      <3> QED BY <1>b, <1>c, <3>1, AppendIn
    <2>2. CASE w # x
      BY <1>a, <1>b, <1>c, <2>2 DEF TypeWorker
    <2> QED BY <2>1, <2>2
  <1>1. CASE UNCHANGED incoming
    BY <1>1, <1>b
  <1>2. CASE law_spawn_dispatch_once
    <2>1. hand \in Task /\ (try + id[hand]) % NWorkers \in Worker
      BY <1>2, <1>a, CarriedTask, DispatchIndex, Params
         DEF law_spawn_dispatch_once, TypeMain, TypePool
    <2>2. \A v \in Worker : ~InSeq(incoming[v], hand)
      BY <2>1, <1>a, Apart
    <2>3. \/ UNCHANGED incoming
          \/ incoming' = [incoming EXCEPT ![(try + id[hand]) % NWorkers] = Append(@, hand)]
      BY <1>2 DEF law_spawn_dispatch_once, law_task_queue_push
    <2> QED BY <1>1, <1>c, <2>1, <2>2, <2>3
  <1>3. ASSUME NEW u \in Worker, law_worker_incoming(u) PROVE NoDup(incoming'[w])
    <2>1. \/ UNCHANGED incoming
          \/ incoming[u] # <<>> /\ incoming' = [incoming EXCEPT ![u] = Tail(@)]
      BY <1>3 DEF law_worker_incoming
    <2>2. CASE w # u
      BY <1>a, <1>b, <2>1, <2>2 DEF TypeWorker
    <2>3. CASE w = u /\ incoming[u] # <<>> /\ incoming' = [incoming EXCEPT ![u] = Tail(@)]
      <3>1. incoming'[w] = Tail(incoming[w])
        BY <1>a, <2>3 DEF TypeWorker
      <3> QED BY <1>b, <2>3, <3>1, TailIn
    <2> QED BY <1>1, <2>1, <2>2, <2>3
  <1>4. ASSUME NEW u \in Worker, law_spawn_push(u) PROVE NoDup(incoming'[w])
    <2>1. child[u] \in Task
      BY <1>4, CarriedTask DEF law_spawn_push
    <2>2. \A v \in Worker : ~InSeq(incoming[v], child[u])
      BY <2>1, <1>a, Apart
    <2>3. \/ UNCHANGED incoming
          \/ /\ wtry[u] < NWorkers
             /\ incoming' = [incoming EXCEPT ![wtry[u]] = Append(@, child[u])]
      BY <1>4 DEF law_spawn_push, law_task_queue_push
    <2>4. wtry[u] < NWorkers => wtry[u] \in Worker
      BY <1>a, SpawnIndex DEF TypeWorker
    <2> QED BY <1>1, <1>c, <2>1, <2>2, <2>3, <2>4
  <1>5. ASSUME law_server_accept_pop \/ \E u \in Worker : law_task_finish(u) \/ law_spawn(u)
        PROVE  UNCHANGED incoming
    BY <1>5 DEF law_server_accept_pop, law_task_finish, law_spawn
  <1> QED BY <1>1, <1>2, <1>3, <1>4, <1>5, NextCases, StillFrame

-----------------------------------------------------------------------------
(* Control and data agree *)

\* law_task_pool_is_full says that every task is in the pool.
LEMMA FullPool ==
  ASSUME pool \in SUBSET Task, PoolIsFull
  PROVE  pool = Task
  BY ServerAssumption, FS_Subset DEF PoolIsFull

\* A worker whose own state and tasks a step leaves alone.
LEMMA WorkerFrame ==
  ASSUME TypeOK, NEW u \in Worker, WorkerControls(u), NEW t0,
         UNCHANGED <<child[u], incoming[u], wpc[u], table[u], ready[u], active[u],
                     shutdown[u], reloop[u]>>,
         \A t \in Task : t # t0 => tmode'[t] = tmode[t],
         t0 # child[u], ~InSeq(incoming[u], t0), t0 \notin table[u],
         Quiet => Quiet', pc' = "created" => pc = "created"
  PROVE  WorkerControls(u)'
  <1>1. /\ child[u] \in Task \cup {NoTask} /\ table[u] \subseteq Task
        /\ active[u] \in Task \cup {NoTask}
    BY DEF TypeOK, TypeWorker
  <1>2. ready[u] \subseteq table[u] /\ \A t \in table[u] : t \in Task /\ t # t0
    BY <1>1 DEF WorkerControls
  <1>3. \A t \in table[u] : tmode'[t] = tmode[t]
    BY <1>2
  <1>4. child[u] # NoTask => tmode'[child[u]] = tmode[child[u]]
    BY <1>1
  <1>5. \A t \in Task : InSeq(incoming[u], t) => tmode'[t] = tmode[t]
    OBVIOUS
  <1> QED BY <1>2, <1>3, <1>4, <1>5 DEF WorkerControls

LEMMA ControlStep ==
  ASSUME TypeOK, Placement, Control, [Next]_vars
  PROVE  Control'
  <1>a. /\ TypeMain /\ TypePool /\ TypeWorker /\ Exclusive
        /\ MainControls /\ \A w \in Worker : WorkerControls(w)
    BY DEF TypeOK, Placement, Control
  \* No callback runs once the main thread is past the drain loop.
  <1>b. ASSUME NEW w \in Worker, wpc[w] \in {"run", "push"} PROVE ~Quiet /\ pc # "created"
    <2>1. active[w] \in table[w] /\ active[w] \in Task
      BY <1>a, <1>b DEF WorkerControls, TypeWorker
    <2>2. active[w] \notin pool
      BY <2>1, <1>a, Apart
    <2> QED BY <1>a, <1>b, <2>1, <2>2 DEF MainControls, WorkerControls
  <1>0. CASE UNCHANGED vars
    BY <1>0, <1>a DEF Control, MainControls, WorkerControls, Quiet, vars
  <1>1. CASE MainControl
    <2>1. /\ pc' = "dispatch" <=> pc = "dispatch"
          /\ Quiet => Quiet'
          /\ pc' = "created" => pc = "created"
      BY <1>1 DEF MainControl, Quiet, law_server_spin, law_task_pool_is_empty,
         law_server_accept, law_spawn_dispatch, law_server_wait,
         law_task_pool_is_full, law_server_run_threads, law_stop, law_stop_set,
         Connect
    <2>2. Quiet' => Quiet \/ PoolIsFull
      BY <1>1 DEF MainControl, Quiet, law_server_spin, law_task_pool_is_empty,
         law_server_accept, law_spawn_dispatch, law_server_wait,
         law_task_pool_is_full, law_server_run_threads, law_stop, law_stop_set,
         Connect
    <2>3. Quiet' => pool = Task
      BY <2>2, <1>a, FullPool DEF TypePool, MainControls
    <2>4. MainControls'
      BY <1>1, <1>a, <2>1, <2>3, MainControlFrame DEF MainControls
    <2>5. ASSUME NEW u \in Worker PROVE WorkerControls(u)'
      BY <1>1, <1>a, <2>1, <2>5, MainControlFrame DEF WorkerControls
    <2> QED BY <2>4, <2>5 DEF Control
  <1>2. CASE law_start
    <2>1. \A u \in Worker : wpc[u] = "created" /\ wpc'[u] = "poll"
      BY <1>2, <1>a DEF law_start, WorkerControls
    <2>2. ~Quiet /\ ~Quiet' /\ pc' # "dispatch" /\ pc' # "created"
      BY <1>2 DEF law_start, Quiet
    <2>3. MainControls'
      BY <1>2, <1>a, <2>2 DEF law_start, MainControls
    <2>4. ASSUME NEW u \in Worker PROVE WorkerControls(u)'
      BY <1>2, <1>a, <2>1, <2>2, <2>4 DEF law_start, WorkerControls
    <2> QED BY <2>3, <2>4 DEF Control
  <1>3. CASE law_server_shutdown
    <2>1. Quiet /\ Quiet' /\ pc' # "dispatch" /\ pc # "dispatch" /\ pc' # "created"
      BY <1>3 DEF law_server_shutdown, Quiet
    <2>2. UNCHANGED <<hand, pool, tmode, incoming, wpc, reloop, table, ready, active, child>>
      BY <1>3 DEF law_server_shutdown
    <2>3. MainControls'
      BY <1>a, <2>1, <2>2 DEF MainControls
    <2>4. ASSUME NEW u \in Worker PROVE WorkerControls(u)'
      BY <1>a, <2>1, <2>2, <2>4 DEF WorkerControls
    <2> QED BY <2>3, <2>4 DEF Control
  <1>4. CASE law_server_accept_pop
    <2>1. CASE pool = {}
      BY <2>1, <1>4, <1>a DEF law_server_accept_pop, Control, MainControls,
         WorkerControls, Quiet
    <2>2. CASE pool # {}
      <3>1. PICK t0 \in pool : law_task_setup(t0) /\ hand' = t0 /\ pc' = "dispatch"
        BY <2>2, <1>4 DEF law_server_accept_pop
      <3>2. /\ t0 \in Task /\ tmode' = [tmode EXCEPT ![t0] = "spawned"]
            /\ pc = "pop" /\ UNCHANGED <<child, incoming, shutdown, workerVars>>
        BY <3>1, <1>4, <1>a, SetupTask DEF law_server_accept_pop
      <3>3. ~Quiet /\ ~Quiet' /\ pc' # "created"
        BY <3>1, <3>2 DEF Quiet
      <3>4. tmode'[t0] = "spawned" /\ \A t \in Task : t # t0 => tmode'[t] = tmode[t]
        BY <3>2, <1>a DEF TypePool
      <3>5. MainControls'
        BY <3>1, <3>2, <3>3, <3>4, Params DEF MainControls
      <3>6. ASSUME NEW u \in Worker PROVE WorkerControls(u)'
        <4>1. t0 # child[u] /\ ~InSeq(incoming[u], t0) /\ t0 \notin table[u]
          BY <3>1, <3>2, <1>a, Apart
        <4> QED BY <1>a, <3>2, <3>3, <3>4, <4>1, WorkerFrame
      <3> QED BY <3>5, <3>6 DEF Control
    <2> QED BY <2>1, <2>2
  <1>5. CASE law_spawn_dispatch_once
    <2>1. hand \in Task /\ (try + id[hand]) % NWorkers \in Worker
      BY <1>5, <1>a, CarriedTask, DispatchIndex, Params
         DEF law_spawn_dispatch_once, TypeMain, TypePool
    <2>a. PICK x \in Worker : x = (try + id[hand]) % NWorkers
      BY <2>1
    <2>2. /\ pc = "dispatch" /\ UNCHANGED <<tmode, child, shutdown, workerVars, pool>>
          /\ \/ incoming' = [incoming EXCEPT ![x] = Append(@, hand)]
                /\ hand' = NoTask /\ pc' = "accept"
             \/ UNCHANGED <<incoming, hand, pc>>
      BY <1>5, <2>a DEF law_spawn_dispatch_once, law_task_queue_push
    <2>3. ~Quiet /\ ~Quiet' /\ pc' # "created"
      BY <2>2 DEF Quiet
    <2>4. MainControls'
      BY <2>2, <2>3, <1>a DEF MainControls
    <2>5. ASSUME NEW u \in Worker PROVE WorkerControls(u)'
      <3>1. \A t \in Task : InSeq(incoming'[u], t) => InSeq(incoming[u], t) \/ t = hand
        <4>1. CASE incoming'[u] = incoming[u]
          BY <4>1
        <4>2. CASE u = x /\ incoming' = [incoming EXCEPT ![x] = Append(@, hand)]
          <5>1. incoming[u] \in Seq(Task) /\ incoming'[u] = Append(incoming[u], hand)
            BY <4>2, <1>a DEF TypeWorker
          <5> QED BY <5>1, <2>1, AppendIn
        <4> QED BY <4>1, <4>2, <2>2, <1>a DEF TypeWorker
      <3>2. tmode[hand] = "spawned"
        BY <2>1, <1>a, Params DEF MainControls
      <3> QED BY <1>a, <2>2, <2>3, <3>1, <3>2 DEF WorkerControls
    <2> QED BY <2>4, <2>5 DEF Control
  <1>6. ASSUME NEW w \in Worker, WorkerStep(w) PROVE Control'
    <2>1. pc' = pc /\ hand' = hand /\ (Quiet' <=> Quiet)
      BY <1>6 DEF WorkerStep, Quiet, law_worker_poll, law_worker_messages,
         law_worker_incoming, law_worker_dispatch, law_ewait, law_task_finish,
         law_spawn, law_spawn_push
    <2>2. pc # "created"
      BY <1>6, <1>a DEF WorkerControls, WorkerStep, law_worker_poll, law_worker_messages,
         law_worker_incoming, law_worker_dispatch, law_ewait, law_task_finish,
         law_spawn, law_spawn_push
    <2>3. CASE law_worker_poll(w)
      <3>1. /\ wpc[w] = "poll" /\ wpc' = [wpc EXCEPT ![w] = "messages"]
            /\ UNCHANGED <<pool, tmode, child, incoming, shutdown, reloop, table, active>>
        BY <2>3 DEF law_worker_poll
      <3>2. PICK S \in SUBSET {t \in table[w] : tmode[t] = "suspended"} :
              ready' = [ready EXCEPT ![w] = @ \cup S]
        BY <2>3 DEF law_worker_poll
      <3>3. MainControls'
        BY <2>1, <3>1, <1>a DEF MainControls
      <3>4. ASSUME NEW u \in Worker PROVE WorkerControls(u)'
        <4>1. CASE u = w
          <5>1. wpc'[w] = "messages" /\ ready'[w] = ready[w] \cup S
            BY <3>1, <3>2, <1>a DEF TypeWorker
          <5> QED BY <1>a, <2>1, <2>2, <3>1, <3>2, <4>1, <5>1 DEF WorkerControls
        <4>2. CASE u # w
          <5>1. wpc'[u] = wpc[u] /\ ready'[u] = ready[u]
            BY <3>1, <3>2, <4>2, <1>a DEF TypeWorker
          <5> QED BY <1>a, <2>1, <3>1, <5>1 DEF WorkerControls
        <4> QED BY <4>1, <4>2
      <3> QED BY <3>3, <3>4 DEF Control
    <2>4. CASE law_worker_messages(w)
      <3>1. /\ wpc[w] = "messages" /\ wpc' = [wpc EXCEPT ![w] = "incoming"]
            /\ reloop' = [reloop EXCEPT ![w] = ~shutdown[w]]
            /\ shutdown' = [shutdown EXCEPT ![w] = FALSE]
            /\ UNCHANGED <<pool, tmode, child, incoming, table, ready, active>>
        BY <2>4 DEF law_worker_messages
      <3>2. MainControls'
        BY <2>1, <3>1, <1>a DEF MainControls
      <3>3. ASSUME NEW u \in Worker PROVE WorkerControls(u)'
        <4>1. CASE u = w
          <5>1. wpc'[w] = "incoming" /\ ~shutdown'[w] /\ (reloop'[w] <=> ~shutdown[w])
            BY <3>1, <1>a DEF TypeWorker
          <5>2. shutdown'[w] \/ ~reloop'[w] \/ wpc'[w] = "exit" => Quiet'
            BY <5>1, <2>1, <1>a DEF WorkerControls
          <5> QED BY <1>a, <2>1, <2>2, <3>1, <4>1, <5>1, <5>2 DEF WorkerControls
        <4>2. CASE u # w
          <5>1. wpc'[u] = wpc[u] /\ reloop'[u] = reloop[u] /\ shutdown'[u] = shutdown[u]
            BY <3>1, <4>2, <1>a DEF TypeWorker
          <5> QED BY <1>a, <2>1, <3>1, <5>1 DEF WorkerControls
        <4> QED BY <4>1, <4>2
      <3> QED BY <3>2, <3>3 DEF Control
    <2>5. CASE law_worker_incoming(w)
      <3>1. /\ wpc[w] = "incoming"
            /\ UNCHANGED <<pool, tmode, child, shutdown, reloop, active>>
        BY <2>5 DEF law_worker_incoming
      <3>2. \/ /\ incoming[w] # <<>> /\ wpc' = wpc
               /\ incoming' = [incoming EXCEPT ![w] = Tail(@)]
               /\ \/ UNCHANGED <<table, ready>>
                  \/ /\ table' = [table EXCEPT ![w] = @ \cup {Head(incoming[w])}]
                     /\ ready' = [ready EXCEPT ![w] = @ \cup {Head(incoming[w])}]
            \/ wpc' = [wpc EXCEPT ![w] = "dispatch"] /\ UNCHANGED <<incoming, table, ready>>
        BY <2>5 DEF law_worker_incoming, law_ready_set_push
      <3>3. MainControls'
        BY <2>1, <3>1, <1>a DEF MainControls
      <3>4. ASSUME NEW u \in Worker PROVE WorkerControls(u)'
        <4>1. CASE u # w
          <5>1. /\ wpc'[u] = wpc[u] /\ incoming'[u] = incoming[u]
                /\ table'[u] = table[u] /\ ready'[u] = ready[u]
            BY <3>2, <4>1, <1>a DEF TypeWorker
          <5> QED BY <1>a, <2>1, <3>1, <5>1 DEF WorkerControls
        <4>2. CASE u = w /\ UNCHANGED <<incoming, table, ready>>
          <5>1. wpc'[w] \in {"incoming", "dispatch"}
            BY <3>1, <3>2, <1>a DEF TypeWorker
          <5> QED BY <1>a, <2>1, <2>2, <3>1, <4>2, <5>1 DEF WorkerControls
        <4>3. CASE u = w /\ ~UNCHANGED <<incoming, table, ready>>
          <5>a. PICK t0 : t0 = Head(incoming[w])
            OBVIOUS
          <5>1. incoming[w] # <<>> /\ incoming[w] \in Seq(Task) /\ wpc' = wpc
            BY <3>2, <4>3, <1>a DEF TypeWorker
          <5>2. incoming'[w] = Tail(incoming[w])
            BY <3>2, <4>3, <1>a DEF TypeWorker
          <5>3. /\ t0 \in Task /\ InSeq(incoming[w], t0)
                /\ \A t : InSeq(incoming'[w], t) => InSeq(incoming[w], t)
            BY <5>a, <5>1, <5>2, TailIn
          <5>4. \/ table'[w] = table[w] /\ ready'[w] = ready[w]
                \/ table'[w] = table[w] \cup {t0} /\ ready'[w] = ready[w] \cup {t0}
            BY <5>a, <3>2, <4>3, <1>a DEF TypeWorker
          <5>5. tmode[t0] = "spawned"
            BY <5>3, <1>a DEF WorkerControls
          <5> QED BY <1>a, <2>1, <2>2, <3>1, <4>3, <5>1, <5>3, <5>4, <5>5 DEF WorkerControls
        <4> QED BY <4>1, <4>2, <4>3
      <3> QED BY <3>3, <3>4 DEF Control
    <2>6. CASE law_worker_dispatch(w)
      <3>1. /\ wpc[w] = "dispatch"
            /\ UNCHANGED <<pool, child, incoming, shutdown, reloop, table>>
        BY <2>6 DEF law_worker_dispatch
      <3>2. CASE ready[w] = {}
        <4>1. /\ wpc' = [wpc EXCEPT ![w] = IF reloop[w] THEN "poll" ELSE "exit"]
              /\ UNCHANGED <<ready, active, tmode>>
          BY <3>2, <2>6 DEF law_worker_dispatch
        <4>2. MainControls'
          BY <2>1, <3>1, <4>1, <1>a DEF MainControls
        <4>3. ASSUME NEW u \in Worker PROVE WorkerControls(u)'
          <5>1. CASE u = w
            <6>1. wpc'[w] \in {"poll", "exit"} /\ (wpc'[w] = "exit" => ~reloop[w])
              BY <4>1, <1>a DEF TypeWorker
            <6> QED BY <1>a, <2>1, <2>2, <3>1, <4>1, <5>1, <6>1 DEF WorkerControls
          <5>2. CASE u # w
            <6>1. wpc'[u] = wpc[u]
              BY <4>1, <5>2, <1>a DEF TypeWorker
            <6> QED BY <1>a, <2>1, <3>1, <4>1, <6>1 DEF WorkerControls
          <5> QED BY <5>1, <5>2
        <4> QED BY <4>2, <4>3 DEF Control
      <3>3. CASE ready[w] # {}
        <4>1. PICK t0 \in ready[w] :
                /\ ready' = [ready EXCEPT ![w] = @ \ {t0}]
                /\ active' = [active EXCEPT ![w] = t0]
                /\ tmode[t0] \in {"spawned", "suspended"} =>
                     /\ tmode' = [tmode EXCEPT ![t0] = "running"]
                     /\ wpc' = [wpc EXCEPT ![w] = "run"]
          BY <3>3, <2>6 DEF law_worker_dispatch
        <4>2. t0 \in table[w] /\ t0 \in Task /\ tmode[t0] \in {"spawned", "suspended"}
          BY <4>1, <1>a DEF WorkerControls, TypeWorker
        <4>3. tmode'[t0] = "running" /\ \A t \in Task : t # t0 => tmode'[t] = tmode[t]
          BY <4>1, <4>2, <1>a DEF TypePool
        <4>4. \A u \in Worker : /\ t0 # hand /\ t0 # child[u] /\ ~InSeq(incoming[u], t0)
                                /\ u # w => t0 \notin table[u]
          BY <4>2, <1>a, Apart
        <4>5. hand # NoTask => tmode'[hand] = tmode[hand]
          BY <4>3, <4>4, <1>a DEF TypeMain
        <4>6. MainControls'
          BY <2>1, <3>1, <4>5, <1>a DEF MainControls
        <4>7. ASSUME NEW u \in Worker PROVE WorkerControls(u)'
          <5>1. CASE u # w
            <6>1. wpc'[u] = wpc[u] /\ ready'[u] = ready[u] /\ active'[u] = active[u]
              BY <4>1, <4>2, <5>1, <1>a DEF TypeWorker
            <6> QED BY <1>a, <2>1, <3>1, <4>3, <4>4, <5>1, <6>1, WorkerFrame
          <5>2. CASE u = w
            <6>1. wpc'[w] = "run" /\ ready'[w] = ready[w] \ {t0} /\ active'[w] = t0
              BY <4>1, <4>2, <1>a DEF TypeWorker
            <6>2. \A t \in table[w] : t \in Task /\ tmode[t] # "running"
              BY <3>1, <1>a DEF WorkerControls, TypeWorker
            <6>3. child[w] = NoTask
              BY <3>1, <1>a DEF WorkerControls
            <6>4. \A t \in Task : InSeq(incoming[w], t) => tmode'[t] = "spawned"
              BY <4>3, <4>4, <1>a DEF WorkerControls
            <6>5. \A t \in ready'[w] : tmode'[t] \in {"spawned", "suspended"} /\ t \in table[w]
              BY <4>3, <6>1, <6>2, <1>a DEF WorkerControls
            <6>6. \A t \in table[w] : tmode'[t] = "running" => t = t0
              BY <4>3, <6>2
            <6>7. shutdown[w] \/ ~reloop[w] => Quiet'
              BY <2>1, <1>a DEF WorkerControls
            <6> QED
              BY <2>1, <2>2, <3>1, <4>2, <4>3, <5>2, <6>1, <6>3, <6>4, <6>5, <6>6, <6>7
                 DEF WorkerControls
          <5> QED BY <5>1, <5>2
        <4> QED BY <4>6, <4>7 DEF Control
      <3> QED BY <3>2, <3>3
    <2>7. CASE law_ewait(w)
      <3>a. PICK t0 : t0 = active[w]
        OBVIOUS
      <3>1. /\ wpc[w] = "run" /\ wpc' = [wpc EXCEPT ![w] = "dispatch"]
            /\ tmode' = [tmode EXCEPT ![t0] = "suspended"]
            /\ UNCHANGED <<pool, child, incoming, shutdown, reloop, table, ready, active>>
        BY <3>a, <2>7 DEF law_ewait
      <3>2. t0 \in table[w] /\ t0 \in Task /\ tmode[t0] = "running"
        BY <3>a, <3>1, <1>a DEF WorkerControls, TypeWorker
      <3>3. tmode'[t0] = "suspended" /\ \A t \in Task : t # t0 => tmode'[t] = tmode[t]
        BY <3>1, <3>2, <1>a DEF TypePool
      <3>4. \A u \in Worker : /\ t0 # hand /\ t0 # child[u] /\ ~InSeq(incoming[u], t0)
                              /\ u # w => t0 \notin table[u]
        BY <3>2, <1>a, Apart
      <3>5. hand # NoTask => tmode'[hand] = tmode[hand]
        BY <3>3, <3>4, <1>a DEF TypeMain
      <3>6. MainControls'
        BY <2>1, <3>1, <3>5, <1>a DEF MainControls
      <3>7. ASSUME NEW u \in Worker PROVE WorkerControls(u)'
        <4>1. CASE u # w
          <5>1. wpc'[u] = wpc[u]
            BY <3>1, <4>1, <1>a DEF TypeWorker
          <5> QED BY <1>a, <2>1, <3>1, <3>3, <3>4, <4>1, <5>1, WorkerFrame
        <4>2. CASE u = w
          <5>1. wpc'[w] = "dispatch"
            BY <3>1, <1>a DEF TypeWorker
          <5>2. child[w] = NoTask
            BY <3>1, <1>a DEF WorkerControls
          <5>3. \A t \in Task : InSeq(incoming[w], t) => tmode'[t] = "spawned"
            BY <3>3, <3>4, <1>a DEF WorkerControls
          <5>4. \A t \in table[w] : t \in Task /\ tmode'[t] # "running"
            BY <3>a, <3>1, <3>2, <3>3, <1>a DEF WorkerControls, TypeWorker
          <5>5. \A t \in ready[w] : t \in table[w] /\ tmode'[t] \in {"spawned", "suspended"}
            BY <3>3, <5>4, <1>a DEF WorkerControls
          <5>6. shutdown[w] \/ ~reloop[w] => Quiet'
            BY <2>1, <1>a DEF WorkerControls
          <5> QED BY <2>1, <2>2, <3>1, <4>2, <5>1, <5>2, <5>3, <5>4, <5>5, <5>6 DEF WorkerControls
        <4> QED BY <4>1, <4>2
      <3> QED BY <3>6, <3>7 DEF Control
    <2>8. CASE law_task_finish(w)
      <3>a. PICK t0 : t0 = active[w]
        OBVIOUS
      <3>1. /\ wpc[w] = "run"
            /\ UNCHANGED <<tmode, child, incoming, shutdown, reloop, ready, active>>
        BY <2>8 DEF law_task_finish
      <3>2. t0 \in table[w] /\ t0 \in Task /\ tmode[t0] = "running" /\ t0 \notin ready[w]
        BY <3>a, <3>1, <1>a DEF WorkerControls, TypeWorker
      <3>3. /\ table' = [table EXCEPT ![w] = @ \ {t0}]
            /\ wpc' = [wpc EXCEPT ![w] = "dispatch"]
        BY <3>a, <3>2, <2>8 DEF law_task_finish
      <3>4. ~Quiet
        BY <3>1, <1>b
      <3>5. MainControls'
        BY <2>1, <3>1, <3>4, <1>a DEF MainControls
      <3>6. ASSUME NEW u \in Worker PROVE WorkerControls(u)'
        <4>1. CASE u # w
          <5>1. wpc'[u] = wpc[u] /\ table'[u] = table[u]
            BY <3>3, <4>1, <1>a DEF TypeWorker
          <5> QED BY <1>a, <2>1, <3>1, <5>1 DEF WorkerControls
        <4>2. CASE u = w
          <5>1. wpc'[w] = "dispatch" /\ table'[w] = table[w] \ {t0}
            BY <3>3, <1>a DEF TypeWorker
          <5> QED BY <1>a, <2>1, <2>2, <3>a, <3>1, <3>2, <4>2, <5>1 DEF WorkerControls
        <4> QED BY <4>1, <4>2
      <3> QED BY <3>5, <3>6 DEF Control
    <2>9. CASE law_spawn(w)
      <3>1. /\ wpc[w] = "run"
            /\ UNCHANGED <<incoming, shutdown, reloop, table, ready, active>>
        BY <2>9 DEF law_spawn
      <3>2. CASE pool = {}
        <4>1. UNCHANGED <<pool, tmode, child, wpc>>
          BY <3>2, <2>9 DEF law_spawn
        <4>2. MainControls'
          BY <4>1, <2>1, <1>a DEF MainControls
        <4>3. ASSUME NEW u \in Worker PROVE WorkerControls(u)'
          BY <3>1, <4>1, <2>1, <1>a DEF WorkerControls
        <4> QED BY <4>2, <4>3 DEF Control
      <3>3. CASE pool # {}
        <4>1. PICK t0 \in pool : /\ law_task_setup(t0)
                                 /\ child' = [child EXCEPT ![w] = t0]
                                 /\ wpc' = [wpc EXCEPT ![w] = "push"]
          BY <3>3, <2>9 DEF law_spawn
        <4>2. t0 \in Task /\ tmode' = [tmode EXCEPT ![t0] = "spawned"]
          BY <4>1, <1>a, SetupTask
        <4>3. tmode'[t0] = "spawned" /\ \A t \in Task : t # t0 => tmode'[t] = tmode[t]
          BY <4>2, <1>a DEF TypePool
        <4>4. \A u \in Worker : /\ t0 # hand /\ t0 # child[u] /\ ~InSeq(incoming[u], t0)
                                /\ t0 \notin table[u]
          BY <4>1, <4>2, <1>a, Apart
        <4>5. ~Quiet
          BY <3>1, <1>b
        <4>6. hand # NoTask => tmode'[hand] = tmode[hand]
          BY <4>3, <4>4, <1>a DEF TypeMain
        <4>7. MainControls'
          BY <2>1, <4>5, <4>6, <1>a DEF MainControls
        <4>8. ASSUME NEW u \in Worker PROVE WorkerControls(u)'
          <5>1. CASE u # w
            <6>1. wpc'[u] = wpc[u] /\ child'[u] = child[u]
              BY <4>1, <5>1, <1>a DEF TypeWorker
            <6> QED BY <1>a, <2>1, <3>1, <4>3, <4>4, <6>1, WorkerFrame
          <5>2. CASE u = w
            <6>1. wpc'[w] = "push" /\ child'[w] = t0 /\ t0 # NoTask
              BY <4>1, <4>2, <1>a, Params DEF TypeWorker
            <6>2. \A t \in Task : InSeq(incoming[w], t) => tmode'[t] = "spawned"
              BY <4>3, <4>4, <1>a DEF WorkerControls
            <6>3. \A t \in table[w] : t \in Task /\ tmode'[t] = tmode[t]
              BY <4>3, <4>4, <1>a DEF TypeWorker
            <6>4. active[w] \in table[w] /\ tmode'[active[w]] = "running"
              BY <3>1, <6>3, <1>a DEF WorkerControls
            <6>5. \A t \in table[w] : tmode'[t] = "running" => active[w] = t
              BY <6>3, <1>a DEF WorkerControls
            <6>6. \A t \in ready[w] : t \in table[w] /\ tmode'[t] \in {"spawned", "suspended"}
              BY <6>3, <1>a DEF WorkerControls
            <6>7. ~shutdown[w] /\ reloop[w]
              BY <4>5, <1>a DEF WorkerControls, TypeWorker
            <6> QED
              BY <2>1, <2>2, <3>1, <4>3, <5>2, <6>1, <6>2, <6>4, <6>5, <6>6, <6>7
                 DEF WorkerControls
          <5> QED BY <5>1, <5>2
        <4> QED BY <4>7, <4>8 DEF Control
      <3> QED BY <3>2, <3>3
    <2>10. CASE law_spawn_push(w)
      <3>a. PICK t0 : t0 = child[w]
        OBVIOUS
      <3>b. PICK x : x = wtry[w]
        OBVIOUS
      <3>1. /\ wpc[w] = "push"
            /\ UNCHANGED <<pool, tmode, shutdown, reloop, table, ready, active>>
        BY <2>10 DEF law_spawn_push
      <3>2. t0 \in Task /\ tmode[t0] = "spawned"
        BY <3>a, <3>1, <1>a DEF WorkerControls, TypeWorker
      <3>3. \/ UNCHANGED <<incoming, child, wpc>>
            \/ /\ \/ x \in Worker /\ incoming' = [incoming EXCEPT ![x] = Append(@, t0)]
                  \/ UNCHANGED incoming
               /\ child' = [child EXCEPT ![w] = NoTask]
               /\ wpc' = [wpc EXCEPT ![w] = "run"]
        <4>1. x \in 0 .. NWorkers
          BY <3>b, <1>a DEF TypeWorker
        <4>2. x < NWorkers => x \in Worker
          BY <4>1, SpawnIndex
        <4> QED BY <4>2, <3>a, <3>b, <2>10 DEF law_spawn_push, law_task_queue_push
      <3>4. MainControls'
        BY <2>1, <3>1, <1>a DEF MainControls
      <3>5. ASSUME NEW u \in Worker PROVE WorkerControls(u)'
        <4>1. \A t \in Task : InSeq(incoming'[u], t) => tmode'[t] = "spawned"
          <5>1. CASE incoming'[u] = incoming[u]
            BY <5>1, <3>1, <1>a DEF WorkerControls
          <5>2. CASE u = x /\ incoming' = [incoming EXCEPT ![x] = Append(@, t0)]
            <6>1. incoming[u] \in Seq(Task) /\ incoming'[u] = Append(incoming[u], t0)
              BY <5>2, <1>a DEF TypeWorker
            <6>2. \A t \in Task : InSeq(incoming'[u], t) => InSeq(incoming[u], t) \/ t = t0
              BY <6>1, <3>2, AppendIn
            <6> QED BY <6>2, <3>1, <3>2, <1>a DEF WorkerControls
          <5> QED BY <5>1, <5>2, <3>3, <1>a DEF TypeWorker
        <4>2. \/ child'[u] = child[u] /\ wpc'[u] = wpc[u]
              \/ u = w /\ child'[u] = NoTask /\ wpc'[u] = "run"
          BY <3>3, <1>a DEF TypeWorker
        <4> QED BY <1>a, <2>1, <2>2, <3>1, <4>1, <4>2 DEF WorkerControls
      <3> QED BY <3>4, <3>5 DEF Control
    <2> QED
      BY <1>6, <2>3, <2>4, <2>5, <2>6, <2>7, <2>8, <2>9, <2>10 DEF WorkerStep
  <1> QED
    BY <1>0, <1>1, <1>2, <1>3, <1>4, <1>5, <1>6 DEF Next, MainStep, MainControl

-----------------------------------------------------------------------------
(* The inductive invariant, and what follows from it *)

\* Type correctness and single ownership can not be proved alone: an action
\* moves the task in hand, in child or in active, and needs to know that it
\* is there.  Control says so.
Invariant == TypeOK /\ Placement /\ Control

LEMMA InvariantInit ==
  ASSUME Init
  PROVE  Invariant
  <1>1. TypeMain
    BY Params DEF Init, TypeMain, MainLabel
  <1>2. TypePool
    <2>1. /\ pool = Task /\ poolLock = "free" /\ seed = 0 /\ halted = FALSE
          /\ id = [t \in Task |-> 0] /\ tmode = [t \in Task |-> "created"]
      BY DEF Init, law_task_pool_create
    <2>2. 0 \in 0 .. MaxIds
      BY Params
    <2>3. id \in [Task -> 0 .. MaxIds]
      BY <2>1, <2>2, Zenon
    <2>4. tmode \in [Task -> {"created", "spawned", "running", "suspended"}]
      BY <2>1
    <2> QED BY <2>1, <2>2, <2>3, <2>4 DEF TypePool
  <1>3. TypeWorker
    BY Params DEF Init, law_worker_create, TypeWorker, WorkerLabel
  <1>4. \A w \in Worker : \A t : ~InSeq(incoming[w], t)
    BY DEF Init, law_worker_create, InSeq
  <1>5. \A p \in Places, t \in Task : Holds(p, t) => p = <<"pool", 0>>
    <2>1. SUFFICES ASSUME NEW p \in Places, NEW t \in Task, Holds(p, t)
                   PROVE  p = <<"pool", 0>>
      OBVIOUS
    <2>2. ~Holds(<<"hand", 0>>, t)
      BY HoldsForm, Params DEF Init
    <2>3. \A w \in Worker : /\ ~Holds(<<"child", w>>, t) /\ ~Holds(<<"queue", w>>, t)
                            /\ ~Holds(<<"table", w>>, t)
      BY <1>4, HoldsForm, Params DEF Init, law_worker_create
    <2> QED BY <2>1, <2>2, <2>3, PlaceForm
  <1>6. \A w \in Worker : NoDup(incoming[w])
    BY DEF Init, law_worker_create, NoDup
  <1>7. Placement
    BY <1>5, <1>6 DEF Placement, Exclusive
  <1>8. Control
    BY <1>4, Params DEF Init, law_worker_create, Control, MainControls, WorkerControls, Quiet
  <1> QED BY <1>1, <1>2, <1>3, <1>7, <1>8 DEF Invariant, TypeOK

LEMMA InvariantStep ==
  ASSUME Invariant, [Next]_vars
  PROVE  Invariant'
  <1>1. TypeOK'
    BY TypeStep DEF Invariant
  <1>2. Exclusive'
    BY ExclusiveStep DEF Invariant, Placement
  <1>3. \A w \in Worker : NoDup(incoming'[w])
    BY NoDupStep DEF Invariant
  <1>4. Control'
    BY ControlStep DEF Invariant
  <1> QED BY <1>1, <1>2, <1>3, <1>4 DEF Invariant, Placement

\* In every behaviour the types, the places of the tasks and the positions of
\* the threads agree; the theorems below are parts of this invariant, which
\* every handler of the main thread and of the workers preserves.
THEOREM InvariantAlways == Spec => []Invariant
  <1>1. Init => Invariant
    BY InvariantInit
  <1>2. Invariant /\ [Next]_vars => Invariant'
    BY InvariantStep
  <1> QED BY <1>1, <1>2, PTL DEF Spec

\* In every behaviour the variables stay in their types: no worker index of
\* law_spawn_dispatch_once, law_spawn or the shutdown loop leaves the array
\* of workers, ids stay within the bound, and only task pointers travel
\* through pool, pipes and tables.
THEOREM TypeCorrect == Spec => []TypeOK
  BY InvariantAlways, PTL DEF Invariant

\* In every behaviour a task pointer is in at most one of the pool, the
\* main thread's hand, a callback's hand, a pipe and a table, and at most
\* once in a pipe, although the threads share no lock for these places.
THEOREM PlacementCorrect == Spec => []Placement
  BY InvariantAlways, PTL DEF Invariant

\* In every behaviour law_server_spin sends LAW_MSG_SHUTDOWN only when every
\* task is back in the pool, nothing leaves the pool afterwards, and a
\* worker that has ended left nothing behind.
THEOREM OrderlyShutdownCorrect == Spec => []OrderlyShutdown
  <1>1. Invariant => OrderlyShutdown
    <2>1. SUFFICES ASSUME Invariant PROVE OrderlyShutdown
      OBVIOUS
    <2>a. /\ TypeMain /\ TypePool /\ TypeWorker /\ Exclusive
          /\ MainControls /\ \A w \in Worker : WorkerControls(w)
      BY <2>1 DEF Invariant, TypeOK, Placement, Control
    <2>2. Quiet => pool = Task
      BY <2>a DEF MainControls
    <2>3. ASSUME NEW w \in Worker, wpc[w] = "exit"
          PROVE  pool = Task /\ incoming[w] = <<>> /\ table[w] = {} /\ ready[w] = {}
      <3>1. pool = Task
        BY <2>2, <2>3, <2>a DEF WorkerControls
      <3>2. \A t \in Task : ~InSeq(incoming[w], t) /\ t \notin table[w]
        BY <3>1, <2>a, Apart
      <3>3. incoming[w] \in Seq(Task) /\ table[w] \subseteq Task
        BY <2>a DEF TypeWorker
      <3>4. incoming[w] = <<>>
        <4>1. SUFFICES ASSUME incoming[w] # <<>> PROVE FALSE
          OBVIOUS
        <4>2. Head(incoming[w]) \in Task /\ InSeq(incoming[w], Head(incoming[w]))
          BY <4>1, <3>3, TailIn
        <4> QED BY <4>2, <3>2
      <3>5. table[w] = {}
        BY <3>2, <3>3
      <3>6. ready[w] = {}
        BY <3>5, <2>a DEF WorkerControls
      <3> QED BY <3>1, <3>4, <3>5, <3>6
    <2> QED BY <2>2, <2>3 DEF OrderlyShutdown, Quiet
  <1> QED BY <1>1, InvariantAlways, PTL

-----------------------------------------------------------------------------
(* Identities *)

\* The seed is the largest identity given out so far.
SeedIsLast == \A t \in Task : id[t] <= seed

LEMMA IdStep ==
  ASSUME TypeOK, SeedIsLast, UniqueIds, [Next]_vars
  PROVE  SeedIsLast' /\ UniqueIds'
  <1>a. TypePool
    BY DEF TypeOK
  <1>1. ASSUME NEW t0 \in pool, law_task_setup(t0) PROVE SeedIsLast' /\ UniqueIds'
    <2>1. /\ t0 \in Task /\ pool' = pool \ {t0} /\ seed' = seed + 1
          /\ id' = [id EXCEPT ![t0] = seed']
      BY <1>a, <1>1, SetupTask
    <2>2. id'[t0] = seed + 1 /\ \A t \in Task : t # t0 => id'[t] = id[t]
      BY <2>1, <1>a DEF TypePool
    <2>3. \A t \in Task : id[t] \in Nat /\ id[t] <= seed /\ seed \in Nat
      BY <1>a DEF TypePool, SeedIsLast
    <2>4. SeedIsLast'
      BY <2>1, <2>2, <2>3 DEF SeedIsLast
    <2>5. UniqueIds'
      BY <2>1, <2>2, <2>3 DEF UniqueIds
    <2> QED BY <2>4, <2>5
  <1>2. ASSUME UNCHANGED <<seed, id>>, pool \subseteq pool' PROVE SeedIsLast' /\ UniqueIds'
    BY <1>2 DEF SeedIsLast, UniqueIds
  <1>3. CASE Still \/ UNCHANGED vars
    <2>1. UNCHANGED pool
      BY <1>3, StillFrame
    <2>2. UNCHANGED <<seed, id>>
      BY <1>3, MainControlFrame DEF Still, law_start, law_server_shutdown, law_worker_poll,
         law_worker_messages, law_worker_dispatch, law_ewait, vars
    <2> QED BY <2>1, <2>2, <1>2
  <1>4. CASE law_server_accept_pop
    BY <1>1, <1>2, <1>4 DEF law_server_accept_pop
  <1>5. CASE law_spawn_dispatch_once
    BY <1>2, <1>5 DEF law_spawn_dispatch_once
  <1>6. ASSUME NEW w \in Worker, law_spawn(w) PROVE SeedIsLast' /\ UniqueIds'
    BY <1>1, <1>2, <1>6 DEF law_spawn
  <1>7. ASSUME NEW w \in Worker,
               law_worker_incoming(w) \/ law_task_finish(w) \/ law_spawn_push(w)
        PROVE  SeedIsLast' /\ UniqueIds'
    BY <1>2, <1>7 DEF law_worker_incoming, law_task_finish, law_task_pool_push, law_spawn_push
  <1> QED BY <1>3, <1>4, <1>5, <1>6, <1>7, NextCases

\* In every behaviour two tasks outside the pool have different identities,
\* whichever threads called law_server_genid for them.  The seed does not
\* wrap within MaxIds, which stands for LAW_ID_MODULO - 1 spawned tasks.
THEOREM UniqueIdsCorrect == Spec => []UniqueIds
  <1>1. Init => SeedIsLast /\ UniqueIds
    BY DEF Init, law_task_pool_create, SeedIsLast, UniqueIds
  <1>2. TypeOK /\ SeedIsLast /\ UniqueIds /\ [Next]_vars => (SeedIsLast /\ UniqueIds)'
    BY IdStep
  <1> QED BY <1>1, <1>2, TypeCorrect, PTL DEF Spec

-----------------------------------------------------------------------------
(* The threads implement the life of a task *)

\* The values that stand for the variables of TaskLife.
lifeOf(t) == IF t \in pool THEN "idle" ELSE tmode[t]
homeOf(t) == {w \in Worker : t \in table[w] /\ tmode[t] # "spawned"}

\* Nothing TaskLife speaks of has changed.
LEMMA LifeStutter ==
  ASSUME \A t \in Task : (lifeOf(t))' = lifeOf(t) /\ (homeOf(t))' = homeOf(t)
  PROVE  UNCHANGED Life!vars
  BY DEF Life!vars, lifeOf, homeOf

\* One task has moved on, the others have not.
LEMMA LifeMove ==
  ASSUME NEW t0 \in Task, NEW l, NEW h, (lifeOf(t0))' = l, (homeOf(t0))' = h,
         \A t \in Task : t # t0 => (lifeOf(t))' = lifeOf(t) /\ (homeOf(t))' = homeOf(t)
  PROVE  /\ [t \in Task |-> IF t \in pool THEN "idle" ELSE tmode[t]]'
              = [[t \in Task |-> IF t \in pool THEN "idle" ELSE tmode[t]] EXCEPT ![t0] = l]
         /\ [t \in Task |-> {w \in Worker : t \in table[w] /\ tmode[t] # "spawned"}]'
              = [[t \in Task |-> {w \in Worker : t \in table[w] /\ tmode[t] # "spawned"}]
                   EXCEPT ![t0] = h]
  BY DEF lifeOf, homeOf

\* A task whose home has not changed in this step.
LEMMA SameHome ==
  ASSUME UNCHANGED table, NEW t \in Task, tmode'[t] = "spawned" <=> tmode[t] = "spawned"
  PROVE  (homeOf(t))' = homeOf(t)
  BY DEF homeOf

LEMMA LifeStep ==
  ASSUME Invariant, [Next]_vars
  PROVE  [Life!Next]_Life!vars
  <1>a. /\ TypeMain /\ TypePool /\ TypeWorker /\ Exclusive
        /\ MainControls /\ \A w \in Worker : WorkerControls(w)
    BY DEF Invariant, TypeOK, Placement, Control
  <1>b. /\ tmode \in [Task -> {"created", "spawned", "running", "suspended"}]
        /\ table \in [Worker -> SUBSET Task]
    BY <1>a DEF TypePool, TypeWorker
  <1>c. ASSUME UNCHANGED <<table, pool, tmode>> PROVE UNCHANGED Life!vars
    BY <1>c, LifeStutter DEF lifeOf, homeOf
  <1>0. CASE UNCHANGED vars
    BY <1>0, <1>c DEF vars
  <1>1. CASE MainControl \/ law_start \/ law_server_shutdown
    <2>1. UNCHANGED <<table, pool, tmode>>
      BY <1>1, MainControlFrame DEF law_start, law_server_shutdown
    <2> QED BY <2>1, <1>c
  <1>2. CASE law_spawn_dispatch_once
    BY <1>2, <1>c DEF law_spawn_dispatch_once
  <1>3. ASSUME NEW t0 \in pool, law_task_setup(t0), UNCHANGED table PROVE Life!Next
    <2>1. /\ t0 \in Task /\ pool' = pool \ {t0}
          /\ tmode' = [tmode EXCEPT ![t0] = "spawned"]
      BY <1>3, <1>a, SetupTask
    <2>2. \A w \in Worker : t0 \notin table[w]
      BY <1>a, <2>1, Apart
    <2>3. /\ lifeOf(t0) = "idle" /\ (lifeOf(t0))' = "spawned"
          /\ homeOf(t0) = {} /\ (homeOf(t0))' = {}
          /\ \A t \in Task : t # t0 => (lifeOf(t))' = lifeOf(t) /\ (homeOf(t))' = homeOf(t)
      BY <1>b, <1>3, <2>1, <2>2 DEF lifeOf, homeOf
    <2>4. UNCHANGED [t \in Task |-> {w \in Worker : t \in table[w] /\ tmode[t] # "spawned"}]
      BY <2>3 DEF homeOf
    <2>5. Life!Spawn(t0)
      BY <2>1, <2>3, <2>4, LifeMove DEF Life!Spawn, lifeOf
    <2> QED BY <2>1, <2>5 DEF Life!Next
  <1>4. CASE law_server_accept_pop
    <2>1. UNCHANGED table
      BY <1>4 DEF law_server_accept_pop
    <2>2. CASE pool = {}
      BY <1>4, <1>c, <2>1, <2>2 DEF law_server_accept_pop
    <2>3. CASE \E t \in pool : law_task_setup(t)
      BY <1>3, <2>1, <2>3
    <2> QED BY <1>4, <2>2, <2>3 DEF law_server_accept_pop
  <1>5. ASSUME NEW w \in Worker, WorkerStep(w) PROVE Life!Next \/ UNCHANGED Life!vars
    <2>1. CASE law_worker_poll(w) \/ law_worker_messages(w)
      BY <2>1, <1>c DEF law_worker_poll, law_worker_messages
    <2>2. CASE law_spawn_push(w)
      BY <2>2, <1>c DEF law_spawn_push
    <2>3. CASE law_spawn(w)
      <3>1. UNCHANGED table
        BY <2>3 DEF law_spawn
      <3>2. CASE pool = {}
        BY <2>3, <1>c, <3>1, <3>2 DEF law_spawn
      <3>3. CASE \E t \in pool : law_task_setup(t)
        BY <1>3, <3>1, <3>3
      <3> QED BY <2>3, <3>2, <3>3 DEF law_spawn
    <2>4. CASE law_worker_incoming(w)
      <3>1. UNCHANGED <<pool, tmode>>
        BY <2>4 DEF law_worker_incoming
      <3>2. CASE UNCHANGED table
        BY <1>c, <3>1, <3>2
      <3>3. CASE ~UNCHANGED table
        <4>1. PICK t0 : t0 = Head(incoming[w])
          OBVIOUS
        <4>2. /\ tmode[t0] = "spawned"
              /\ table' = [table EXCEPT ![w] = @ \cup {t0}]
          BY <2>4, <3>3, <4>1 DEF law_worker_incoming, Insertable
        <4>3. \A t \in Task : (lifeOf(t))' = lifeOf(t) /\ (homeOf(t))' = homeOf(t)
          BY <1>b, <3>1, <4>2 DEF lifeOf, homeOf
        <4> QED BY <4>3, LifeStutter
      <3> QED BY <3>2, <3>3
    <2>5. CASE law_worker_dispatch(w)
      <3>1. UNCHANGED <<pool, table>> /\ wpc[w] = "dispatch"
        BY <2>5 DEF law_worker_dispatch
      <3>2. CASE ready[w] = {}
        BY <2>5, <1>c, <3>1, <3>2 DEF law_worker_dispatch
      <3>3. CASE ready[w] # {}
        <4>1. PICK t0 \in ready[w] :
                tmode[t0] \in {"spawned", "suspended"} =>
                  tmode' = [tmode EXCEPT ![t0] = "running"]
          BY <2>5, <3>3 DEF law_worker_dispatch
        <4>2. /\ t0 \in Task /\ t0 \in table[w] /\ t0 \notin pool
              /\ tmode[t0] \in {"spawned", "suspended"}
              /\ \A v \in Worker : t0 \in table[v] => v = w
          <5>1. t0 \in table[w] /\ tmode[t0] \in {"spawned", "suspended"}
            BY <4>1, <1>a DEF WorkerControls
          <5>2. t0 \in Task
            BY <5>1, <1>b
          <5> QED BY <5>1, <5>2, <1>a, Apart
        <4>3. tmode' = [tmode EXCEPT ![t0] = "running"]
          BY <4>1, <4>2
        <4>4. /\ lifeOf(t0) = tmode[t0] /\ (lifeOf(t0))' = "running"
              /\ homeOf(t0) = IF tmode[t0] = "suspended" THEN {w} ELSE {}
              /\ (homeOf(t0))' = {w}
          BY <1>b, <3>1, <4>2, <4>3 DEF lifeOf, homeOf
        <4>5. \A t \in Task : t # t0 => (lifeOf(t))' = lifeOf(t) /\ (homeOf(t))' = homeOf(t)
          BY <1>b, <3>1, <4>3 DEF lifeOf, homeOf
        <4>6. Life!Vacant(w)
          <5>1. ASSUME NEW t \in Task, lifeOf(t) = "running" PROVE w \notin homeOf(t)
            BY <1>a, <3>1, <5>1 DEF lifeOf, homeOf, WorkerControls
          <5> QED BY <5>1 DEF Life!Vacant, lifeOf, homeOf
        <4>7. [t \in Task |-> IF t \in pool THEN "idle" ELSE tmode[t]]'
                = [[t \in Task |-> IF t \in pool THEN "idle" ELSE tmode[t]]
                     EXCEPT ![t0] = "running"]
          BY <4>2, <4>4, <4>5, LifeMove
        <4>8. CASE tmode[t0] = "spawned"
          <5>1. [t \in Task |-> {v \in Worker : t \in table[v] /\ tmode[t] # "spawned"}]'
                  = [[t \in Task |-> {v \in Worker : t \in table[v] /\ tmode[t] # "spawned"}]
                       EXCEPT ![t0] = {w}]
            BY <4>2, <4>4, <4>5, LifeMove
          <5>2. [t \in Task |-> IF t \in pool THEN "idle" ELSE tmode[t]][t0] = "spawned"
            BY <4>2, <4>8
          <5>3. Life!Start(t0, w)
            BY <4>6, <4>7, <5>1, <5>2 DEF Life!Start
          <5> QED BY <4>2, <5>3 DEF Life!Next
        <4>9. CASE tmode[t0] = "suspended"
          <5>1. UNCHANGED [t \in Task |-> {v \in Worker : t \in table[v] /\ tmode[t] # "spawned"}]
            BY <4>4, <4>5, <4>9 DEF homeOf
          <5>2. [t \in Task |-> IF t \in pool THEN "idle" ELSE tmode[t]][t0] = "suspended"
            BY <4>2, <4>9
          <5>3. [t \in Task |-> {v \in Worker : t \in table[v] /\ tmode[t] # "spawned"}][t0]
                  = {w}
            BY <4>2, <4>4, <4>9 DEF homeOf
          <5>4. Life!Resume(t0, w)
            BY <4>6, <4>7, <5>1, <5>2, <5>3 DEF Life!Resume
          <5> QED BY <4>2, <5>4 DEF Life!Next
        <4> QED BY <4>2, <4>8, <4>9
      <3> QED BY <3>2, <3>3
    <2>6. CASE law_ewait(w)
      <3>1. PICK t0 : t0 = active[w]
        OBVIOUS
      <3>2. /\ t0 \in table[w] /\ t0 \in Task /\ tmode[t0] = "running"
            /\ tmode' = [tmode EXCEPT ![t0] = "suspended"] /\ UNCHANGED <<pool, table>>
        BY <2>6, <3>1, <1>a, <1>b DEF law_ewait, WorkerControls
      <3>3. t0 \notin pool
        BY <3>2, <1>a, Apart
      <3>4. /\ lifeOf(t0) = "running" /\ (lifeOf(t0))' = "suspended"
            /\ (homeOf(t0))' = homeOf(t0)
            /\ \A t \in Task : t # t0 => (lifeOf(t))' = lifeOf(t) /\ (homeOf(t))' = homeOf(t)
        BY <1>b, <3>2, <3>3 DEF lifeOf, homeOf
      <3>5. UNCHANGED [t \in Task |-> {v \in Worker : t \in table[v] /\ tmode[t] # "spawned"}]
        BY <3>4 DEF homeOf
      <3>6. [t \in Task |-> IF t \in pool THEN "idle" ELSE tmode[t]]'
              = [[t \in Task |-> IF t \in pool THEN "idle" ELSE tmode[t]]
                   EXCEPT ![t0] = "suspended"]
        BY <3>2, <3>4, LifeMove
      <3>7. Life!Suspend(t0)
        BY <3>2, <3>3, <3>5, <3>6 DEF Life!Suspend
      <3> QED BY <3>2, <3>7 DEF Life!Next
    <2>7. CASE law_task_finish(w)
      <3>1. PICK t0 : t0 = active[w]
        OBVIOUS
      <3>2. t0 \in table[w] /\ t0 \in Task /\ tmode[t0] = "running"
        BY <2>7, <3>1, <1>a, <1>b DEF law_task_finish, WorkerControls
      <3>3. /\ t0 \notin pool /\ \A v \in Worker : t0 \in table[v] => v = w
        BY <3>2, <1>a, Apart
      <3>4. /\ table' = [table EXCEPT ![w] = @ \ {t0}] /\ pool' = pool \cup {t0}
            /\ UNCHANGED tmode
        BY <2>7, <3>1, <3>2 DEF law_task_finish, law_task_pool_push
      <3>5. /\ lifeOf(t0) = "running" /\ (lifeOf(t0))' = "idle" /\ (homeOf(t0))' = {}
            /\ \A t \in Task : t # t0 => (lifeOf(t))' = lifeOf(t) /\ (homeOf(t))' = homeOf(t)
        BY <1>b, <3>2, <3>3, <3>4 DEF lifeOf, homeOf
      <3>6. /\ [t \in Task |-> IF t \in pool THEN "idle" ELSE tmode[t]]'
                 = [[t \in Task |-> IF t \in pool THEN "idle" ELSE tmode[t]]
                      EXCEPT ![t0] = "idle"]
            /\ [t \in Task |-> {v \in Worker : t \in table[v] /\ tmode[t] # "spawned"}]'
                 = [[t \in Task |-> {v \in Worker : t \in table[v] /\ tmode[t] # "spawned"}]
                      EXCEPT ![t0] = {}]
        BY <3>2, <3>5, LifeMove
      <3>7. Life!Finish(t0)
        BY <3>2, <3>3, <3>6 DEF Life!Finish
      <3> QED BY <3>2, <3>7 DEF Life!Next
    <2> QED BY <1>5, <2>1, <2>2, <2>3, <2>4, <2>5, <2>6, <2>7 DEF WorkerStep
  <1> QED
    BY <1>0, <1>1, <1>2, <1>4, <1>5 DEF Next, MainStep, MainControl

\* In every behaviour every step of the threads is a step of TaskLife or
\* leaves it alone: a coroutine is entered and resumed on one worker only,
\* a worker executes one coroutine at a time, and a task is back in the pool
\* exactly when its callback has returned.
THEOREM LifeSpecCorrect == Spec => LifeSpec
  <1>1. Init => Life!Init
    BY DEF Init, law_task_pool_create, law_worker_create, Life!Init
  <1>2. Invariant /\ [Next]_vars => [Life!Next]_Life!vars
    BY LifeStep
  <1> QED BY <1>1, <1>2, InvariantAlways, PTL DEF Spec, LifeSpec, Life!Spec

-----------------------------------------------------------------------------
(* What follows from the promise: theorems about TaskLife, of the threads *)

Promise == INSTANCE TaskLifeProofs WITH
  life <- [t \in Task |-> IF t \in pool THEN "idle" ELSE tmode[t]],
  home <- [t \in Task |-> {w \in Worker : t \in table[w] /\ tmode[t] # "spawned"}]

\* The two instances of TaskLife are the same.
LEMMA PromiseKept == Spec => Promise!Spec
  <1>1. Life!Init => Promise!Init
    BY DEF Life!Init, Promise!Init
  <1>2. [Life!Next]_Life!vars => [Promise!Next]_Promise!vars
    BY DEF Life!Next, Promise!Next, Life!vars, Promise!vars, Life!Spawn, Promise!Spawn,
       Life!Start, Promise!Start, Life!Suspend, Promise!Suspend, Life!Resume,
       Promise!Resume, Life!Finish, Promise!Finish, Life!Vacant, Promise!Vacant
  <1> QED BY <1>1, <1>2, LifeSpecCorrect, PTL DEF LifeSpec, Life!Spec, Promise!Spec

\* Whatever way a task takes through pool, pipes and tables, its callback has
\* one worker from where law_worker_dispatch enters it to its return, and no
\* worker executes two.
THEOREM OneHomeCorrect == Spec => [](Promise!OneHome /\ Promise!OneAtATime)
  <1>1. Promise!Spec => []Promise!Invariant
    BY Promise!InvariantAlways
  <1>2. Promise!Invariant => Promise!OneHome /\ Promise!OneAtATime
    BY DEF Promise!Invariant
  <1> QED BY <1>1, <1>2, PromiseKept, PTL

\* A callback that law_ewait suspended goes on with law_cor_resume on the same
\* worker, and its task is not used for anything else before.
THEOREM StaysCorrect == Spec => [][Promise!Stays]_Promise!vars
  <1>1. Promise!Spec => [][Promise!Stays]_Promise!vars
    BY Promise!StaysCorrect
  <1> QED BY <1>1, PromiseKept, PTL

-----------------------------------------------------------------------------
(* What can call abort() *)

\* The only test of the tasks' paths that can fail is the SEL_TEST(task) of
\* law_server_accept.
AbortOnlyInAccept == halted => pc = "pop" /\ pool = {}

\* The pool was not empty when law_server_accept asked, and still is not.
AskedPool == pc \in {"accepting", "pop"} => pool # {}

\* Below the modulus an id and the key law_table sees are the same.
LEMMA SmallKey ==
  ASSUME NEW x \in Nat, NEW k \in Nat \ {0}, x < k PROVE x % k = x
  OBVIOUS

\* The SEL_TEST on law_table_insert: the ids of a worker's tasks differ also
\* as keys of the table, as long as they fit an int.
LEMMA KeysDiffer ==
  ASSUME MaxIds < KeyModulo, TypeOK, UniqueIds,
         NEW t \in Task \ pool, NEW u \in Task \ pool, t # u
  PROVE  law_table_key(id[t]) # law_table_key(id[u])
  <1>1. id[t] \in 0 .. MaxIds /\ id[u] \in 0 .. MaxIds /\ id[t] # id[u]
    BY DEF TypeOK, TypePool, UniqueIds
  <1>2. MaxIds \in Nat /\ KeyModulo \in Nat \ {0}
    BY ServerAssumption
  <1>3. /\ id[t] \in Nat /\ id[t] < KeyModulo
        /\ id[u] \in Nat /\ id[u] < KeyModulo
    BY <1>1, <1>2
  <1>4. id[t] % KeyModulo = id[t] /\ id[u] % KeyModulo = id[u]
    BY <1>2, <1>3, SmallKey
  <1> QED BY <1>1, <1>4 DEF law_table_key

\* What a worker takes from its pipe passes its tests.
LEMMA HeadInsertable ==
  ASSUME MaxIds < KeyModulo, Invariant, UniqueIds,
         NEW w \in Worker, incoming[w] # <<>>
  PROVE  Insertable(w, Head(incoming[w]))
  <1>1. /\ TypeOK /\ Exclusive /\ TypeWorker /\ WorkerControls(w)
    BY DEF Invariant, TypeOK, Placement, Control
  <1>2. incoming[w] \in Seq(Task) /\ table[w] \subseteq Task
    BY <1>1 DEF TypeWorker
  <1>3. PICK t : t = Head(incoming[w])
    OBVIOUS
  <1>4. t \in Task /\ InSeq(incoming[w], t)
    BY <1>2, <1>3, TailIn
  <1>5. tmode[t] = "spawned"
    BY <1>1, <1>4 DEF WorkerControls
  <1>6. ASSUME NEW u \in table[w] PROVE law_table_key(id[u]) # law_table_key(id[t])
    <2>1. u \in Task /\ u \notin pool /\ t \notin pool /\ u # t
      BY <1>1, <1>2, <1>4, Apart
    <2> QED BY <2>1, <1>1, <1>4, KeysDiffer
  <1> QED BY <1>3, <1>5, <1>6 DEF Insertable

LEMMA AbortStep ==
  ASSUME MaxIds < KeyModulo, Invariant, UniqueIds, AbortOnlyInAccept, [Next]_vars
  PROVE  AbortOnlyInAccept'
  <1>a. \A w \in Worker : WorkerControls(w) /\ table[w] \subseteq Task
    BY DEF Invariant, TypeOK, TypeWorker, Control
  <1>0. CASE UNCHANGED vars
    BY <1>0 DEF vars, AbortOnlyInAccept
  <1>1. CASE Next
    <2>1. ~halted
      BY <1>1 DEF Next
    <2>2. CASE MainControl
      BY <2>1, <2>2, MainControlFrame DEF AbortOnlyInAccept
    <2>3. CASE law_start \/ law_server_shutdown \/ law_spawn_dispatch_once
      BY <2>1, <2>3
         DEF law_start, law_server_shutdown, law_spawn_dispatch_once, AbortOnlyInAccept
    <2>4. CASE law_server_accept_pop
      BY <2>1, <2>4 DEF law_server_accept_pop, AbortOnlyInAccept
    <2>5. ASSUME NEW w \in Worker, WorkerStep(w) PROVE ~halted'
      <3>1. CASE \/ law_worker_poll(w) \/ law_worker_messages(w) \/ law_ewait(w)
                 \/ law_spawn(w) \/ law_spawn_push(w)
        BY <2>1, <3>1 DEF law_worker_poll, law_worker_messages, law_ewait,
                          law_spawn, law_spawn_push
      <3>2. CASE law_worker_incoming(w)
        BY <2>1, <3>2, HeadInsertable DEF law_worker_incoming
      <3>3. CASE law_worker_dispatch(w)
        BY <2>1, <3>3, <1>a DEF law_worker_dispatch, WorkerControls
      <3>4. CASE law_task_finish(w)
        BY <2>1, <3>4, <1>a DEF law_task_finish, WorkerControls
      <3> QED BY <2>5, <3>1, <3>2, <3>3, <3>4 DEF WorkerStep
    <2>6. ASSUME NEW w \in Worker, WorkerStep(w) PROVE AbortOnlyInAccept'
      BY <2>5, <2>6 DEF AbortOnlyInAccept
    <2> QED BY <1>1, <2>2, <2>3, <2>4, <2>6 DEF Next, MainStep, MainControl
  <1> QED BY <1>0, <1>1

\* In every behaviour whose ids stay below the width of a table key, abort()
\* is called only by law_server_accept, when a callback's law_spawn took the
\* last task between the accept loop's question and its pop: the SEL_ASSERT
\* and SEL_TEST of law_worker_incoming, the SEL_HALT of law_worker_dispatch
\* and the test on law_table_remove hold whatever the threads do.
THEOREM AbortOnlyInAcceptCorrect ==
  ASSUME MaxIds < KeyModulo
  PROVE  Spec => []AbortOnlyInAccept
  <1>1. Init => AbortOnlyInAccept
    BY DEF Init, AbortOnlyInAccept
  <1>2. Invariant /\ UniqueIds /\ AbortOnlyInAccept /\ [Next]_vars => AbortOnlyInAccept'
    BY AbortStep
  <1> QED BY <1>1, <1>2, InvariantAlways, UniqueIdsCorrect, PTL DEF Spec

LEMMA AskedStep ==
  ASSUME ~Spawning, AskedPool, [Next]_vars
  PROVE  AskedPool'
  <1>0. CASE UNCHANGED vars
    BY <1>0 DEF vars, AskedPool
  <1>1. CASE MainControl
    <2>1. UNCHANGED pool
      BY <1>1, MainControlFrame
    <2>2. pc' \in {"accepting", "pop"} => pool # {}
      BY <1>1 DEF MainControl, AskedPool, PoolIsEmpty, law_server_spin,
         law_task_pool_is_empty, law_server_accept, law_spawn_dispatch,
         law_server_wait, law_task_pool_is_full, law_server_run_threads,
         law_stop, law_stop_set, Connect
    <2> QED BY <2>1, <2>2 DEF AskedPool
  <1>2. CASE law_start \/ law_server_shutdown \/ law_spawn_dispatch_once
    BY <1>2 DEF AskedPool, law_start, law_server_shutdown, law_spawn_dispatch_once
  <1>3. CASE law_server_accept_pop
    BY <1>3 DEF AskedPool, law_server_accept_pop
  <1>4. ASSUME NEW w \in Worker, WorkerStep(w) PROVE UNCHANGED pc /\ pool \subseteq pool'
    BY <1>4 DEF WorkerStep, law_worker_poll, law_worker_messages, law_worker_incoming,
       law_worker_dispatch, law_ewait, law_task_finish, law_task_pool_push, law_spawn,
       law_spawn_push
  <1>5. ASSUME NEW w \in Worker, WorkerStep(w) PROVE AskedPool'
    BY <1>4, <1>5 DEF AskedPool
  <1> QED BY <1>0, <1>1, <1>2, <1>3, <1>5 DEF Next, MainStep, MainControl

\* When no callback calls law_spawn nothing calls abort(): only the main
\* thread takes tasks from the pool, so the pool law_server_accept found not
\* empty still has a task after accept().  With law_spawn this is false.
THEOREM NoAbortCorrect ==
  ASSUME MaxIds < KeyModulo, ~Spawning
  PROVE  Spec => []NoAbort
  <1>1. Init => AskedPool
    BY DEF Init, AskedPool
  <1>2. AskedPool /\ [Next]_vars => AskedPool'
    BY AskedStep
  <1>3. AskedPool /\ AbortOnlyInAccept => NoAbort
    BY DEF AskedPool, AbortOnlyInAccept, NoAbort
  <1> QED BY <1>1, <1>2, <1>3, AbortOnlyInAcceptCorrect, PTL DEF Spec

-----------------------------------------------------------------------------
(* How many tasks a worker runs *)

\* A worker has one task more than worker_tasks at most.
TablesBounded == \A w \in Worker : Cardinality(table[w]) <= WorkerTasks + 1

\* A table is a finite set.
LEMMA TableFinite ==
  ASSUME TypeOK, NEW w \in Worker
  PROVE  IsFiniteSet(table[w]) /\ Cardinality(table[w]) \in Nat
  <1>1. table[w] \in SUBSET Task
    BY DEF TypeOK, TypeWorker
  <1>2. IsFiniteSet(table[w])
    BY <1>1, ServerAssumption, FS_Subset
  <1> QED BY <1>2, FS_CardinalityType

\* The table of a worker grows by one task, and only if there is room, or
\* loses one.
LEMMA TableStep ==
  ASSUME TypeOK, [Next]_vars, NEW w \in Worker
  PROVE  \/ table'[w] = table[w]
         \/ HasRoom(w) /\ \E t : table'[w] = table[w] \cup {t}
         \/ \E t : table'[w] = table[w] \ {t}
  <1>1. table \in [Worker -> SUBSET Task]
    BY DEF TypeOK, TypeWorker
  <1>2. CASE UNCHANGED vars
    BY <1>2 DEF vars
  <1>3. CASE MainControl
    BY <1>3, MainControlFrame
  <1>4. CASE \/ law_start \/ law_server_shutdown \/ law_spawn_dispatch_once
             \/ law_server_accept_pop
    BY <1>4 DEF law_start, law_server_shutdown, law_spawn_dispatch_once,
                law_server_accept_pop
  <1>5. ASSUME NEW v \in Worker, WorkerStep(v)
        PROVE  \/ table'[w] = table[w]
               \/ HasRoom(w) /\ \E t : table'[w] = table[w] \cup {t}
               \/ \E t : table'[w] = table[w] \ {t}
    <2>1. CASE law_worker_incoming(v)
      <3>1. CASE UNCHANGED table
        BY <3>1
      <3>2. CASE HasRoom(v) /\ table' = [table EXCEPT ![v] = @ \cup {Head(incoming[v])}]
        BY <1>1, <3>2
      <3> QED BY <2>1, <3>1, <3>2 DEF law_worker_incoming
    <2>2. CASE law_task_finish(v)
      <3>1. CASE UNCHANGED table
        BY <3>1
      <3>2. CASE table' = [table EXCEPT ![v] = @ \ {active[v]}]
        BY <1>1, <3>2
      <3> QED BY <2>2, <3>1, <3>2 DEF law_task_finish
    <2>3. CASE ~ (law_worker_incoming(v) \/ law_task_finish(v))
      <3>1. UNCHANGED table
        BY <1>5, <2>3 DEF WorkerStep, law_worker_poll, law_worker_messages,
           law_worker_dispatch, law_ewait, law_spawn, law_spawn_push
      <3> QED BY <3>1
    <2> QED BY <2>1, <2>2, <2>3
  <1> QED BY <1>2, <1>3, <1>4, <1>5 DEF Next, MainStep, MainControl

\* In every behaviour a worker runs at most one task more than worker_tasks:
\* the loop of law_worker_tick that takes new ones goes on while the table has
\* at most worker_tasks, and only this thread adds to the table.  It is the
\* number of requests that module HttpEntry lets share the pools of a worker.
THEOREM TablesBoundedCorrect == Spec => []TablesBounded
  <1>1. Init => TablesBounded
    <2>1. ASSUME Init, NEW w \in Worker PROVE table[w] = {}
      BY <2>1 DEF Init, law_worker_create
    <2> QED BY <2>1, FS_EmptySet, Params DEF TablesBounded
  <1>2. TypeOK /\ TablesBounded /\ [Next]_vars => TablesBounded'
    <2> SUFFICES ASSUME TypeOK, TablesBounded, [Next]_vars, NEW w \in Worker
                 PROVE  Cardinality(table'[w]) <= WorkerTasks + 1
      BY DEF TablesBounded
    <2>1. PICK S, n : S = table[w] /\ n = Cardinality(S)
      OBVIOUS
    <2>2. IsFiniteSet(S) /\ n \in Nat /\ n <= WorkerTasks + 1
      BY <2>1, TableFinite DEF TablesBounded
    <2>3. CASE table'[w] = S
      BY <2>1, <2>2, <2>3
    <2>4. CASE HasRoom(w) /\ \E t : table'[w] = S \cup {t}
      <3>1. PICK t : table'[w] = S \cup {t}
        BY <2>4
      <3>2. n <= WorkerTasks
        BY <2>1, <2>4 DEF HasRoom
      <3>3. Cardinality(S \cup {t}) = IF t \in S THEN n ELSE n + 1
        BY <2>1, <2>2, FS_AddElement
      <3> QED BY <2>2, <3>1, <3>2, <3>3, Params
    <2>5. CASE \E t : table'[w] = S \ {t}
      <3>1. PICK t : table'[w] = S \ {t}
        BY <2>5
      <3>2. Cardinality(S \ {t}) = IF t \in S THEN n - 1 ELSE n
        BY <2>1, <2>2, FS_RemoveElement
      <3> QED BY <2>2, <3>1, <3>2, Params
    <2> QED BY <2>1, <2>3, <2>4, <2>5, TableStep
  <1> QED BY <1>1, <1>2, TypeCorrect, PTL DEF Spec
=============================================================================
