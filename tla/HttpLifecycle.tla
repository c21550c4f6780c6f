---------------------------- MODULE HttpLifecycle ----------------------------
(***************************************************************************)
(* The memory of a law_htserver_t beside that of the server of module      *)
(* Lifecycle: law_htserver_create, with a group of four pools for every    *)
(* worker and worker_tasks buffers or stacks in every pool, and            *)
(* law_htserver_destroy (http_server.c).  One thread of the application    *)
(* makes the calls of both, one after the other and in any order.          *)
(***************************************************************************)
EXTENDS Lifecycle

CONSTANT
  WorkerTasks   \* cfg.worker_tasks: the size of a pool

ASSUME HttpLifecycleAssumption ==
  WorkerTasks \in Nat \ {0} /\ NTasks = WorkerTasks * NWorkers

VARIABLES
  hphase,    \* what the application has called
  group,     \* the worker whose group is being made
  filling,   \* the pool of the group that is being filled, or NoPool
  count,     \* the objects of the pool that is being filled
  hlive,     \* what is allocated
  hstray     \* what was released without being allocated

hvars == <<hphase, group, filling, count, hlive, hstray>>

--------------------------------------------------------------------------
\* The pools of a group are numbered in the order in which they are made.
HeapPool == 0
StackPool == 1
InPool == 2
OutPool == 3
Pools == HeapPool..OutPool

\* All pools of the group before are full: the next group is to be allocated.
NoPool == OutPool + 1

HttpInit ==
  /\ Init
  /\ hphase = "none" /\ group = 1 /\ filling = NoPool /\ count = 0
  /\ hlive = {} /\ hstray = {}

\* law_hts_stk_create and law_hts_buf_create: calloc, then law_smem_create,
\* which leaves the mapping when mprotect fails.
law_hts_buf_create(g, p, n) ==
  [steps |-> <<Step({<<"object", g, p, n>>}, "none"),
               Step({<<"smem", g, p, n>>}, "free_buf"),
               Step({<<"mapping", g, p, n>>}, "FAILURE"),
               Step({}, "FAILURE")>>,
   labels |-> <<Label("FAILURE", {<<"smem", g, p, n>>}),
                Label("free_buf", {<<"object", g, p, n>>})>>]

law_hts_buf_destroy(g, p, n) ==
  {<<"object", g, p, n>>, <<"smem", g, p, n>>, <<"mapping", g, p, n>>}

\* A pool of which c objects have been made.
law_hts_buf_pool_free(g, p, c) == UNION {law_hts_buf_destroy(g, p, n) : n \in 1..c}

PoolOf(g, p) == law_hts_buf_pool_free(g, p, WorkerTasks)

GroupLabels(g) ==
  <<Label("FREE_IN_POOL", PoolOf(g, InPool)),
    Label("FREE_STACK_POOL", PoolOf(g, StackPool)),
    Label("FREE_HEAP_POOL", PoolOf(g, HeapPool)),
    Label("FREE_GROUP", {<<"group", g>>})>>

\* Where law_hts_pool_group_create goes when pool p cannot be made.
\* Mutant: each label is that of the pool before.
GroupLabel_Short(p) ==
  CASE p = HeapPool -> "FREE_GROUP"
    [] p = StackPool -> "FREE_GROUP"
    [] p = InPool -> "FREE_HEAP_POOL"
    [] p = OutPool -> "FREE_STACK_POOL"
GroupLabel(p) ==
  CASE p = HeapPool -> "FREE_GROUP"
    [] p = StackPool -> "FREE_HEAP_POOL"
    [] p = InPool -> "FREE_STACK_POOL"
    [] p = OutPool -> "FREE_IN_POOL"

law_hts_pool_group_destroy(g) ==
  (UNION {PoolOf(g, p) : p \in Pools}) \cup {<<"group", g>>}

\* The groups before group g, the array of groups and the server.
law_hts_pool_groups_destroy(g) ==
  (UNION {law_hts_pool_group_destroy(m) : m \in 1..(g - 1)}) \cup {<<"groups">>}

HttpRelease(l, s) ==
  /\ hlive' = l \ s
  /\ hstray' = hstray \cup (s \ l)

--------------------------------------------------------------------------
\* The server and the array of groups; when the second calloc fails the first
\* is freed.
law_htserver_create ==
  /\ hphase = "none"
  /\ \/ /\ hphase' = "creating" /\ hlive' = {<<"htserver">>, <<"groups">>}
     \/ /\ hphase' = "failed" /\ hlive' = {}
  /\ UNCHANGED <<group, filling, count, hstray>>

\* The calloc of the group is not checked: when it fails
\* law_hts_stk_pool_init writes through NULL.
law_hts_pool_group_create ==
  /\ hphase = "creating" /\ filling = NoPool
  /\ \/ /\ hlive' = hlive \cup {<<"group", group>>}
        /\ filling' = HeapPool /\ count' = 0 /\ UNCHANGED hphase
     \/ /\ hphase' = "crashed" /\ UNCHANGED <<filling, count, hlive>>
  /\ UNCHANGED <<group, hstray>>

\* The next object of the pool has been made; after the last one of a pool
\* comes the next pool, and after the last pool the next group.
law_hts_pool_init ==
  /\ hphase = "creating" /\ filling \in Pools
  /\ hlive' = hlive \cup All(law_hts_buf_create(group, filling, count + 1))
  /\ IF count + 1 < WorkerTasks
     THEN count' = count + 1 /\ UNCHANGED <<hphase, group, filling>>
     ELSE /\ count' = 0 /\ filling' = filling + 1
          /\ IF filling = OutPool
             THEN /\ group' = group + 1
                  /\ hphase' = (IF group = NWorkers THEN "created" ELSE "creating")
             ELSE UNCHANGED <<hphase, group>>
  /\ UNCHANGED hstray

\* Step k of the next object fails.  The pool frees its own list, the group
\* what its label says, law_hts_pool_groups_create the groups before and the
\* array, law_htserver_create the server.
law_hts_pool_init_fails(k) ==
  LET R == law_hts_buf_create(group, filling, count + 1)
  IN  /\ hphase = "creating" /\ filling \in Pools /\ k \in 1..Len(R.steps)
      /\ HttpRelease(hlive \cup Gained(R, k),
                     (((Undone(R, k) \cup law_hts_buf_pool_free(group, filling, count))
                       \cup Released(GroupLabels(group), GroupLabel(filling)))
                      \cup law_hts_pool_groups_destroy(group)) \cup {<<"htserver">>})
      /\ hphase' = "failed"
      /\ UNCHANGED <<group, filling, count>>

law_htserver_destroy ==
  /\ hphase = "created"
  /\ HttpRelease(hlive, law_hts_pool_groups_destroy(NWorkers + 1) \cup {<<"htserver">>})
  /\ hphase' = "destroyed"
  /\ UNCHANGED <<group, filling, count>>

HttpCall ==
  \/ law_htserver_create \/ law_hts_pool_group_create
  \/ law_hts_pool_init \/ \E k \in 1..4 : law_hts_pool_init_fails(k)
  \/ law_htserver_destroy

HttpNext ==
  \/ /\ phase \notin {"creating", "opening", "aborted"}
     /\ HttpCall /\ UNCHANGED vars
  \/ /\ hphase \notin {"creating", "crashed"}
     /\ Next /\ UNCHANGED hvars
  \/ hphase = "crashed" /\ UNCHANGED <<vars, hvars>>

HttpSpec == HttpInit /\ [][HttpNext]_<<vars, hvars>>

--------------------------------------------------------------------------
HttpMemory == law_hts_pool_groups_destroy(NWorkers + 1) \cup {<<"htserver">>}

\* Whatever fails in law_htserver_create, nothing is freed that is not
\* allocated, and the labels of the group, the list of the pool and the
\* loops leave nothing behind, but for one mapping when mprotect was
\* refused.  One that succeeds has filled every pool of every worker, and
\* law_htserver_destroy frees them all.  Nothing is claimed once the
\* unchecked calloc of a group has failed.
HttpFreesAll ==
  /\ hstray = {}
  /\ hphase = "created" => hlive = HttpMemory
  /\ hphase = "destroyed" => hlive = {}
  /\ hphase = "failed" =>
       \/ hlive = {}
       \/ \E g \in Worker, p \in Pools, n \in 1..WorkerTasks :
            hlive = {<<"mapping", g, p, n>>}
=============================================================================
