--------------------------- MODULE LifecycleProofs ---------------------------
(***************************************************************************)
(* Proofs about modules Lifecycle and HttpLifecycle, for every number of   *)
(* workers and tasks.                                                      *)
(***************************************************************************)
EXTENDS HttpLifecycle, SequenceTheorems, TLAPS

-----------------------------------------------------------------------------
(* The inductive invariant *)

\* What the calls of law_server_create before call a acquire: the memory of
\* the server itself, the tasks, the workers.
Base == <<"server", "threads", "workers", "events", "pool">>

MadeBase(a) == {<<Base[i], 0>> : i \in {j \in 1 .. 5 : j < a}}
MadeTasks(a) == UNION {law_task_destroy(n) : n \in {k \in 1 .. NTasks : 5 + k < a}}
MadeWorkers(a) == UNION {law_worker_destroy(w) : w \in {k \in Worker : 5 + NTasks + k < a}}
Made(a) == (MadeBase(a) \cup MadeTasks(a)) \cup MadeWorkers(a)

\* What the calls of law_open before call a acquire, if its socket is s.
Opened(s, a) ==
  (IF a > 1 THEN {<<"socket", s>>} ELSE {})
  \cup (IF a > 4 THEN {<<"epoll", 0>>} ELSE {})
  \cup UNION {law_worker_close(w) : w \in {k \in Worker : 5 + k < a}}

Whole == Made(6 + NTasks + NWorkers)

Types ==
  /\ phase \in {"none", "creating", "created", "opening", "open", "closed", "failed", "aborted",
                "destroyed", "misclosed", "misdestroyed"}
  /\ at \in Nat \ {0}
  /\ sockets \in Nat /\ socket = sockets
  /\ own \in SUBSET (1 .. sockets)
  /\ phase = "creating" => at <= 5 + NTasks + NWorkers
  /\ phase = "opening" => at <= 5 + NWorkers

\* The last socket is that of law_open, not one of the application.
LastIsOurs ==
  phase = "open" \/ (phase = "opening" /\ at > 1) => sockets \notin own

\* What is allocated, in each phase and at each call.
Allocated ==
  /\ phase = "none" => live = {} /\ own = {}
  /\ phase = "creating" => live = Made(at) /\ own = {}
  /\ phase \in {"created", "closed"} => live = Whole \cup Sockets(own)
  /\ phase = "opening" => live = (Whole \cup Sockets(own)) \cup Opened(sockets, at)
  /\ phase = "open" => live = (Whole \cup Sockets(own)) \cup Opened(sockets, 6 + NWorkers)
  /\ phase = "destroyed" => live = Sockets(own)
  /\ phase = "misclosed" => Whole \subseteq live /\ live \subseteq Whole \cup Sockets(own)
  /\ phase = "misdestroyed" => live \subseteq Sockets(own)
  /\ phase = "failed" => live = {} \/ \E n \in 1 .. NTasks : live = {<<"mapping", n>>}

Invariant == Types /\ LastIsOurs /\ Allocated /\ NothingStray

-----------------------------------------------------------------------------
(* Labels and steps *)

\* What is released from the first label of that name on.
LEMMA ReleasedFrom ==
  ASSUME NEW labels, NEW h \in Nat \ {0}, Len(labels) \in Nat, h <= Len(labels),
         \A i \in 1 .. h - 1 : labels[i].label # labels[h].label
  PROVE  \A x : x \in Released(labels, labels[h].label)
                  <=> \E j \in h .. Len(labels) : x \in labels[j].frees
  <1> DEFINE l == labels[h].label
             J == {i \in 1 .. Len(labels) : \E g \in 1 .. i : labels[g].label = l}
  <1>1. J = h .. Len(labels)
    <2>1. ASSUME NEW i \in J PROVE i \in h .. Len(labels)
      <3>1. PICK g \in 1 .. i : labels[g].label = l
        OBVIOUS
      <3>2. i \in 1 .. Len(labels) /\ g \in Nat /\ g <= i
        BY <3>1
      <3>3. ~ g < h
        BY <3>1, <3>2
      <3> QED BY <3>2, <3>3
    <2>2. ASSUME NEW i \in h .. Len(labels) PROVE i \in J
      <3>1. h \in 1 .. i /\ i \in 1 .. Len(labels)
        OBVIOUS
      <3> QED BY <3>1
    <2> QED BY <2>1, <2>2
  <1>2. Released(labels, l) = UNION {labels[j].frees : j \in J}
    BY DEF Released
  <1> QED BY <1>1, <1>2

\* No label of that name.
LEMMA ReleasedNone ==
  ASSUME NEW labels, NEW l, Len(labels) \in Nat,
         \A i \in 1 .. Len(labels) : labels[i].label # l
  PROVE  Released(labels, l) = {}
  BY DEF Released

LEMMA ThreeLabels ==
  ASSUME NEW labels, Len(labels) = 3,
         labels[1].label # labels[2].label, labels[1].label # labels[3].label,
         labels[2].label # labels[3].label
  PROVE  /\ Released(labels, labels[1].label)
               = (labels[1].frees \cup labels[2].frees) \cup labels[3].frees
         /\ Released(labels, labels[2].label) = labels[2].frees \cup labels[3].frees
         /\ Released(labels, labels[3].label) = labels[3].frees
         /\ \A z : z # labels[1].label /\ z # labels[2].label /\ z # labels[3].label
                     => Released(labels, z) = {}
  <1>1. PICK a, b, c, e, f, g :
          /\ labels[1].label = a /\ labels[2].label = b /\ labels[3].label = c
          /\ labels[1].frees = e /\ labels[2].frees = f /\ labels[3].frees = g
    OBVIOUS
  <1>2. Len(labels) \in Nat /\ 1 \in Nat \ {0} /\ 2 \in Nat \ {0} /\ 3 \in Nat \ {0}
    BY <1>1
  <1>3. \A x : x \in Released(labels, a) <=> \E j \in 1 .. 3 : x \in labels[j].frees
    <2>1. \A i \in 1 .. 1 - 1 : labels[i].label # labels[1].label
      OBVIOUS
    <2> QED BY <1>1, <1>2, <2>1, ReleasedFrom
  <1>4. \A x : x \in Released(labels, b) <=> \E j \in 2 .. 3 : x \in labels[j].frees
    <2>1. \A i \in 1 .. 2 - 1 : labels[i].label # labels[2].label
      BY <1>1
    <2> QED BY <1>1, <1>2, <2>1, ReleasedFrom
  <1>5. \A x : x \in Released(labels, c) <=> \E j \in 3 .. 3 : x \in labels[j].frees
    <2>1. \A i \in 1 .. 3 - 1 : labels[i].label # labels[3].label
      <3>1. \A i \in 1 .. 3 - 1 : i = 1 \/ i = 2
        OBVIOUS
      <3> QED BY <1>1, <3>1
    <2> QED BY <1>1, <1>2, <2>1, ReleasedFrom
  <1>6. /\ \A j \in 1 .. 3 : j = 1 \/ j = 2 \/ j = 3
        /\ \A j \in 2 .. 3 : j = 2 \/ j = 3
        /\ \A j \in 3 .. 3 : j = 3
        /\ 1 \in 1 .. 3 /\ 2 \in 1 .. 3 /\ 3 \in 1 .. 3 /\ 2 \in 2 .. 3 /\ 3 \in 2 .. 3
        /\ 3 \in 3 .. 3
    OBVIOUS
  <1>7. Released(labels, a) = (e \cup f) \cup g
    BY <1>1, <1>3, <1>6
  <1>8. Released(labels, b) = f \cup g
    BY <1>1, <1>4, <1>6
  <1>9. Released(labels, c) = g
    BY <1>1, <1>5, <1>6
  <1>10. \A z : z # a /\ z # b /\ z # c => Released(labels, z) = {}
    <2> SUFFICES ASSUME NEW z, z # a, z # b, z # c PROVE Released(labels, z) = {}
      OBVIOUS
    <2>1. \A i \in 1 .. Len(labels) : labels[i].label # z
      BY <1>1, <1>6
    <2> QED BY <1>2, <2>1, ReleasedNone
  <1> QED BY <1>1, <1>7, <1>8, <1>9, <1>10

LEMMA FourLabels ==
  ASSUME NEW a, NEW b, NEW c, NEW d,
         a # b, a # c, a # d, b # c, b # d, c # d,
         NEW e, NEW f, NEW g, NEW h
  PROVE  LET labels == <<Label(a, e), Label(b, f), Label(c, g), Label(d, h)>>
         IN  /\ Released(labels, a) = (e \cup f) \cup (g \cup h)
             /\ Released(labels, b) = f \cup (g \cup h)
             /\ Released(labels, c) = g \cup h
             /\ Released(labels, d) = h
             /\ \A z : z # a /\ z # b /\ z # c /\ z # d => Released(labels, z) = {}
  <1> DEFINE labels == <<Label(a, e), Label(b, f), Label(c, g), Label(d, h)>>
  <1>1. /\ Len(labels) = 4
        /\ labels[1].label = a /\ labels[2].label = b /\ labels[3].label = c
        /\ labels[4].label = d
        /\ labels[1].frees = e /\ labels[2].frees = f /\ labels[3].frees = g
        /\ labels[4].frees = h
    BY DEF Label
  <1> HIDE DEF labels
  <1>2. /\ Len(labels) \in Nat
        /\ 1 \in Nat \ {0} /\ 2 \in Nat \ {0} /\ 3 \in Nat \ {0} /\ 4 \in Nat \ {0}
    BY <1>1
  <1>3. \A x : x \in Released(labels, a) <=> \E j \in 1 .. 4 : x \in labels[j].frees
    <2>1. \A i \in 1 .. 1 - 1 : labels[i].label # labels[1].label
      OBVIOUS
    <2> QED BY <1>1, <1>2, <2>1, ReleasedFrom
  <1>4. \A x : x \in Released(labels, b) <=> \E j \in 2 .. 4 : x \in labels[j].frees
    <2>1. \A i \in 1 .. 2 - 1 : labels[i].label # labels[2].label
      BY <1>1
    <2> QED BY <1>1, <1>2, <2>1, ReleasedFrom
  <1>5. \A x : x \in Released(labels, c) <=> \E j \in 3 .. 4 : x \in labels[j].frees
    <2>1. \A i \in 1 .. 3 - 1 : labels[i].label # labels[3].label
      <3>1. \A i \in 1 .. 3 - 1 : i = 1 \/ i = 2
        OBVIOUS
      <3> QED BY <1>1, <3>1
    <2> QED BY <1>1, <1>2, <2>1, ReleasedFrom
  <1>6. \A x : x \in Released(labels, d) <=> \E j \in 4 .. 4 : x \in labels[j].frees
    <2>1. \A i \in 1 .. 4 - 1 : labels[i].label # labels[4].label
      <3>1. \A i \in 1 .. 4 - 1 : i = 1 \/ i = 2 \/ i = 3
        OBVIOUS
      <3> QED BY <1>1, <3>1
    <2> QED BY <1>1, <1>2, <2>1, ReleasedFrom
  <1>7. /\ \A j \in 1 .. 4 : j = 1 \/ j = 2 \/ j = 3 \/ j = 4
        /\ \A j \in 2 .. 4 : j = 2 \/ j = 3 \/ j = 4
        /\ \A j \in 3 .. 4 : j = 3 \/ j = 4
        /\ \A j \in 4 .. 4 : j = 4
        /\ 1 \in 1 .. 4 /\ 2 \in 1 .. 4 /\ 3 \in 1 .. 4 /\ 4 \in 1 .. 4
        /\ 2 \in 2 .. 4 /\ 3 \in 2 .. 4 /\ 4 \in 2 .. 4 /\ 3 \in 3 .. 4 /\ 4 \in 3 .. 4
        /\ 4 \in 4 .. 4
    OBVIOUS
  <1>8. Released(labels, a) = (e \cup f) \cup (g \cup h)
    BY <1>1, <1>3, <1>7
  <1>9. Released(labels, b) = f \cup (g \cup h)
    BY <1>1, <1>4, <1>7
  <1>10. Released(labels, c) = g \cup h
    BY <1>1, <1>5, <1>7
  <1>11. Released(labels, d) = h
    BY <1>1, <1>6, <1>7
  <1>12. \A z : z # a /\ z # b /\ z # c /\ z # d => Released(labels, z) = {}
    <2> SUFFICES ASSUME NEW z, z # a, z # b, z # c, z # d PROVE Released(labels, z) = {}
      OBVIOUS
    <2>1. \A i \in 1 .. Len(labels) : labels[i].label # z
      BY <1>1, <1>7
    <2> QED BY <1>2, <2>1, ReleasedNone
  <1> QED BY <1>8, <1>9, <1>10, <1>11, <1>12 DEF labels

\* The steps of a routine with five of them.
LEMMA FiveSteps ==
  ASSUME NEW s, Len(s) = 5,
         NEW a, NEW b, NEW c, NEW d, NEW e,
         s[1].gets = a, s[2].gets = b, s[3].gets = c, s[4].gets = d, s[5].gets = e
  PROVE  /\ Acquired(s, 0) = {} /\ Acquired(s, 1) = a
         /\ Acquired(s, 2) = a \cup b /\ Acquired(s, 3) = (a \cup b) \cup c
         /\ Acquired(s, 4) = (a \cup b) \cup (c \cup d)
         /\ Acquired(s, 5) = ((a \cup b) \cup (c \cup d)) \cup e
  <1>1. Acquired(s, 0) = {}
    BY DEF Acquired
  <1>2. Acquired(s, 1) = a
    <2>1. \A i \in 1 .. 1 : i = 1
      OBVIOUS
    <2>2. 1 \in 1 .. 1
      OBVIOUS
    <2> QED BY <2>1, <2>2 DEF Acquired
  <1>3. Acquired(s, 2) = a \cup b
    <2>1. /\ \A i \in 1 .. 2 : i = 1 \/ i = 2
          /\ 1 \in 1 .. 2 /\ 2 \in 1 .. 2
      OBVIOUS
    <2> QED BY <2>1 DEF Acquired
  <1>4. Acquired(s, 3) = (a \cup b) \cup c
    <2>1. /\ \A i \in 1 .. 3 : i = 1 \/ i = 2 \/ i = 3
          /\ 1 \in 1 .. 3 /\ 2 \in 1 .. 3 /\ 3 \in 1 .. 3
      OBVIOUS
    <2> QED BY <2>1 DEF Acquired
  <1>5. Acquired(s, 4) = (a \cup b) \cup (c \cup d)
    <2>1. /\ \A i \in 1 .. 4 : i = 1 \/ i = 2 \/ i = 3 \/ i = 4
          /\ 1 \in 1 .. 4 /\ 2 \in 1 .. 4 /\ 3 \in 1 .. 4 /\ 4 \in 1 .. 4
      OBVIOUS
    <2> QED BY <2>1 DEF Acquired
  <1>6. Acquired(s, 5) = ((a \cup b) \cup (c \cup d)) \cup e
    <2>1. /\ \A i \in 1 .. 5 : i = 1 \/ i = 2 \/ i = 3 \/ i = 4 \/ i = 5
          /\ 1 \in 1 .. 5 /\ 2 \in 1 .. 5 /\ 3 \in 1 .. 5 /\ 4 \in 1 .. 5 /\ 5 \in 1 .. 5
      OBVIOUS
    <2> QED BY <2>1 DEF Acquired
  <1> QED BY <1>1, <1>2, <1>3, <1>4, <1>5, <1>6

-----------------------------------------------------------------------------
(* Routines: each releases what it has acquired when one of its steps      *)
(* fails, but for the mapping of a stack.                                  *)

LEMMA Join ==
  ASSUME NEW S, NEW a \in Seq(S), NEW b \in Seq(S)
  PROVE  /\ a \o b \in Seq(S) /\ Len(a \o b) = Len(a) + Len(b)
         /\ \A i \in 1 .. Len(a) : (a \o b)[i] = a[i]
         /\ \A i \in 1 .. Len(b) : (a \o b)[Len(a) + i] = b[i]
  <1>1. /\ a \o b \in Seq(S) /\ Len(a \o b) = Len(a) + Len(b)
        /\ Len(a) \in Nat /\ Len(b) \in Nat
    OBVIOUS
  <1> QED BY <1>1

\* Two words and three.
LEMMA TwoAndThree ==
  ASSUME NEW p, NEW q, NEW u, NEW v, NEW w
  PROVE  LET s == <<p, q>> \o <<u, v, w>>
         IN  Len(s) = 5 /\ s[1] = p /\ s[2] = q /\ s[3] = u /\ s[4] = v /\ s[5] = w
  <1> DEFINE S == {p, q, u, v, w}
             a == <<p, q>>
             b == <<u, v, w>>
  <1>1. a \in Seq(S) /\ Len(a) = 2 /\ a[1] = p /\ a[2] = q
    OBVIOUS
  <1>2. b \in Seq(S) /\ Len(b) = 3 /\ b[1] = u /\ b[2] = v /\ b[3] = w
    OBVIOUS
  <1> HIDE DEF a, b, S
  <1>3. /\ Len(a \o b) = Len(a) + Len(b)
        /\ \A i \in 1 .. Len(a) : (a \o b)[i] = a[i]
        /\ \A i \in 1 .. Len(b) : (a \o b)[Len(a) + i] = b[i]
    <2>1. a \in Seq(S) /\ b \in Seq(S)
      BY <1>1, <1>2
    <2>2. ASSUME NEW x \in Seq(S), NEW y \in Seq(S)
          PROVE  /\ Len(x \o y) = Len(x) + Len(y)
                 /\ \A i \in 1 .. Len(x) : (x \o y)[i] = x[i]
                 /\ \A i \in 1 .. Len(y) : (x \o y)[Len(x) + i] = y[i]
      BY Join
    <2> QED BY <2>1, <2>2, Zenon
  <1>4. /\ 1 \in 1 .. 2 /\ 2 \in 1 .. 2 /\ 1 \in 1 .. 3 /\ 2 \in 1 .. 3 /\ 3 \in 1 .. 3
        /\ 2 + 3 = 5 /\ 2 + 1 = 3 /\ 2 + 2 = 4
    OBVIOUS
  <1>5. /\ Len(a \o b) = 5 /\ (a \o b)[1] = p /\ (a \o b)[2] = q /\ (a \o b)[3] = u
        /\ (a \o b)[4] = v /\ (a \o b)[5] = w
    BY <1>1, <1>2, <1>3, <1>4
  <1> QED BY <1>5 DEF a, b

LEMMA OneAndTwo ==
  ASSUME NEW p, NEW q, NEW u
  PROVE  LET s == <<p>> \o <<q, u>>
         IN  Len(s) = 3 /\ s[1] = p /\ s[2] = q /\ s[3] = u
  <1> DEFINE S == {p, q, u}
             a == <<p>>
             b == <<q, u>>
  <1>1. a \in Seq(S) /\ Len(a) = 1 /\ a[1] = p
    OBVIOUS
  <1>2. b \in Seq(S) /\ Len(b) = 2 /\ b[1] = q /\ b[2] = u
    OBVIOUS
  <1> HIDE DEF a, b, S
  <1>3. /\ Len(a \o b) = Len(a) + Len(b)
        /\ \A i \in 1 .. Len(a) : (a \o b)[i] = a[i]
        /\ \A i \in 1 .. Len(b) : (a \o b)[Len(a) + i] = b[i]
    <2>1. a \in Seq(S) /\ b \in Seq(S)
      BY <1>1, <1>2
    <2>2. ASSUME NEW x \in Seq(S), NEW y \in Seq(S)
          PROVE  /\ Len(x \o y) = Len(x) + Len(y)
                 /\ \A i \in 1 .. Len(x) : (x \o y)[i] = x[i]
                 /\ \A i \in 1 .. Len(y) : (x \o y)[Len(x) + i] = y[i]
      BY Join
    <2> QED BY <2>1, <2>2, Zenon
  <1>4. 1 \in 1 .. 1 /\ 1 \in 1 .. 2 /\ 2 \in 1 .. 2 /\ 1 + 2 = 3 /\ 1 + 1 = 2
    OBVIOUS
  <1>5. Len(a \o b) = 3 /\ (a \o b)[1] = p /\ (a \o b)[2] = q /\ (a \o b)[3] = u
    BY <1>1, <1>2, <1>3, <1>4
  <1> QED BY <1>5 DEF a, b

LEMMA PlainRoutine ==
  ASSUME NEW g
  PROVE  /\ Len(Plain(g).steps) = 1 /\ All(Plain(g)) = g
         /\ Gained(Plain(g), 1) = {} /\ Undone(Plain(g), 1) = {}
  <1>1. /\ Plain(g).steps = <<Step(g, "none")>> /\ Plain(g).labels = <<>>
        /\ Len(Plain(g).steps) = 1 /\ Len(Plain(g).labels) = 0
        /\ Plain(g).steps[1].gets = g
    BY DEF Plain, Step
  <1>2. All(Plain(g)) = g
    <2>1. (\A i \in 1 .. 1 : i = 1) /\ 1 \in 1 .. 1
      OBVIOUS
    <2> QED BY <1>1, <2>1 DEF All, Acquired
  <1>3. Gained(Plain(g), 1) = {}
    BY DEF Gained, Acquired
  <1>4. Undone(Plain(g), 1) = {}
    <2>1. 1 .. Len(Plain(g).labels) = {}
      BY <1>1
    <2> QED BY <2>1 DEF Undone, Released
  <1> QED BY <1>1, <1>2, <1>3, <1>4

LEMMA TaskRoutine ==
  ASSUME NEW n
  PROVE  LET R == law_task_create(n)
         IN  /\ Len(R.steps) = 5
             /\ law_task_destroy(n) = {<<"task", n>>, <<"callee", n>>, <<"stack", n>>, <<"mapping", n>>}
             /\ All(R) = law_task_destroy(n)
             /\ \A k \in 1 .. 5 : /\ Undone(R, k) \subseteq Gained(R, k)
                                  /\ Gained(R, k) \subseteq Undone(R, k) \cup {<<"mapping", n>>}
  <1> DEFINE R == law_task_create(n)
             s == R.steps
             l == R.labels
             a == {<<"task", n>>}
             b == {<<"callee", n>>}
             c == {<<"stack", n>>}
             d == {<<"mapping", n>>}
  <1>1. s = <<Step(a, "none"), Step(b, "FREE_TASK")>>
            \o <<Step(c, "FREE_COR"), Step(d, "FAILURE"), Step({}, "FAILURE")>>
    BY DEF law_task_create, law_smem_create
  <1>2. l = <<Label("FAILURE", c)>> \o <<Label("FREE_COR", b), Label("FREE_TASK", a)>>
    BY DEF law_task_create, law_smem_create
  <1>3. \A k : Gained(R, k) = Acquired(s, k - 1) /\ Undone(R, k) = Released(l, s[k].label)
    BY DEF Gained, Undone
  <1>4. All(R) = Acquired(s, Len(s))
    BY DEF All
  <1> HIDE DEF a, b, c, d, l, s, R
  <1>5. /\ Len(s) = 5
        /\ s[1].gets = a /\ s[2].gets = b /\ s[3].gets = c /\ s[4].gets = d /\ s[5].gets = {}
        /\ s[1].label = "none" /\ s[2].label = "FREE_TASK" /\ s[3].label = "FREE_COR"
        /\ s[4].label = "FAILURE" /\ s[5].label = "FAILURE"
    <2>1. /\ Len(s) = 5 /\ s[1] = Step(a, "none") /\ s[2] = Step(b, "FREE_TASK")
          /\ s[3] = Step(c, "FREE_COR") /\ s[4] = Step(d, "FAILURE")
          /\ s[5] = Step({}, "FAILURE")
      BY <1>1, TwoAndThree
    <2> QED BY <2>1 DEF Step
  <1>6. /\ Released(l, "FAILURE") = (c \cup b) \cup a
        /\ Released(l, "FREE_COR") = b \cup a /\ Released(l, "FREE_TASK") = a
        /\ Released(l, "none") = {}
    <2>1. /\ Len(l) = 3 /\ l[1] = Label("FAILURE", c) /\ l[2] = Label("FREE_COR", b)
          /\ l[3] = Label("FREE_TASK", a)
      BY <1>2, OneAndTwo
    <2> QED BY <2>1, ThreeLabels DEF Label
  <1>7. /\ Acquired(s, 0) = {} /\ Acquired(s, 1) = a
        /\ Acquired(s, 2) = a \cup b /\ Acquired(s, 3) = (a \cup b) \cup c
        /\ Acquired(s, 4) = (a \cup b) \cup (c \cup d)
        /\ Acquired(s, 5) = ((a \cup b) \cup (c \cup d)) \cup {}
    BY <1>5, FiveSteps
  <1>8. ASSUME NEW k \in 1 .. 5
        PROVE  Undone(R, k) \subseteq Gained(R, k) /\ Gained(R, k) \subseteq Undone(R, k) \cup d
    <2>1. k = 1 \/ k = 2 \/ k = 3 \/ k = 4 \/ k = 5
      OBVIOUS
    <2>2. 1 - 1 = 0 /\ 2 - 1 = 1 /\ 3 - 1 = 2 /\ 4 - 1 = 3 /\ 5 - 1 = 4
      OBVIOUS
    <2>3. CASE k = 1
      BY <1>3, <1>5, <1>6, <1>7, <2>2, <2>3
    <2>4. CASE k = 2
      BY <1>3, <1>5, <1>6, <1>7, <2>2, <2>4
    <2>5. CASE k = 3
      BY <1>3, <1>5, <1>6, <1>7, <2>2, <2>5
    <2>6. CASE k = 4
      BY <1>3, <1>5, <1>6, <1>7, <2>2, <2>6
    <2>7. CASE k = 5
      BY <1>3, <1>5, <1>6, <1>7, <2>2, <2>7
    <2> QED BY <2>1, <2>3, <2>4, <2>5, <2>6, <2>7
  <1>9. All(R) = (a \cup b) \cup (c \cup d)
    BY <1>4, <1>5, <1>7
  <1>10. All(R) = law_task_destroy(n)
    BY DEF law_task_destroy, R
  <1>11. (a \cup b) \cup (c \cup d)
         = {<<"task", n>>, <<"callee", n>>, <<"stack", n>>, <<"mapping", n>>}
    BY DEF a, b, c, d
  <1> QED BY <1>5, <1>8, <1>9, <1>10, <1>11 DEF R, s, d

LEMMA WorkerRoutine ==
  ASSUME NEW w
  PROVE  LET R == law_worker_create(w)
         IN  /\ Len(R.steps) = 5
             /\ law_worker_destroy(w) = {<<"worker", w>>, <<"caller", w>>, <<"timer", w>>,
                                         <<"events", w>>, <<"table", w>>}
             /\ All(R) = law_worker_destroy(w)
             /\ \A k \in 1 .. 5 : Undone(R, k) = Gained(R, k)
  <1> DEFINE R == law_worker_create(w)
             s == R.steps
             l == R.labels
             a == {<<"worker", w>>}
             b == {<<"caller", w>>}
             c == {<<"timer", w>>}
             d == {<<"events", w>>}
             e == {<<"table", w>>}
  <1>1. s = <<Step(a, "none"), Step(b, "FREE_WORKER"), Step(c, "FREE_CALLER"),
              Step(d, "FREE_TIMER"), Step(e, "FREE_EVO")>>
    BY DEF law_worker_create
  <1>2. l = <<Label("FREE_EVO", d), Label("FREE_TIMER", c), Label("FREE_CALLER", b),
              Label("FREE_WORKER", a)>>
    BY DEF law_worker_create
  <1>3. \A k : Gained(R, k) = Acquired(s, k - 1) /\ Undone(R, k) = Released(l, s[k].label)
    BY DEF Gained, Undone
  <1>4. All(R) = Acquired(s, Len(s))
    BY DEF All
  <1> HIDE DEF a, b, c, d, e, l, s, R
  <1>5. /\ Len(s) = 5
        /\ s[1].gets = a /\ s[2].gets = b /\ s[3].gets = c /\ s[4].gets = d /\ s[5].gets = e
        /\ s[1].label = "none" /\ s[2].label = "FREE_WORKER" /\ s[3].label = "FREE_CALLER"
        /\ s[4].label = "FREE_TIMER" /\ s[5].label = "FREE_EVO"
    BY <1>1 DEF Step
  <1>6. /\ Released(l, "FREE_EVO") = (d \cup c) \cup (b \cup a)
        /\ Released(l, "FREE_TIMER") = c \cup (b \cup a)
        /\ Released(l, "FREE_CALLER") = b \cup a /\ Released(l, "FREE_WORKER") = a
        /\ Released(l, "none") = {}
    BY <1>2, FourLabels
  <1>7. /\ Acquired(s, 0) = {} /\ Acquired(s, 1) = a
        /\ Acquired(s, 2) = a \cup b /\ Acquired(s, 3) = (a \cup b) \cup c
        /\ Acquired(s, 4) = (a \cup b) \cup (c \cup d)
        /\ Acquired(s, 5) = ((a \cup b) \cup (c \cup d)) \cup e
    BY <1>5, FiveSteps
  <1>8. ASSUME NEW k \in 1 .. 5
        PROVE  Undone(R, k) = Gained(R, k)
    <2>1. k = 1 \/ k = 2 \/ k = 3 \/ k = 4 \/ k = 5
      OBVIOUS
    <2>2. 1 - 1 = 0 /\ 2 - 1 = 1 /\ 3 - 1 = 2 /\ 4 - 1 = 3 /\ 5 - 1 = 4
      OBVIOUS
    <2> DEFINE X3 == a \cup b
               X4 == (a \cup b) \cup c
               X5 == (a \cup b) \cup (c \cup d)
    <2>8. /\ b \cup a = X3 /\ c \cup (b \cup a) = X4
          /\ (d \cup c) \cup (b \cup a) = X5
      OBVIOUS
    <2> HIDE DEF X3, X4, X5
    <2>9. /\ Released(l, "FREE_EVO") = X5 /\ Released(l, "FREE_TIMER") = X4
          /\ Released(l, "FREE_CALLER") = X3 /\ Released(l, "FREE_WORKER") = a
          /\ Released(l, "none") = {}
      BY <1>6, <2>8
    <2>10. /\ Acquired(s, 0) = {} /\ Acquired(s, 1) = a /\ Acquired(s, 2) = X3
           /\ Acquired(s, 3) = X4 /\ Acquired(s, 4) = X5
      BY <1>7 DEF X3, X4, X5
    <2>3. CASE k = 1
      BY <1>3, <1>5, <2>2, <2>9, <2>10, <2>3
    <2>4. CASE k = 2
      BY <1>3, <1>5, <2>2, <2>9, <2>10, <2>4
    <2>5. CASE k = 3
      BY <1>3, <1>5, <2>2, <2>9, <2>10, <2>5
    <2>6. CASE k = 4
      BY <1>3, <1>5, <2>2, <2>9, <2>10, <2>6
    <2>7. CASE k = 5
      BY <1>3, <1>5, <2>2, <2>9, <2>10, <2>7
    <2> QED BY <2>1, <2>3, <2>4, <2>5, <2>6, <2>7
  <1>9. All(R) = ((a \cup b) \cup (c \cup d)) \cup e
    BY <1>4, <1>5, <1>7
  <1>10. All(R) = law_worker_destroy(w)
    BY DEF law_worker_destroy, R
  <1>11. ((a \cup b) \cup (c \cup d)) \cup e
         = {<<"worker", w>>, <<"caller", w>>, <<"timer", w>>, <<"events", w>>, <<"table", w>>}
    BY DEF a, b, c, d, e
  <1> QED BY <1>5, <1>8, <1>9, <1>10, <1>11 DEF R, s

LEMMA SocketRoutine ==
  ASSUME NEW t
  PROVE  LET R == law_create_socket(t)
         IN  /\ Len(R.steps) = 2 /\ All(R) = {<<"socket", t>>}
             /\ \A k \in 1 .. 2 : Undone(R, k) = Gained(R, k)
  <1> DEFINE R == law_create_socket(t)
             s == R.steps
             l == R.labels
             a == {<<"socket", t>>}
  <1>1. s = <<Step(a, "none"), Step({}, "FAILURE")>> /\ l = <<Label("FAILURE", a)>>
    BY DEF law_create_socket
  <1>2. \A k : Gained(R, k) = Acquired(s, k - 1) /\ Undone(R, k) = Released(l, s[k].label)
    BY DEF Gained, Undone
  <1>3. All(R) = Acquired(s, Len(s))
    BY DEF All
  <1> HIDE DEF a, l, s, R
  <1>4. /\ Len(s) = 2 /\ s[1].gets = a /\ s[2].gets = {}
        /\ s[1].label = "none" /\ s[2].label = "FAILURE"
        /\ Len(l) = 1 /\ l[1].label = "FAILURE" /\ l[1].frees = a
    BY <1>1 DEF Step, Label
  <1>5. Acquired(s, 0) = {} /\ Acquired(s, 1) = a /\ Acquired(s, 2) = a
    <2>1. /\ 1 .. 0 = {} /\ (\A i \in 1 .. 1 : i = 1) /\ 1 \in 1 .. 1
          /\ (\A i \in 1 .. 2 : i = 1 \/ i = 2) /\ 1 \in 1 .. 2
      OBVIOUS
    <2> QED BY <1>4, <2>1 DEF Acquired
  <1>6. Released(l, "none") = {} /\ Released(l, "FAILURE") = a
    <2>1. (\A i \in 1 .. 1 : i = 1) /\ 1 \in 1 .. 1
      OBVIOUS
    <2> QED BY <1>4, <2>1 DEF Released
  <1>7. ASSUME NEW k \in 1 .. 2 PROVE Undone(R, k) = Gained(R, k)
    <2>1. k = 1 \/ k = 2
      OBVIOUS
    <2>2. 1 - 1 = 0 /\ 2 - 1 = 1
      OBVIOUS
    <2> QED BY <1>2, <1>4, <1>5, <1>6, <2>1, <2>2
  <1>8. All(R) = a
    BY <1>3, <1>4, <1>5
  <1> QED BY <1>4, <1>7, <1>8 DEF R, s, a

LEMMA PipeRoutine ==
  ASSUME NEW name, NEW w
  PROVE  All(law_pipe_open(name, w)) = Pipe(name, w)
  <1> DEFINE R == law_pipe_open(name, w)
             s == R.steps
             a == Pipe(name, w)
  <1>1. s = <<Step(a, "none"), Step({}, "law_pipe_close")>>
    BY DEF law_pipe_open
  <1>2. All(R) = Acquired(s, Len(s))
    BY DEF All
  <1> HIDE DEF a, s, R
  <1>3. Len(s) = 2 /\ s[1].gets = a /\ s[2].gets = {}
    BY <1>1 DEF Step
  <1>4. Acquired(s, 2) = a
    <2>1. (\A i \in 1 .. 2 : i = 1 \/ i = 2) /\ 1 \in 1 .. 2
      OBVIOUS
    <2> QED BY <1>3, <2>1 DEF Acquired
  <1> QED BY <1>2, <1>3, <1>4 DEF R, a

LEMMA WorkerOpenRoutine ==
  ASSUME NEW w
  PROVE  LET R == law_worker_open(w)
         IN  /\ Len(R.steps) = 5 /\ All(R) = law_worker_close(w)
             /\ \A k \in 1 .. 5 : Undone(R, k) = Gained(R, k)
  <1> DEFINE R == law_worker_open(w)
             s == R.steps
             l == R.labels
             a == Pipe("incoming", w)
             b == Pipe("messages", w)
             c == {<<"epoll", w>>}
  <1>1. s = <<Step(a, "none"), Step(b, "CLOSE_INCOMING"), Step(c, "CLOSE_MESSAGES"),
              Step({}, "CLOSE_EVO"), Step({}, "CLOSE_EVO")>>
    BY PipeRoutine DEF law_worker_open
  <1>2. l = <<Label("CLOSE_EVO", c), Label("CLOSE_MESSAGES", b), Label("CLOSE_INCOMING", a)>>
    BY DEF law_worker_open
  <1>3. \A k : Gained(R, k) = Acquired(s, k - 1) /\ Undone(R, k) = Released(l, s[k].label)
    BY DEF Gained, Undone
  <1>4. All(R) = Acquired(s, Len(s))
    BY DEF All
  <1>5. law_worker_close(w) = (c \cup b) \cup a
    BY DEF law_worker_close
  <1> HIDE DEF a, b, c, l, s, R
  <1>6. /\ Len(s) = 5
        /\ s[1].gets = a /\ s[2].gets = b /\ s[3].gets = c /\ s[4].gets = {} /\ s[5].gets = {}
        /\ s[1].label = "none" /\ s[2].label = "CLOSE_INCOMING"
        /\ s[3].label = "CLOSE_MESSAGES" /\ s[4].label = "CLOSE_EVO" /\ s[5].label = "CLOSE_EVO"
    BY <1>1 DEF Step
  <1>7. /\ Released(l, "CLOSE_EVO") = (c \cup b) \cup a
        /\ Released(l, "CLOSE_MESSAGES") = b \cup a /\ Released(l, "CLOSE_INCOMING") = a
        /\ Released(l, "none") = {}
    <2>1. /\ Len(l) = 3 /\ l[1] = Label("CLOSE_EVO", c) /\ l[2] = Label("CLOSE_MESSAGES", b)
          /\ l[3] = Label("CLOSE_INCOMING", a)
      BY <1>2
    <2> QED BY <2>1, ThreeLabels DEF Label
  <1>8. /\ Acquired(s, 0) = {} /\ Acquired(s, 1) = a
        /\ Acquired(s, 2) = a \cup b /\ Acquired(s, 3) = (a \cup b) \cup c
        /\ Acquired(s, 4) = (a \cup b) \cup (c \cup {})
        /\ Acquired(s, 5) = ((a \cup b) \cup (c \cup {})) \cup {}
    BY <1>6, FiveSteps
  <1>9. ASSUME NEW k \in 1 .. 5 PROVE Undone(R, k) = Gained(R, k)
    <2>1. k = 1 \/ k = 2 \/ k = 3 \/ k = 4 \/ k = 5
      OBVIOUS
    <2>2. 1 - 1 = 0 /\ 2 - 1 = 1 /\ 3 - 1 = 2 /\ 4 - 1 = 3 /\ 5 - 1 = 4
      OBVIOUS
    <2> DEFINE X3 == a \cup b
               X4 == (a \cup b) \cup c
    <2>8. b \cup a = X3 /\ (c \cup b) \cup a = X4 /\ (a \cup b) \cup (c \cup {}) = X4
      OBVIOUS
    <2> HIDE DEF X3, X4
    <2>9. /\ Released(l, "CLOSE_EVO") = X4 /\ Released(l, "CLOSE_MESSAGES") = X3
          /\ Released(l, "CLOSE_INCOMING") = a /\ Released(l, "none") = {}
      BY <1>7, <2>8
    <2>10. /\ Acquired(s, 0) = {} /\ Acquired(s, 1) = a /\ Acquired(s, 2) = X3
           /\ Acquired(s, 3) = X4 /\ Acquired(s, 4) = X4
      BY <1>8, <2>8 DEF X3, X4
    <2>3. CASE k = 1
      BY <1>3, <1>6, <2>2, <2>9, <2>10, <2>3
    <2>4. CASE k = 2
      BY <1>3, <1>6, <2>2, <2>9, <2>10, <2>4
    <2>5. CASE k = 3
      BY <1>3, <1>6, <2>2, <2>9, <2>10, <2>5
    <2>6. CASE k = 4
      BY <1>3, <1>6, <2>2, <2>9, <2>10, <2>6
    <2>7. CASE k = 5
      BY <1>3, <1>6, <2>2, <2>9, <2>10, <2>7
    <2> QED BY <2>1, <2>3, <2>4, <2>5, <2>6, <2>7
  <1>10. All(R) = law_worker_close(w)
    BY <1>4, <1>5, <1>6, <1>8
  <1> QED BY <1>6, <1>9, <1>10 DEF R, s

-----------------------------------------------------------------------------
(* The calls of law_server_create and law_open *)

\* A function on 1 .. n as a sequence.
LEMMA AsSequence ==
  ASSUME NEW S, NEW n \in Nat, NEW f \in [1 .. n -> S]
  PROVE  f \in Seq(S) /\ Len(f) = n
  <1>1. f \in Seq(S)
    BY SeqDef
  <1>2. Len(f) = n
    BY <1>1, LenProperties
  <1> QED BY <1>1, <1>2

LEMMA CreateCall ==
  /\ Len(CreateCalls) = 5 + NTasks + NWorkers
  /\ CreateCalls[1] = Call(Plain({<<"server", 0>>}), "none")
  /\ CreateCalls[2] = Call(Plain({<<"threads", 0>>}), "FREE_SERVER")
  /\ CreateCalls[3] = Call(Plain({<<"workers", 0>>}), "FREE_PTHREADS")
  /\ CreateCalls[4] = Call(Plain({<<"events", 0>>}), "FREE_WORKER_PTRS")
  /\ CreateCalls[5] = Call(Plain({<<"pool", 0>>}), "FREE_EVO")
  /\ \A n \in 1 .. NTasks :
       CreateCalls[5 + n] = Call(law_task_create(n), "law_task_pool_destroy")
  /\ \A w \in Worker :
       CreateCalls[5 + NTasks + w] = Call(law_worker_create(w), "FREE_WORKERS")
  <1> DEFINE c1 == Call(Plain({<<"server", 0>>}), "none")
             c2 == Call(Plain({<<"threads", 0>>}), "FREE_SERVER")
             c3 == Call(Plain({<<"workers", 0>>}), "FREE_PTHREADS")
             c4 == Call(Plain({<<"events", 0>>}), "FREE_WORKER_PTRS")
             c5 == Call(Plain({<<"pool", 0>>}), "FREE_EVO")
             T(n) == Call(law_task_create(n), "law_task_pool_destroy")
             W(w) == Call(law_worker_create(w), "FREE_WORKERS")
             S == ({c1, c2, c3, c4, c5} \cup {T(n) : n \in 1 .. NTasks})
                    \cup {W(w) : w \in 1 .. NWorkers}
             b == <<c1, c2, c3, c4, c5>>
             f == [n \in 1 .. NTasks |-> T(n)]
             g == [w \in 1 .. NWorkers |-> W(w)]
  <1>1. NTasks \in Nat /\ NWorkers \in Nat /\ Worker = 1 .. NWorkers
    BY LifecycleAssumption DEF Worker
  <1>2. CreateCalls = b \o f \o g
    BY <1>1 DEF CreateCalls
  <1> HIDE DEF c1, c2, c3, c4, c5, T, W
  <1>3. b \in Seq(S) /\ Len(b) = 5 /\ b[1] = c1 /\ b[2] = c2 /\ b[3] = c3 /\ b[4] = c4 /\ b[5] = c5
    OBVIOUS
  <1>4. f \in [1 .. NTasks -> S] /\ g \in [1 .. NWorkers -> S]
    OBVIOUS
  <1>5. (\A n \in 1 .. NTasks : f[n] = T(n)) /\ (\A w \in 1 .. NWorkers : g[w] = W(w))
    OBVIOUS
  <1> HIDE DEF b, f, g, S
  <1>6. f \in Seq(S) /\ Len(f) = NTasks /\ g \in Seq(S) /\ Len(g) = NWorkers
    BY <1>1, <1>4, AsSequence
  <1>7. ASSUME NEW x \in Seq(S), NEW y \in Seq(S)
        PROVE  /\ x \o y \in Seq(S) /\ Len(x \o y) = Len(x) + Len(y)
               /\ \A i \in 1 .. Len(x) : (x \o y)[i] = x[i]
               /\ \A i \in 1 .. Len(y) : (x \o y)[Len(x) + i] = y[i]
    BY Join
  <1>8. /\ b \o f \in Seq(S) /\ Len(b \o f) = Len(b) + Len(f)
        /\ \A i \in 1 .. Len(b) : (b \o f)[i] = b[i]
        /\ \A i \in 1 .. Len(f) : (b \o f)[Len(b) + i] = f[i]
    <2>1. b \in Seq(S) /\ f \in Seq(S)
      BY <1>3, <1>6
    <2> QED BY <2>1, <1>7, Zenon
  <1> DEFINE p == b \o f
  <1>9. p \in Seq(S) /\ Len(p) = 5 + NTasks
    BY <1>3, <1>6, <1>8
  <1>10. \A i \in 1 .. 5 : p[i] = b[i]
    BY <1>3, <1>8
  <1>11. \A n \in 1 .. NTasks : p[5 + n] = f[n]
    BY <1>3, <1>6, <1>8
  <1> HIDE DEF p
  <1>12. /\ Len(p \o g) = Len(p) + Len(g)
         /\ \A i \in 1 .. Len(p) : (p \o g)[i] = p[i]
         /\ \A i \in 1 .. Len(g) : (p \o g)[Len(p) + i] = g[i]
    <2>1. p \in Seq(S) /\ g \in Seq(S)
      BY <1>6, <1>9
    <2> QED BY <2>1, <1>7, Zenon
  <1>13. CreateCalls = p \o g
    BY <1>2 DEF p
  <1>14. Len(CreateCalls) = 5 + NTasks + NWorkers
    BY <1>1, <1>6, <1>9, <1>12, <1>13
  <1>15. \A i \in 1 .. 5 : CreateCalls[i] = b[i]
    <2> SUFFICES ASSUME NEW i \in 1 .. 5 PROVE CreateCalls[i] = b[i]
      OBVIOUS
    <2>1. i \in 1 .. Len(p)
      BY <1>1, <1>9
    <2> QED BY <1>10, <1>12, <1>13, <2>1
  <1>16. \A n \in 1 .. NTasks : CreateCalls[5 + n] = T(n)
    <2> SUFFICES ASSUME NEW n \in 1 .. NTasks PROVE CreateCalls[5 + n] = T(n)
      OBVIOUS
    <2>1. 5 + n \in 1 .. Len(p)
      BY <1>1, <1>9
    <2>2. CreateCalls[5 + n] = p[5 + n]
      BY <1>12, <1>13, <2>1
    <2> QED BY <1>5, <1>11, <2>2
  <1>17. \A w \in 1 .. NWorkers : CreateCalls[5 + NTasks + w] = W(w)
    <2> SUFFICES ASSUME NEW w \in 1 .. NWorkers PROVE CreateCalls[5 + NTasks + w] = W(w)
      OBVIOUS
    <2>1. w \in 1 .. Len(g)
      BY <1>6
    <2>2. (p \o g)[Len(p) + w] = g[w]
      BY <1>12, <2>1
    <2> QED BY <1>5, <1>9, <1>13, <2>2
  <1>18. /\ CreateCalls[1] = c1 /\ CreateCalls[2] = c2 /\ CreateCalls[3] = c3
         /\ CreateCalls[4] = c4 /\ CreateCalls[5] = c5
    BY <1>3, <1>15
  <1> QED BY <1>1, <1>14, <1>16, <1>17, <1>18 DEF c1, c2, c3, c4, c5, T, W

LEMMA OpenCall ==
  /\ Len(OpenCalls) = 5 + NWorkers
  /\ OpenCalls[1] = Call(law_create_socket(sockets + 1), "none")
  /\ OpenCalls[2] = Call(Plain({}), "CLOSE_SOCKET")
  /\ OpenCalls[3] = Call(Plain({}), "CLOSE_SOCKET")
  /\ OpenCalls[4] = Call(Plain({<<"epoll", 0>>}), "CLOSE_SOCKET")
  /\ OpenCalls[5] = Call(Plain({}), "CLOSE_EVO")
  /\ \A w \in Worker : OpenCalls[5 + w] = Call(law_worker_open(w), "CLOSE_WORKERS")
  <1> DEFINE c1 == Call(law_create_socket(sockets + 1), "none")
             c2 == Call(Plain({}), "CLOSE_SOCKET")
             c4 == Call(Plain({<<"epoll", 0>>}), "CLOSE_SOCKET")
             c5 == Call(Plain({}), "CLOSE_EVO")
             W(w) == Call(law_worker_open(w), "CLOSE_WORKERS")
             S == {c1, c2, c4, c5} \cup {W(w) : w \in 1 .. NWorkers}
             b == <<c1, c2, c2, c4, c5>>
             g == [w \in 1 .. NWorkers |-> W(w)]
  <1>1. NWorkers \in Nat /\ Worker = 1 .. NWorkers
    BY LifecycleAssumption DEF Worker
  <1>2. OpenCalls = b \o g
    BY <1>1 DEF OpenCalls
  <1> HIDE DEF c1, c2, c4, c5, W
  <1>3. b \in Seq(S) /\ Len(b) = 5 /\ b[1] = c1 /\ b[2] = c2 /\ b[3] = c2 /\ b[4] = c4 /\ b[5] = c5
    OBVIOUS
  <1>4. g \in [1 .. NWorkers -> S] /\ \A w \in 1 .. NWorkers : g[w] = W(w)
    OBVIOUS
  <1> HIDE DEF b, g, S
  <1>5. g \in Seq(S) /\ Len(g) = NWorkers
    BY <1>1, <1>4, AsSequence
  <1>6. /\ Len(b \o g) = Len(b) + Len(g)
        /\ \A i \in 1 .. Len(b) : (b \o g)[i] = b[i]
        /\ \A i \in 1 .. Len(g) : (b \o g)[Len(b) + i] = g[i]
    <2>1. b \in Seq(S) /\ g \in Seq(S)
      BY <1>3, <1>5
    <2>2. ASSUME NEW x \in Seq(S), NEW y \in Seq(S)
          PROVE  /\ Len(x \o y) = Len(x) + Len(y)
                 /\ \A i \in 1 .. Len(x) : (x \o y)[i] = x[i]
                 /\ \A i \in 1 .. Len(y) : (x \o y)[Len(x) + i] = y[i]
      BY Join
    <2> QED BY <2>1, <2>2, Zenon
  <1>7. Len(OpenCalls) = 5 + NWorkers
    BY <1>2, <1>3, <1>5, <1>6
  <1>8. /\ OpenCalls[1] = c1 /\ OpenCalls[2] = c2 /\ OpenCalls[3] = c2
        /\ OpenCalls[4] = c4 /\ OpenCalls[5] = c5
    BY <1>2, <1>3, <1>6
  <1>9. \A w \in 1 .. NWorkers : OpenCalls[5 + w] = W(w)
    BY <1>2, <1>3, <1>4, <1>5, <1>6
  <1> QED BY <1>1, <1>7, <1>8, <1>9 DEF c1, c2, c4, c5, W

-----------------------------------------------------------------------------
(* What law_server_create has acquired when one of its calls fails *)

LEMMA Sizes ==
  /\ NTasks \in Nat \ {0} /\ NWorkers \in Nat \ {0} /\ Worker = 1 .. NWorkers
  /\ MaxSockets \in Nat
  BY LifecycleAssumption DEF Worker

LEMMA BaseIs ==
  /\ MadeBase(1) = {} /\ MadeBase(2) = {<<"server", 0>>}
  /\ MadeBase(3) = {<<"threads", 0>>, <<"server", 0>>}
  /\ MadeBase(4) = {<<"workers", 0>>, <<"threads", 0>>, <<"server", 0>>}
  /\ MadeBase(5) = {<<"events", 0>>, <<"workers", 0>>, <<"threads", 0>>, <<"server", 0>>}
  /\ \A a \in Nat : a >= 6 => MadeBase(a) =
       {<<"pool", 0>>, <<"events", 0>>, <<"workers", 0>>, <<"threads", 0>>, <<"server", 0>>}
  <1> DEFINE b(i) == <<Base[i], 0>>
             J(a) == {j \in 1 .. 5 : j < a}
  <1>1. /\ b(1) = <<"server", 0>> /\ b(2) = <<"threads", 0>> /\ b(3) = <<"workers", 0>>
        /\ b(4) = <<"events", 0>> /\ b(5) = <<"pool", 0>>
    BY DEF Base
  <1>2. \A a : MadeBase(a) = {b(i) : i \in J(a)}
    BY DEF MadeBase
  <1>3. /\ J(1) = {} /\ J(2) = {1} /\ J(3) = {1, 2} /\ J(4) = {1, 2, 3}
        /\ J(5) = {1, 2, 3, 4}
        /\ \A a \in Nat : a >= 6 => J(a) = {1, 2, 3, 4, 5}
    <2>1. \A a \in Nat : \A j : j \in J(a) <=> j < a /\ (j = 1 \/ j = 2 \/ j = 3 \/ j = 4 \/ j = 5)
      OBVIOUS
    <2> QED BY <2>1
  <1> HIDE DEF b, J
  <1>4. /\ {b(i) : i \in {}} = {} /\ {b(i) : i \in {1}} = {b(1)}
        /\ {b(i) : i \in {1, 2}} = {b(2), b(1)}
        /\ {b(i) : i \in {1, 2, 3}} = {b(3), b(2), b(1)}
        /\ {b(i) : i \in {1, 2, 3, 4}} = {b(4), b(3), b(2), b(1)}
        /\ {b(i) : i \in {1, 2, 3, 4, 5}} = {b(5), b(4), b(3), b(2), b(1)}
    OBVIOUS
  <1> QED BY <1>1, <1>2, <1>3, <1>4

LEMMA BaseFull ==
  ASSUME NEW a \in Nat, a >= 6
  PROVE  MadeBase(a) =
    {<<"pool", 0>>, <<"events", 0>>, <<"workers", 0>>, <<"threads", 0>>, <<"server", 0>>}
  BY BaseIs

LEMMA TaskCall ==
  ASSUME NEW n \in 1 .. NTasks, NEW a, a = 5 + n
  PROVE  /\ CreateCalls[a].routine = law_task_create(n)
         /\ CreateCalls[a].label = "law_task_pool_destroy"
  <1>1. CreateCalls[5 + n] = Call(law_task_create(n), "law_task_pool_destroy")
    BY CreateCall, Zenon
  <1> QED BY <1>1 DEF Call

LEMMA WorkerCall ==
  ASSUME NEW w \in Worker, NEW a, a = 5 + NTasks + w
  PROVE  /\ CreateCalls[a].routine = law_worker_create(w)
         /\ CreateCalls[a].label = "FREE_WORKERS"
  <1>1. CreateCalls[5 + NTasks + w] = Call(law_worker_create(w), "FREE_WORKERS")
    BY CreateCall, Zenon
  <1> QED BY <1>1 DEF Call

LEMMA NoneYet ==
  /\ \A a \in Nat : a <= 6 => MadeTasks(a) = {}
  /\ \A a \in Nat : a <= 6 + NTasks => MadeWorkers(a) = {}
  <1>1. \A a \in Nat : a <= 6 => {k \in 1 .. NTasks : 5 + k < a} = {}
    BY Sizes
  <1>2. \A a \in Nat : a <= 6 + NTasks => {k \in Worker : 5 + NTasks + k < a} = {}
    BY Sizes
  <1> QED BY <1>1, <1>2 DEF MadeTasks, MadeWorkers

\* A call of law_server_create is one of the first five, one for a task or
\* one for a worker.
LEMMA WhichCall ==
  ASSUME NEW a \in Nat \ {0}, a <= 5 + NTasks + NWorkers
  PROVE  \/ a \in {1, 2, 3, 4, 5}
         \/ \E n \in 1 .. NTasks : a = 5 + n
         \/ \E w \in Worker : a = 5 + NTasks + w
  <1>1. CASE a <= 5
    BY <1>1
  <1>2. CASE a > 5 /\ a <= 5 + NTasks
    <2>1. a - 5 \in 1 .. NTasks /\ a = 5 + (a - 5)
      BY <1>2, Sizes
    <2> QED BY <2>1
  <1>3. CASE a > 5 + NTasks
    <2>1. a - (5 + NTasks) \in 1 .. NWorkers /\ a = 5 + NTasks + (a - (5 + NTasks))
      BY <1>3, Sizes
    <2> QED BY <2>1, Sizes
  <1> QED BY <1>1, <1>2, <1>3, Sizes

LEMMA MadeGrows ==
  ASSUME NEW a \in Nat \ {0}, a <= 5 + NTasks + NWorkers
  PROVE  Made(a + 1) = Made(a) \cup All(CreateCalls[a].routine)
  <1>1. CASE a \in {1, 2, 3, 4, 5}
    <2>1. /\ MadeTasks(a) = {} /\ MadeTasks(a + 1) = {}
          /\ MadeWorkers(a) = {} /\ MadeWorkers(a + 1) = {}
      BY <1>1, NoneYet, Sizes
    <2>2. Made(a) = MadeBase(a) /\ Made(a + 1) = MadeBase(a + 1)
      BY <2>1 DEF Made
    <2>3. MadeBase(6) = {<<"pool", 0>>, <<"events", 0>>, <<"workers", 0>>, <<"threads", 0>>, <<"server", 0>>}
      BY BaseIs
    <2>4. /\ All(CreateCalls[1].routine) = {<<"server", 0>>}
          /\ All(CreateCalls[2].routine) = {<<"threads", 0>>}
          /\ All(CreateCalls[3].routine) = {<<"workers", 0>>}
          /\ All(CreateCalls[4].routine) = {<<"events", 0>>}
          /\ All(CreateCalls[5].routine) = {<<"pool", 0>>}
      BY CreateCall, PlainRoutine DEF Call
    <2>5. 1 + 1 = 2 /\ 2 + 1 = 3 /\ 3 + 1 = 4 /\ 4 + 1 = 5 /\ 5 + 1 = 6
      OBVIOUS
    <2>6. CASE a = 1
      BY <2>2, <2>4, <2>5, <2>6, BaseIs
    <2>7. CASE a = 2
      BY <2>2, <2>4, <2>5, <2>7, BaseIs
    <2>8. CASE a = 3
      BY <2>2, <2>4, <2>5, <2>8, BaseIs
    <2>9. CASE a = 4
      BY <2>2, <2>4, <2>5, <2>9, BaseIs
    <2>10. CASE a = 5
      BY <2>2, <2>3, <2>4, <2>5, <2>10, BaseIs
    <2> QED BY <1>1, <2>6, <2>7, <2>8, <2>9, <2>10
  <1>2. ASSUME NEW n \in 1 .. NTasks, a = 5 + n
        PROVE  Made(a + 1) = Made(a) \cup All(CreateCalls[a].routine)
    <2>1. MadeWorkers(a) = {} /\ MadeWorkers(a + 1) = {}
      BY <1>2, NoneYet, Sizes
    <2>2. MadeBase(a) = MadeBase(a + 1)
      <3>1. a \in Nat /\ a + 1 \in Nat /\ a >= 6 /\ a + 1 >= 6
        BY <1>2, Sizes
      <3> QED BY <3>1, BaseFull
    <2>3. All(CreateCalls[a].routine) = law_task_destroy(n)
      BY <1>2, TaskCall, TaskRoutine
    <2>4. {k \in 1 .. NTasks : 5 + k < a + 1} = {k \in 1 .. NTasks : 5 + k < a} \cup {n}
      BY <1>2, Sizes
    <2>5. MadeTasks(a + 1) = MadeTasks(a) \cup law_task_destroy(n)
      BY <2>4 DEF MadeTasks
    <2> QED BY <2>1, <2>2, <2>3, <2>5 DEF Made
  <1>3. ASSUME NEW w \in Worker, a = 5 + NTasks + w
        PROVE  Made(a + 1) = Made(a) \cup All(CreateCalls[a].routine)
    <2>1. MadeBase(a) = MadeBase(a + 1)
      <3>1. a \in Nat /\ a + 1 \in Nat /\ a >= 6 /\ a + 1 >= 6
        BY <1>3, Sizes
      <3> QED BY <3>1, BaseFull
    <2>2. {k \in 1 .. NTasks : 5 + k < a + 1} = {k \in 1 .. NTasks : 5 + k < a}
      BY <1>3, Sizes
    <2>3. MadeTasks(a + 1) = MadeTasks(a)
      BY <2>2 DEF MadeTasks
    <2>4. All(CreateCalls[a].routine) = law_worker_destroy(w)
      BY <1>3, WorkerCall, WorkerRoutine
    <2>5. {k \in Worker : 5 + NTasks + k < a + 1} = {k \in Worker : 5 + NTasks + k < a} \cup {w}
      BY <1>3, Sizes
    <2>6. MadeWorkers(a + 1) = MadeWorkers(a) \cup law_worker_destroy(w)
      BY <2>5 DEF MadeWorkers
    <2> QED BY <2>1, <2>3, <2>4, <2>6 DEF Made
  <1> QED BY <1>1, <1>2, <1>3, WhichCall

\* What the labels of law_server_create release.
LEMMA SixLabels ==
  ASSUME NEW T, NEW W
  PROVE  /\ Released(CreateLabels(T, W), "none") = {}
         /\ Released(CreateLabels(T, W), "FREE_SERVER") = {<<"server", 0>>}
         /\ Released(CreateLabels(T, W), "FREE_PTHREADS") =
             {<<"threads", 0>>} \cup Released(CreateLabels(T, W), "FREE_SERVER")
         /\ Released(CreateLabels(T, W), "FREE_WORKER_PTRS") =
             {<<"workers", 0>>} \cup Released(CreateLabels(T, W), "FREE_PTHREADS")
         /\ Released(CreateLabels(T, W), "FREE_EVO") =
             {<<"events", 0>>} \cup Released(CreateLabels(T, W), "FREE_WORKER_PTRS")
         /\ Released(CreateLabels(T, W), "law_task_pool_destroy") =
             law_task_pool_destroy(T) \cup Released(CreateLabels(T, W), "FREE_EVO")
         /\ Released(CreateLabels(T, W), "FREE_WORKERS") =
             (UNION {law_worker_destroy(w) : w \in W})
               \cup Released(CreateLabels(T, W), "law_task_pool_destroy")
  <1> DEFINE l == CreateLabels(T, W)
             f1 == UNION {law_worker_destroy(w) : w \in W}
             f2 == law_task_pool_destroy(T)
             f3 == {<<"events", 0>>}
             f4 == {<<"workers", 0>>}
             f5 == {<<"threads", 0>>}
             f6 == {<<"server", 0>>}
  <1>1. l = <<Label("FREE_WORKERS", f1), Label("law_task_pool_destroy", f2), Label("FREE_EVO", f3),
              Label("FREE_WORKER_PTRS", f4), Label("FREE_PTHREADS", f5), Label("FREE_SERVER", f6)>>
    BY DEF CreateLabels
  <1> HIDE DEF l, f1, f2, f3, f4, f5, f6
  <1>2. /\ Len(l) = 6 /\ l[1].label = "FREE_WORKERS" /\ l[2].label = "law_task_pool_destroy"
        /\ l[3].label = "FREE_EVO" /\ l[4].label = "FREE_WORKER_PTRS"
        /\ l[5].label = "FREE_PTHREADS" /\ l[6].label = "FREE_SERVER"
    BY <1>1 DEF Label
  <1>3. /\ l[1].frees = f1 /\ l[2].frees = f2 /\ l[3].frees = f3 /\ l[4].frees = f4
        /\ l[5].frees = f5 /\ l[6].frees = f6
    BY <1>1 DEF Label
  <1>4. /\ Len(l) \in Nat /\ \A i \in 1 .. 6 : i = 1 \/ i = 2 \/ i = 3 \/ i = 4 \/ i = 5 \/ i = 6
    BY <1>2
  <1>5. \A h \in 1 .. 6 : \A x : x \in Released(l, l[h].label) <=> \E j \in h .. 6 : x \in l[j].frees
    <2> SUFFICES ASSUME NEW h \in 1 .. 6
                 PROVE  \A x : x \in Released(l, l[h].label) <=> \E j \in h .. 6 : x \in l[j].frees
      OBVIOUS
    <2>1. \A i \in 1 .. h - 1 : l[i].label # l[h].label
      <3> SUFFICES ASSUME NEW i \in 1 .. h - 1 PROVE l[i].label # l[h].label
        OBVIOUS
      <3>1. i \in 1 .. 6 /\ i < h
        OBVIOUS
      <3>2. (i = 1 \/ i = 2 \/ i = 3 \/ i = 4 \/ i = 5 \/ i = 6) /\
            (h = 1 \/ h = 2 \/ h = 3 \/ h = 4 \/ h = 5 \/ h = 6)
        BY <3>1
      <3> QED BY <1>2, <3>1, <3>2
    <2>2. h \in Nat \ {0} /\ h <= Len(l)
      BY <1>2
    <2> QED BY <1>2, <1>4, <2>1, <2>2, ReleasedFrom
  <1>6. /\ \A j \in 6 .. 6 : j = 6
        /\ 6 \in 6 .. 6
    OBVIOUS
  <1>7. /\ \A h \in 1 .. 5 : h .. 6 = {h} \cup ((h + 1) .. 6)
        /\ 1 + 1 = 2 /\ 2 + 1 = 3 /\ 3 + 1 = 4 /\ 4 + 1 = 5 /\ 5 + 1 = 6
        /\ 6 .. 6 = {6}
    OBVIOUS
  <1>8. \A h \in 1 .. 5 : Released(l, l[h].label) = l[h].frees \cup Released(l, l[h + 1].label)
    <2> SUFFICES ASSUME NEW h \in 1 .. 5
                 PROVE  Released(l, l[h].label) = l[h].frees \cup Released(l, l[h + 1].label)
      OBVIOUS
    <2>1. h \in 1 .. 6 /\ h + 1 \in 1 .. 6
      OBVIOUS
    <2>2. h .. 6 = {h} \cup ((h + 1) .. 6)
      OBVIOUS
    <2> QED BY <1>5, <2>1, <2>2
  <1>9. Released(l, "FREE_SERVER") = f6
    <2>1. 6 \in 1 .. 6
      OBVIOUS
    <2>2. \A x : x \in Released(l, l[6].label) <=> \E j \in 6 .. 6 : x \in l[j].frees
      BY <1>5, <2>1, Zenon
    <2>3. Released(l, l[6].label) = l[6].frees
      BY <1>6, <2>2
    <2> QED BY <1>2, <1>3, <2>3
  <1>10. /\ 1 \in 1 .. 5 /\ 2 \in 1 .. 5 /\ 3 \in 1 .. 5 /\ 4 \in 1 .. 5 /\ 5 \in 1 .. 5
    OBVIOUS
  <1>11. Released(l, "FREE_PTHREADS") = f5 \cup Released(l, "FREE_SERVER")
    BY <1>2, <1>3, <1>7, <1>8, <1>10
  <1>12. Released(l, "FREE_WORKER_PTRS") = f4 \cup Released(l, "FREE_PTHREADS")
    BY <1>2, <1>3, <1>7, <1>8, <1>10
  <1>13. Released(l, "FREE_EVO") = f3 \cup Released(l, "FREE_WORKER_PTRS")
    BY <1>2, <1>3, <1>7, <1>8, <1>10
  <1>14. Released(l, "law_task_pool_destroy") = f2 \cup Released(l, "FREE_EVO")
    BY <1>2, <1>3, <1>7, <1>8, <1>10
  <1>15. Released(l, "FREE_WORKERS") = f1 \cup Released(l, "law_task_pool_destroy")
    BY <1>2, <1>3, <1>7, <1>8, <1>10
  <1>16. Released(l, "none") = {}
    <2>1. \A i \in 1 .. Len(l) : l[i].label # "none"
      BY <1>2, <1>4
    <2> QED BY <1>4, <2>1, ReleasedNone
  <1>17. l = CreateLabels(T, W)
    BY DEF l
  <1>18. Released(CreateLabels(T, W), "none") = {}
    BY <1>16, <1>17
  <1>19. Released(CreateLabels(T, W), "FREE_SERVER") = {<<"server", 0>>}
    BY <1>9, <1>17 DEF f6
  <1>20. Released(CreateLabels(T, W), "FREE_PTHREADS") =
           {<<"threads", 0>>} \cup Released(CreateLabels(T, W), "FREE_SERVER")
    BY <1>11, <1>17 DEF f5
  <1>21. Released(CreateLabels(T, W), "FREE_WORKER_PTRS") =
           {<<"workers", 0>>} \cup Released(CreateLabels(T, W), "FREE_PTHREADS")
    BY <1>12, <1>17 DEF f4
  <1>22. Released(CreateLabels(T, W), "FREE_EVO") =
           {<<"events", 0>>} \cup Released(CreateLabels(T, W), "FREE_WORKER_PTRS")
    BY <1>13, <1>17 DEF f3
  <1>23. Released(CreateLabels(T, W), "law_task_pool_destroy") =
           law_task_pool_destroy(T) \cup Released(CreateLabels(T, W), "FREE_EVO")
    BY <1>14, <1>17 DEF f2
  <1>24. Released(CreateLabels(T, W), "FREE_WORKERS") =
           (UNION {law_worker_destroy(w) : w \in W})
             \cup Released(CreateLabels(T, W), "law_task_pool_destroy")
    BY <1>15, <1>17 DEF f1
  <1> QED BY <1>18, <1>19, <1>20, <1>21, <1>22, <1>23, <1>24

\* The labels of law_server_create release what the calls before the one that
\* fails have acquired.
LEMMA MadeUndone ==
  ASSUME at \in Nat \ {0}, at <= 5 + NTasks + NWorkers
  PROVE  Released(CreateLabels(Done(1 .. NTasks, 5), Done(Worker, 5 + NTasks)),
                  CreateCalls[at].label) = Made(at)
  <1> DEFINE T == Done(1 .. NTasks, 5)
             W == Done(Worker, 5 + NTasks)
             l == CreateLabels(T, W)
             tasks == {<<"pool", 0>>} \cup MadeTasks(at)
             workers == UNION {law_worker_destroy(w) : w \in W}
  <1>1. /\ MadeTasks(at) = UNION {law_task_destroy(n) : n \in T}
        /\ MadeWorkers(at) = workers
    BY DEF MadeTasks, MadeWorkers, Done
  <1>2. law_task_pool_destroy(T) = tasks
    BY <1>1 DEF law_task_pool_destroy
  <1> HIDE DEF T, W
  <1> DEFINE s2 == {<<"server", 0>>}
             s3 == {<<"threads", 0>>} \cup s2
             s4 == {<<"workers", 0>>} \cup s3
             s5 == {<<"events", 0>>} \cup s4
  <1>3. /\ Released(l, "none") = {} /\ Released(l, "FREE_SERVER") = s2
        /\ Released(l, "FREE_PTHREADS") = s3 /\ Released(l, "FREE_WORKER_PTRS") = s4
        /\ Released(l, "FREE_EVO") = s5
        /\ Released(l, "law_task_pool_destroy") = tasks \cup s5
        /\ Released(l, "FREE_WORKERS") = workers \cup (tasks \cup s5)
    <2>1. /\ Released(l, "none") = {}
          /\ Released(l, "FREE_SERVER") = {<<"server", 0>>}
          /\ Released(l, "FREE_PTHREADS") =
               {<<"threads", 0>>} \cup Released(l, "FREE_SERVER")
          /\ Released(l, "FREE_WORKER_PTRS") =
               {<<"workers", 0>>} \cup Released(l, "FREE_PTHREADS")
          /\ Released(l, "FREE_EVO") =
               {<<"events", 0>>} \cup Released(l, "FREE_WORKER_PTRS")
          /\ Released(l, "law_task_pool_destroy") =
               law_task_pool_destroy(T) \cup Released(l, "FREE_EVO")
          /\ Released(l, "FREE_WORKERS") =
               workers \cup Released(l, "law_task_pool_destroy")
      BY SixLabels DEF workers
    <2> HIDE DEF l, tasks
    <2> QED BY <1>2, <2>1
  <1>4. /\ MadeBase(2) = s2 /\ MadeBase(3) = s3 /\ MadeBase(4) = s4 /\ MadeBase(5) = s5
        /\ \A a \in Nat : a >= 6 => MadeBase(a) = {<<"pool", 0>>} \cup s5
    <2>1. s2 = {<<"server", 0>>} /\ s3 = {<<"threads", 0>>, <<"server", 0>>}
          /\ s4 = {<<"workers", 0>>, <<"threads", 0>>, <<"server", 0>>}
          /\ s5 = {<<"events", 0>>, <<"workers", 0>>, <<"threads", 0>>, <<"server", 0>>}
      OBVIOUS
    <2>2. {<<"pool", 0>>} \cup s5 =
            {<<"pool", 0>>, <<"events", 0>>, <<"workers", 0>>, <<"threads", 0>>, <<"server", 0>>}
      BY <2>1
    <2> HIDE DEF s2, s3, s4, s5
    <2> QED BY <2>1, <2>2, BaseIs
  <1> HIDE DEF s2, s3, s4, s5, l, workers
  <1>5. ASSUME at \in {1, 2, 3, 4, 5}
        PROVE  Released(l, CreateCalls[at].label) = Made(at)
    <2>1. MadeTasks(at) = {} /\ MadeWorkers(at) = {}
      BY <1>5, NoneYet, Sizes
    <2>2. Made(at) = MadeBase(at)
      BY <2>1 DEF Made
    <2>3. /\ CreateCalls[1].label = "none" /\ CreateCalls[2].label = "FREE_SERVER"
          /\ CreateCalls[3].label = "FREE_PTHREADS" /\ CreateCalls[4].label = "FREE_WORKER_PTRS"
          /\ CreateCalls[5].label = "FREE_EVO"
      BY CreateCall DEF Call
    <2>4. MadeBase(1) = {}
      BY BaseIs
    <2>5. Released(l, CreateCalls[at].label) = MadeBase(at)
      BY <1>3, <1>4, <1>5, <2>3, <2>4
    <2> QED BY <2>2, <2>5
  <1>6. ASSUME NEW n \in 1 .. NTasks, at = 5 + n PROVE Released(l, CreateCalls[at].label) = Made(at)
    <2>1. MadeWorkers(at) = {} /\ MadeBase(at) = {<<"pool", 0>>} \cup s5
      BY <1>4, <1>6, NoneYet, Sizes
    <2>2. CreateCalls[at].label = "law_task_pool_destroy"
      BY <1>6, TaskCall
    <2>3. Released(l, CreateCalls[at].label) = tasks \cup s5
      BY <1>2, <1>3, <2>2
    <2> QED BY <2>1, <2>3 DEF Made
  <1>7. ASSUME NEW w \in Worker, at = 5 + NTasks + w
        PROVE  Released(l, CreateCalls[at].label) = Made(at)
    <2>1. MadeBase(at) = {<<"pool", 0>>} \cup s5
      BY <1>4, <1>7, Sizes
    <2>2. CreateCalls[at].label = "FREE_WORKERS"
      BY <1>7, WorkerCall
    <2>3. Released(l, CreateCalls[at].label) = MadeWorkers(at) \cup (tasks \cup s5)
      BY <1>1, <1>2, <1>3, <2>2
    <2> QED BY <2>1, <2>3 DEF Made
  <1>8. \/ at \in {1, 2, 3, 4, 5}
        \/ \E n \in 1 .. NTasks : at = 5 + n
        \/ \E w \in Worker : at = 5 + NTasks + w
    BY WhichCall
  <1>9. Released(l, CreateCalls[at].label) = Made(at)
    BY <1>5, <1>6, <1>7, <1>8
  <1> QED BY <1>9 DEF l, T, W

-----------------------------------------------------------------------------
(* The calls of law_open *)

LEMMA WhichOpen ==
  ASSUME NEW a \in Nat \ {0}, a <= 5 + NWorkers
  PROVE  a \in {1, 2, 3, 4, 5} \/ \E w \in Worker : a = 5 + w
  <1>1. CASE a <= 5
    BY <1>1
  <1>2. CASE a > 5
    <2>1. a - 5 \in 1 .. NWorkers /\ a = 5 + (a - 5)
      BY <1>2, Sizes
    <2> QED BY <2>1, Sizes
  <1> QED BY <1>1, <1>2

LEMMA WorkerOpenCall ==
  ASSUME NEW w \in Worker, NEW a, a = 5 + w
  PROVE  /\ OpenCalls[a].routine = law_worker_open(w)
         /\ OpenCalls[a].label = "CLOSE_WORKERS"
  <1>1. OpenCalls[5 + w] = Call(law_worker_open(w), "CLOSE_WORKERS")
    BY OpenCall, Zenon
  <1> QED BY <1>1 DEF Call

\* What law_open has before it calls law_worker_open.
LEMMA OpenedBase ==
  ASSUME NEW s, NEW a \in Nat, a <= 6
  PROVE  Opened(s, a) = (IF a > 1 THEN {<<"socket", s>>} ELSE {})
                        \cup (IF a > 4 THEN {<<"epoll", 0>>} ELSE {})
  <1>1. {k \in Worker : 5 + k < a} = {}
    BY Sizes
  <1> QED BY <1>1 DEF Opened

LEMMA OpenedGrows ==
  ASSUME NEW s, NEW a \in Nat \ {0}, 1 < a, a <= 5 + NWorkers
  PROVE  Opened(s, a + 1) = Opened(s, a) \cup All(OpenCalls[a].routine)
  <1>1. CASE a \in {2, 3, 4, 5}
    <2>1. /\ Opened(s, a) = (IF a > 1 THEN {<<"socket", s>>} ELSE {})
                            \cup (IF a > 4 THEN {<<"epoll", 0>>} ELSE {})
          /\ Opened(s, a + 1) = (IF a + 1 > 1 THEN {<<"socket", s>>} ELSE {})
                                \cup (IF a + 1 > 4 THEN {<<"epoll", 0>>} ELSE {})
      <3>1. a \in Nat /\ a <= 6 /\ a + 1 \in Nat /\ a + 1 <= 6
        BY <1>1
      <3> QED BY <3>1, OpenedBase
    <2>2. /\ All(OpenCalls[2].routine) = {} /\ All(OpenCalls[3].routine) = {}
          /\ All(OpenCalls[4].routine) = {<<"epoll", 0>>}
          /\ All(OpenCalls[5].routine) = {}
      BY OpenCall, PlainRoutine DEF Call
    <2>3. CASE a = 4
      BY <2>1, <2>2, <2>3
    <2>4. CASE a # 4
      <3>1. All(OpenCalls[a].routine) = {}
        BY <1>1, <2>2, <2>4
      <3>2. (a + 1 > 4 <=> a > 4) /\ a + 1 > 1 /\ a > 1
        BY <1>1, <2>4
      <3> QED BY <2>1, <3>1, <3>2
    <2> QED BY <2>3, <2>4
  <1>2. ASSUME NEW w \in Worker, a = 5 + w
        PROVE  Opened(s, a + 1) = Opened(s, a) \cup All(OpenCalls[a].routine)
    <2>1. All(OpenCalls[a].routine) = law_worker_close(w)
      BY <1>2, WorkerOpenCall, WorkerOpenRoutine
    <2>2. {k \in Worker : 5 + k < a + 1} = {k \in Worker : 5 + k < a} \cup {w}
      BY <1>2, Sizes
    <2>3. a > 4 /\ a + 1 > 4 /\ a + 1 > 1
      BY <1>2, Sizes
    <2>4. (UNION {law_worker_close(k) : k \in {k \in Worker : 5 + k < a + 1}})
            = (UNION {law_worker_close(k) : k \in {k \in Worker : 5 + k < a}})
                \cup law_worker_close(w)
      BY <2>2
    <2> QED BY <2>1, <2>3, <2>4 DEF Opened
  <1> QED BY <1>1, <1>2, WhichOpen

LEMMA OpenReleased ==
  ASSUME NEW a, NEW b, NEW c
  PROVE  LET l == <<Label("CLOSE_WORKERS", c), Label("CLOSE_EVO", b), Label("CLOSE_SOCKET", a)>>
         IN  /\ Released(l, "CLOSE_WORKERS") = (c \cup b) \cup a
             /\ Released(l, "CLOSE_EVO") = b \cup a /\ Released(l, "CLOSE_SOCKET") = a
             /\ Released(l, "none") = {}
  <1> DEFINE l == <<Label("CLOSE_WORKERS", c), Label("CLOSE_EVO", b), Label("CLOSE_SOCKET", a)>>
  <1>1. /\ Len(l) = 3 /\ l[1] = Label("CLOSE_WORKERS", c) /\ l[2] = Label("CLOSE_EVO", b)
        /\ l[3] = Label("CLOSE_SOCKET", a)
    OBVIOUS
  <1> HIDE DEF l
  <1>2. /\ Released(l, "CLOSE_WORKERS") = (c \cup b) \cup a
        /\ Released(l, "CLOSE_EVO") = b \cup a /\ Released(l, "CLOSE_SOCKET") = a
        /\ Released(l, "none") = {}
    <2>1. /\ l[1].label = "CLOSE_WORKERS" /\ l[2].label = "CLOSE_EVO"
          /\ l[3].label = "CLOSE_SOCKET"
          /\ l[1].frees = c /\ l[2].frees = b /\ l[3].frees = a
      BY <1>1 DEF Label
    <2>2. "none" # "CLOSE_WORKERS" /\ "none" # "CLOSE_EVO" /\ "none" # "CLOSE_SOCKET"
      OBVIOUS
    <2> QED BY <1>1, <2>1, <2>2, ThreeLabels
  <1> QED BY <1>2 DEF l

\* The labels of law_open release what the calls before the one that fails
\* have acquired.
LEMMA OpenUndone ==
  ASSUME at \in Nat \ {0}, at <= 5 + NWorkers
  PROVE  Released(OpenLabels(Done(Worker, 5)), OpenCalls[at].label) = Opened(sockets, at)
  <1> DEFINE W == Done(Worker, 5)
             l == OpenLabels(W)
             workers == UNION {law_worker_close(w) : w \in W}
  <1>1. workers = UNION {law_worker_close(w) : w \in {k \in Worker : 5 + k < at}}
    BY DEF Done
  <1>2. l = <<Label("CLOSE_WORKERS", workers), Label("CLOSE_EVO", {<<"epoll", 0>>}),
              Label("CLOSE_SOCKET", {<<"socket", sockets>>})>>
    BY DEF OpenLabels
  <1> HIDE DEF W, l, workers
  <1>3. /\ Released(l, "CLOSE_WORKERS") = (workers \cup {<<"epoll", 0>>}) \cup {<<"socket", sockets>>}
        /\ Released(l, "CLOSE_EVO") = {<<"epoll", 0>>} \cup {<<"socket", sockets>>}
        /\ Released(l, "CLOSE_SOCKET") = {<<"socket", sockets>>}
        /\ Released(l, "none") = {}
    <2>1. /\ Released(l, "CLOSE_WORKERS") = (workers \cup {<<"epoll", 0>>}) \cup {<<"socket", sockets>>}
          /\ Released(l, "CLOSE_EVO") = {<<"epoll", 0>>} \cup {<<"socket", sockets>>}
          /\ Released(l, "CLOSE_SOCKET") = {<<"socket", sockets>>}
          /\ Released(l, "none") = {}
      BY <1>2, OpenReleased, Zenon
    <2> QED BY <2>1
  <1>4. /\ OpenCalls[1].label = "none" /\ OpenCalls[2].label = "CLOSE_SOCKET"
        /\ OpenCalls[3].label = "CLOSE_SOCKET" /\ OpenCalls[4].label = "CLOSE_SOCKET"
        /\ OpenCalls[5].label = "CLOSE_EVO"
    BY OpenCall DEF Call
  <1>5. ASSUME at \in {1, 2, 3, 4, 5}
        PROVE  Released(l, OpenCalls[at].label) = Opened(sockets, at)
    <2>1. Opened(sockets, at) = (IF at > 1 THEN {<<"socket", sockets>>} ELSE {})
                                \cup (IF at > 4 THEN {<<"epoll", 0>>} ELSE {})
      BY <1>5, OpenedBase
    <2>2. CASE at = 1
      BY <1>3, <1>4, <2>1, <2>2
    <2>3. CASE at \in {2, 3, 4}
      <3>1. Released(l, OpenCalls[at].label) = {<<"socket", sockets>>}
        BY <1>3, <1>4, <2>3
      <3>2. at > 1 /\ ~ at > 4
        BY <2>3
      <3> QED BY <2>1, <3>1, <3>2
    <2>4. CASE at = 5
      BY <1>3, <1>4, <2>1, <2>4
    <2> QED BY <1>5, <2>2, <2>3, <2>4
  <1>6. ASSUME NEW w \in Worker, at = 5 + w
        PROVE  Released(l, OpenCalls[at].label) = Opened(sockets, at)
    <2>1. OpenCalls[at].label = "CLOSE_WORKERS"
      BY <1>6, WorkerOpenCall
    <2>2. at > 1 /\ at > 4
      BY <1>6, Sizes
    <2>3. Opened(sockets, at) = ({<<"socket", sockets>>} \cup {<<"epoll", 0>>}) \cup workers
      BY <1>1, <2>2 DEF Opened
    <2> QED BY <1>3, <2>1, <2>3
  <1>7. Released(l, OpenCalls[at].label) = Opened(sockets, at)
    BY <1>5, <1>6, WhichOpen
  <1> QED BY <1>7 DEF l, W

-----------------------------------------------------------------------------
(* The server as a whole *)

LEMMA MadeInWhole ==
  ASSUME NEW a \in Nat, a <= 6 + NTasks + NWorkers
  PROVE  Made(a) \subseteq Whole
  <1>1. MadeBase(a) \subseteq MadeBase(6 + NTasks + NWorkers)
    <2>1. {j \in 1 .. 5 : j < a} \subseteq {j \in 1 .. 5 : j < 6 + NTasks + NWorkers}
      BY Sizes
    <2> QED BY <2>1 DEF MadeBase
  <1>2. MadeTasks(a) \subseteq MadeTasks(6 + NTasks + NWorkers)
    <2>1. {k \in 1 .. NTasks : 5 + k < a} \subseteq {k \in 1 .. NTasks : 5 + k < 6 + NTasks + NWorkers}
      BY Sizes
    <2> QED BY <2>1 DEF MadeTasks
  <1>3. MadeWorkers(a) \subseteq MadeWorkers(6 + NTasks + NWorkers)
    <2>1. {k \in Worker : 5 + NTasks + k < a} \subseteq {k \in Worker : 5 + NTasks + k < 6 + NTasks + NWorkers}
      BY Sizes
    <2> QED BY <2>1 DEF MadeWorkers
  <1> QED BY <1>1, <1>2, <1>3 DEF Made, Whole

\* The parts of the server.
LEMMA WholeIs ==
  Whole = (({<<"pool", 0>>, <<"events", 0>>, <<"workers", 0>>, <<"threads", 0>>, <<"server", 0>>}
              \cup UNION {law_task_destroy(n) : n \in 1 .. NTasks})
              \cup UNION {law_worker_destroy(w) : w \in Worker})
  <1>1. {k \in 1 .. NTasks : 5 + k < 6 + NTasks + NWorkers} = 1 .. NTasks
    BY Sizes
  <1>2. {k \in Worker : 5 + NTasks + k < 6 + NTasks + NWorkers} = Worker
    BY Sizes
  <1>3. MadeBase(6 + NTasks + NWorkers) =
          {<<"pool", 0>>, <<"events", 0>>, <<"workers", 0>>, <<"threads", 0>>, <<"server", 0>>}
    <2>1. 6 + NTasks + NWorkers \in Nat /\ 6 + NTasks + NWorkers >= 6
      BY Sizes
    <2> QED BY <2>1, BaseFull
  <1>4. MadeTasks(6 + NTasks + NWorkers) = UNION {law_task_destroy(n) : n \in 1 .. NTasks}
    BY <1>1 DEF MadeTasks
  <1>5. MadeWorkers(6 + NTasks + NWorkers) = UNION {law_worker_destroy(w) : w \in Worker}
    BY <1>2 DEF MadeWorkers
  <1> QED BY <1>3, <1>4, <1>5 DEF Whole, Made

\* What all the calls of law_server_create acquire.
LEMMA MemoryIsWhole ==
  Memory = Whole
  <1> DEFINE N == 5 + NTasks + NWorkers
             got(i) == All(CreateCalls[i].routine)
  <1>1. Len(CreateCalls) = N /\ N \in Nat
    BY CreateCall, Sizes
  <1>2. Memory = UNION {got(i) : i \in 1 .. N}
    BY <1>1 DEF Memory
  <1>3. ASSUME NEW i \in 1 .. N PROVE got(i) \subseteq Whole
    <2>1. i \in Nat \ {0} /\ i <= 5 + NTasks + NWorkers
          /\ i + 1 \in Nat /\ i + 1 <= 6 + NTasks + NWorkers
      BY Sizes
    <2>2. Made(i + 1) = Made(i) \cup All(CreateCalls[i].routine)
      BY <2>1, MadeGrows
    <2>3. Made(i + 1) \subseteq Whole
      BY <2>1, MadeInWhole
    <2> QED BY <2>2, <2>3
  <1>4. ASSUME NEW x \in Whole PROVE \E i \in 1 .. N : x \in got(i)
    <2>1. CASE x \in {<<"pool", 0>>, <<"events", 0>>, <<"workers", 0>>, <<"threads", 0>>, <<"server", 0>>}
      <3>1. /\ got(1) = {<<"server", 0>>} /\ got(2) = {<<"threads", 0>>} /\ got(3) = {<<"workers", 0>>}
            /\ got(4) = {<<"events", 0>>} /\ got(5) = {<<"pool", 0>>}
        BY CreateCall, PlainRoutine DEF Call
      <3>2. 1 \in 1 .. N /\ 2 \in 1 .. N /\ 3 \in 1 .. N /\ 4 \in 1 .. N /\ 5 \in 1 .. N
        BY Sizes
      <3> HIDE DEF N, got
      <3> QED BY <2>1, <3>1, <3>2
    <2>2. ASSUME NEW n \in 1 .. NTasks, x \in law_task_destroy(n)
          PROVE  \E i \in 1 .. N : x \in got(i)
      <3>1. 5 + n \in 1 .. N
        BY Sizes
      <3>2. got(5 + n) = law_task_destroy(n)
        BY TaskCall, TaskRoutine
      <3> HIDE DEF N, got
      <3> QED BY <2>2, <3>1, <3>2
    <2>3. ASSUME NEW w \in Worker, x \in law_worker_destroy(w)
          PROVE  \E i \in 1 .. N : x \in got(i)
      <3>1. 5 + NTasks + w \in 1 .. N
        BY Sizes
      <3>2. got(5 + NTasks + w) = law_worker_destroy(w)
        BY WorkerCall, WorkerRoutine
      <3> HIDE DEF N, got
      <3> QED BY <2>3, <3>1, <3>2
    <2>4. \/ x \in {<<"pool", 0>>, <<"events", 0>>, <<"workers", 0>>, <<"threads", 0>>, <<"server", 0>>}
          \/ \E n \in 1 .. NTasks : x \in law_task_destroy(n)
          \/ \E w \in Worker : x \in law_worker_destroy(w)
      BY WholeIs
    <2> QED BY <2>1, <2>2, <2>3, <2>4
  <1> HIDE DEF N, got
  <1> QED BY <1>2, <1>3, <1>4

\* No part of the server has a name that law_open gives, or is a socket.
Names == {"pool", "events", "workers", "threads", "server", "task", "callee", "stack", "mapping",
          "worker", "caller", "timer", "table"}

LEMMA WholeNames ==
  ASSUME NEW x \in Whole
  PROVE  x[1] \in Names
  <1>1. CASE x \in {<<"pool", 0>>, <<"events", 0>>, <<"workers", 0>>, <<"threads", 0>>, <<"server", 0>>}
    BY <1>1 DEF Names
  <1>2. ASSUME NEW n \in 1 .. NTasks, x \in law_task_destroy(n) PROVE x[1] \in Names
    <2>1. x \in {<<"task", n>>, <<"callee", n>>, <<"stack", n>>, <<"mapping", n>>}
      BY <1>2, TaskRoutine
    <2> QED BY <2>1 DEF Names
  <1>3. ASSUME NEW w \in Worker, x \in law_worker_destroy(w) PROVE x[1] \in Names
    <2>1. x \in {<<"worker", w>>, <<"caller", w>>, <<"timer", w>>, <<"events", w>>, <<"table", w>>}
      BY <1>3, WorkerRoutine
    <2> QED BY <2>1 DEF Names
  <1> QED BY <1>1, <1>2, <1>3, WholeIs

LEMMA OpenedNames ==
  ASSUME NEW s, NEW a \in Nat, NEW x \in Opened(s, a)
  PROVE  x = <<"socket", s>> \/ x[1] \in {"epoll", "incoming", "messages"}
  <1>1. CASE \E w \in Worker : x \in law_worker_close(w)
    <2>1. PICK w \in Worker : x \in law_worker_close(w)
      BY <1>1
    <2>2. x \in {<<"epoll", w>>, <<"messages", w, 0>>, <<"messages", w, 1>>,
                 <<"incoming", w, 0>>, <<"incoming", w, 1>>}
      BY <2>1 DEF law_worker_close, Pipe
    <2> QED BY <2>2
  <1>2. CASE x \in {<<"socket", s>>, <<"epoll", 0>>}
    BY <1>2
  <1> QED BY <1>1, <1>2 DEF Opened

\* law_open acquires nothing that is there already.
LEMMA OpenedApart ==
  ASSUME NEW s, s \notin own, NEW a \in Nat
  PROVE  Opened(s, a) \cap (Whole \cup Sockets(own)) = {}
  <1> SUFFICES ASSUME NEW x, x \in Opened(s, a), x \in Whole \cup Sockets(own) PROVE FALSE
    OBVIOUS
  <1>1. x = <<"socket", s>> \/ x[1] \in {"epoll", "incoming", "messages"}
    BY OpenedNames
  <1>2. CASE x \in Whole
    <2>1. x[1] \in Names
      BY <1>2, WholeNames
    <2> QED BY <1>1, <2>1 DEF Names
  <1>3. CASE x \in Sockets(own)
    <2>1. PICK o \in own : x = <<"socket", o>>
      BY <1>3 DEF Sockets
    <2> QED BY <1>1, <2>1
  <1> QED BY <1>2, <1>3

LEMMA SocketsApart ==
  Whole \cap Sockets(own) = {}
  <1> SUFFICES ASSUME NEW x, x \in Whole, x \in Sockets(own) PROVE FALSE
    OBVIOUS
  <1>1. x[1] \in Names
    BY WholeNames
  <1>2. x[1] = "socket"
    BY DEF Sockets
  <1> QED BY <1>1, <1>2 DEF Names

\* law_close releases no part of the server.
LEMMA ClosedApart ==
  Whole \cap Closed = {}
  <1> SUFFICES ASSUME NEW x, x \in Whole, x \in Closed PROVE FALSE
    OBVIOUS
  <1>1. x[1] \in Names
    BY WholeNames
  <1>2. CASE x \in {<<"epoll", 0>>, <<"socket", socket>>}
    BY <1>1, <1>2 DEF Names
  <1>3. CASE \E w \in Worker : x \in law_worker_close(w)
    <2>1. PICK w \in Worker : x \in law_worker_close(w)
      BY <1>3
    <2>2. x \in {<<"epoll", w>>, <<"messages", w, 0>>, <<"messages", w, 1>>,
                 <<"incoming", w, 0>>, <<"incoming", w, 1>>}
      BY <2>1 DEF law_worker_close, Pipe
    <2>3. x[1] \in {"epoll", "messages", "incoming"}
      BY <2>2
    <2> QED BY <1>1, <2>3 DEF Names
  <1> QED BY <1>2, <1>3 DEF Closed

\* What a routine has when a step fails is part of what it acquires.
LEMMA GainedInAll ==
  ASSUME NEW R, Len(R.steps) \in Nat, NEW k \in 1 .. Len(R.steps)
  PROVE  Gained(R, k) \subseteq All(R)
  <1>1. 1 .. k - 1 \subseteq 1 .. Len(R.steps)
    OBVIOUS
  <1> QED BY <1>1 DEF Gained, All, Acquired

-----------------------------------------------------------------------------
(* The inductive invariant holds *)

\* What the failure of a step of a call of law_server_create leaves.
LEMMA CreateFails ==
  ASSUME NEW a \in Nat \ {0}, a <= 5 + NTasks + NWorkers,
         NEW k \in 1 .. Len(CreateCalls[a].routine.steps)
  PROVE  LET R == CreateCalls[a].routine
         IN  /\ Undone(R, k) \subseteq Gained(R, k)
             /\ \/ Gained(R, k) = Undone(R, k)
                \/ \E n \in 1 .. NTasks : Gained(R, k) \subseteq Undone(R, k) \cup {<<"mapping", n>>}
  <1> DEFINE R == CreateCalls[a].routine
  <1>1. CASE a \in {1, 2, 3, 4, 5}
    <2>1. PICK g : R = Plain(g)
      BY <1>1, CreateCall DEF Call
    <2>2. Len(R.steps) = 1 /\ Gained(R, 1) = {} /\ Undone(R, 1) = {}
      BY <2>1, PlainRoutine
    <2>3. k = 1
      BY <2>2
    <2> HIDE DEF R
    <2>4. Undone(R, k) \subseteq Gained(R, k) /\ Gained(R, k) = Undone(R, k)
      BY <2>2, <2>3
    <2> QED BY <2>4 DEF R
  <1>2. ASSUME NEW n \in 1 .. NTasks, a = 5 + n
        PROVE  /\ Undone(R, k) \subseteq Gained(R, k)
               /\ Gained(R, k) \subseteq Undone(R, k) \cup {<<"mapping", n>>}
    <2>1. R = law_task_create(n)
      BY <1>2, TaskCall
    <2>2. k \in 1 .. 5
      BY <2>1, TaskRoutine
    <2> HIDE DEF R
    <2> QED BY <2>1, <2>2, TaskRoutine
  <1>3. ASSUME NEW w \in Worker, a = 5 + NTasks + w
        PROVE  Undone(R, k) = Gained(R, k)
    <2>1. R = law_worker_create(w)
      BY <1>3, WorkerCall
    <2>2. k \in 1 .. 5
      BY <2>1, WorkerRoutine
    <2> HIDE DEF R
    <2> QED BY <2>1, <2>2, WorkerRoutine
  <1> HIDE DEF R
  <1>4. /\ Undone(R, k) \subseteq Gained(R, k)
        /\ \/ Gained(R, k) = Undone(R, k)
           \/ \E n \in 1 .. NTasks : Gained(R, k) \subseteq Undone(R, k) \cup {<<"mapping", n>>}
    <2>1. \/ a \in {1, 2, 3, 4, 5}
          \/ \E n \in 1 .. NTasks : a = 5 + n
          \/ \E w \in Worker : a = 5 + NTasks + w
      BY WhichCall
    <2> QED BY <1>1, <1>2, <1>3, <2>1 DEF R
  <1> QED BY <1>4 DEF R

\* A call of law_open that fails has released what it acquired, and that was
\* not there before.
LEMMA OpenFails ==
  ASSUME NEW a \in Nat \ {0}, a <= 5 + NWorkers, Types,
         a > 1 => sockets \notin own,
         NEW k \in 1 .. Len(OpenCalls[a].routine.steps)
  PROVE  LET R == OpenCalls[a].routine
         IN  /\ Undone(R, k) = Gained(R, k)
             /\ Gained(R, k) \cap (Whole \cup Sockets(own)) = {}
  <1> DEFINE R == OpenCalls[a].routine
  <1>1. Len(R.steps) \in Nat /\ Undone(R, k) = Gained(R, k)
    <2>1. CASE a = 1
      <3>1. R = law_create_socket(sockets + 1)
        BY <2>1, OpenCall DEF Call
      <3>2. k \in 1 .. 2 /\ Len(R.steps) = 2
        BY <3>1, SocketRoutine
      <3> HIDE DEF R
      <3> QED BY <3>1, <3>2, SocketRoutine
    <2>2. CASE a \in {2, 3, 4, 5}
      <3>1. PICK g : R = Plain(g)
        BY <2>2, OpenCall DEF Call
      <3>2. Len(R.steps) = 1 /\ Gained(R, 1) = {} /\ Undone(R, 1) = {}
        BY <3>1, PlainRoutine
      <3>3. k = 1
        BY <3>2
      <3> HIDE DEF R
      <3>4. Gained(R, k) = {} /\ Undone(R, k) = {} /\ Len(R.steps) \in Nat
        BY <3>2, <3>3
      <3> QED BY <3>4
    <2>3. ASSUME NEW w \in Worker, a = 5 + w
          PROVE  Len(R.steps) \in Nat /\ Undone(R, k) = Gained(R, k)
      <3>1. R = law_worker_open(w)
        BY <2>3, WorkerOpenCall
      <3>2. k \in 1 .. 5 /\ Len(R.steps) = 5
        BY <3>1, WorkerOpenRoutine
      <3> HIDE DEF R
      <3> QED BY <3>1, <3>2, WorkerOpenRoutine
    <2>4. a \in {1, 2, 3, 4, 5} \/ \E w \in Worker : a = 5 + w
      BY WhichOpen
    <2> HIDE DEF R
    <2> QED BY <2>1, <2>2, <2>3, <2>4
  <1>2. Gained(R, k) \subseteq All(R)
    BY <1>1, GainedInAll
  <1>3. \E s : s \notin own /\ All(R) \subseteq Opened(s, a + 1)
    <2>1. CASE a = 1
      <3>1. All(R) = {<<"socket", sockets + 1>>}
        BY <2>1, OpenCall, SocketRoutine DEF Call
      <3>2. <<"socket", sockets + 1>> \in Opened(sockets + 1, a + 1)
        BY <2>1 DEF Opened
      <3>3. sockets + 1 \notin own
        BY DEF Types
      <3> QED BY <3>1, <3>2, <3>3
    <2>2. CASE a # 1
      <3>1. 1 < a
        BY <2>2
      <3>2. Opened(sockets, a + 1) = Opened(sockets, a) \cup All(R)
        BY <3>1, OpenedGrows
      <3> QED BY <3>1, <3>2
    <2> QED BY <2>1, <2>2
  <1>4. Gained(R, k) \cap (Whole \cup Sockets(own)) = {}
    <2>1. PICK s : s \notin own /\ All(R) \subseteq Opened(s, a + 1)
      BY <1>3
    <2>2. a + 1 \in Nat
      OBVIOUS
    <2>3. Opened(s, a + 1) \cap (Whole \cup Sockets(own)) = {}
      BY <2>1, <2>2, OpenedApart
    <2> QED BY <1>2, <2>1, <2>3
  <1> QED BY <1>1, <1>4

LEMMA InitHolds ==
  ASSUME Init
  PROVE  Invariant
  BY DEF Init, Invariant, Types, LastIsOurs, Allocated, NothingStray

LEMMA CreateStarts ==
  ASSUME Invariant, law_server_create
  PROVE  Invariant'
  <1> USE DEF Invariant
  <1>1. /\ phase = "none" /\ phase' = "creating" /\ at' = 1 /\ live' = live /\ sockets' = sockets
        /\ own' = own /\ socket' = socket /\ stray' = stray
    BY DEF law_server_create
  <1>2. live = {} /\ own = {}
    BY <1>1 DEF Allocated
  <1>3. Made(1) = {}
    <2>1. MadeTasks(1) = {} /\ MadeWorkers(1) = {}
      BY NoneYet, Sizes
    <2> QED BY <2>1, BaseIs DEF Made
  <1>4. Types'
    BY <1>1, Sizes DEF Types
  <1>5. Allocated' /\ LastIsOurs'
    BY <1>1, <1>2, <1>3 DEF Allocated, LastIsOurs
  <1> QED BY <1>1, <1>4, <1>5 DEF NothingStray

LEMMA SocketMade ==
  ASSUME Invariant, law_create_socket_first
  PROVE  Invariant'
  <1> USE DEF Invariant
  <1>1. /\ phase = "created" /\ phase' = phase /\ at' = at /\ stray' = stray
        /\ sockets' = sockets + 1 /\ socket' = sockets + 1 /\ own' = own \cup {sockets + 1}
        /\ live' = live \cup {<<"socket", sockets + 1>>}
    BY SocketRoutine DEF law_create_socket_first
  <1>2. live = Whole \cup Sockets(own)
    BY <1>1 DEF Allocated
  <1>3. Sockets(own') = Sockets(own) \cup {<<"socket", sockets + 1>>}
    BY <1>1 DEF Sockets
  <1>4. live' = Whole \cup Sockets(own')
    BY <1>1, <1>2, <1>3
  <1>5. Types'
    <2>1. own' \in SUBSET (1 .. sockets') /\ sockets' \in Nat
      BY <1>1 DEF Types
    <2> QED BY <1>1, <2>1 DEF Types
  <1>6. Whole' = Whole /\ Sockets(own)' = Sockets(own')
    BY DEF Sockets, Whole
  <1>7. Allocated' /\ LastIsOurs'
    BY <1>1, <1>4, <1>6 DEF Allocated, LastIsOurs
  <1> QED BY <1>1, <1>5, <1>7 DEF NothingStray

LEMMA OpenStarts ==
  ASSUME Invariant, law_open
  PROVE  Invariant'
  <1> USE DEF Invariant
  <1>0. CASE socket = 0
    <2>1. /\ phase = "created" /\ phase' = "aborted" /\ at' = 1 /\ live' = live
          /\ sockets' = sockets /\ own' = own /\ socket' = socket /\ stray' = stray
      BY <1>0 DEF law_open
    <2> QED BY <2>1 DEF Types, LastIsOurs, Allocated, NothingStray
  <1> SUFFICES ASSUME socket # 0 PROVE Invariant'
    BY <1>0
  <1>1. /\ phase = "created" /\ phase' = "opening" /\ at' = 1 /\ live' = live /\ sockets' = sockets
        /\ own' = own /\ socket' = socket /\ stray' = stray
    BY DEF law_open
  <1>2. live = Whole \cup Sockets(own)
    BY <1>1 DEF Allocated
  <1>3. Opened(sockets, 1) = {}
    BY OpenedBase
  <1>4. Types'
    BY <1>1, Sizes DEF Types
  <1>5. Sockets(own)' = Sockets(own)
    BY <1>1 DEF Sockets
  <1>6. Allocated' /\ LastIsOurs'
    BY <1>1, <1>2, <1>3, <1>5 DEF Allocated, LastIsOurs
  <1> QED BY <1>1, <1>4, <1>6 DEF NothingStray

LEMMA CallProceeds ==
  ASSUME Invariant, Proceeds
  PROVE  Invariant'
  <1> USE DEF Invariant
  <1>1. /\ phase \in {"creating", "opening"} /\ at \in Nat \ {0} /\ own' = own /\ stray' = stray
        /\ live' = live \cup All(Calls[at].routine)
    BY DEF Proceeds, Types
  <1>2. Sockets(own)' = Sockets(own)
    BY <1>1 DEF Sockets
  <1>3. CASE phase = "creating"
    <2>1. at <= 5 + NTasks + NWorkers /\ live = Made(at) /\ own = {}
      BY <1>3 DEF Types, Allocated
    <2>2. Calls = CreateCalls /\ Len(Calls) = 5 + NTasks + NWorkers
      BY <1>3, CreateCall DEF Calls
    <2>3. live' = Made(at + 1)
      BY <1>1, <2>1, <2>2, MadeGrows
    <2>4. sockets' = sockets /\ socket' = socket
      BY <1>3 DEF Proceeds
    <2>5. CASE at = 5 + NTasks + NWorkers
      <3>1. phase' = "created" /\ at' = 1
        BY <1>3, <2>2, <2>5 DEF Proceeds, Last
      <3>2. at + 1 = 6 + NTasks + NWorkers
        BY <2>5, Sizes
      <3>3. live' = Whole
        BY <2>3, <3>2 DEF Whole
      <3>4. Sockets(own)' = {}
        BY <1>2, <2>1 DEF Sockets
      <3>5. Types'
        BY <1>1, <2>4, <3>1 DEF Types
      <3> QED BY <1>1, <3>1, <3>3, <3>4, <3>5 DEF Allocated, LastIsOurs, NothingStray
    <2>6. CASE at # 5 + NTasks + NWorkers
      <3>1. phase' = "creating" /\ at' = at + 1
        BY <1>3, <2>2, <2>6 DEF Proceeds, Last
      <3>2. at + 1 <= 5 + NTasks + NWorkers /\ at + 1 \in Nat \ {0}
        BY <1>1, <2>1, <2>6, Sizes
      <3>3. Types'
        BY <1>1, <2>4, <3>1, <3>2 DEF Types
      <3>4. live' = Made(at')
        BY <2>3, <3>1
      <3> QED BY <1>1, <2>1, <3>1, <3>3, <3>4 DEF Allocated, LastIsOurs, NothingStray
    <2> QED BY <2>5, <2>6
  <1>4. CASE phase = "opening"
    <2>1. at <= 5 + NWorkers /\ live = (Whole \cup Sockets(own)) \cup Opened(sockets, at)
          /\ (at > 1 => sockets \notin own) /\ sockets \in Nat
      BY <1>4 DEF Types, Allocated, LastIsOurs
    <2>2. Calls = OpenCalls /\ Len(Calls) = 5 + NWorkers
      BY <1>4, OpenCall DEF Calls
    <2>3. /\ live' = (Whole \cup Sockets(own)) \cup Opened(sockets', at + 1)
          /\ sockets' \notin own /\ sockets' \in Nat /\ socket' = sockets'
          /\ own \in SUBSET (1 .. sockets')
      <3>1. CASE at = 1
        <4>1. sockets' = sockets + 1 /\ socket' = sockets + 1
          BY <1>4, <3>1 DEF Proceeds
        <4>2. All(Calls[at].routine) = {<<"socket", sockets + 1>>}
          BY <2>2, <3>1, OpenCall, SocketRoutine DEF Call
        <4>3. Opened(sockets, at) = {} /\ Opened(sockets', at + 1) = {<<"socket", sockets'>>}
          <5>1. Opened(sockets, 1) = {} /\ Opened(sockets', 2) = {<<"socket", sockets'>>}
            BY OpenedBase
          <5> QED BY <3>1, <5>1
        <4>4. own \in SUBSET (1 .. sockets)
          BY DEF Types
        <4> QED BY <1>1, <2>1, <4>1, <4>2, <4>3, <4>4
      <3>2. CASE at # 1
        <4>1. sockets' = sockets /\ socket' = socket
          BY <1>4, <3>2 DEF Proceeds
        <4>2. at > 1
          BY <1>1, <3>2
        <4>3. Opened(sockets, at + 1) = Opened(sockets, at) \cup All(Calls[at].routine)
          BY <1>1, <2>1, <2>2, <4>2, OpenedGrows
        <4>4. own \in SUBSET (1 .. sockets) /\ socket = sockets
          BY DEF Types
        <4> QED BY <1>1, <2>1, <4>1, <4>2, <4>3, <4>4
      <3> QED BY <3>1, <3>2
    <2>4. CASE at = 5 + NWorkers
      <3>1. phase' = "open" /\ at' = 1
        BY <1>4, <2>2, <2>4 DEF Proceeds, Last
      <3>2. at + 1 = 6 + NWorkers
        BY <2>4, Sizes
      <3>3. Types'
        BY <1>1, <2>3, <3>1 DEF Types
      <3>4. live' = (Whole \cup Sockets(own)') \cup Opened(sockets', 6 + NWorkers)
        BY <1>2, <2>3, <3>2
      <3> QED BY <1>1, <2>3, <3>1, <3>3, <3>4 DEF Allocated, LastIsOurs, NothingStray
    <2>5. CASE at # 5 + NWorkers
      <3>1. phase' = "opening" /\ at' = at + 1
        BY <1>4, <2>2, <2>5 DEF Proceeds, Last
      <3>2. at + 1 <= 5 + NWorkers /\ at + 1 \in Nat \ {0}
        BY <1>1, <2>1, <2>5, Sizes
      <3>3. Types'
        BY <1>1, <2>3, <3>1, <3>2 DEF Types
      <3>4. live' = (Whole \cup Sockets(own)') \cup Opened(sockets', at')
        BY <1>2, <2>3, <3>1
      <3> QED BY <1>1, <2>3, <3>1, <3>3, <3>4 DEF Allocated, LastIsOurs, NothingStray
    <2> QED BY <2>4, <2>5
  <1> QED BY <1>1, <1>3, <1>4

LEMMA CallFails ==
  ASSUME Invariant, NEW k, Fails(k)
  PROVE  Invariant'
  <1> USE DEF Invariant
  <1> DEFINE R == Calls[at].routine
             gained == Gained(R, k)
             undone == Undone(R, k)
             released == Released(Labels, Calls[at].label)
  <1>1. /\ phase \in {"creating", "opening"} /\ at \in Nat \ {0} /\ at' = 1
        /\ own' = own /\ sockets' = sockets /\ socket' = socket
        /\ k \in 1 .. Len(R.steps)
        /\ phase' = (IF phase = "creating" THEN "failed" ELSE "created")
    BY DEF Fails, Types
  <1>2. /\ live' = (live \cup gained) \ (undone \cup released)
        /\ stray' = stray \cup ((undone \cup released) \ (live \cup gained))
    BY DEF Fails, Release
  <1>3. stray = {}
    BY <1>1 DEF NothingStray
  <1>4. Types'
    BY <1>1 DEF Types
  <1>5. CASE phase = "creating"
    <2>1. at <= 5 + NTasks + NWorkers /\ live = Made(at)
      BY <1>5 DEF Types, Allocated
    <2>2. Calls = CreateCalls
      BY <1>5 DEF Calls
    <2>3. Labels = CreateLabels(Done(1 .. NTasks, 5), Done(Worker, 5 + NTasks))
      BY <1>5 DEF Labels
    <2>4. released = Made(at)
      BY <1>1, <2>1, <2>2, <2>3, MadeUndone
    <2>5. /\ undone \subseteq gained
          /\ \/ gained = undone
             \/ \E n \in 1 .. NTasks : gained \subseteq undone \cup {<<"mapping", n>>}
      BY <1>1, <2>1, <2>2, CreateFails
    <2> HIDE DEF R, gained, undone, released
    <2>6. stray' = {}
      BY <1>2, <1>3, <2>1, <2>4, <2>5
    <2>7. live' = {} \/ \E n \in 1 .. NTasks : live' = {<<"mapping", n>>}
      <3>1. live' = gained \ (undone \cup released)
        BY <1>2, <2>1, <2>4
      <3>2. CASE gained = undone
        BY <3>1, <3>2
      <3>3. ASSUME NEW n \in 1 .. NTasks, gained \subseteq undone \cup {<<"mapping", n>>}
            PROVE  live' = {} \/ live' = {<<"mapping", n>>}
        <4>1. live' \subseteq {<<"mapping", n>>}
          BY <3>1, <3>3
        <4> QED BY <4>1
      <3> QED BY <2>5, <3>2, <3>3
    <2> QED BY <1>1, <1>4, <1>5, <2>6, <2>7 DEF Allocated, LastIsOurs, NothingStray
  <1>6. CASE phase = "opening"
    <2>1. at <= 5 + NWorkers /\ live = (Whole \cup Sockets(own)) \cup Opened(sockets, at)
          /\ (at > 1 => sockets \notin own)
      BY <1>6 DEF Types, Allocated, LastIsOurs
    <2>2. Calls = OpenCalls
      BY <1>6 DEF Calls
    <2>3. Labels = OpenLabels(Done(Worker, 5))
      BY <1>6 DEF Labels
    <2>4. released = Opened(sockets, at)
      BY <1>1, <2>1, <2>2, <2>3, OpenUndone
    <2>5. undone = gained /\ gained \cap (Whole \cup Sockets(own)) = {}
      BY <1>1, <2>1, <2>2, OpenFails
    <2>6. Opened(sockets, at) \cap (Whole \cup Sockets(own)) = {}
      <3>1. CASE at = 1
        <4>1. Opened(sockets, 1) = {}
          BY OpenedBase
        <4> QED BY <3>1, <4>1
      <3>2. CASE at # 1
        <4>1. sockets \notin own
          BY <1>1, <2>1, <3>2
        <4> QED BY <1>1, <4>1, OpenedApart
      <3> QED BY <3>1, <3>2
    <2> HIDE DEF R, gained, undone, released
    <2>7. stray' = {}
      BY <1>2, <1>3, <2>1, <2>4, <2>5
    <2>8. live' = Whole \cup Sockets(own)
      BY <1>2, <2>1, <2>4, <2>5, <2>6
    <2>9. Sockets(own)' = Sockets(own)
      BY <1>1 DEF Sockets
    <2>10. phase' = "created"
      BY <1>1, <1>6
    <2> QED BY <1>4, <2>7, <2>8, <2>9, <2>10 DEF Allocated, LastIsOurs, NothingStray
  <1> QED BY <1>1, <1>5, <1>6

LEMMA CloseHolds ==
  ASSUME Invariant, law_close
  PROVE  Invariant'
  <1> USE DEF Invariant
  <1>0. CASE phase = "created"
    <2>1. /\ phase' = "misclosed" /\ at' = at /\ sockets' = sockets /\ own' = own
          /\ socket' = socket /\ live' = live \ Closed
      BY <1>0 DEF law_close, Release
    <2>2. live = Whole \cup Sockets(own) /\ Sockets(own)' = Sockets(own)
      BY <1>0, <2>1 DEF Allocated, Sockets
    <2>3. Whole \subseteq live' /\ live' \subseteq Whole \cup Sockets(own)
      BY <2>1, <2>2, ClosedApart
    <2> QED BY <2>1, <2>2, <2>3 DEF Types, LastIsOurs, Allocated, NothingStray
  <1> SUFFICES ASSUME phase = "open" PROVE Invariant'
    BY <1>0 DEF law_close
  <1>1. /\ phase = "open" /\ phase' = "closed" /\ at' = at /\ sockets' = sockets /\ own' = own
        /\ socket' = socket /\ live' = live \ Closed /\ stray' = stray \cup (Closed \ live)
    BY DEF law_close, Release
  <1>2. /\ live = (Whole \cup Sockets(own)) \cup Opened(sockets, 6 + NWorkers)
        /\ sockets \notin own /\ stray = {} /\ socket = sockets
    BY <1>1 DEF Allocated, LastIsOurs, NothingStray, Types
  <1>3. Closed = Opened(sockets, 6 + NWorkers)
    <2>1. {k \in Worker : 5 + k < 6 + NWorkers} = Worker
      BY Sizes
    <2>2. 6 + NWorkers > 1 /\ 6 + NWorkers > 4
      BY Sizes
    <2>3. Opened(sockets, 6 + NWorkers) =
            ({<<"socket", sockets>>} \cup {<<"epoll", 0>>})
              \cup UNION {law_worker_close(w) : w \in Worker}
      BY <2>1, <2>2 DEF Opened
    <2> QED BY <1>2, <2>3 DEF Closed
  <1>4. Opened(sockets, 6 + NWorkers) \cap (Whole \cup Sockets(own)) = {}
    <2>1. 6 + NWorkers \in Nat
      BY Sizes
    <2> QED BY <1>2, <2>1, OpenedApart
  <1>5. live' = Whole \cup Sockets(own) /\ stray' = {}
    BY <1>1, <1>2, <1>3, <1>4
  <1>6. Sockets(own)' = Sockets(own)
    BY <1>1 DEF Sockets
  <1>7. Types'
    BY <1>1 DEF Types
  <1> QED BY <1>1, <1>5, <1>6, <1>7 DEF Allocated, LastIsOurs, NothingStray

LEMMA DestroyHolds ==
  ASSUME Invariant, law_server_destroy
  PROVE  Invariant'
  <1> USE DEF Invariant
  <1> DEFINE freed == {<<n, 0>> : n \in {"events", "workers", "threads", "server"}}
                      \cup law_task_pool_destroy(1..NTasks)
                      \cup UNION {law_worker_destroy(w) : w \in Worker}
  <1>1. /\ phase \in {"created", "closed", "misclosed"}
        /\ phase' = (IF phase = "misclosed" THEN "misdestroyed" ELSE "destroyed") /\ at' = at
        /\ sockets' = sockets /\ own' = own /\ socket' = socket
        /\ live' = live \ freed /\ stray' = stray \cup (freed \ live)
    BY DEF law_server_destroy, Release
  <1>2. /\ live \subseteq Whole \cup Sockets(own)
        /\ phase # "misclosed" => live = Whole \cup Sockets(own) /\ stray = {}
    BY <1>1 DEF Allocated, NothingStray
  <1>3. freed = Whole
    <2>1. {<<n, 0>> : n \in {"events", "workers", "threads", "server"}} =
            {<<"events", 0>>, <<"workers", 0>>, <<"threads", 0>>, <<"server", 0>>}
      OBVIOUS
    <2>2. law_task_pool_destroy(1..NTasks) =
            {<<"pool", 0>>} \cup UNION {law_task_destroy(n) : n \in 1 .. NTasks}
      BY DEF law_task_pool_destroy
    <2> QED BY <2>1, <2>2, WholeIs
  <1> HIDE DEF freed
  <1>4. /\ live' \subseteq Sockets(own)
        /\ phase # "misclosed" => live' = Sockets(own) /\ stray' = {}
    BY <1>1, <1>2, <1>3, SocketsApart
  <1>5. Sockets(own)' = Sockets(own)
    BY <1>1 DEF Sockets
  <1>6. Types'
    BY <1>1 DEF Types
  <1> QED BY <1>1, <1>4, <1>5, <1>6 DEF Allocated, LastIsOurs, NothingStray

LEMMA NothingChanges ==
  ASSUME Invariant, UNCHANGED vars
  PROVE  Invariant'
  BY DEF vars, Invariant, Types, LastIsOurs, Allocated, NothingStray, Opened, Sockets

-----------------------------------------------------------------------------
(* The theorems *)

\* The invariant holds in every state: in each phase, and at each call of
\* law_server_create and law_open, what is allocated is exactly what the
\* calls before have acquired.
THEOREM InvariantAlways ==
  Spec => []Invariant
  <1>1. Init => Invariant
    BY InitHolds
  <1>2. Invariant /\ [Next]_vars => Invariant'
    <2> SUFFICES ASSUME Invariant, [Next]_vars PROVE Invariant'
      OBVIOUS
    <2>1. CASE law_server_create
      BY <2>1, CreateStarts
    <2>2. CASE law_create_socket_first
      BY <2>2, SocketMade
    <2>3. CASE law_open
      BY <2>3, OpenStarts
    <2>4. CASE Proceeds
      BY <2>4, CallProceeds
    <2>5. CASE \E k \in 1..5 : Fails(k)
      BY <2>5, CallFails
    <2>6. CASE law_close
      BY <2>6, CloseHolds
    <2>7. CASE law_server_destroy
      BY <2>7, DestroyHolds
    <2>8. CASE Ended
      BY <2>8, NothingChanges DEF Ended
    <2>9. CASE UNCHANGED vars
      BY <2>9, NothingChanges
    <2> QED BY <2>1, <2>2, <2>3, <2>4, <2>5, <2>6, <2>7, <2>8, <2>9 DEF Next
  <1> QED BY <1>1, <1>2, PTL DEF Spec

\* Whichever step of law_server_create, law_open or the routines they call
\* fails, no label frees memory or closes a descriptor that is not allocated
\* at that moment; nor does law_close of a server that is open.
THEOREM NothingStrayCorrect ==
  Spec => []NothingStray
  <1>1. Invariant => NothingStray
    BY DEF Invariant
  <1> QED BY <1>1, InvariantAlways, PTL

\* A law_open that fails, and law_close after one that succeeded, leave the
\* memory of the server and the sockets of the application, no more and no
\* less.
THEOREM OpenAllOrNothingCorrect ==
  Spec => []OpenAllOrNothing
  <1>1. Invariant => OpenAllOrNothing
    BY MemoryIsWhole DEF Invariant, Allocated, OpenAllOrNothing
  <1> QED BY <1>1, InvariantAlways, PTL

\* law_server_destroy frees all that law_server_create allocated, also after
\* law_close of a server that was not open, and a law_server_create that fails
\* leaves nothing but, at most, one mapping.
THEOREM DestroyFreesAllCorrect ==
  Spec => []DestroyFreesAll
  <1>1. Invariant => DestroyFreesAll
    BY DEF Invariant, Allocated, DestroyFreesAll
  <1> QED BY <1>1, InvariantAlways, PTL

-----------------------------------------------------------------------------
(* The HTTP server: the inductive invariant *)

\* What has been made of the group that is being made.
Pooled(g, p) == UNION {PoolOf(g, q) : q \in {r \in Pools : r < p}}
Current(g, p, c) ==
  IF p = NoPool THEN {}
  ELSE (Pooled(g, p) \cup {<<"group", g>>}) \cup law_hts_buf_pool_free(g, p, c)

HttpMade(g, p, c) ==
  (law_hts_pool_groups_destroy(g) \cup {<<"htserver">>}) \cup Current(g, p, c)

HttpTypes ==
  /\ hphase \in {"none", "creating", "created", "failed", "crashed", "destroyed"}
  /\ hphase = "none" => group = 1 /\ filling = NoPool
  /\ hphase = "creating" =>
       /\ group \in Worker /\ filling \in Pools \cup {NoPool}
       /\ filling = NoPool \/ (count \in Nat /\ count < WorkerTasks)

HttpAllocated ==
  /\ hphase = "none" => hlive = {}
  /\ hphase = "creating" => hlive = HttpMade(group, filling, count)

HttpInvariant == HttpTypes /\ HttpAllocated /\ HttpFreesAll

LEMMA HttpSizes ==
  /\ WorkerTasks \in Nat \ {0} /\ NWorkers \in Nat \ {0} /\ Worker = 1 .. NWorkers
  /\ Pools = {0, 1, 2, 3} /\ NoPool = 4
  /\ HeapPool = 0 /\ StackPool = 1 /\ InPool = 2 /\ OutPool = 3
  <1>1. 0 .. 3 = {0, 1, 2, 3}
    OBVIOUS
  <1> QED BY <1>1, HttpLifecycleAssumption, LifecycleAssumption
          DEF Worker, Pools, NoPool, HeapPool, StackPool, InPool, OutPool

-----------------------------------------------------------------------------
(* One object *)

\* When a step of law_hts_buf_create or law_hts_stk_create fails, all that it
\* acquired is released, but for a mapping.
LEMMA ObjectRoutine ==
  ASSUME NEW g, NEW p, NEW n
  PROVE  LET R == law_hts_buf_create(g, p, n)
         IN  /\ Len(R.steps) = 4 /\ All(R) = law_hts_buf_destroy(g, p, n)
             /\ \A k \in 1 .. 4 : /\ Undone(R, k) \subseteq Gained(R, k)
                                  /\ Gained(R, k) \subseteq Undone(R, k)
                                                            \cup {<<"mapping", g, p, n>>}
  <1> DEFINE R == law_hts_buf_create(g, p, n)
             s == R.steps
             l == R.labels
             a == {<<"object", g, p, n>>}
             b == {<<"smem", g, p, n>>}
             c == {<<"mapping", g, p, n>>}
  <1>1. /\ s = <<Step(a, "none"), Step(b, "free_buf"), Step(c, "FAILURE"), Step({}, "FAILURE")>>
        /\ l = <<Label("FAILURE", b), Label("free_buf", a)>>
    BY DEF law_hts_buf_create
  <1>2. \A k : Gained(R, k) = Acquired(s, k - 1) /\ Undone(R, k) = Released(l, s[k].label)
    BY DEF Gained, Undone
  <1>3. All(R) = Acquired(s, Len(s))
    BY DEF All
  <1>4. law_hts_buf_destroy(g, p, n) = (a \cup b) \cup c
    BY DEF law_hts_buf_destroy
  <1> HIDE DEF a, b, c, l, s, R
  <1>5. /\ Len(s) = 4
        /\ s[1].gets = a /\ s[2].gets = b /\ s[3].gets = c /\ s[4].gets = {}
        /\ s[1].label = "none" /\ s[2].label = "free_buf"
        /\ s[3].label = "FAILURE" /\ s[4].label = "FAILURE"
        /\ Len(l) = 2 /\ l[1].label = "FAILURE" /\ l[2].label = "free_buf"
        /\ l[1].frees = b /\ l[2].frees = a
    BY <1>1 DEF Step, Label
  <1>6. /\ 1 .. 0 = {} /\ (\A i \in 1 .. 1 : i = 1) /\ 1 \in 1 .. 1
        /\ (\A i \in 1 .. 2 : i = 1 \/ i = 2) /\ 1 \in 1 .. 2 /\ 2 \in 1 .. 2
        /\ (\A i \in 1 .. 3 : i = 1 \/ i = 2 \/ i = 3)
        /\ 1 \in 1 .. 3 /\ 2 \in 1 .. 3 /\ 3 \in 1 .. 3
        /\ (\A i \in 1 .. 4 : i = 1 \/ i = 2 \/ i = 3 \/ i = 4)
        /\ 1 \in 1 .. 4 /\ 2 \in 1 .. 4 /\ 3 \in 1 .. 4 /\ 4 \in 1 .. 4
    OBVIOUS
  <1>7. Acquired(s, 0) = {} /\ Acquired(s, 1) = a
    BY <1>5, <1>6 DEF Acquired
  <1>8. Acquired(s, 2) = a \cup b
    BY <1>5, <1>6 DEF Acquired
  <1>9. Acquired(s, 3) = (a \cup b) \cup c
    BY <1>5, <1>6 DEF Acquired
  <1>10. Acquired(s, 4) = (a \cup b) \cup c
    BY <1>5, <1>6 DEF Acquired
  <1>11. Released(l, "none") = {}
    <2>1. Len(l) \in Nat /\ \A i \in 1 .. Len(l) : l[i].label # "none"
      BY <1>5, <1>6
    <2> QED BY <2>1, ReleasedNone
  <1>12. Released(l, "FAILURE") = b \cup a
    BY <1>5, <1>6 DEF Released
  <1>13. Released(l, "free_buf") = a
    BY <1>5, <1>6 DEF Released
  <1>14. ASSUME NEW k \in 1 .. 4
         PROVE  Undone(R, k) \subseteq Gained(R, k) /\ Gained(R, k) \subseteq Undone(R, k) \cup c
    <2>1. 1 - 1 = 0 /\ 2 - 1 = 1 /\ 3 - 1 = 2 /\ 4 - 1 = 3
      OBVIOUS
    <2>2. CASE k = 1
      BY <1>2, <1>5, <1>7, <1>11, <2>1, <2>2
    <2>3. CASE k = 2
      BY <1>2, <1>5, <1>7, <1>13, <2>1, <2>3
    <2>4. CASE k = 3
      BY <1>2, <1>5, <1>8, <1>12, <2>1, <2>4
    <2>5. CASE k = 4
      BY <1>2, <1>5, <1>9, <1>12, <2>1, <2>5
    <2> QED BY <1>6, <2>2, <2>3, <2>4, <2>5
  <1>15. All(R) = law_hts_buf_destroy(g, p, n)
    BY <1>3, <1>4, <1>5, <1>10
  <1> QED BY <1>5, <1>14, <1>15 DEF R, s, c

\* One object more in a pool.
LEMMA PoolGrows ==
  ASSUME NEW g, NEW p, NEW c \in Nat
  PROVE  /\ law_hts_buf_pool_free(g, p, 0) = {}
         /\ law_hts_buf_pool_free(g, p, c + 1)
              = law_hts_buf_pool_free(g, p, c) \cup law_hts_buf_destroy(g, p, c + 1)
  <1>1. 1 .. 0 = {} /\ 1 .. (c + 1) = (1 .. c) \cup {c + 1}
    OBVIOUS
  <1> QED BY <1>1 DEF law_hts_buf_pool_free

\* One pool more in a group, and the last one.
LEMMA GroupGrows ==
  ASSUME NEW g
  PROVE  /\ Pooled(g, HeapPool) = {}
         /\ \A p \in Pools : Pooled(g, p + 1) = Pooled(g, p) \cup PoolOf(g, p)
         /\ law_hts_pool_group_destroy(g) = Pooled(g, NoPool) \cup {<<"group", g>>}
  <1>1. {r \in Pools : r < HeapPool} = {} /\ {r \in Pools : r < NoPool} = Pools
    BY HttpSizes
  <1>2. \A p \in Pools : {r \in Pools : r < p + 1} = {r \in Pools : r < p} \cup {p}
    BY HttpSizes
  <1>3. Pooled(g, HeapPool) = {}
    BY <1>1 DEF Pooled
  <1>4. law_hts_pool_group_destroy(g) = Pooled(g, NoPool) \cup {<<"group", g>>}
    BY <1>1 DEF Pooled, law_hts_pool_group_destroy
  <1>5. ASSUME NEW p \in Pools PROVE Pooled(g, p + 1) = Pooled(g, p) \cup PoolOf(g, p)
    <2> DEFINE S == {r \in Pools : r < p}
    <2>1. Pooled(g, p) = UNION {PoolOf(g, q) : q \in S}
      BY DEF Pooled
    <2>2. Pooled(g, p + 1) = UNION {PoolOf(g, q) : q \in S \cup {p}}
      BY <1>2 DEF Pooled
    <2> HIDE DEF S
    <2> QED BY <2>1, <2>2
  <1> QED BY <1>3, <1>4, <1>5

\* One group more.
LEMMA GroupsGrow ==
  ASSUME NEW g \in Nat \ {0}
  PROVE  /\ law_hts_pool_groups_destroy(1) = {<<"groups">>}
         /\ law_hts_pool_groups_destroy(g + 1)
              = law_hts_pool_groups_destroy(g) \cup law_hts_pool_group_destroy(g)
  <1>1. 1 .. (1 - 1) = {} /\ 1 .. ((g + 1) - 1) = (1 .. (g - 1)) \cup {g}
    OBVIOUS
  <1>2. law_hts_pool_groups_destroy(1) = {<<"groups">>}
    BY <1>1 DEF law_hts_pool_groups_destroy
  <1>3. PICK S : S = 1 .. (g - 1)
    OBVIOUS
  <1>4. law_hts_pool_groups_destroy(g) = (UNION {law_hts_pool_group_destroy(m) : m \in S}) \cup {<<"groups">>}
    BY <1>3 DEF law_hts_pool_groups_destroy
  <1>5. law_hts_pool_groups_destroy(g + 1)
          = (UNION {law_hts_pool_group_destroy(m) : m \in S \cup {g}}) \cup {<<"groups">>}
    BY <1>1, <1>3 DEF law_hts_pool_groups_destroy
  <1>6. (UNION {law_hts_pool_group_destroy(m) : m \in S \cup {g}})
          = (UNION {law_hts_pool_group_destroy(m) : m \in S}) \cup law_hts_pool_group_destroy(g)
    OBVIOUS
  <1> QED BY <1>2, <1>4, <1>5, <1>6

\* What the labels of law_hts_pool_group_create free: the pools that are
\* complete, and the group.
LEMMA GroupReleased ==
  ASSUME NEW g, NEW p \in Pools
  PROVE  Released(GroupLabels(g), GroupLabel(p)) = Pooled(g, p) \cup {<<"group", g>>}
  <1> DEFINE l == GroupLabels(g)
             a == PoolOf(g, 0)
             b == PoolOf(g, 1)
             c == PoolOf(g, 2)
             d == {<<"group", g>>}
  <1>1. l = <<Label("FREE_IN_POOL", c), Label("FREE_STACK_POOL", b),
              Label("FREE_HEAP_POOL", a), Label("FREE_GROUP", d)>>
    BY DEF GroupLabels, HeapPool, StackPool, InPool
  <1>2. /\ Pooled(g, 0) = {} /\ Pooled(g, 1) = a
        /\ Pooled(g, 2) = a \cup b /\ Pooled(g, 3) = (a \cup b) \cup c
    <2>1. Pooled(g, 0) = {} /\ \A q \in {0, 1, 2, 3} : Pooled(g, q + 1) = Pooled(g, q) \cup PoolOf(g, q)
      BY GroupGrows, HttpSizes
    <2>2. /\ Pooled(g, 0 + 1) = Pooled(g, 0) \cup PoolOf(g, 0)
          /\ Pooled(g, 1 + 1) = Pooled(g, 1) \cup PoolOf(g, 1)
          /\ Pooled(g, 2 + 1) = Pooled(g, 2) \cup PoolOf(g, 2)
      BY <2>1
    <2>3. 0 + 1 = 1 /\ 1 + 1 = 2 /\ 2 + 1 = 3
      OBVIOUS
    <2> QED BY <2>1, <2>2, <2>3
  <1> HIDE DEF l, a, b, c, d
  <1>3. /\ Released(l, "FREE_IN_POOL") = (c \cup b) \cup (a \cup d)
        /\ Released(l, "FREE_STACK_POOL") = b \cup (a \cup d)
        /\ Released(l, "FREE_HEAP_POOL") = a \cup d
        /\ Released(l, "FREE_GROUP") = d
    <2>1. PICK A, B, C, D : /\ A = "FREE_IN_POOL" /\ B = "FREE_STACK_POOL"
                            /\ C = "FREE_HEAP_POOL" /\ D = "FREE_GROUP"
      OBVIOUS
    <2>2. A # B /\ A # C /\ A # D /\ B # C /\ B # D /\ C # D
      BY <2>1
    <2>3. l = <<Label(A, c), Label(B, b), Label(C, a), Label(D, d)>>
      BY <1>1, <2>1
    <2>4. /\ Released(l, A) = (c \cup b) \cup (a \cup d)
          /\ Released(l, B) = b \cup (a \cup d)
          /\ Released(l, C) = a \cup d
          /\ Released(l, D) = d
      BY <2>2, <2>3, FourLabels
    <2> QED BY <2>1, <2>4
  <1>4. CASE p = 0
    <2>1. GroupLabel(p) = "FREE_GROUP"
      BY <1>4 DEF GroupLabel, HeapPool, StackPool, InPool, OutPool
    <2>2. Pooled(g, p) \cup d = d
      BY <1>2, <1>4
    <2> QED BY <1>3, <2>1, <2>2 DEF l, d
  <1>5. CASE p = 1
    <2>1. GroupLabel(p) = "FREE_HEAP_POOL"
      BY <1>5 DEF GroupLabel, HeapPool, StackPool, InPool, OutPool
    <2> QED BY <1>2, <1>3, <1>5, <2>1 DEF l, d
  <1>6. CASE p = 2
    <2>1. GroupLabel(p) = "FREE_STACK_POOL"
      BY <1>6 DEF GroupLabel, HeapPool, StackPool, InPool, OutPool
    <2>2. Pooled(g, p) \cup d = b \cup (a \cup d)
      BY <1>2, <1>6
    <2> QED BY <1>3, <2>1, <2>2 DEF l, d
  <1>7. CASE p = 3
    <2>1. GroupLabel(p) = "FREE_IN_POOL"
      BY <1>7 DEF GroupLabel, HeapPool, StackPool, InPool, OutPool
    <2>2. Pooled(g, p) \cup d = (c \cup b) \cup (a \cup d)
      BY <1>2, <1>7
    <2> QED BY <1>3, <2>1, <2>2 DEF l, d
  <1> QED BY <1>4, <1>5, <1>6, <1>7, HttpSizes

-----------------------------------------------------------------------------
(* The HTTP server: the steps *)

LEMMA HttpCreateHolds ==
  ASSUME HttpInvariant, law_htserver_create
  PROVE  HttpInvariant'
  <1> USE DEF HttpInvariant
  <1>1. /\ hphase = "none" /\ group' = group /\ filling' = filling /\ hstray' = hstray
        /\ group = 1 /\ filling = NoPool
    BY DEF law_htserver_create, HttpTypes
  <1>2. HttpMade(1, NoPool, count') = {<<"htserver">>, <<"groups">>}
    <2>1. law_hts_pool_groups_destroy(1) = {<<"groups">>}
      BY GroupsGrow
    <2>2. Current(1, NoPool, count') = {}
      BY DEF Current
    <2> QED BY <2>1, <2>2 DEF HttpMade
  <1>3. \/ hphase' = "creating" /\ hlive' = {<<"htserver">>, <<"groups">>}
        \/ hphase' = "failed" /\ hlive' = {}
    BY DEF law_htserver_create
  <1>4. HttpTypes'
    BY <1>1, <1>3, HttpSizes DEF HttpTypes
  <1> QED BY <1>1, <1>2, <1>3, <1>4 DEF HttpAllocated, HttpFreesAll

LEMMA GroupCreateHolds ==
  ASSUME HttpInvariant, law_hts_pool_group_create
  PROVE  HttpInvariant'
  <1> USE DEF HttpInvariant
  <1>1. /\ hphase = "creating" /\ filling = NoPool /\ group' = group /\ hstray' = hstray
        /\ group \in Worker
    BY DEF law_hts_pool_group_create, HttpTypes
  <1>2. CASE hphase' = "crashed"
    BY <1>1, <1>2 DEF HttpTypes, HttpAllocated, HttpFreesAll
  <1>3. CASE /\ hlive' = hlive \cup {<<"group", group>>}
             /\ filling' = HeapPool /\ count' = 0 /\ UNCHANGED hphase
    <2>1. hlive = law_hts_pool_groups_destroy(group) \cup {<<"htserver">>}
      BY <1>1 DEF HttpAllocated, HttpMade, Current
    <2>2. Current(group, HeapPool, 0) = {<<"group", group>>}
      <3>1. HeapPool # NoPool /\ Pooled(group, HeapPool) = {}
        BY HttpSizes, GroupGrows
      <3>2. law_hts_buf_pool_free(group, HeapPool, 0) = {}
        BY PoolGrows
      <3> QED BY <3>1, <3>2 DEF Current
    <2>3. hlive' = HttpMade(group', filling', count')
      BY <1>1, <1>3, <2>1, <2>2 DEF HttpMade
    <2>4. HttpTypes'
      BY <1>1, <1>3, HttpSizes DEF HttpTypes
    <2> QED BY <1>1, <1>3, <2>3, <2>4 DEF HttpAllocated, HttpFreesAll, HttpMade, Current
  <1> QED BY <1>2, <1>3 DEF law_hts_pool_group_create

LEMMA PoolInitHolds ==
  ASSUME HttpInvariant, law_hts_pool_init
  PROVE  HttpInvariant'
  <1> USE DEF HttpInvariant
  <1>1. /\ hphase = "creating" /\ filling \in Pools /\ hstray' = hstray
        /\ group \in Worker /\ group \in Nat \ {0} /\ filling # NoPool
        /\ count \in Nat /\ count < WorkerTasks
    BY HttpSizes DEF law_hts_pool_init, HttpTypes
  <1>2. hlive' = hlive \cup law_hts_buf_destroy(group, filling, count + 1)
    BY ObjectRoutine DEF law_hts_pool_init
  <1> DEFINE G == law_hts_pool_groups_destroy(group)
             F == law_hts_buf_pool_free(group, filling, count + 1)
             P == Pooled(group, filling)
             new == {<<"group", group>>}
             srv == {<<"htserver">>}
  <1>3. hlive' = (G \cup srv) \cup ((P \cup new) \cup F)
    <2>1. hlive = (G \cup srv) \cup ((P \cup new) \cup law_hts_buf_pool_free(group, filling, count))
      BY <1>1 DEF HttpAllocated, HttpMade, Current
    <2>2. F = law_hts_buf_pool_free(group, filling, count)
                \cup law_hts_buf_destroy(group, filling, count + 1)
      BY <1>1, PoolGrows
    <2> QED BY <1>2, <2>1, <2>2
  <1>4. CASE count + 1 < WorkerTasks
    <2>1. count' = count + 1 /\ hphase' = hphase /\ group' = group /\ filling' = filling
      BY <1>4 DEF law_hts_pool_init
    <2>2. HttpMade(group', filling', count') = (G \cup srv) \cup ((P \cup new) \cup F)
      BY <1>1, <2>1 DEF HttpMade, Current
    <2>3. HttpTypes'
      BY <1>1, <1>4, <2>1 DEF HttpTypes
    <2>4. HttpAllocated'
      BY <1>1, <1>3, <2>1, <2>2 DEF HttpAllocated, HttpMade, Current
    <2> QED BY <1>1, <2>1, <2>3, <2>4 DEF HttpFreesAll
  <1>5. CASE ~ count + 1 < WorkerTasks
    <2>1. F = PoolOf(group, filling)
      <3>1. count + 1 = WorkerTasks
        BY <1>1, <1>5, HttpSizes
      <3> QED BY <3>1 DEF PoolOf
    <2>2. count' = 0 /\ filling' = filling + 1
      BY <1>5 DEF law_hts_pool_init
    <2>3. Pooled(group, filling + 1) = P \cup F
      BY <1>1, <2>1, GroupGrows
    <2>4. hlive' = (G \cup srv) \cup (Pooled(group, filling + 1) \cup new)
      BY <1>3, <2>3
    <2>5. CASE filling = OutPool
      <3>1. /\ filling' = NoPool /\ group' = group + 1
            /\ hphase' = (IF group = NWorkers THEN "created" ELSE "creating")
        BY <1>5, <2>2, <2>5 DEF law_hts_pool_init, NoPool
      <3>2. law_hts_pool_group_destroy(group) = Pooled(group, filling + 1) \cup new
        BY <2>2, <3>1, GroupGrows
      <3>3. law_hts_pool_groups_destroy(group + 1) = G \cup law_hts_pool_group_destroy(group)
        BY <1>1, GroupsGrow
      <3>4. hlive' = law_hts_pool_groups_destroy(group + 1) \cup srv
        BY <2>4, <3>2, <3>3
      <3>5. CASE group = NWorkers
        <4>1. hphase' = "created" /\ hlive' = HttpMemory
          BY <3>1, <3>4, <3>5 DEF HttpMemory
        <4>2. HttpMemory' = HttpMemory
          BY DEF HttpMemory
        <4> QED BY <1>1, <4>1, <4>2 DEF HttpTypes, HttpAllocated, HttpFreesAll
      <3>6. CASE group # NWorkers
        <4>1. hphase' = "creating" /\ group' \in Worker
          BY <1>1, <3>1, <3>6, HttpSizes
        <4>2. HttpMade(group', filling', count') = law_hts_pool_groups_destroy(group + 1) \cup srv
          BY <3>1 DEF HttpMade, Current
        <4>3. HttpTypes'
          BY <3>1, <4>1 DEF HttpTypes
        <4>4. HttpAllocated'
          BY <3>4, <4>1, <4>2 DEF HttpAllocated, HttpMade, Current
        <4> QED BY <1>1, <4>1, <4>3, <4>4 DEF HttpFreesAll
      <3> QED BY <3>5, <3>6
    <2>6. CASE filling # OutPool
      <3>1. hphase' = "creating" /\ group' = group
        BY <1>1, <1>5, <2>6 DEF law_hts_pool_init
      <3>2. filling' \in Pools /\ filling' # NoPool
        BY <1>1, <2>2, <2>6, HttpSizes
      <3>3. law_hts_buf_pool_free(group, filling', 0) = {}
        BY PoolGrows
      <3>4. HttpMade(group', filling', count') = (G \cup srv) \cup (Pooled(group, filling + 1) \cup new)
        BY <2>2, <3>1, <3>2, <3>3 DEF HttpMade, Current
      <3>5. HttpTypes'
        BY <1>1, <2>2, <3>1, <3>2, HttpSizes DEF HttpTypes
      <3>6. HttpAllocated'
        BY <2>4, <3>1, <3>4 DEF HttpAllocated, HttpMade, Current
      <3> QED BY <1>1, <3>1, <3>5, <3>6 DEF HttpFreesAll
    <2> QED BY <2>5, <2>6
  <1> QED BY <1>4, <1>5

LEMMA PoolFails ==
  ASSUME HttpInvariant, NEW k, law_hts_pool_init_fails(k)
  PROVE  HttpInvariant'
  <1> USE DEF HttpInvariant
  <1> DEFINE R == law_hts_buf_create(group, filling, count + 1)
             gained == Gained(R, k)
             undone == Undone(R, k)
             F == law_hts_buf_pool_free(group, filling, count)
             rel == Released(GroupLabels(group), GroupLabel(filling))
             G == law_hts_pool_groups_destroy(group)
             freed == (((undone \cup F) \cup rel) \cup G) \cup {<<"htserver">>}
             m == <<"mapping", group, filling, count + 1>>
  <1>1. /\ hphase = "creating" /\ filling \in Pools /\ filling # NoPool /\ k \in 1 .. 4
        /\ group \in Worker /\ count \in Nat /\ count + 1 \in 1 .. WorkerTasks
        /\ hphase' = "failed"
    <2>1. /\ hphase = "creating" /\ filling \in Pools /\ k \in 1 .. 4 /\ hphase' = "failed"
      BY ObjectRoutine DEF law_hts_pool_init_fails
    <2> QED BY <2>1, HttpSizes DEF HttpTypes
  <1>2. hlive' = (hlive \cup gained) \ freed /\ hstray' = hstray \cup (freed \ (hlive \cup gained))
    BY DEF law_hts_pool_init_fails, HttpRelease
  <1>3. hlive = (G \cup {<<"htserver">>}) \cup (rel \cup F)
    <2>1. rel = Pooled(group, filling) \cup {<<"group", group>>}
      BY <1>1, GroupReleased
    <2> QED BY <1>1, <2>1 DEF HttpAllocated, HttpMade, Current
  <1>4. undone \subseteq gained /\ gained \subseteq undone \cup {m}
    BY <1>1, ObjectRoutine
  <1>5. hstray = {}
    BY DEF HttpFreesAll
  <1> HIDE DEF R, gained, undone, F, rel, G, m
  <1>6. hstray' = {} /\ hlive' \subseteq {m}
    BY <1>2, <1>3, <1>4, <1>5
  <1>7. hlive' = {} \/ hlive' = {m}
    BY <1>6
  <1>8. HttpFreesAll'
    BY <1>1, <1>6, <1>7 DEF HttpFreesAll, m
  <1> QED BY <1>1, <1>8 DEF HttpTypes, HttpAllocated

LEMMA HttpDestroyHolds ==
  ASSUME HttpInvariant, law_htserver_destroy
  PROVE  HttpInvariant'
  <1>1. /\ hphase = "created" /\ hphase' = "destroyed"
        /\ hlive' = hlive \ HttpMemory /\ hstray' = hstray \cup (HttpMemory \ hlive)
    BY DEF law_htserver_destroy, HttpRelease, HttpMemory
  <1>2. hlive = HttpMemory /\ hstray = {}
    BY <1>1 DEF HttpInvariant, HttpFreesAll
  <1>3. hlive' = {} /\ hstray' = {}
    BY <1>1, <1>2
  <1> QED BY <1>1, <1>3 DEF HttpInvariant, HttpTypes, HttpAllocated, HttpFreesAll

-----------------------------------------------------------------------------
(* The HTTP server: the theorem *)

\* Whatever fails in law_htserver_create - save the calloc of a group, which
\* the code does not check - nothing is freed twice and at most one mapping
\* stays; one that succeeds has filled every pool, and law_htserver_destroy
\* frees them all, for every number of workers and every size of the pools.
THEOREM HttpFreesAllCorrect ==
  HttpSpec => []HttpFreesAll
  <1>1. HttpInit => HttpInvariant
    BY HttpSizes DEF HttpInit, HttpInvariant, HttpTypes, HttpAllocated, HttpFreesAll
  <1>2. HttpInvariant /\ [HttpNext]_<<vars, hvars>> => HttpInvariant'
    <2> SUFFICES ASSUME HttpInvariant, [HttpNext]_<<vars, hvars>> PROVE HttpInvariant'
      OBVIOUS
    <2>1. CASE law_htserver_create
      BY <2>1, HttpCreateHolds
    <2>2. CASE law_hts_pool_group_create
      BY <2>2, GroupCreateHolds
    <2>3. CASE law_hts_pool_init
      BY <2>3, PoolInitHolds
    <2>4. CASE \E k \in 1 .. 4 : law_hts_pool_init_fails(k)
      BY <2>4, PoolFails
    <2>5. CASE law_htserver_destroy
      BY <2>5, HttpDestroyHolds
    <2>6. CASE UNCHANGED hvars
      BY <2>6 DEF hvars, HttpInvariant, HttpTypes, HttpAllocated, HttpFreesAll, HttpMade, Current
    <2> QED BY <2>1, <2>2, <2>3, <2>4, <2>5, <2>6 DEF HttpNext, HttpCall
  <1>3. HttpInvariant => HttpFreesAll
    BY DEF HttpInvariant
  <1> QED BY <1>1, <1>2, <1>3, PTL DEF HttpSpec

\* With the HTTP server beside it the server does what it does alone, so that
\* the theorems above hold there.
THEOREM ServerAlone ==
  HttpSpec => Spec
  <1>1. HttpInit => Init
    BY DEF HttpInit
  <1>2. [HttpNext]_<<vars, hvars>> => [Next]_vars
    BY DEF HttpNext
  <1> QED BY <1>1, <1>2, PTL DEF HttpSpec, Spec
=============================================================================
