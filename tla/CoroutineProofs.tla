--------------------------- MODULE CoroutineProofs ---------------------------
(***************************************************************************)
(* Proofs about module Coroutine, for every set of tasks and every number  *)
(* of words they keep on their stacks.                                     *)
(***************************************************************************)
EXTENDS Coroutine, SequenceTheorems, TLAPS

-----------------------------------------------------------------------------
(* The inductive invariant *)

\* What registers, words of a stack and environments hold.
Pointer == [stk : Context, n : Nat]
Value == [of : Context, reg : Reg, val : Content] \cup [env : {"caller"}] \cup Pointer
Regs == [Reg -> Value]
Word == Context \cup {"tail"} \cup Value \cup Regs \cup Content
Env == [rbp : Value, rsp : Pointer]

Machine ==
  [pc : Context \cup {"tail"}, regs : Regs, rax : Result \cup {Suspended, Resumed},
   rsp : Pointer, mem : [Context -> Seq(Word)], env : [Task \cup {"caller"} -> Env]]

View == [regs : Regs, rsp : Pointer, stack : Seq(Word)]

\* The environment that a context is saved in.
EnvOf(c) == IF c = "worker" THEN "caller" ELSE c

\* The words law_cor_call_x86_64 and law_cor_swap_x86_64 push.
Five(regs) == [i \in 1 .. 5 |-> regs[Pushed[i]]]

\* Context c has given up control with v: its stack ends with a return
\* address and the registers, and its environment points there.
Saved(x, c, v) ==
  /\ x.mem[c] = (v.stack \o <<c>>) \o Five(v.regs)
  /\ x.env[EnvOf(c)] = [rbp |-> v.regs["rbp"], rsp |-> [stk |-> c, n |-> Len(v.stack) + 6]]
  /\ v.rsp = [stk |-> c, n |-> Len(v.stack)]

\* The stack of a callback starts with the return address of
\* law_cor_call_x86_64 and what the prologue of the trampoline keeps, with
\* the environment of the worker in %r15.
Frame(s) ==
  /\ Len(s) >= 2 /\ s[1] = "tail"
  /\ s[2] \in Regs /\ s[2]["r15"] = [env |-> "caller"]

\* The context that has control is on its own stack.
Running ==
  /\ m.pc \in Context
  /\ m.rsp = [stk |-> m.pc, n |-> Len(m.mem[m.pc])]

Frames ==
  /\ m.pc \in Task => Frame(m.mem[m.pc])
  /\ \A t \in live : t # m.pc => Frame(view[t].stack)

AllSaved == \A c \in live \cup {"worker"} : c # m.pc => Saved(m, c, view[c])

\* Who is live, while a task is dispatched too.
Modes ==
  /\ active # NoTask => mode[active] = "running"
  /\ m.pc # "worker" => m.pc = active /\ active \in live
  /\ m.pc = "worker" /\ active # NoTask => (active \in live <=> m.rax = Suspended)
  /\ \A t \in Task : t # active =>
       /\ mode[t] # "running"
       /\ t \in live <=> mode[t] = "suspended"

Types ==
  /\ m \in Machine
  /\ mode \in [Task -> {"free", "spawned", "running", "suspended"}]
  /\ active \in Task \cup {NoTask}
  /\ live \in SUBSET Task
  /\ view \in [Context -> View]

Invariant == Types /\ Running /\ Modes /\ Frames /\ AllSaved

-----------------------------------------------------------------------------
(* Instructions *)

LEMMA Names ==
  /\ "worker" \in Context /\ "worker" \notin Task /\ "caller" \notin Task
  /\ "tail" \notin Context
  /\ \A t \in Task : t \in Context /\ t # "worker" /\ t # "tail" /\ t # "caller"
  /\ NoTask \notin Task
  BY CoroutineAssumption DEF Context

LEMMA UsedType ==
  ASSUME NEW x \in Machine, x.rsp.n <= Len(x.mem[x.rsp.stk])
  PROVE  /\ Used(x) \in Seq(Word) /\ Len(Used(x)) = x.rsp.n
         /\ \A i \in 1 .. x.rsp.n : Used(x)[i] = x.mem[x.rsp.stk][i]
  <1> DEFINE s == x.mem[x.rsp.stk]
             n == x.rsp.n
  <1>1. s \in Seq(Word) /\ n \in Nat
    BY DEF Machine, Pointer
  <1>2. n <= Len(s)
    OBVIOUS
  <1>3. Used(x) = SubSeq(s, 1, n)
    BY DEF Used
  <1> HIDE DEF s, n
  <1>4. /\ SubSeq(s, 1, n) \in Seq(Word) /\ Len(SubSeq(s, 1, n)) = n
        /\ \A i \in 1 .. n : SubSeq(s, 1, n)[i] = s[i]
    BY <1>1, <1>2
  <1> QED BY <1>3, <1>4 DEF s, n

\* All of a stack.
LEMMA UsedAll ==
  ASSUME NEW x \in Machine, x.rsp.n = Len(x.mem[x.rsp.stk])
  PROVE  Used(x) = x.mem[x.rsp.stk]
  <1> DEFINE s == x.mem[x.rsp.stk]
  <1>1. s \in Seq(Word)
    BY DEF Machine, Pointer
  <1>2. Used(x) = SubSeq(s, 1, Len(s))
    BY DEF Used
  <1> HIDE DEF s
  <1>3. SubSeq(s, 1, Len(s)) = s
    BY <1>1
  <1> QED BY <1>2, <1>3 DEF s

\* push of one word.
LEMMA PushIt ==
  ASSUME NEW x \in Machine, NEW w \in Word, x.rsp.n <= Len(x.mem[x.rsp.stk])
  PROVE  /\ Push(x, w) \in Machine
         /\ Push(x, w).pc = x.pc /\ Push(x, w).regs = x.regs /\ Push(x, w).rax = x.rax
         /\ Push(x, w).env = x.env
         /\ Push(x, w).rsp = [stk |-> x.rsp.stk, n |-> x.rsp.n + 1]
         /\ Push(x, w).mem = [x.mem EXCEPT ![x.rsp.stk] = Append(Used(x), w)]
  <1> DEFINE M == [x.mem EXCEPT ![x.rsp.stk] = Append(Used(x), w)]
             R == [x.rsp EXCEPT !.n = x.rsp.n + 1]
  <1>1. Push(x, w) = [x EXCEPT !.mem = M, !.rsp = R]
    BY DEF Push
  <1>2. M \in [Context -> Seq(Word)]
    <2>1. Append(Used(x), w) \in Seq(Word)
      BY UsedType
    <2> QED BY <2>1 DEF Machine
  <1>3. R \in Pointer /\ R = [stk |-> x.rsp.stk, n |-> x.rsp.n + 1]
    BY DEF Machine, Pointer
  <1> HIDE DEF M, R
  <1>4. /\ Push(x, w) \in Machine /\ Push(x, w).mem = M /\ Push(x, w).rsp = R
        /\ Push(x, w).pc = x.pc /\ Push(x, w).regs = x.regs /\ Push(x, w).rax = x.rax
        /\ Push(x, w).env = x.env
    BY <1>1, <1>2, <1>3 DEF Machine
  <1> QED BY <1>3, <1>4 DEF M

\* The five pushes.
LEMMA PushFive ==
  ASSUME NEW x \in Machine, x.rsp.n <= Len(x.mem[x.rsp.stk])
  PROVE  /\ push(x) \in Machine
         /\ push(x).pc = x.pc /\ push(x).regs = x.regs /\ push(x).rax = x.rax
         /\ push(x).env = x.env
         /\ push(x).rsp = [stk |-> x.rsp.stk, n |-> x.rsp.n + 5]
         /\ push(x).mem = [x.mem EXCEPT ![x.rsp.stk] = Used(x) \o Five(x.regs)]
         /\ Five(x.regs) \in Seq(Word) /\ Len(Five(x.regs)) = 5
  <1> DEFINE M == [x.mem EXCEPT ![x.rsp.stk] = Used(x) \o Five(x.regs)]
             R == [x.rsp EXCEPT !.n = x.rsp.n + 5]
  <1>1. push(x) = [x EXCEPT !.mem = M, !.rsp = R]
    <2>1. Len(Pushed) = 5
      BY DEF Pushed
    <2> QED BY <2>1 DEF push, Five
  <1>2. Five(x.regs) \in Seq(Word) /\ Len(Five(x.regs)) = 5
    <2>1. \A i \in 1 .. 5 : Pushed[i] \in Reg
      BY DEF Pushed, Reg
    <2>2. \A r \in Reg : x.regs[r] \in Word
      BY DEF Machine, Regs, Word
    <2> DEFINE f == [i \in 1 .. 5 |-> x.regs[Pushed[i]]]
    <2>3. f \in [1 .. 5 -> Word]
      BY <2>1, <2>2
    <2>4. Five(x.regs) = f
      BY DEF Five
    <2> HIDE DEF f
    <2>5. f \in Seq(Word)
      BY <2>3, SeqDef
    <2>6. Len(f) = 5
      BY <2>3, <2>5, LenProperties
    <2> QED BY <2>4, <2>5, <2>6
  <1>3. M \in [Context -> Seq(Word)]
    <2>1. Used(x) \o Five(x.regs) \in Seq(Word)
      BY <1>2, UsedType
    <2> QED BY <2>1 DEF Machine
  <1>4. R \in Pointer /\ R = [stk |-> x.rsp.stk, n |-> x.rsp.n + 5]
    BY DEF Machine, Pointer
  <1> HIDE DEF M, R
  <1>5. /\ push(x) \in Machine /\ push(x).mem = M /\ push(x).rsp = R
        /\ push(x).pc = x.pc /\ push(x).regs = x.regs /\ push(x).rax = x.rax
        /\ push(x).env = x.env
    BY <1>1, <1>3, <1>4 DEF Machine
  <1> QED BY <1>2, <1>4, <1>5 DEF M

\* mov of %rbp and %rsp to an environment, and from one.
LEMMA StoreIt ==
  ASSUME NEW x \in Machine, NEW e \in Task \cup {"caller"}
  PROVE  /\ Store(x, e) \in Machine
         /\ Store(x, e).pc = x.pc /\ Store(x, e).regs = x.regs /\ Store(x, e).rax = x.rax
         /\ Store(x, e).rsp = x.rsp /\ Store(x, e).mem = x.mem
         /\ Store(x, e).env = [x.env EXCEPT ![e] = [rbp |-> x.regs["rbp"], rsp |-> x.rsp]]
  <1> DEFINE E == [x.env EXCEPT ![e] = [rbp |-> x.regs["rbp"], rsp |-> x.rsp]]
  <1>1. Store(x, e) = [x EXCEPT !.env = E]
    BY DEF Store
  <1>2. E \in [Task \cup {"caller"} -> Env]
    <2>1. [rbp |-> x.regs["rbp"], rsp |-> x.rsp] \in Env
      BY DEF Machine, Regs, Reg, Env
    <2> QED BY <2>1 DEF Machine
  <1> HIDE DEF E
  <1>3. /\ Store(x, e) \in Machine /\ Store(x, e).env = E
        /\ Store(x, e).pc = x.pc /\ Store(x, e).regs = x.regs /\ Store(x, e).rax = x.rax
        /\ Store(x, e).rsp = x.rsp /\ Store(x, e).mem = x.mem
    BY <1>1, <1>2 DEF Machine
  <1> QED BY <1>3 DEF E

LEMMA LoadIt ==
  ASSUME NEW x \in Machine, NEW e \in Task \cup {"caller"}
  PROVE  /\ Load(x, e) \in Machine
         /\ Load(x, e).pc = x.pc /\ Load(x, e).rax = x.rax
         /\ Load(x, e).mem = x.mem /\ Load(x, e).env = x.env
         /\ Load(x, e).regs = [x.regs EXCEPT !["rbp"] = x.env[e].rbp]
         /\ Load(x, e).rsp = x.env[e].rsp
  <1> DEFINE G == [x.regs EXCEPT !["rbp"] = x.env[e].rbp]
  <1>1. Load(x, e) = [x EXCEPT !.regs = G, !.rsp = x.env[e].rsp]
    BY DEF Load
  <1>2. x.env[e].rbp \in Value /\ x.env[e].rsp \in Pointer
    BY DEF Machine, Env
  <1>3. G \in Regs
    BY <1>2 DEF Machine, Regs
  <1> HIDE DEF G
  <1>4. /\ Load(x, e) \in Machine /\ Load(x, e).regs = G /\ Load(x, e).rsp = x.env[e].rsp
        /\ Load(x, e).pc = x.pc /\ Load(x, e).rax = x.rax
        /\ Load(x, e).mem = x.mem /\ Load(x, e).env = x.env
    BY <1>1, <1>2, <1>3 DEF Machine
  <1> QED BY <1>4 DEF G

\* Words taken off the stack.
LEMMA DropIt ==
  ASSUME NEW x \in Machine, NEW n \in Nat, n <= x.rsp.n,
         x.rsp.n <= Len(x.mem[x.rsp.stk])
  PROVE  /\ Drop(x, n) \in Machine
         /\ Drop(x, n).pc = x.pc /\ Drop(x, n).regs = x.regs /\ Drop(x, n).rax = x.rax
         /\ Drop(x, n).env = x.env
         /\ Drop(x, n).rsp = [stk |-> x.rsp.stk, n |-> x.rsp.n - n]
         /\ Drop(x, n).mem =
              [x.mem EXCEPT ![x.rsp.stk] = SubSeq(x.mem[x.rsp.stk], 1, x.rsp.n - n)]
  <1> DEFINE M == [x.mem EXCEPT ![x.rsp.stk] = SubSeq(x.mem[x.rsp.stk], 1, x.rsp.n - n)]
             R == [x.rsp EXCEPT !.n = x.rsp.n - n]
  <1>1. Drop(x, n) = [x EXCEPT !.mem = M, !.rsp = R]
    BY DEF Drop
  <1>2. M \in [Context -> Seq(Word)]
    <2>1. x.mem[x.rsp.stk] \in Seq(Word) /\ x.rsp.n - n \in Int
          /\ x.rsp.n - n <= Len(x.mem[x.rsp.stk])
      BY DEF Machine, Pointer
    <2>2. SubSeq(x.mem[x.rsp.stk], 1, x.rsp.n - n) \in Seq(Word)
      BY <2>1
    <2> QED BY <2>2 DEF Machine
  <1>3. R \in Pointer /\ R = [stk |-> x.rsp.stk, n |-> x.rsp.n - n]
    BY DEF Machine, Pointer
  <1> HIDE DEF M, R
  <1>4. /\ Drop(x, n) \in Machine /\ Drop(x, n).mem = M /\ Drop(x, n).rsp = R
        /\ Drop(x, n).pc = x.pc /\ Drop(x, n).regs = x.regs /\ Drop(x, n).rax = x.rax
        /\ Drop(x, n).env = x.env
    BY <1>1, <1>2, <1>3 DEF Machine
  <1> QED BY <1>3, <1>4 DEF M

\* ret, from a stack that ends with a return address.
LEMMA RetIt ==
  ASSUME NEW x \in Machine, x.rsp.n >= 1, x.rsp.n <= Len(x.mem[x.rsp.stk]),
         Top(x) \in Context \cup {"tail"}
  PROVE  /\ ret(x) \in Machine
         /\ ret(x).pc = Top(x) /\ ret(x).regs = x.regs /\ ret(x).rax = x.rax
         /\ ret(x).env = x.env
         /\ ret(x).rsp = [stk |-> x.rsp.stk, n |-> x.rsp.n - 1]
         /\ ret(x).mem =
              [x.mem EXCEPT ![x.rsp.stk] = SubSeq(x.mem[x.rsp.stk], 1, x.rsp.n - 1)]
  <1> DEFINE y == [x EXCEPT !.pc = Top(x)]
  <1>1. /\ y \in Machine /\ y.pc = Top(x) /\ y.regs = x.regs /\ y.rax = x.rax
        /\ y.env = x.env /\ y.rsp = x.rsp /\ y.mem = x.mem
    BY DEF Machine
  <1>2. ret(x) = Drop(y, 1)
    BY DEF ret
  <1> HIDE DEF y
  <1>3. 1 <= y.rsp.n /\ y.rsp.n <= Len(y.mem[y.rsp.stk])
    BY <1>1
  <1>4. /\ Drop(y, 1) \in Machine
        /\ Drop(y, 1).pc = y.pc /\ Drop(y, 1).regs = y.regs /\ Drop(y, 1).rax = y.rax
        /\ Drop(y, 1).env = y.env
        /\ Drop(y, 1).rsp = [stk |-> y.rsp.stk, n |-> y.rsp.n - 1]
        /\ Drop(y, 1).mem = [y.mem EXCEPT ![y.rsp.stk] = SubSeq(y.mem[y.rsp.stk], 1, y.rsp.n - 1)]
    BY <1>1, <1>3, DropIt
  <1> QED BY <1>1, <1>2, <1>4

\* The pops take the registers in the order opposite to that of the pushes.
LEMMA Order ==
  /\ Len(Popped) = 5 /\ Len(Pushed) = 5
  /\ \A i \in 1 .. 5 : Popped[i] \in Reg /\ Pushed[i] \in Reg
  /\ \A i \in 1 .. 5 : Pushed[6 - i] = Popped[i]
  /\ \A r \in Reg : r # "rbp" => \E i \in 1 .. 5 : Popped[i] = r
  /\ \A i \in 1 .. 5 : Popped[i] # "rbp"
  <1>1. /\ Popped[1] = "rbx" /\ Popped[2] = "r12" /\ Popped[3] = "r13" /\ Popped[4] = "r14"
        /\ Popped[5] = "r15" /\ Len(Popped) = 5
    BY DEF Popped
  <1>2. /\ Pushed[1] = "r15" /\ Pushed[2] = "r14" /\ Pushed[3] = "r13" /\ Pushed[4] = "r12"
        /\ Pushed[5] = "rbx" /\ Len(Pushed) = 5
    BY DEF Pushed
  <1>3. \A i \in 1 .. 5 : i = 1 \/ i = 2 \/ i = 3 \/ i = 4 \/ i = 5
    OBVIOUS
  <1>4. \A i \in 1 .. 5 : Popped[i] \in Reg /\ Pushed[i] \in Reg /\ Popped[i] # "rbp"
    BY <1>1, <1>2, <1>3 DEF Reg
  <1>5. \A i \in 1 .. 5 : Pushed[6 - i] = Popped[i]
    <2> SUFFICES ASSUME NEW i \in 1 .. 5 PROVE Pushed[6 - i] = Popped[i]
      OBVIOUS
    <2>1. 6 - 1 = 5 /\ 6 - 2 = 4 /\ 6 - 3 = 3 /\ 6 - 4 = 2 /\ 6 - 5 = 1
      OBVIOUS
    <2> QED BY <1>1, <1>2, <1>3, <2>1
  <1>6. \A r \in Reg : r # "rbp" => \E i \in 1 .. 5 : Popped[i] = r
    <2> SUFFICES ASSUME NEW r \in Reg, r # "rbp" PROVE \E i \in 1 .. 5 : Popped[i] = r
      OBVIOUS
    <2>1. r \in {"rbx", "r12", "r13", "r14", "r15"}
      BY DEF Reg
    <2>2. 1 \in 1 .. 5 /\ 2 \in 1 .. 5 /\ 3 \in 1 .. 5 /\ 4 \in 1 .. 5 /\ 5 \in 1 .. 5
      OBVIOUS
    <2> QED BY <1>1, <2>1, <2>2
  <1> QED BY <1>1, <1>2, <1>4, <1>5, <1>6

\* pop from a stack where the words under the stack pointer are the pushed
\* registers g.
LEMMA PopIt ==
  ASSUME NEW x \in Machine, x.rsp.n >= 5, x.rsp.n <= Len(x.mem[x.rsp.stk]),
         NEW g \in Regs, x.regs["rbp"] = g["rbp"],
         \A j \in 1 .. 5 : x.mem[x.rsp.stk][x.rsp.n - 5 + j] = g[Pushed[j]]
  PROVE  /\ pop(x) \in Machine
         /\ pop(x).pc = x.pc /\ pop(x).regs = g /\ pop(x).rax = x.rax
         /\ pop(x).env = x.env
         /\ pop(x).rsp = [stk |-> x.rsp.stk, n |-> x.rsp.n - 5]
         /\ pop(x).mem =
              [x.mem EXCEPT ![x.rsp.stk] = SubSeq(x.mem[x.rsp.stk], 1, x.rsp.n - 5)]
  <1> DEFINE s == x.mem[x.rsp.stk]
             At(r) == CHOOSE i \in 1 .. Len(Popped) : Popped[i] = r
             G == [r \in Reg |-> IF \E i \in 1 .. Len(Popped) : Popped[i] = r
                                 THEN s[x.rsp.n + 1 - At(r)] ELSE x.regs[r]]
             y == [x EXCEPT !.regs = G]
  <1>1. pop(x) = Drop(y, 5)
    BY Order DEF pop
  <1>2. G = g
    <2>1. ASSUME NEW r \in Reg PROVE G[r] = g[r]
      <3>1. CASE r = "rbp"
        <4>1. ~ \E i \in 1 .. Len(Popped) : Popped[i] = r
          BY <3>1, Order
        <4>2. G[r] = x.regs[r]
          BY <4>1
        <4> QED BY <3>1, <4>2
      <3>2. CASE r # "rbp"
        <4>1. \E i \in 1 .. Len(Popped) : Popped[i] = r
          BY <3>2, Order
        <4>2. At(r) \in 1 .. Len(Popped) /\ Popped[At(r)] = r
          BY <4>1
        <4>3. G[r] = s[x.rsp.n + 1 - At(r)]
          BY <4>1
        <4> HIDE DEF At, G, s
        <4>4. PICK i \in 1 .. 5 : i = At(r) /\ Popped[i] = r
          BY <4>2, Order
        <4>5. x.rsp.n \in Nat
          BY DEF Machine, Pointer
        <4>6. 6 - i \in 1 .. 5 /\ x.rsp.n - 5 + (6 - i) = x.rsp.n + 1 - i
          BY <4>5
        <4>7. s[x.rsp.n - 5 + (6 - i)] = g[Pushed[6 - i]]
          BY <4>6 DEF s
        <4>8. Pushed[6 - i] = r
          BY <4>4, Order
        <4> QED BY <4>3, <4>4, <4>6, <4>7, <4>8
      <3> QED BY <3>1, <3>2
    <2> QED BY <2>1 DEF Regs
  <1> HIDE DEF G
  <1>3. /\ y \in Machine /\ y.pc = x.pc /\ y.regs = g /\ y.rax = x.rax
        /\ y.env = x.env /\ y.rsp = x.rsp /\ y.mem = x.mem
    BY <1>2 DEF Machine
  <1> HIDE DEF y
  <1>4. 5 <= y.rsp.n /\ y.rsp.n <= Len(y.mem[y.rsp.stk])
    BY <1>3
  <1>5. /\ Drop(y, 5) \in Machine
        /\ Drop(y, 5).pc = y.pc /\ Drop(y, 5).regs = y.regs /\ Drop(y, 5).rax = y.rax
        /\ Drop(y, 5).env = y.env
        /\ Drop(y, 5).rsp = [stk |-> y.rsp.stk, n |-> y.rsp.n - 5]
        /\ Drop(y, 5).mem = [y.mem EXCEPT ![y.rsp.stk] = SubSeq(y.mem[y.rsp.stk], 1, y.rsp.n - 5)]
    BY <1>3, <1>4, DropIt
  <1> QED BY <1>1, <1>3, <1>5

-----------------------------------------------------------------------------
(* The two halves of a switch *)

LEMMA Front ==
  ASSUME NEW S, NEW a \in Seq(S), NEW b \in Seq(S)
  PROVE  /\ a \o b \in Seq(S) /\ Len(a \o b) = Len(a) + Len(b)
         /\ SubSeq(a \o b, 1, Len(a)) = a
         /\ \A i \in 1 .. Len(a) : (a \o b)[i] = a[i]
         /\ \A i \in 1 .. Len(b) : (a \o b)[Len(a) + i] = b[i]
  <1>1. /\ a \o b \in Seq(S) /\ Len(a \o b) = Len(a) + Len(b)
        /\ Len(a) \in Nat /\ Len(b) \in Nat
    OBVIOUS
  <1>2. \A i \in 1 .. Len(a) : (a \o b)[i] = a[i]
    BY <1>1
  <1>3. \A i \in 1 .. Len(b) : (a \o b)[Len(a) + i] = b[i]
    BY <1>1
  <1> DEFINE s == SubSeq(a \o b, 1, Len(a))
  <1>4. s \in Seq(S) /\ Len(s) = Len(a) /\ \A i \in 1 .. Len(a) : s[i] = (a \o b)[i]
    <2> DEFINE t == a \o b
    <2>1. t \in Seq(S) /\ Len(a) \in Nat /\ Len(a) <= Len(t)
      BY <1>1
    <2> HIDE DEF t
    <2> QED BY <2>1
  <1> HIDE DEF s
  <1>5. s = a
    BY <1>1, <1>2, <1>4, SeqEqual
  <1> QED BY <1>1, <1>2, <1>3, <1>5 DEF s

\* A context gives up control: its return address and registers go on top of
\* what it has on its stack.
LEMMA Leave ==
  ASSUME NEW x \in Machine, NEW c \in Context, x.pc = c,
         x.rsp = [stk |-> c, n |-> Len(x.mem[c])]
  PROVE  LET y == push(Push(x, x.pc))
         IN  /\ y \in Machine /\ y.pc = c /\ y.regs = x.regs /\ y.rax = x.rax /\ y.env = x.env
             /\ y.rsp = [stk |-> c, n |-> Len(x.mem[c]) + 6]
             /\ y.mem = [x.mem EXCEPT ![c] = (x.mem[c] \o <<c>>) \o Five(x.regs)]
             /\ Seen(x) = [regs |-> x.regs, rsp |-> x.rsp, stack |-> x.mem[c]]
             /\ Seen(x) \in View
  <1> DEFINE p == Push(x, x.pc)
             s == x.mem[c]
  <1>1. s \in Seq(Word) /\ Len(s) \in Nat /\ x.mem \in [Context -> Seq(Word)]
    BY DEF Machine
  <1>2. x.rsp.stk = c /\ x.rsp.n = Len(s)
    OBVIOUS
  <1>3. Used(x) = s
    BY <1>2, UsedAll
  <1>4. x.pc \in Word
    BY DEF Word
  <1>5. /\ p \in Machine
        /\ p.pc = x.pc /\ p.regs = x.regs /\ p.rax = x.rax /\ p.env = x.env
        /\ p.rsp = [stk |-> c, n |-> Len(s) + 1]
        /\ p.mem = [x.mem EXCEPT ![c] = Append(s, c)]
    <2>1. x.rsp.n <= Len(x.mem[x.rsp.stk])
      BY <1>1, <1>2
    <2>2. /\ p \in Machine
          /\ p.pc = x.pc /\ p.regs = x.regs /\ p.rax = x.rax /\ p.env = x.env
          /\ p.rsp = [stk |-> x.rsp.stk, n |-> x.rsp.n + 1]
          /\ p.mem = [x.mem EXCEPT ![x.rsp.stk] = Append(Used(x), x.pc)]
      BY <2>1, <1>4, PushIt
    <2> HIDE DEF p, s
    <2> QED BY <1>2, <1>3, <2>2
  <1> HIDE DEF p
  <1>6. Append(s, c) = s \o <<c>> /\ Len(Append(s, c)) = Len(s) + 1
    BY <1>1, AppendIsConcat, <1>4
  <1>7. p.mem[c] = s \o <<c>> /\ Len(p.mem[c]) = Len(s) + 1
    BY <1>1, <1>5, <1>6
  <1>8. p.rsp.n = Len(p.mem[p.rsp.stk]) /\ p.rsp.stk = c
    BY <1>5, <1>7
  <1>9. Used(p) = s \o <<c>>
    BY <1>5, <1>7, <1>8, UsedAll
  <1>10. /\ push(p) \in Machine
         /\ push(p).pc = c /\ push(p).regs = x.regs /\ push(p).rax = x.rax
         /\ push(p).env = x.env
         /\ push(p).rsp = [stk |-> c, n |-> p.rsp.n + 5]
         /\ push(p).mem = [p.mem EXCEPT ![c] = (s \o <<c>>) \o Five(x.regs)]
    <2>1. p.rsp.n <= Len(p.mem[p.rsp.stk])
      BY <1>5, <1>8 DEF Machine, Pointer
    <2> QED BY <2>1, <1>5, <1>8, <1>9, PushFive
  <1>11. p.rsp.n + 5 = Len(s) + 6
    BY <1>1, <1>5
  <1>12. [p.mem EXCEPT ![c] = (s \o <<c>>) \o Five(x.regs)]
         = [x.mem EXCEPT ![c] = (s \o <<c>>) \o Five(x.regs)]
    BY <1>1, <1>5
  <1>13. Seen(x) = [regs |-> x.regs, rsp |-> x.rsp, stack |-> s]
    BY <1>3 DEF Seen
  <1>14. Seen(x) \in View
    BY <1>1, <1>13 DEF View, Machine
  <1> QED BY <1>10, <1>11, <1>12, <1>13, <1>14 DEF p

\* A context gets control: its registers and its return address come off the
\* stack.
LEMMA Enter ==
  ASSUME NEW y \in Machine, NEW c \in Context, NEW v \in View, Saved(y, c, v)
  PROVE  LET z == ret(pop(Load(y, EnvOf(c))))
         IN  /\ z \in Machine /\ z.pc = c /\ z.regs = v.regs /\ z.rax = y.rax
             /\ z.rsp = v.rsp /\ z.rsp = [stk |-> c, n |-> Len(v.stack)]
             /\ z.mem = [y.mem EXCEPT ![c] = v.stack] /\ z.env = y.env
             /\ Seen(z) = v
  <1> DEFINE s == v.stack
             n == Len(s)
             five == Five(v.regs)
             l == Load(y, EnvOf(c))
             o == pop(l)
             z == ret(o)
  <1>1. /\ s \in Seq(Word) /\ n \in Nat /\ v.regs \in Regs /\ v.rsp = [stk |-> c, n |-> n]
        /\ v = [regs |-> v.regs, rsp |-> v.rsp, stack |-> s]
    BY DEF View, Saved
  <1>2. five \in Seq(Word) /\ Len(five) = 5 /\ \A j \in 1 .. 5 : five[j] = v.regs[Pushed[j]]
    <2>1. \A i \in 1 .. 5 : Pushed[i] \in Reg
      BY Order
    <2>2. \A r \in Reg : v.regs[r] \in Word
      BY <1>1 DEF Regs, Word
    <2> DEFINE f == [i \in 1 .. 5 |-> v.regs[Pushed[i]]]
    <2>3. f \in [1 .. 5 -> Word] /\ \A j \in 1 .. 5 : f[j] = v.regs[Pushed[j]]
      BY <2>1, <2>2
    <2>4. five = f
      BY DEF Five
    <2> HIDE DEF f, five
    <2>5. f \in Seq(Word)
      BY <2>3, SeqDef
    <2>6. Len(f) = 5
      BY <2>3, <2>5, LenProperties
    <2> QED BY <2>3, <2>4, <2>5, <2>6
  <1>3. <<c>> \in Seq(Word) /\ Len(<<c>>) = 1 /\ <<c>>[1] = c
    BY DEF Word
  <1>4. EnvOf(c) \in Task \cup {"caller"}
    BY Names DEF EnvOf, Context
  <1> DEFINE sc == s \o <<c>>
  <1>5. /\ sc \in Seq(Word) /\ Len(sc) = n + 1 /\ SubSeq(sc, 1, n) = s /\ sc[n + 1] = c
    <2>1. /\ sc \in Seq(Word) /\ Len(sc) = Len(s) + Len(<<c>>) /\ SubSeq(sc, 1, Len(s)) = s
          /\ \A i \in 1 .. Len(<<c>>) : sc[Len(s) + i] = <<c>>[i]
      BY <1>1, <1>3, Front
    <2> HIDE DEF sc
    <2>2. 1 \in 1 .. Len(<<c>>)
      BY <1>3
    <2> QED BY <1>1, <1>3, <2>1, <2>2
  <1>6. /\ sc \o five \in Seq(Word) /\ Len(sc \o five) = n + 6
        /\ SubSeq(sc \o five, 1, n + 1) = sc
        /\ \A i \in 1 .. 5 : (sc \o five)[n + 1 + i] = five[i]
    <2> HIDE DEF sc, five
    <2>1. /\ sc \o five \in Seq(Word) /\ Len(sc \o five) = Len(sc) + Len(five)
          /\ SubSeq(sc \o five, 1, Len(sc)) = sc
          /\ \A i \in 1 .. Len(five) : (sc \o five)[Len(sc) + i] = five[i]
      <3>1. sc \in Seq(Word)
        BY <1>5
      <3>2. five \in Seq(Word)
        BY <1>2
      <3>3. ASSUME NEW a \in Seq(Word), NEW b \in Seq(Word)
            PROVE  /\ a \o b \in Seq(Word) /\ Len(a \o b) = Len(a) + Len(b)
                   /\ SubSeq(a \o b, 1, Len(a)) = a
                   /\ \A i \in 1 .. Len(b) : (a \o b)[Len(a) + i] = b[i]
        BY Front
      <3> QED BY <3>1, <3>2, <3>3, Zenon
    <2> QED BY <1>1, <1>2, <1>5, <2>1
  <1>7. /\ y.mem[c] = sc \o five
        /\ y.env[EnvOf(c)].rbp = v.regs["rbp"]
        /\ y.env[EnvOf(c)].rsp = [stk |-> c, n |-> n + 6]
    BY DEF Saved
  <1> HIDE DEF sc, five, s, n
  <1>8. /\ l \in Machine /\ l.pc = y.pc /\ l.rax = y.rax /\ l.mem = y.mem /\ l.env = y.env
        /\ l.regs = [y.regs EXCEPT !["rbp"] = v.regs["rbp"]]
        /\ l.rsp = [stk |-> c, n |-> n + 6]
    BY <1>4, <1>7, LoadIt
  <1> HIDE DEF l
  <1>9. l.rsp.stk = c /\ l.rsp.n = n + 6 /\ l.mem[c] = sc \o five /\ Len(l.mem[c]) = n + 6
    <2>1. l.rsp.stk = c /\ l.rsp.n = n + 6
      BY <1>8
    <2>2. l.mem[c] = sc \o five
      BY <1>7, <1>8
    <2>3. Len(sc \o five) = n + 6
      BY <1>6
    <2> QED BY <2>1, <2>2, <2>3
  <1>10. l.regs["rbp"] = v.regs["rbp"]
    BY <1>8 DEF Machine, Regs, Reg
  <1>11. \A j \in 1 .. 5 : l.mem[l.rsp.stk][l.rsp.n - 5 + j] = v.regs[Pushed[j]]
    <2> SUFFICES ASSUME NEW j \in 1 .. 5
                 PROVE  l.mem[l.rsp.stk][l.rsp.n - 5 + j] = v.regs[Pushed[j]]
      OBVIOUS
    <2>1. l.rsp.n - 5 + j = n + 1 + j
      BY <1>1, <1>9
    <2> QED BY <1>2, <1>6, <1>9, <2>1
  <1>12. l.rsp.n >= 5 /\ l.rsp.n <= Len(l.mem[l.rsp.stk]) /\ l.rsp.n - 5 = n + 1
    BY <1>1, <1>9
  <1>13. /\ o \in Machine /\ o.pc = l.pc /\ o.regs = v.regs /\ o.rax = l.rax /\ o.env = l.env
         /\ o.rsp = [stk |-> l.rsp.stk, n |-> l.rsp.n - 5]
         /\ o.mem = [l.mem EXCEPT ![l.rsp.stk] = SubSeq(l.mem[l.rsp.stk], 1, l.rsp.n - 5)]
    BY <1>1, <1>8, <1>10, <1>11, <1>12, PopIt
  <1> HIDE DEF o
  <1>14. /\ o.rsp = [stk |-> c, n |-> n + 1] /\ o.rsp.stk = c /\ o.rsp.n = n + 1
         /\ o.mem = [y.mem EXCEPT ![c] = sc] /\ o.mem[c] = sc
    <2>1. l.mem \in [Context -> Seq(Word)]
      BY <1>8 DEF Machine
    <2>2. SubSeq(l.mem[c], 1, n + 1) = sc
      BY <1>6, <1>9
    <2>3. o.rsp = [stk |-> c, n |-> n + 1]
      BY <1>9, <1>12, <1>13
    <2>4. o.mem = [l.mem EXCEPT ![c] = sc]
      BY <1>9, <1>12, <1>13, <2>2
    <2>5. o.mem = [y.mem EXCEPT ![c] = sc]
      BY <1>8, <2>4
    <2>6. o.mem[c] = sc
      BY <2>1, <2>4
    <2> QED BY <2>3, <2>5, <2>6
  <1>15. Top(o) = c
    BY <1>5, <1>14 DEF Top
  <1>16. o.rsp.n >= 1 /\ o.rsp.n <= Len(o.mem[o.rsp.stk]) /\ o.rsp.n - 1 = n
    BY <1>1, <1>5, <1>14
  <1>17. /\ z \in Machine /\ z.pc = c /\ z.regs = o.regs /\ z.rax = o.rax /\ z.env = o.env
         /\ z.rsp = [stk |-> c, n |-> n]
         /\ z.mem = [o.mem EXCEPT ![c] = SubSeq(o.mem[c], 1, n)]
    <2>1. Top(o) \in Context \cup {"tail"}
      BY <1>15
    <2>2. /\ z \in Machine /\ z.pc = Top(o) /\ z.regs = o.regs /\ z.rax = o.rax /\ z.env = o.env
          /\ z.rsp = [stk |-> o.rsp.stk, n |-> o.rsp.n - 1]
          /\ z.mem = [o.mem EXCEPT ![o.rsp.stk] = SubSeq(o.mem[o.rsp.stk], 1, o.rsp.n - 1)]
      BY <1>13, <1>16, <2>1, RetIt
    <2> HIDE DEF z
    <2>3. o.rsp.stk = c
      BY <1>14
    <2> QED BY <1>15, <1>16, <2>2, <2>3
  <1> HIDE DEF z
  <1>18. z.mem = [y.mem EXCEPT ![c] = s] /\ z.mem[c] = s
    <2>1. y.mem \in [Context -> Seq(Word)]
      BY DEF Machine
    <2> QED BY <1>5, <1>14, <1>17, <2>1
  <1>19. Used(z) = s
    <2>1. z.rsp.stk = c /\ z.rsp.n = n
      BY <1>17
    <2>2. z.rsp.n = Len(z.mem[z.rsp.stk])
      BY <1>18, <2>1 DEF n
    <2>3. Used(z) = z.mem[z.rsp.stk]
      BY <1>17, <2>2, UsedAll
    <2> QED BY <1>18, <2>1, <2>3
  <1>20. Seen(z) = v
    BY <1>1, <1>13, <1>17, <1>19 DEF Seen, n
  <1>21. /\ z.regs = v.regs /\ z.rax = y.rax /\ z.env = y.env /\ z.rsp = v.rsp
    BY <1>1, <1>8, <1>13, <1>17
  <1> QED BY <1>17, <1>18, <1>20, <1>21 DEF z, o, l, s, n

-----------------------------------------------------------------------------
(* Whole switches *)

LEMMA Homes ==
  /\ \A c \in Context : EnvOf(c) \in Task \cup {"caller"}
  /\ \A c, d \in Context : c # d => EnvOf(c) # EnvOf(d)
  /\ EnvOf("worker") = "caller"
  /\ \A t \in Task : EnvOf(t) = t
  BY Names DEF EnvOf, Context

\* A context that is not switched keeps what it was saved with.
LEMMA Untouched ==
  ASSUME NEW x, NEW y, NEW c, NEW v, Saved(x, c, v),
         y.mem[c] = x.mem[c], y.env[EnvOf(c)] = x.env[EnvOf(c)]
  PROVE  Saved(y, c, v)
  BY DEF Saved

\* From context c to context d.
LEMMA Swap ==
  ASSUME NEW x \in Machine, NEW c \in Context, NEW d \in Context, c # d,
         x.pc = c, x.rsp = [stk |-> c, n |-> Len(x.mem[c])],
         NEW v \in View, Saved(x, d, v),
         NEW signal \in Result \cup {Suspended, Resumed}
  PROVE  LET z == law_cor_swap_x86_64(x, EnvOf(c), EnvOf(d), signal)
         IN  /\ z \in Machine /\ z.pc = d /\ z.rax = signal
             /\ z.rsp = [stk |-> d, n |-> Len(v.stack)] /\ z.mem[d] = v.stack
             /\ Seen(z) = v
             /\ Seen(x) \in View /\ Seen(x).stack = x.mem[c]
             /\ Saved(z, c, Seen(x))
             /\ \A e \in Context : e # c /\ e # d =>
                  z.mem[e] = x.mem[e] /\ z.env[EnvOf(e)] = x.env[EnvOf(e)]
  <1> DEFINE p == push(Push(x, x.pc))
             y == Store(p, EnvOf(c))
             w == ret(pop(Load(y, EnvOf(d))))
             z == [w EXCEPT !.rax = signal]
  <1>1. law_cor_swap_x86_64(x, EnvOf(c), EnvOf(d), signal) = z
    BY DEF law_cor_swap_x86_64
  <1>2. /\ p \in Machine /\ p.regs = x.regs /\ p.env = x.env
        /\ p.rsp = [stk |-> c, n |-> Len(x.mem[c]) + 6]
        /\ p.mem = [x.mem EXCEPT ![c] = (x.mem[c] \o <<c>>) \o Five(x.regs)]
        /\ Seen(x) = [regs |-> x.regs, rsp |-> x.rsp, stack |-> x.mem[c]]
        /\ Seen(x) \in View
    BY Leave
  <1> HIDE DEF p
  <1>3. /\ y \in Machine /\ y.mem = p.mem
        /\ y.env = [p.env EXCEPT ![EnvOf(c)] = [rbp |-> p.regs["rbp"], rsp |-> p.rsp]]
    BY <1>2, Homes, StoreIt
  <1> HIDE DEF y
  <1>4. /\ EnvOf(c) \in Task \cup {"caller"}
        /\ x.mem \in [Context -> Seq(Word)] /\ x.env \in [Task \cup {"caller"} -> Env]
    BY Homes DEF Machine
  <1>5. Saved(y, c, Seen(x))
    <2>1. /\ Seen(x).regs = x.regs /\ Seen(x).stack = x.mem[c]
          /\ Seen(x).rsp = [stk |-> c, n |-> Len(x.mem[c])]
      BY <1>2
    <2>2. y.mem[c] = (x.mem[c] \o <<c>>) \o Five(x.regs)
      BY <1>2, <1>3, <1>4
    <2>3. p.env \in [Task \cup {"caller"} -> Env]
      BY <1>2, <1>4
    <2>4. y.env[EnvOf(c)] = [rbp |-> p.regs["rbp"], rsp |-> p.rsp]
      BY <1>3, <1>4, <2>3
    <2>5. y.env[EnvOf(c)] = [rbp |-> x.regs["rbp"], rsp |-> [stk |-> c, n |-> Len(x.mem[c]) + 6]]
      BY <1>2, <2>4
    <2> QED BY <2>1, <2>2, <2>5 DEF Saved
  <1>6. \A e \in Context : e # c => y.mem[e] = x.mem[e] /\ y.env[EnvOf(e)] = x.env[EnvOf(e)]
    <2> SUFFICES ASSUME NEW e \in Context, e # c
                 PROVE  y.mem[e] = x.mem[e] /\ y.env[EnvOf(e)] = x.env[EnvOf(e)]
      OBVIOUS
    <2>1. EnvOf(e) \in Task \cup {"caller"} /\ EnvOf(e) # EnvOf(c)
      BY Homes
    <2> QED BY <1>2, <1>3, <1>4, <2>1
  <1>7. Saved(y, d, v)
    BY <1>6, Untouched
  <1>8. /\ w \in Machine /\ w.pc = d /\ w.regs = v.regs
        /\ w.rsp = v.rsp /\ w.rsp = [stk |-> d, n |-> Len(v.stack)]
        /\ w.mem = [y.mem EXCEPT ![d] = v.stack] /\ w.env = y.env
        /\ Seen(w) = v
    BY <1>3, <1>7, Enter
  <1> HIDE DEF w
  <1>9. /\ z \in Machine /\ z.pc = d /\ z.rax = signal /\ z.regs = w.regs
        /\ z.rsp = w.rsp /\ z.mem = w.mem /\ z.env = w.env
    BY <1>8 DEF Machine
  <1> HIDE DEF z
  <1>10. Seen(z) = v
    BY <1>8, <1>9 DEF Seen, Used
  <1>11. y.mem \in [Context -> Seq(Word)]
    BY <1>3 DEF Machine
  <1>12. z.mem[d] = v.stack
    BY <1>8, <1>9, <1>11
  <1>13. \A e \in Context : e # d =>
           z.mem[e] = y.mem[e] /\ z.env[EnvOf(e)] = y.env[EnvOf(e)]
    BY <1>8, <1>9, <1>11
  <1>14. Saved(z, c, Seen(x))
    BY <1>5, <1>13, Untouched
  <1>15. Seen(x).stack = x.mem[c]
    BY <1>2
  <1> QED BY <1>1, <1>2, <1>6, <1>8, <1>9, <1>10, <1>12, <1>13, <1>14, <1>15

\* The worker enters a callback on a new stack.
LEMMA Call ==
  ASSUME NEW x \in Machine, NEW t \in Task,
         x.pc = "worker", x.rsp = [stk |-> "worker", n |-> Len(x.mem["worker"])]
  PROVE  LET z == Push(law_cor_call(x, t), law_cor_call(x, t).regs)
         IN  /\ z \in Machine /\ z.pc = t
             /\ z.rsp = [stk |-> t, n |-> Len(z.mem[t])] /\ Frame(z.mem[t])
             /\ Seen(x) \in View
             /\ Saved(z, "worker", Seen(x))
             /\ \A e \in Task : e # t =>
                  z.mem[e] = x.mem[e] /\ z.env[EnvOf(e)] = x.env[EnvOf(e)]
  <1> DEFINE end == [stk |-> t, n |-> 0]
             both == [rbp |-> end, rsp |-> end]
             E == [x.env EXCEPT ![t] = both]
             x1 == [x EXCEPT !.env = E]
             p == push(Push(x1, x1.pc))
             G == [p.regs EXCEPT !["r15"] = [env |-> "caller"]]
             q == [p EXCEPT !.regs = G]
             y == Store(q, "caller")
             l == Load(y, t)
             k == Push(l, "tail")
             j == [k EXCEPT !.pc = t]
             z == Push(j, j.regs)
  <1>1. law_cor_call(x, t) = j
    BY DEF law_cor_call, law_cor_call_x86_64
  <1>2. /\ x.mem \in [Context -> Seq(Word)] /\ x.env \in [Task \cup {"caller"} -> Env]
        /\ t \in Context /\ "worker" \in Context /\ t # "worker" /\ t # "caller"
    BY Names DEF Machine
  <1>3. end \in Pointer /\ both \in Env /\ both.rbp = end /\ both.rsp = end
    BY <1>2 DEF Pointer, Env, Value
  <1> HIDE DEF both
  <1>4. E \in [Task \cup {"caller"} -> Env] /\ E[t] = both
        /\ \A e \in Task : e # t => E[e] = x.env[e]
    BY <1>2, <1>3
  <1> HIDE DEF E
  <1>5. /\ x1 \in Machine /\ x1.pc = "worker" /\ x1.regs = x.regs /\ x1.env = E
        /\ x1.rsp = x.rsp /\ x1.mem = x.mem
    BY <1>4 DEF Machine
  <1> HIDE DEF x1
  <1>6. Seen(x1) = Seen(x)
    BY <1>5 DEF Seen, Used
  <1>7. /\ p \in Machine /\ p.regs = x1.regs /\ p.env = x1.env
        /\ p.rsp = [stk |-> "worker", n |-> Len(x1.mem["worker"]) + 6]
        /\ p.mem = [x1.mem EXCEPT !["worker"] =
                      (x1.mem["worker"] \o <<"worker">>) \o Five(x1.regs)]
        /\ Seen(x1) = [regs |-> x1.regs, rsp |-> x1.rsp, stack |-> x1.mem["worker"]]
        /\ Seen(x1) \in View
    <2>1. x1.rsp = [stk |-> "worker", n |-> Len(x1.mem["worker"])]
      BY <1>5
    <2> QED BY <1>2, <1>5, <2>1, Leave
  <1> HIDE DEF p
  <1>8. G \in Regs /\ G["r15"] = [env |-> "caller"] /\ G["rbp"] = p.regs["rbp"]
    <2>1. [env |-> "caller"] \in Value
      BY DEF Value
    <2>2. p.regs \in [Reg -> Value]
      BY <1>7 DEF Machine, Regs
    <2> QED BY <2>1, <2>2 DEF Regs, Reg
  <1> HIDE DEF G
  <1>9. q \in Machine /\ q.regs = G /\ q.env = E /\ q.rsp = p.rsp /\ q.mem = p.mem
    BY <1>5, <1>7, <1>8 DEF Machine
  <1> HIDE DEF q
  <1>10. /\ y \in Machine /\ y.regs = G /\ y.rsp = q.rsp /\ y.mem = q.mem
         /\ y.env = [q.env EXCEPT !["caller"] = [rbp |-> q.regs["rbp"], rsp |-> q.rsp]]
    BY <1>9, StoreIt
  <1> HIDE DEF y
  <1>11. Saved(y, "worker", Seen(x))
    <2> DEFINE top == (x.mem["worker"] \o <<"worker">>) \o Five(x.regs)
    <2>0. p.mem = [x.mem EXCEPT !["worker"] = top]
      BY <1>5, <1>7
    <2> HIDE DEF top
    <2>1. y.mem["worker"] = top
      BY <1>2, <1>9, <1>10, <2>0
    <2>2. y.env["caller"] = [rbp |-> q.regs["rbp"], rsp |-> q.rsp]
      BY <1>4, <1>9, <1>10
    <2>3. q.regs["rbp"] = x.regs["rbp"]
      BY <1>5, <1>7, <1>8, <1>9
    <2>4. q.rsp = [stk |-> "worker", n |-> Len(x.mem["worker"]) + 6]
      BY <1>5, <1>7, <1>9
    <2>5. Seen(x) = [regs |-> x.regs, rsp |-> x.rsp, stack |-> x.mem["worker"]]
      BY <1>5, <1>6, <1>7
    <2>6. /\ Seen(x).regs = x.regs /\ Seen(x).stack = x.mem["worker"]
          /\ Seen(x).rsp = [stk |-> "worker", n |-> Len(x.mem["worker"])]
      BY <2>5
    <2>7. EnvOf("worker") = "caller"
      BY Homes
    <2> QED BY <2>1, <2>2, <2>3, <2>4, <2>6, <2>7 DEF Saved, top
  <1>12. y.env[t] = both /\ \A e \in Task : e # t => y.env[e] = x.env[e]
    BY <1>2, <1>4, <1>9, <1>10, Names
  <1>13. \A e \in Task : y.mem[e] = x.mem[e]
    BY <1>2, <1>5, <1>7, <1>9, <1>10, Names
  <1>14. /\ l \in Machine /\ l.mem = y.mem /\ l.env = y.env /\ l.rsp = end
         /\ l.regs = [y.regs EXCEPT !["rbp"] = y.env[t].rbp]
    BY <1>3, <1>10, <1>12, LoadIt
  <1>15. l.regs \in Regs /\ l.regs["r15"] = [env |-> "caller"]
    <2>1. l.regs \in Regs
      BY <1>14 DEF Machine
    <2>2. y.regs \in [Reg -> Value] /\ y.regs["r15"] = [env |-> "caller"]
      BY <1>8, <1>10 DEF Regs
    <2> QED BY <1>14, <2>1, <2>2 DEF Reg
  <1> HIDE DEF l
  <1>16. l.mem \in [Context -> Seq(Word)] /\ Len(l.mem[t]) \in Nat
    BY <1>2, <1>14 DEF Machine
  <1>17. l.rsp.stk = t /\ l.rsp.n = 0 /\ l.rsp.n <= Len(l.mem[l.rsp.stk])
    BY <1>14, <1>16
  <1>18. Used(l) \in Seq(Word) /\ Len(Used(l)) = 0
    BY <1>14, <1>17, UsedType
  <1>19. /\ k \in Machine /\ k.regs = l.regs /\ k.env = y.env
         /\ k.rsp = [stk |-> t, n |-> 1]
         /\ k.mem = [y.mem EXCEPT ![t] = Append(Used(l), "tail")]
    <2>1. "tail" \in Word
      BY DEF Word
    <2>2. /\ k \in Machine /\ k.regs = l.regs /\ k.env = l.env
          /\ k.rsp = [stk |-> l.rsp.stk, n |-> l.rsp.n + 1]
          /\ k.mem = [l.mem EXCEPT ![l.rsp.stk] = Append(Used(l), "tail")]
      BY <1>14, <1>17, <2>1, PushIt
    <2> HIDE DEF k
    <2> QED BY <1>14, <1>17, <2>2
  <1> HIDE DEF k
  <1>20. /\ j \in Machine /\ j.pc = t /\ j.regs = l.regs /\ j.env = y.env
         /\ j.rsp = [stk |-> t, n |-> 1] /\ j.mem = k.mem
    BY <1>2, <1>19 DEF Machine
  <1> HIDE DEF j
  <1>21. /\ j.mem[t] = Append(Used(l), "tail") /\ Len(j.mem[t]) = 1 /\ j.mem[t][1] = "tail"
         /\ j.mem[t] \in Seq(Word)
    <2>1. j.mem[t] = Append(Used(l), "tail")
      BY <1>2, <1>14, <1>16, <1>19, <1>20
    <2>2. "tail" \in Word
      BY DEF Word
    <2> QED BY <1>18, <2>1, <2>2, AppendProperties
  <1>22. j.rsp.stk = t /\ j.rsp.n = 1 /\ j.rsp.n = Len(j.mem[j.rsp.stk])
    <2>1. j.rsp.stk = t /\ j.rsp.n = 1
      BY <1>20
    <2>2. Len(j.mem[t]) = 1
      BY <1>21
    <2> QED BY <2>1, <2>2
  <1>23. Used(j) = j.mem[t]
    <2>1. Used(j) = j.mem[j.rsp.stk]
      BY <1>20, <1>22, UsedAll
    <2> QED BY <1>22, <2>1
  <1>24. /\ z \in Machine /\ z.pc = t /\ z.env = y.env
         /\ z.rsp = [stk |-> t, n |-> 2]
         /\ z.mem = [j.mem EXCEPT ![t] = Append(j.mem[t], j.regs)]
    <2>1. j.regs \in Word
      BY <1>15, <1>20 DEF Word
    <2>2. j.rsp.n <= Len(j.mem[j.rsp.stk])
      BY <1>22
    <2>3. /\ z \in Machine /\ z.pc = j.pc /\ z.env = j.env
          /\ z.rsp = [stk |-> j.rsp.stk, n |-> j.rsp.n + 1]
          /\ z.mem = [j.mem EXCEPT ![j.rsp.stk] = Append(Used(j), j.regs)]
      BY <1>20, <2>1, <2>2, PushIt
    <2> HIDE DEF z
    <2>4. z.pc = t /\ z.env = y.env
      BY <1>20, <2>3
    <2>5. z.rsp = [stk |-> t, n |-> 2]
      BY <1>22, <2>3
    <2>6. z.mem = [j.mem EXCEPT ![t] = Append(j.mem[t], j.regs)]
      BY <1>22, <1>23, <2>3
    <2> QED BY <2>3, <2>4, <2>5, <2>6
  <1> HIDE DEF z
  <1>25. j.mem \in [Context -> Seq(Word)]
    BY <1>20 DEF Machine
  <1>26. /\ Len(z.mem[t]) = 2 /\ z.mem[t][1] = "tail" /\ z.mem[t][2] = l.regs
    <2>1. z.mem[t] = Append(j.mem[t], l.regs)
      BY <1>2, <1>20, <1>24, <1>25
    <2>2. l.regs \in Word
      BY <1>15 DEF Word
    <2> QED BY <1>21, <2>1, <2>2, AppendProperties
  <1>27. Frame(z.mem[t])
    BY <1>15, <1>26 DEF Frame
  <1>28. \A e \in Context : e # t => z.mem[e] = y.mem[e]
    BY <1>19, <1>20, <1>24, <1>25
  <1>29. z.mem["worker"] = y.mem["worker"] /\ z.env[EnvOf("worker")] = y.env[EnvOf("worker")]
    BY <1>2, <1>24, <1>28
  <1>30. Saved(z, "worker", Seen(x))
    BY <1>11, <1>29, Untouched
  <1>31. \A e \in Task : e # t => z.mem[e] = x.mem[e] /\ z.env[EnvOf(e)] = x.env[EnvOf(e)]
    BY <1>12, <1>13, <1>24, <1>28, Homes, Names
  <1>32. z.rsp = [stk |-> t, n |-> Len(z.mem[t])]
    BY <1>24, <1>26
  <1>33. Push(law_cor_call(x, t), law_cor_call(x, t).regs) = z
    BY <1>1 DEF z
  <1>34. z \in Machine /\ z.pc = t /\ Seen(x) \in View
    BY <1>6, <1>7, <1>24
  <1> QED BY <1>27, <1>30, <1>31, <1>32, <1>33, <1>34, Zenon

\* The callback has returned: back to the worker by the instructions behind
\* `call *%rcx`.
Epilogue(x, r) == law_cor_call_x86_64_tail(ret(Drop([x EXCEPT !.regs = Top(x), !.rax = r], 1)))

\* The other callbacks keep their stacks and environments.
OthersKept(x, y, t) == \A e \in Task : e # t =>
  y.mem[e] = x.mem[e] /\ y.env[EnvOf(e)] = x.env[EnvOf(e)]

\* Word n of a stack.
At(c, n) == [stk |-> c, n |-> n]

LEMMA Return ==
  ASSUME NEW x \in Machine, NEW t \in Task,
         x.pc = t, x.rsp = [stk |-> t, n |-> Len(x.mem[t])],
         Frame(x.mem[t]), Len(x.mem[t]) = 2,
         NEW v \in View, Saved(x, "worker", v), NEW r \in Result
  PROVE  LET z == Epilogue(x, r)
         IN  /\ z \in Machine /\ z.pc = "worker" /\ z.rax = r
             /\ z.rsp = At("worker", Len(v.stack)) /\ z.mem["worker"] = v.stack
             /\ Seen(z) = v
             /\ OthersKept(x, z, t)
  <1> DEFINE a == [x EXCEPT !.regs = Top(x), !.rax = r]
             b == Drop(a, 1)
             d == ret(b)
             z == ret(pop(Load(d, "caller")))
  <1>1. /\ x.mem \in [Context -> Seq(Word)] /\ t \in Context /\ "worker" \in Context
        /\ t # "worker"
    BY Names DEF Machine
  <1>2. x.rsp.stk = t /\ x.rsp.n = 2
    OBVIOUS
  <1>3. Top(x) = x.mem[t][2] /\ Top(x) \in Regs /\ Top(x)["r15"] = [env |-> "caller"]
    BY <1>2 DEF Top, Frame
  <1>4. /\ a \in Machine /\ a.pc = t /\ a.regs = Top(x) /\ a.rax = r /\ a.rsp = x.rsp
        /\ a.mem = x.mem /\ a.env = x.env
    BY <1>3 DEF Machine
  <1> HIDE DEF a
  <1>5. a.rsp.stk = t /\ a.rsp.n = 2 /\ Len(a.mem[a.rsp.stk]) = 2
    BY <1>2, <1>4
  <1>6. /\ b \in Machine /\ b.regs = a.regs /\ b.rax = a.rax /\ b.env = a.env
        /\ b.rsp = [stk |-> a.rsp.stk, n |-> a.rsp.n - 1]
        /\ b.mem = [a.mem EXCEPT ![a.rsp.stk] = SubSeq(a.mem[a.rsp.stk], 1, a.rsp.n - 1)]
    <2>1. 1 \in Nat /\ 1 <= a.rsp.n /\ a.rsp.n <= Len(a.mem[a.rsp.stk])
      BY <1>5
    <2> QED BY <1>4, <2>1, DropIt
  <1> HIDE DEF b
  <1>7. /\ b.rsp.stk = t /\ b.rsp.n = 1
        /\ b.mem = [x.mem EXCEPT ![t] = SubSeq(x.mem[t], 1, 1)]
    BY <1>4, <1>5, <1>6
  <1>8. b.mem[t] = SubSeq(x.mem[t], 1, 1)
    BY <1>1, <1>7
  <1>9. SubSeq(x.mem[t], 1, 1)[1] = "tail" /\ Len(SubSeq(x.mem[t], 1, 1)) = 1
    <2> DEFINE s == x.mem[t]
    <2>1. s \in Seq(Word) /\ Len(s) = 2 /\ s[1] = "tail"
      BY <1>1 DEF Frame
    <2> HIDE DEF s
    <2>2. SubSeq(s, 1, 1)[1] = "tail" /\ Len(SubSeq(s, 1, 1)) = 1
      BY <2>1
    <2> QED BY <2>2 DEF s
  <1>10. Top(b) = "tail" /\ b.rsp.n >= 1 /\ b.rsp.n <= Len(b.mem[b.rsp.stk])
    BY <1>7, <1>8, <1>9 DEF Top
  <1>11. /\ d \in Machine /\ d.regs = b.regs /\ d.rax = b.rax /\ d.env = b.env
         /\ d.mem = [b.mem EXCEPT ![b.rsp.stk] = SubSeq(b.mem[b.rsp.stk], 1, b.rsp.n - 1)]
    BY <1>6, <1>10, RetIt
  <1> HIDE DEF d
  <1>12. /\ \A e \in Context : e # t => d.mem[e] = x.mem[e]
         /\ d.env = x.env /\ d.rax = r /\ d.regs["r15"] = [env |-> "caller"]
    <2>1. d.env = x.env /\ d.rax = r /\ d.regs = Top(x)
      BY <1>4, <1>6, <1>11
    <2>2. b.mem \in [Context -> Seq(Word)]
      BY <1>6 DEF Machine
    <2>3. \A e \in Context : e # t => d.mem[e] = b.mem[e]
      BY <1>7, <1>11, <2>2
    <2>4. \A e \in Context : e # t => b.mem[e] = x.mem[e]
      BY <1>1, <1>7
    <2> QED BY <1>3, <2>1, <2>3, <2>4
  <1>13. Saved(d, "worker", v)
    BY <1>1, <1>12, Untouched
  <1>14. law_cor_call_x86_64_tail(d) = z
    BY <1>12 DEF law_cor_call_x86_64_tail
  <1>15. /\ z \in Machine /\ z.pc = "worker" /\ z.rax = d.rax
         /\ z.rsp = [stk |-> "worker", n |-> Len(v.stack)]
         /\ z.mem = [d.mem EXCEPT !["worker"] = v.stack] /\ z.env = d.env
         /\ Seen(z) = v
    <2> DEFINE w == ret(pop(Load(d, EnvOf("worker"))))
    <2>0. PICK c \in Context : c = "worker"
      BY <1>1
    <2>1. /\ w \in Machine /\ w.pc = "worker" /\ w.rax = d.rax
          /\ w.rsp = [stk |-> "worker", n |-> Len(v.stack)]
          /\ w.mem = [d.mem EXCEPT !["worker"] = v.stack] /\ w.env = d.env
          /\ Seen(w) = v
      <3> DEFINE u == ret(pop(Load(d, EnvOf(c))))
      <3>1. Saved(d, c, v)
        BY <1>13, <2>0
      <3>2. /\ u \in Machine /\ u.pc = c /\ u.rax = d.rax
            /\ u.rsp = [stk |-> c, n |-> Len(v.stack)]
            /\ u.mem = [d.mem EXCEPT ![c] = v.stack] /\ u.env = d.env
            /\ Seen(u) = v
        <4>1. d \in Machine
          BY <1>11
        <4> QED BY <4>1, <3>1, Enter
      <3> QED BY <2>0, <3>2
    <2>2. EnvOf("worker") = "caller"
      BY Homes
    <2>3. w = z
      BY <2>2
    <2> HIDE DEF w, z
    <2> QED BY <2>1, <2>3
  <1> HIDE DEF z
  <1>16. d.mem \in [Context -> Seq(Word)]
    BY <1>11 DEF Machine
  <1>17. z.mem["worker"] = v.stack /\ \A e \in Task : z.mem[e] = d.mem[e]
    BY <1>15, <1>16, Names
  <1>18. OthersKept(x, z, t)
    BY <1>12, <1>15, <1>17, Names DEF OthersKept
  <1>19. /\ z \in Machine /\ z.pc = "worker" /\ z.rax = r
         /\ z.rsp = At("worker", Len(v.stack)) /\ z.mem["worker"] = v.stack
         /\ Seen(z) = v
    BY <1>12, <1>15, <1>17 DEF At
  <1>20. Epilogue(x, r) = z
    BY <1>14 DEF Epilogue, a, b, d
  <1> QED BY <1>18, <1>19, <1>20, Zenon

-----------------------------------------------------------------------------
(* Steps *)

\* What ContextKept says of one step.
Kept == m'.pc # m.pc /\ m'.pc \in live \cup {"worker"} => Seen(m') = view[m'.pc]

LEMMA Setup ==
  ASSUME Invariant, NEW t \in Task, law_task_setup(t)
  PROVE  Invariant' /\ Kept
  <1>1. /\ m.pc = "worker" /\ active = NoTask /\ mode[t] = "free"
        /\ mode' = [mode EXCEPT ![t] = "spawned"]
        /\ m' = m /\ active' = active /\ live' = live /\ view' = view
    BY DEF law_task_setup
  <1>2. mode \in [Task -> {"free", "spawned", "running", "suspended"}]
    BY DEF Invariant, Types
  <1>3. Types'
    BY <1>1, <1>2 DEF Invariant, Types
  <1>4. Running' /\ Frames' /\ AllSaved'
    BY <1>1 DEF Invariant, Running, Frames, AllSaved
  <1>5. Modes'
    <2>1. \A u \in Task : mode'[u] = IF u = t THEN "spawned" ELSE mode[u]
      BY <1>1, <1>2
    <2>2. \A u \in Task : u # active =>
            mode[u] # "running" /\ (u \in live <=> mode[u] = "suspended")
      BY DEF Invariant, Modes
    <2>3. \A u \in Task : u # active' =>
            mode'[u] # "running" /\ (u \in live' <=> mode'[u] = "suspended")
      BY <1>1, <2>1, <2>2, Names
    <2> QED BY <1>1, <2>3 DEF Modes
  <1> QED BY <1>1, <1>3, <1>4, <1>5 DEF Invariant, Kept

LEMMA DispatchCall ==
  ASSUME Invariant, NEW t \in Task, law_worker_dispatch_call(t)
  PROVE  Invariant' /\ Kept
  <1>1. /\ m.pc = "worker" /\ active = NoTask /\ mode[t] = "spawned"
        /\ mode' = [mode EXCEPT ![t] = "running"] /\ active' = t
        /\ live' = live \cup {t}
        /\ m' = Push(law_cor_call(m, t), law_cor_call(m, t).regs)
        /\ view' = [view EXCEPT !["worker"] = Seen(m)]
    BY DEF law_worker_dispatch_call
  <1>2. /\ m \in Machine /\ mode \in [Task -> {"free", "spawned", "running", "suspended"}]
        /\ live \in SUBSET Task /\ view \in [Context -> View]
    BY DEF Invariant, Types
  <1>3. m.rsp = [stk |-> "worker", n |-> Len(m.mem["worker"])]
    BY <1>1 DEF Invariant, Running
  <1>4. /\ m' \in Machine /\ m'.pc = t
        /\ m'.rsp = [stk |-> t, n |-> Len(m'.mem[t])] /\ Frame(m'.mem[t])
        /\ Seen(m) \in View /\ Saved(m', "worker", Seen(m))
        /\ \A e \in Task : e # t =>
             m'.mem[e] = m.mem[e] /\ m'.env[EnvOf(e)] = m.env[EnvOf(e)]
    <2> DEFINE z == Push(law_cor_call(m, t), law_cor_call(m, t).regs)
    <2>1. /\ z \in Machine /\ z.pc = t
          /\ z.rsp = [stk |-> t, n |-> Len(z.mem[t])] /\ Frame(z.mem[t])
          /\ Seen(m) \in View /\ Saved(z, "worker", Seen(m))
          /\ \A e \in Task : e # t =>
               z.mem[e] = m.mem[e] /\ z.env[EnvOf(e)] = m.env[EnvOf(e)]
      BY <1>1, <1>2, <1>3, Call, Zenon
    <2> HIDE DEF z
    <2>2. m' = z
      BY <1>1 DEF z
    <2> QED BY <2>1, <2>2, Zenon
  <1>5. t \in Context /\ t # "worker" /\ "worker" \in Context /\ t # NoTask
    BY Names
  <1>6. Types'
    BY <1>1, <1>2, <1>4, <1>5 DEF Types
  <1>7. Running'
    BY <1>4, <1>5 DEF Running
  <1>8. \A u \in Task : u # t => mode'[u] = mode[u]
    BY <1>1, <1>2
  <1>9. \A u \in Task : mode[u] # "running" /\ (u \in live <=> mode[u] = "suspended")
    BY <1>1, Names DEF Invariant, Modes
  <1>10. Modes'
    <2>1. mode'[t] = "running"
      BY <1>1, <1>2
    <2>2. \A u \in Task : u # active' =>
            mode'[u] # "running" /\ (u \in live' <=> mode'[u] = "suspended")
      BY <1>1, <1>8, <1>9
    <2> QED BY <1>1, <1>4, <1>5, <2>1, <2>2 DEF Modes
  <1>11. \A u \in Task : view'[u] = view[u]
    BY <1>1, <1>2, Names
  <1>12. Frames'
    <2>1. \A u \in live : Frame(view[u].stack)
      BY <1>1, <1>2, Names DEF Invariant, Frames
    <2>2. \A u \in live' : u # t => Frame(view'[u].stack)
      BY <1>1, <1>2, <1>11, <2>1
    <2> QED BY <1>4, <2>2 DEF Frames
  <1>13. AllSaved'
    <2> SUFFICES ASSUME NEW c \in live' \cup {"worker"}, c # m'.pc
                 PROVE  Saved(m', c, view'[c])
      BY DEF AllSaved, Saved
    <2>1. CASE c = "worker"
      <3>1. view'["worker"] = Seen(m)
        BY <1>1, <1>2, <1>5
      <3> QED BY <1>4, <2>1, <3>1
    <2>2. CASE c # "worker"
      <3>1. c \in live /\ c \in Task /\ c # t
        BY <1>1, <1>2, <1>4, <2>2
      <3>2. Saved(m, c, view[c])
        BY <1>1, <2>2, <3>1 DEF Invariant, AllSaved
      <3>3. m'.mem[c] = m.mem[c] /\ m'.env[EnvOf(c)] = m.env[EnvOf(c)]
        BY <1>4, <3>1
      <3>4. Saved(m', c, view[c])
        BY <3>2, <3>3, Untouched
      <3> QED BY <1>11, <3>1, <3>4
    <2> QED BY <2>1, <2>2
  <1>14. Kept
    <2>1. t \notin live
      BY <1>1, <1>9
    <2> QED BY <1>4, <1>5, <2>1 DEF Kept
  <1> QED BY <1>6, <1>7, <1>10, <1>12, <1>13, <1>14 DEF Invariant

LEMMA DispatchResume ==
  ASSUME Invariant, NEW t \in Task, law_worker_dispatch_resume(t)
  PROVE  Invariant' /\ Kept
  <1>1. /\ m.pc = "worker" /\ active = NoTask /\ mode[t] = "suspended"
        /\ mode' = [mode EXCEPT ![t] = "running"] /\ active' = t /\ live' = live
        /\ m' = law_cor_swap_x86_64(m, "caller", t, Resumed)
        /\ view' = [view EXCEPT !["worker"] = Seen(m)]
    BY DEF law_worker_dispatch_resume, law_cor_resume
  <1>2. /\ m \in Machine /\ mode \in [Task -> {"free", "spawned", "running", "suspended"}]
        /\ live \in SUBSET Task /\ view \in [Context -> View]
    BY DEF Invariant, Types
  <1>3. m.rsp = [stk |-> "worker", n |-> Len(m.mem["worker"])]
    BY <1>1 DEF Invariant, Running
  <1>4. t \in Context /\ t # "worker" /\ "worker" \in Context /\ t # NoTask
    BY Names
  <1>5. \A u \in Task : mode[u] # "running" /\ (u \in live <=> mode[u] = "suspended")
    BY <1>1, Names DEF Invariant, Modes
  <1>6. t \in live
    BY <1>1, <1>5
  <1>7. Saved(m, t, view[t]) /\ view[t] \in View
    BY <1>1, <1>2, <1>4, <1>6 DEF Invariant, AllSaved
  <1>8. /\ m' \in Machine /\ m'.pc = t
        /\ m'.rsp = [stk |-> t, n |-> Len(view[t].stack)] /\ m'.mem[t] = view[t].stack
        /\ Seen(m') = view[t]
        /\ Seen(m) \in View /\ Saved(m', "worker", Seen(m))
        /\ \A e \in Context : e # "worker" /\ e # t =>
             m'.mem[e] = m.mem[e] /\ m'.env[EnvOf(e)] = m.env[EnvOf(e)]
    <2> DEFINE z == law_cor_swap_x86_64(m, EnvOf("worker"), EnvOf(t), Resumed)
    <2>1. /\ z \in Machine /\ z.pc = t
          /\ z.rsp = [stk |-> t, n |-> Len(view[t].stack)] /\ z.mem[t] = view[t].stack
          /\ Seen(z) = view[t]
          /\ Seen(m) \in View /\ Saved(z, "worker", Seen(m))
          /\ \A e \in Context : e # "worker" /\ e # t =>
               z.mem[e] = m.mem[e] /\ z.env[EnvOf(e)] = m.env[EnvOf(e)]
      <3>1. Resumed \in Result \cup {Suspended, Resumed}
        OBVIOUS
      <3>2. PICK w \in Context : w = "worker"
        BY <1>4
      <3> DEFINE y == law_cor_swap_x86_64(m, EnvOf(w), EnvOf(t), Resumed)
      <3>3. w # t /\ m.pc = w /\ m.rsp = [stk |-> w, n |-> Len(m.mem[w])]
        BY <1>1, <1>3, <1>4, <3>2
      <3>4. /\ y \in Machine /\ y.pc = t
            /\ y.rsp = [stk |-> t, n |-> Len(view[t].stack)] /\ y.mem[t] = view[t].stack
            /\ Seen(y) = view[t]
            /\ Seen(m) \in View /\ Saved(y, w, Seen(m))
            /\ \A e \in Context : e # w /\ e # t =>
                 y.mem[e] = m.mem[e] /\ y.env[EnvOf(e)] = m.env[EnvOf(e)]
        BY <1>2, <1>4, <1>7, <3>1, <3>3, Swap
      <3> QED BY <3>2, <3>4
    <2>2. m' = z
      BY <1>1, Homes
    <2> HIDE DEF z
    <2> QED BY <2>1, <2>2, Zenon
  <1>9. Types'
    BY <1>1, <1>2, <1>4, <1>8 DEF Types
  <1>10. Running'
    BY <1>4, <1>8 DEF Running
  <1>11. Modes'
    <2>1. mode'[t] = "running" /\ \A u \in Task : u # t => mode'[u] = mode[u]
      BY <1>1, <1>2
    <2>2. \A u \in Task : u # active' =>
            mode'[u] # "running" /\ (u \in live' <=> mode'[u] = "suspended")
      BY <1>1, <1>5, <2>1
    <2> QED BY <1>1, <1>4, <1>6, <1>8, <2>1, <2>2 DEF Modes
  <1>12. \A u \in Task : view'[u] = view[u]
    BY <1>1, <1>2, Names
  <1>13. Frames'
    <2>1. \A u \in live : Frame(view[u].stack)
      BY <1>1, <1>2, Names DEF Invariant, Frames
    <2>2. \A u \in live' : Frame(view'[u].stack)
      BY <1>1, <1>2, <1>12, <2>1
    <2>3. Frame(m'.mem[t])
      BY <1>6, <1>8, <2>1
    <2> QED BY <1>8, <2>2, <2>3 DEF Frames
  <1>14. AllSaved'
    <2> SUFFICES ASSUME NEW c \in live' \cup {"worker"}, c # m'.pc
                 PROVE  Saved(m', c, view'[c])
      BY DEF AllSaved, Saved
    <2>1. CASE c = "worker"
      <3>1. view'["worker"] = Seen(m)
        BY <1>1, <1>2, <1>4
      <3> QED BY <1>8, <2>1, <3>1
    <2>2. CASE c # "worker"
      <3>1. c \in live /\ c \in Task /\ c # t /\ c \in Context
        BY <1>1, <1>2, <1>8, <2>2, Names
      <3>2. Saved(m, c, view[c])
        BY <1>1, <2>2, <3>1 DEF Invariant, AllSaved
      <3>3. m'.mem[c] = m.mem[c] /\ m'.env[EnvOf(c)] = m.env[EnvOf(c)]
        BY <1>8, <2>2, <3>1
      <3>4. Saved(m', c, view[c])
        BY <3>2, <3>3, Untouched
      <3> QED BY <1>12, <3>1, <3>4
    <2> QED BY <2>1, <2>2
  <1>15. Kept
    BY <1>8 DEF Kept
  <1> QED BY <1>9, <1>10, <1>11, <1>13, <1>14, <1>15 DEF Invariant

LEMMA DispatchEnd ==
  ASSUME Invariant, law_worker_dispatch_end
  PROVE  Invariant' /\ Kept
  <1>1. /\ m.pc = "worker" /\ active # NoTask
        /\ mode' = [mode EXCEPT ![active] = IF m.rax = Suspended THEN "suspended" ELSE "free"]
        /\ active' = NoTask /\ m' = m /\ live' = live /\ view' = view
    BY DEF law_worker_dispatch_end
  <1>2. /\ mode \in [Task -> {"free", "spawned", "running", "suspended"}]
        /\ active \in Task
    BY <1>1 DEF Invariant, Types
  <1>3. Types'
    BY <1>1, <1>2 DEF Invariant, Types
  <1>4. Running' /\ Frames' /\ AllSaved'
    BY <1>1 DEF Invariant, Running, Frames, AllSaved
  <1>5. Modes'
    <2>1. \A u \in Task : mode'[u] = IF u # active THEN mode[u]
                                     ELSE IF m.rax = Suspended THEN "suspended" ELSE "free"
      BY <1>1, <1>2
    <2>2. \A u \in Task : u # active =>
            mode[u] # "running" /\ (u \in live <=> mode[u] = "suspended")
      BY DEF Invariant, Modes
    <2>3. active \in live <=> m.rax = Suspended
      BY <1>1 DEF Invariant, Modes
    <2>4. \A u \in Task :
            mode'[u] # "running" /\ (u \in live' <=> mode'[u] = "suspended")
      BY <1>1, <2>1, <2>2, <2>3
    <2> QED BY <1>1, <2>4 DEF Modes
  <1> QED BY <1>1, <1>3, <1>4, <1>5 DEF Invariant, Kept

LEMMA Wait ==
  ASSUME Invariant, law_ewait
  PROVE  Invariant' /\ Kept
  <1> DEFINE t == m.pc
  <1>1. /\ t \in Task
        /\ m' = law_cor_swap_x86_64(m, t, "caller", Suspended)
        /\ view' = [view EXCEPT ![t] = Seen(m)]
        /\ mode' = mode /\ active' = active /\ live' = live
    BY DEF law_ewait, law_cor_yield
  <1>2. /\ m \in Machine /\ mode \in [Task -> {"free", "spawned", "running", "suspended"}]
        /\ live \in SUBSET Task /\ view \in [Context -> View]
    BY DEF Invariant, Types
  <1>3. m.rsp = [stk |-> t, n |-> Len(m.mem[t])]
    BY DEF Invariant, Running
  <1>4. t \in Context /\ t # "worker" /\ "worker" \in Context /\ t # NoTask
    BY <1>1, Names
  <1>5. t = active /\ t \in live /\ mode[active] = "running"
    BY <1>4 DEF Invariant, Modes
  <1>6. Saved(m, "worker", view["worker"]) /\ view["worker"] \in View
    BY <1>2, <1>4 DEF Invariant, AllSaved
  <1> HIDE DEF t
  <1>7. m.pc = t
    BY DEF t
  <1>8. /\ m' \in Machine /\ m'.pc = "worker" /\ m'.rax = Suspended
        /\ m'.rsp = [stk |-> "worker", n |-> Len(view["worker"].stack)]
        /\ m'.mem["worker"] = view["worker"].stack
        /\ Seen(m') = view["worker"]
        /\ Seen(m) \in View /\ Seen(m).stack = m.mem[t] /\ Saved(m', t, Seen(m))
        /\ \A e \in Context : e # t /\ e # "worker" =>
             m'.mem[e] = m.mem[e] /\ m'.env[EnvOf(e)] = m.env[EnvOf(e)]
    <2> DEFINE z == law_cor_swap_x86_64(m, EnvOf(t), EnvOf("worker"), Suspended)
    <2>1. /\ z \in Machine /\ z.pc = "worker" /\ z.rax = Suspended
          /\ z.rsp = [stk |-> "worker", n |-> Len(view["worker"].stack)]
          /\ z.mem["worker"] = view["worker"].stack
          /\ Seen(z) = view["worker"]
          /\ Seen(m) \in View /\ Seen(m).stack = m.mem[t] /\ Saved(z, t, Seen(m))
          /\ \A e \in Context : e # t /\ e # "worker" =>
               z.mem[e] = m.mem[e] /\ z.env[EnvOf(e)] = m.env[EnvOf(e)]
      <3>1. Suspended \in Result \cup {Suspended, Resumed}
        OBVIOUS
      <3>2. PICK w \in Context : w = "worker"
        BY <1>4
      <3> DEFINE y == law_cor_swap_x86_64(m, EnvOf(t), EnvOf(w), Suspended)
      <3>3. w # t /\ Saved(m, w, view[w]) /\ view[w] \in View
        BY <1>4, <1>6, <3>2
      <3>4. /\ y \in Machine /\ y.pc = w /\ y.rax = Suspended
            /\ y.rsp = [stk |-> w, n |-> Len(view[w].stack)]
            /\ y.mem[w] = view[w].stack
            /\ Seen(y) = view[w]
            /\ Seen(m) \in View /\ Seen(m).stack = m.mem[t] /\ Saved(y, t, Seen(m))
            /\ \A e \in Context : e # t /\ e # w =>
                 y.mem[e] = m.mem[e] /\ y.env[EnvOf(e)] = m.env[EnvOf(e)]
        BY <1>2, <1>3, <1>4, <1>7, <3>1, <3>3, Swap
      <3> QED BY <3>2, <3>4
    <2>2. m' = z
      BY <1>1, Homes
    <2> HIDE DEF z
    <2> QED BY <2>1, <2>2, Zenon
  <1>9. Types'
    <2>1. active \in Task \cup {NoTask}
      BY DEF Invariant, Types
    <2> QED BY <1>1, <1>2, <1>4, <1>8, <2>1 DEF Types
  <1>10. Running'
    BY <1>4, <1>8 DEF Running
  <1>11. Modes'
    <2>1. \A u \in Task : u # active =>
            mode[u] # "running" /\ (u \in live <=> mode[u] = "suspended")
      BY DEF Invariant, Modes
    <2> QED BY <1>1, <1>5, <1>8, <2>1 DEF Modes
  <1>12. view'[t] = Seen(m) /\ \A u \in Context : u # t => view'[u] = view[u]
    BY <1>1, <1>2, <1>4
  <1>13. Frames'
    <2>1. \A u \in live : u # t => Frame(view[u].stack)
      BY <1>7 DEF Invariant, Frames
    <2>2. Frame(m.mem[t])
      BY <1>1, <1>7 DEF Invariant, Frames
    <2>3. \A u \in live' : Frame(view'[u].stack)
      <3> SUFFICES ASSUME NEW u \in live' PROVE Frame(view'[u].stack)
        OBVIOUS
      <3>1. u \in live /\ u \in Context
        BY <1>1, <1>2, Names
      <3>2. CASE u = t
        BY <1>8, <1>12, <2>2, <3>2
      <3>3. CASE u # t
        BY <1>12, <2>1, <3>1, <3>3
      <3> QED BY <3>2, <3>3
    <2>4. m'.pc \notin Task
      BY <1>8, Names
    <2> QED BY <2>3, <2>4 DEF Frames
  <1>14. AllSaved'
    <2> SUFFICES ASSUME NEW c \in live' \cup {"worker"}, c # m'.pc
                 PROVE  Saved(m', c, view'[c])
      BY DEF AllSaved, Saved
    <2>1. CASE c = t
      BY <1>8, <1>12, <2>1
    <2>2. CASE c # t
      <3>1. c \in live /\ c # "worker" /\ c \in Context
        BY <1>1, <1>2, <1>8, Names
      <3>2. Saved(m, c, view[c])
        BY <1>7, <2>2, <3>1 DEF Invariant, AllSaved
      <3>3. m'.mem[c] = m.mem[c] /\ m'.env[EnvOf(c)] = m.env[EnvOf(c)]
        BY <1>8, <2>2, <3>1
      <3>4. Saved(m', c, view[c])
        BY <3>2, <3>3, Untouched
      <3> QED BY <1>12, <2>2, <3>1, <3>4
    <2> QED BY <2>1, <2>2
  <1>15. Kept
    BY <1>8 DEF Kept
  <1> QED BY <1>9, <1>10, <1>11, <1>13, <1>14, <1>15 DEF Invariant

LEMMA CallbackReturn ==
  ASSUME Invariant, law_task_cor_trampoline
  PROVE  Invariant' /\ Kept
  <1> DEFINE t == m.pc
  <1>1. PICK r \in Result :
          m' = law_cor_call_x86_64_tail(ret(Drop([m EXCEPT !.regs = Top(m), !.rax = r], 1)))
    BY DEF law_task_cor_trampoline
  <1>2. /\ t \in Task /\ Len(Used(m)) = 2 /\ live' = live \ {t}
        /\ mode' = mode /\ active' = active /\ view' = view
    BY DEF law_task_cor_trampoline
  <1>3. /\ m \in Machine /\ mode \in [Task -> {"free", "spawned", "running", "suspended"}]
        /\ live \in SUBSET Task /\ view \in [Context -> View]
        /\ active \in Task \cup {NoTask}
    BY DEF Invariant, Types
  <1>4. m.rsp = [stk |-> t, n |-> Len(m.mem[t])]
    BY DEF Invariant, Running
  <1>5. t \in Context /\ t # "worker" /\ "worker" \in Context /\ t # NoTask
    BY <1>2, Names
  <1>6. t = active /\ t \in live /\ mode[active] = "running"
    BY <1>5 DEF Invariant, Modes
  <1>7. Saved(m, "worker", view["worker"]) /\ view["worker"] \in View
    BY <1>3, <1>5 DEF Invariant, AllSaved
  <1>8. Frame(m.mem[t])
    BY <1>2 DEF Invariant, Frames
  <1> HIDE DEF t
  <1>9. m.pc = t
    BY DEF t
  <1>10. Len(m.mem[t]) = 2
    <2>1. m.rsp.n = Len(m.mem[m.rsp.stk]) /\ m.rsp.stk = t
      BY <1>4
    <2>2. Used(m) = m.mem[m.rsp.stk]
      BY <1>3, <2>1, UsedAll
    <2> QED BY <1>2, <2>1, <2>2
  <1>11. /\ m' \in Machine /\ m'.pc = "worker" /\ m'.rax = r
         /\ m'.rsp = [stk |-> "worker", n |-> Len(view["worker"].stack)]
         /\ m'.mem["worker"] = view["worker"].stack
         /\ Seen(m') = view["worker"]
         /\ \A e \in Task : e # t =>
              m'.mem[e] = m.mem[e] /\ m'.env[EnvOf(e)] = m.env[EnvOf(e)]
    <2> DEFINE z == Epilogue(m, r)
    <2>1. /\ z \in Machine /\ z.pc = "worker" /\ z.rax = r
          /\ z.rsp = [stk |-> "worker", n |-> Len(view["worker"].stack)]
          /\ z.mem["worker"] = view["worker"].stack
          /\ Seen(z) = view["worker"]
          /\ \A e \in Task : e # t =>
               z.mem[e] = m.mem[e] /\ z.env[EnvOf(e)] = m.env[EnvOf(e)]
      <3>1. PICK v \in View : v = view["worker"]
        BY <1>7
      <3>2. /\ t \in Task /\ m \in Machine /\ Saved(m, "worker", v)
            /\ v \in View /\ r \in Result
        BY <1>1, <1>2, <1>3, <1>7, <3>1
      <3>3. /\ z \in Machine /\ z.pc = "worker" /\ z.rax = r
            /\ z.rsp = At("worker", Len(v.stack)) /\ z.mem["worker"] = v.stack
            /\ Seen(z) = v /\ OthersKept(m, z, t)
        <4>1. /\ m.pc = t /\ m.rsp = [stk |-> t, n |-> Len(m.mem[t])]
              /\ Frame(m.mem[t]) /\ Len(m.mem[t]) = 2
          BY <1>4, <1>8, <1>9, <1>10
        <4> QED BY <3>2, <4>1, Return
      <3> HIDE DEF z
      <3> QED BY <3>1, <3>3 DEF OthersKept, At
    <2>2. m' = z
      BY <1>1 DEF Epilogue
    <2> HIDE DEF z
    <2> QED BY <2>1, <2>2, Zenon
  <1>12. Types'
    BY <1>2, <1>3, <1>11 DEF Types
  <1>13. Running'
    BY <1>5, <1>11 DEF Running
  <1>14. Modes'
    <2>1. \A u \in Task : u # active =>
            mode[u] # "running" /\ (u \in live <=> mode[u] = "suspended")
      BY DEF Invariant, Modes
    <2>2. r # Suspended
      BY CoroutineAssumption
    <2>3. \A u \in Task : u # active' =>
            mode'[u] # "running" /\ (u \in live' <=> mode'[u] = "suspended")
      BY <1>2, <1>6, <2>1
    <2>4. mode'[active'] = "running" /\ active' \notin live' /\ m'.rax # Suspended
          /\ m'.pc = "worker"
      BY <1>2, <1>6, <1>11, <2>2
    <2> QED BY <2>3, <2>4 DEF Modes
  <1>15. Frames'
    <2>1. \A u \in live' : Frame(view'[u].stack)
      BY <1>2, <1>9 DEF Invariant, Frames
    <2>2. m'.pc \notin Task
      BY <1>11, Names
    <2> QED BY <2>1, <2>2 DEF Frames
  <1>16. AllSaved'
    <2> SUFFICES ASSUME NEW c \in live' \cup {"worker"}, c # m'.pc
                 PROVE  Saved(m', c, view'[c])
      BY DEF AllSaved, Saved
    <2>1. c \in live /\ c \in Task /\ c # t
      BY <1>2, <1>3, <1>11
    <2>2. Saved(m, c, view[c])
      BY <1>9, <2>1 DEF Invariant, AllSaved
    <2>3. m'.mem[c] = m.mem[c] /\ m'.env[EnvOf(c)] = m.env[EnvOf(c)]
      BY <1>11, <2>1
    <2>4. Saved(m', c, view[c])
      BY <2>2, <2>3, Untouched
    <2> QED BY <1>2, <2>4
  <1>17. Kept
    BY <1>11 DEF Kept
  <1> QED BY <1>12, <1>13, <1>14, <1>15, <1>16, <1>17 DEF Invariant

\* A step on the stack of the running context that leaves the frame of a
\* callback alone.
LEMMA OwnStack ==
  ASSUME Invariant, m' \in Machine,
         m'.pc = m.pc, m'.rax = m.rax, m'.env = m.env,
         m'.rsp = [stk |-> m.pc, n |-> Len(m'.mem[m.pc])],
         \A e \in Context : e # m.pc => m'.mem[e] = m.mem[e],
         m.pc \in Task => Frame(m'.mem[m.pc]),
         UNCHANGED <<mode, active, live, view>>
  PROVE  Invariant' /\ Kept
  <1>1. mode' = mode /\ active' = active /\ live' = live /\ view' = view
    OBVIOUS
  <1>2. Types'
    BY <1>1 DEF Invariant, Types
  <1>3. Running' /\ Modes' /\ Frames'
    BY <1>1 DEF Invariant, Running, Modes, Frames
  <1>4. AllSaved'
    <2> SUFFICES ASSUME NEW c \in live' \cup {"worker"}, c # m'.pc
                 PROVE  Saved(m', c, view'[c])
      BY DEF AllSaved, Saved
    <2>1. c \in live \cup {"worker"} /\ c \in Context /\ c # m.pc
      BY <1>1, Names DEF Invariant, Types
    <2>2. Saved(m, c, view[c])
      BY <2>1 DEF Invariant, AllSaved
    <2>3. m'.mem[c] = m.mem[c] /\ m'.env[EnvOf(c)] = m.env[EnvOf(c)]
      BY <2>1
    <2>4. Saved(m', c, view[c])
      BY <2>2, <2>3, Untouched
    <2> QED BY <1>1, <2>4
  <1> QED BY <1>2, <1>3, <1>4 DEF Invariant, Kept

LEMMA ComputeStep ==
  ASSUME Invariant, Compute
  PROVE  Invariant' /\ Kept
  <1> DEFINE c == m.pc
             s == m.mem[c]
  <1>1. /\ m \in Machine /\ c \in Context /\ m.rsp = [stk |-> c, n |-> Len(s)]
        /\ c \in Task => Frame(s)
        /\ m.mem \in [Context -> Seq(Word)] /\ s \in Seq(Word)
    BY DEF Invariant, Types, Running, Frames, Machine
  <1>2. m.rsp.stk = c /\ m.rsp.n = Len(s) /\ Len(s) \in Nat
    BY <1>1
  <1>3. Used(m) = s
    BY <1>1, <1>2, UsedAll
  <1>4. UNCHANGED <<mode, active, live, view>>
    BY DEF Compute
  <1>5. CASE \E k \in Content : m' = [m EXCEPT !.regs = Contents(m.pc, k)]
    <2>1. PICK k \in Content : m' = [m EXCEPT !.regs = Contents(c, k)]
      BY <1>5
    <2>2. Contents(c, k) \in Regs
      BY <1>1 DEF Contents, Regs, Value
    <2> HIDE DEF c
    <2>3. /\ m' \in Machine /\ m'.pc = m.pc /\ m'.rax = m.rax /\ m'.env = m.env
          /\ m'.rsp = m.rsp /\ m'.mem = m.mem
      BY <1>1, <2>1, <2>2 DEF Machine
    <2> QED BY <1>1, <1>4, <2>3, OwnStack DEF c
  <1>6. CASE \E k \in Content : m' = Push(m, k)
    <2>1. PICK k \in Content : m' = Push(m, k)
      BY <1>6
    <2>2. /\ m' \in Machine /\ m'.pc = m.pc /\ m'.rax = m.rax /\ m'.env = m.env
          /\ m'.rsp = [stk |-> m.rsp.stk, n |-> m.rsp.n + 1]
          /\ m'.mem = [m.mem EXCEPT ![m.rsp.stk] = Append(Used(m), k)]
      <3>1. k \in Word /\ m.rsp.n <= Len(m.mem[m.rsp.stk])
        BY <1>2 DEF Word
      <3> QED BY <1>1, <2>1, <3>1, PushIt
    <2> DEFINE a == Append(s, k)
    <2>3. /\ Len(a) = Len(s) + 1 /\ \A i \in 1 .. Len(s) : a[i] = s[i]
      <3>1. k \in Word
        BY DEF Word
      <3> QED BY <1>1, <3>1, AppendProperties
    <2>4. c \in Task => Frame(a)
      <3> SUFFICES ASSUME c \in Task PROVE Frame(a)
        OBVIOUS
      <3>1. 1 \in 1 .. Len(s) /\ 2 \in 1 .. Len(s) /\ Len(a) >= 2
        BY <1>1, <1>2, <2>3 DEF Frame
      <3> QED BY <1>1, <2>3, <3>1 DEF Frame
    <2>5. m'.mem = [m.mem EXCEPT ![c] = a] /\ m'.rsp = [stk |-> c, n |-> Len(a)]
      BY <1>2, <1>3, <2>2, <2>3
    <2> HIDE DEF c, s, a
    <2>6. m'.mem[c] = a /\ \A e \in Context : e # c => m'.mem[e] = m.mem[e]
      BY <1>1, <2>5
    <2> QED BY <1>4, <2>2, <2>4, <2>5, <2>6, OwnStack DEF c
  <1>7. CASE Locals > 0 /\ m' = Drop(m, 1)
    <2>1. Len(s) >= 1 /\ (c \in Task => Len(s) >= 3)
      <3>1. Len(s) - (IF c = "worker" THEN 0 ELSE 2) > 0
        BY <1>3, <1>7 DEF Locals
      <3>2. c \in Task => c # "worker"
        BY Names
      <3> HIDE DEF c, s
      <3> QED BY <1>2, <3>1, <3>2
    <2>2. /\ m' \in Machine /\ m'.pc = m.pc /\ m'.rax = m.rax /\ m'.env = m.env
          /\ m'.rsp = [stk |-> m.rsp.stk, n |-> m.rsp.n - 1]
          /\ m'.mem = [m.mem EXCEPT ![m.rsp.stk] = SubSeq(m.mem[m.rsp.stk], 1, m.rsp.n - 1)]
      <3>1. 1 \in Nat /\ 1 <= m.rsp.n /\ m.rsp.n <= Len(m.mem[m.rsp.stk])
        BY <1>2, <2>1
      <3> QED BY <1>1, <1>7, <3>1, DropIt
    <2> DEFINE a == SubSeq(s, 1, Len(s) - 1)
    <2>3. Len(a) = Len(s) - 1 /\ \A i \in 1 .. Len(s) - 1 : a[i] = s[i]
      <3> HIDE DEF s
      <3> QED BY <1>1, <1>2, <2>1
    <2>4. c \in Task => Frame(a)
      <3> SUFFICES ASSUME c \in Task PROVE Frame(a)
        OBVIOUS
      <3>1. 1 \in 1 .. Len(s) - 1 /\ 2 \in 1 .. Len(s) - 1 /\ Len(a) >= 2
        BY <1>2, <2>1, <2>3
      <3> HIDE DEF a
      <3> QED BY <1>1, <2>3, <3>1 DEF Frame
    <2>5. m'.mem = [m.mem EXCEPT ![c] = a] /\ m'.rsp = [stk |-> c, n |-> Len(a)]
      BY <1>2, <2>2, <2>3
    <2> HIDE DEF c, s, a
    <2>6. m'.mem[c] = a /\ \A e \in Context : e # c => m'.mem[e] = m.mem[e]
      BY <1>1, <2>5
    <2> QED BY <1>4, <2>2, <2>4, <2>5, <2>6, OwnStack DEF c
  <1> QED BY <1>5, <1>6, <1>7 DEF Compute

-----------------------------------------------------------------------------
(* Theorems *)

LEMMA InitHolds == Init => Invariant
  <1> SUFFICES ASSUME Init PROVE Invariant
    OBVIOUS
  <1> DEFINE here == [stk |-> "worker", n |-> 0]
  <1>1. PICK k \in Content :
          m = [pc |-> "worker", regs |-> Contents("worker", k), rax |-> Resumed,
               rsp |-> here, mem |-> [c \in Context |-> <<>>],
               env |-> [e \in Task \cup {"caller"} |-> law_cor_create]]
    BY DEF Init
  <1>2. /\ mode = [t \in Task |-> "free"] /\ active = NoTask /\ live = {}
        /\ view = [c \in Context |-> Seen(m)]
    BY DEF Init
  <1>3. Contents("worker", k) \in Regs
    BY Names DEF Contents, Regs, Value
  <1>4. here \in Pointer /\ law_cor_create \in Env
    BY Names DEF Pointer, law_cor_create, Env, Value
  <1> DEFINE M == [c \in Context |-> <<>>]
             E == [e \in Task \cup {"caller"} |-> law_cor_create]
  <1>5. M \in [Context -> Seq(Word)] /\ \A c \in Context : M[c] = <<>>
    OBVIOUS
  <1>6. E \in [Task \cup {"caller"} -> Env]
    BY <1>4
  <1>7. m = [pc |-> "worker", regs |-> Contents("worker", k), rax |-> Resumed,
             rsp |-> here, mem |-> M, env |-> E]
    BY <1>1
  <1> HIDE DEF M, E, here
  <1>8. /\ m \in Machine /\ m.pc = "worker" /\ m.rsp = here /\ m.mem = M
    BY <1>3, <1>4, <1>5, <1>6, <1>7, Names DEF Machine
  <1>9. m.mem[m.pc] = <<>> /\ Len(m.mem[m.pc]) = 0
    BY <1>5, <1>8, Names
  <1>10. Running
    BY <1>8, <1>9, Names DEF Running, here
  <1>11. Seen(m) \in View
    <2>1. m.rsp.n = 0 /\ m.rsp.n <= Len(m.mem[m.rsp.stk])
      BY <1>8, <1>9 DEF here
    <2>2. Used(m) \in Seq(Word)
      BY <1>8, <2>1, UsedType
    <2> QED BY <1>8, <2>2 DEF Seen, View, Machine
  <1>12. Types
    BY <1>2, <1>8, <1>11 DEF Types
  <1>13. Modes
    BY <1>2, <1>8 DEF Modes
  <1>14. Frames /\ AllSaved
    BY <1>2, <1>8, Names DEF Frames, AllSaved
  <1> QED BY <1>10, <1>12, <1>13, <1>14 DEF Invariant

LEMMA StepHolds == Invariant /\ [Next]_vars => Invariant' /\ (m' = m \/ Kept)
  <1> SUFFICES ASSUME Invariant, [Next]_vars PROVE Invariant' /\ (m' = m \/ Kept)
    OBVIOUS
  <1>1. CASE \E t \in Task : law_task_setup(t)
    BY <1>1, Setup
  <1>2. CASE \E t \in Task : law_worker_dispatch_call(t)
    BY <1>2, DispatchCall
  <1>3. CASE \E t \in Task : law_worker_dispatch_resume(t)
    BY <1>3, DispatchResume
  <1>4. CASE law_worker_dispatch_end
    BY <1>4, DispatchEnd
  <1>5. CASE law_ewait
    BY <1>5, Wait
  <1>6. CASE law_task_cor_trampoline
    BY <1>6, CallbackReturn
  <1>7. CASE Compute
    BY <1>7, ComputeStep
  <1>8. CASE UNCHANGED vars
    BY <1>8 DEF vars, Invariant, Types, Running, Modes, Frames, AllSaved, Saved
  <1> QED BY <1>1, <1>2, <1>3, <1>4, <1>5, <1>6, <1>7, <1>8 DEF Next

\* In every state each context that has given up control has on its stack and
\* in its environment what it needs to go on.
THEOREM InvariantAlways == Spec => []Invariant
  <1>1. Init => Invariant
    BY InitHolds
  <1>2. Invariant /\ [Next]_vars => Invariant'
    BY StepHolds
  <1> QED BY <1>1, <1>2, PTL DEF Spec

\* Registers, stacks and environments stay what they are: law_cor_call_x86_64
\* and law_cor_swap_x86_64 never take a register for an address to return to,
\* nor an address for a stack.
THEOREM TypesCorrect == Spec => []Types
  <1>1. Invariant => Types
    BY DEF Invariant
  <1> QED BY <1>1, InvariantAlways, PTL

\* law_worker_dispatch gets the signal of the task it dispatched: between two
\* dispatches the suspended tasks are those whose callback has not returned.
THEOREM SuspendedAreLiveCorrect == Spec => []SuspendedAreLive
  <1>1. Invariant => SuspendedAreLive
    <2> SUFFICES ASSUME Invariant, active = NoTask
                 PROVE  live = {t \in Task : mode[t] = "suspended"}
      BY DEF SuspendedAreLive
    <2>1. live \in SUBSET Task
      BY DEF Invariant, Types
    <2>2. \A t \in Task : t \in live <=> mode[t] = "suspended"
      BY Names DEF Invariant, Modes
    <2> QED BY <2>1, <2>2
  <1> QED BY <1>1, InvariantAlways, PTL

\* A switch gives the context that gets control the callee-saved registers,
\* the stack pointer and the stack that it had when it gave control up.
THEOREM ContextKeptCorrect == Spec => ContextKept
  <1>1. Invariant /\ [Next]_vars =>
          [m'.pc # m.pc /\ m'.pc \in live \cup {"worker"} => Seen(m') = view[m'.pc]]_vars
    BY StepHolds DEF Kept
  <1> QED BY <1>1, InvariantAlways, PTL DEF Spec, ContextKept
=============================================================================
