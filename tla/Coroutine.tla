------------------------------ MODULE Coroutine ------------------------------
(***************************************************************************)
(* The coroutine switch of cor_x86_64.s and cor_x86_64.c, under the loop   *)
(* of law_worker_dispatch that uses it: registers, stacks and the two      *)
(* calling environments, for one worker and the tasks it runs.  Module     *)
(* TaskLife takes for granted what is shown here: a coroutine goes on      *)
(* where it stopped, and so does the worker.                               *)
(*                                                                         *)
(* The machine is a record; an instruction is a function from machines to  *)
(* machines and a routine a composition of them.  A return address is the  *)
(* name of the context that continues there, or "tail" for the instruction *)
(* of law_cor_call_x86_64 behind `call *%rcx`.  Words beyond the stack     *)
(* pointer are lost.                                                       *)
(***************************************************************************)
EXTENDS Integers, Sequences

CONSTANTS
  Task,        \* task objects, each with an environment and a stack
  NoTask,      \* a null task pointer
  Result,      \* what callbacks return
  Suspended,   \* LAW_MODE_SUSPENDED
  Resumed,     \* LAW_ERR_OK, the signal of law_cor_resume
  Content,     \* what C code may leave in its registers, told apart by this
  MaxLocals    \* bound on the words a context keeps on its stack

ASSUME CoroutineAssumption ==
  /\ NoTask \notin Task /\ Task \cap {"worker", "caller", "tail"} = {}
  /\ Suspended \notin Result
  /\ MaxLocals \in Nat

VARIABLES
  m,        \* the machine
  mode,     \* task->mode
  active,   \* the task that law_worker_dispatch has popped
  live,     \* tasks whose callback was entered and has not returned
  view      \* what a context had when it gave up control

vars == <<m, mode, active, live, view>>

\* Callee-saved registers besides %rsp.
Reg == {"rbx", "rbp", "r12", "r13", "r14", "r15"}

\* Stacks are named like the context that runs on them.
Context == Task \cup {"worker"}

\* law_cor_create: a zeroed environment.
law_cor_create == [rbp |-> [stk |-> "worker", n |-> 0], rsp |-> [stk |-> "worker", n |-> 0]]

\* What C code of context c has in its registers.
Contents(c, k) == [r \in Reg |-> [of |-> c, reg |-> r, val |-> k]]

Used(x) == SubSeq(x.mem[x.rsp.stk], 1, x.rsp.n)

\* What a context may rely on: its registers and its stack.
Seen(x) == [regs |-> x.regs, rsp |-> x.rsp, stack |-> Used(x)]

Init ==
  /\ \E k \in Content :
       m = [pc |-> "worker", regs |-> Contents("worker", k), rax |-> Resumed,
            rsp |-> [stk |-> "worker", n |-> 0],
            mem |-> [c \in Context |-> <<>>],
            env |-> [e \in Task \cup {"caller"} |-> law_cor_create]]
  /\ mode = [t \in Task |-> "free"]
  /\ active = NoTask
  /\ live = {}
  /\ view = [c \in Context |-> Seen(m)]

-----------------------------------------------------------------------------
(***************************************************************************)
(* Instructions.                                                           *)
(***************************************************************************)
Top(x) == x.mem[x.rsp.stk][x.rsp.n]

Push(x, word) ==
  [x EXCEPT !.mem[x.rsp.stk] = Append(Used(x), word), !.rsp.n = @ + 1]

Drop(x, n) ==
  [x EXCEPT !.mem[x.rsp.stk] = SubSeq(@, 1, x.rsp.n - n), !.rsp.n = @ - n]

\* push %r15 ... push %rbx, and the pops in the opposite order.
Pushed == <<"r15", "r14", "r13", "r12", "rbx">>

push(x) ==
  [x EXCEPT !.mem[x.rsp.stk] = Used(x) \o [i \in 1..Len(Pushed) |-> x.regs[Pushed[i]]],
            !.rsp.n = @ + Len(Pushed)]

Popped_Mixed == <<"rbx", "r13", "r12", "r14", "r15">>
Popped == <<"rbx", "r12", "r13", "r14", "r15">>

pop(x) ==
  Drop([x EXCEPT !.regs = [r \in Reg |->
          IF \E i \in 1..Len(Popped) : Popped[i] = r
          THEN x.mem[x.rsp.stk][x.rsp.n + 1 - (CHOOSE i \in 1..Len(Popped) : Popped[i] = r)]
          ELSE x.regs[r]]],
       Len(Popped))

ret(x) == Drop([x EXCEPT !.pc = Top(x)], 1)

\* mov %rbp, 0x0(e); mov %rsp, 0x8(e), and the loads.
Store(x, e) == [x EXCEPT !.env[e] = [rbp |-> x.regs.rbp, rsp |-> x.rsp]]
Load(x, e) == [x EXCEPT !.regs.rbp = x.env[e].rbp, !.rsp = x.env[e].rsp]

-----------------------------------------------------------------------------
(***************************************************************************)
(* The two routines, up to the instruction that leaves them.               *)
(***************************************************************************)

\* Up to `call *%rcx`.
law_cor_call_x86_64(x, t) ==
  LET called == push(Push(x, x.pc))
      saved  == Store([called EXCEPT !.regs.r15 = [env |-> "caller"]], "caller")
  IN  [Push(Load(saved, t), "tail") EXCEPT !.pc = t]

\* Both pointers of the environment are the end of the stack.
law_cor_call(x, t) ==
  LET end == [stk |-> t, n |-> 0]
  IN  law_cor_call_x86_64([x EXCEPT !.env[t] = [rbp |-> end, rsp |-> end]], t)

\* The instructions behind `call *%rcx`: %r15 still is the environment.
law_cor_call_x86_64_tail(x) == ret(pop(Load(x, x.regs.r15.env)))

\* Mutant: the result is 1, as the comment above the routine says.
law_cor_swap_x86_64_One(x, src, dest, signal) ==
  [ret(pop(Load(Store(push(Push(x, x.pc)), src), dest))) EXCEPT !.rax = 1]
law_cor_swap_x86_64(x, src, dest, signal) ==
  [ret(pop(Load(Store(push(Push(x, x.pc)), src), dest))) EXCEPT !.rax = signal]

law_cor_resume(x, t) == law_cor_swap_x86_64(x, "caller", t, Resumed)

law_cor_yield(x, t) == law_cor_swap_x86_64(x, t, "caller", Suspended)

-----------------------------------------------------------------------------
(***************************************************************************)
(* The code around them.                                                   *)
(***************************************************************************)

\* law_task_setup, law_task_queue_push: the task is sent to this worker.
law_task_setup(t) ==
  /\ m.pc = "worker" /\ active = NoTask
  /\ mode[t] = "free"
  /\ mode' = [mode EXCEPT ![t] = "spawned"]
  /\ UNCHANGED <<m, active, live, view>>

\* A task is entered by law_task_cor_trampoline, whose prologue keeps the
\* registers it found for its epilogue.
law_worker_dispatch_call(t) ==
  /\ m.pc = "worker" /\ active = NoTask
  /\ mode[t] = "spawned"
  /\ mode' = [mode EXCEPT ![t] = "running"]
  /\ active' = t
  /\ live' = live \cup {t}
  /\ LET entered == law_cor_call(m, t)
     IN  m' = Push(entered, entered.regs)
  /\ view' = [view EXCEPT !["worker"] = Seen(m)]

law_worker_dispatch_resume(t) ==
  /\ m.pc = "worker" /\ active = NoTask
  /\ mode[t] = "suspended"
  /\ mode' = [mode EXCEPT ![t] = "running"]
  /\ active' = t
  /\ m' = law_cor_resume(m, t)
  /\ view' = [view EXCEPT !["worker"] = Seen(m)]
  /\ UNCHANGED live

\* The worker has control again: the rest of the loop of law_worker_dispatch.
law_worker_dispatch_end ==
  /\ m.pc = "worker" /\ active # NoTask
  /\ mode' = [mode EXCEPT ![active] = IF m.rax = Suspended THEN "suspended" ELSE "free"]
  /\ active' = NoTask
  /\ UNCHANGED <<m, live, view>>

\* The callback waits: law_cor_yield in law_ewait.
law_ewait ==
  /\ m.pc \in Task
  /\ m' = law_cor_yield(m, m.pc)
  /\ view' = [view EXCEPT ![m.pc] = Seen(m)]
  /\ UNCHANGED <<mode, active, live>>

\* The callback returns: the epilogue restores what the prologue kept, and
\* the return address is that of law_cor_call_x86_64.
law_task_cor_trampoline ==
  /\ m.pc \in Task
  /\ Len(Used(m)) = 2
  /\ \E v \in Result :
       m' = law_cor_call_x86_64_tail(ret(Drop([m EXCEPT !.regs = Top(m), !.rax = v], 1)))
  /\ live' = live \ {m.pc}
  /\ UNCHANGED <<mode, active, view>>

\* C code of the running context changes its registers, calls a function or
\* returns from one.
Locals == Len(Used(m)) - (IF m.pc = "worker" THEN 0 ELSE 2)

Compute ==
  /\ m.pc \in Context /\ (m.pc = "worker" => active = NoTask)
  /\ \/ \E k \in Content : m' = [m EXCEPT !.regs = Contents(m.pc, k)]
     \/ Locals < MaxLocals /\ \E k \in Content : m' = Push(m, k)
     \/ Locals > 0 /\ m' = Drop(m, 1)
  /\ UNCHANGED <<mode, active, live, view>>

Next ==
  \/ \E t \in Task :
       law_task_setup(t) \/ law_worker_dispatch_call(t) \/ law_worker_dispatch_resume(t)
  \/ law_worker_dispatch_end \/ law_ewait \/ law_task_cor_trampoline
  \/ Compute

Spec == Init /\ [][Next]_vars

-----------------------------------------------------------------------------
\* Whoever gets control back - a callback from law_cor_yield, the worker from
\* law_cor_call or law_cor_resume, also when the callback returns in another
\* dispatch than the one that entered it - finds callee-saved registers,
\* stack pointer and stack as it left them.
ContextKept ==
  [][m'.pc # m.pc /\ m'.pc \in live \cup {"worker"} => Seen(m') = view[m'.pc]]_vars

\* Between two dispatches the worker counts as suspended exactly the tasks
\* whose callback has not returned: none that has ended is resumed, and no
\* stack that is in use is given to another callback (the signal that
\* law_worker_dispatch gets).
SuspendedAreLive ==
  active = NoTask => live = {t \in Task : mode[t] = "suspended"}
=============================================================================
