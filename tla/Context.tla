------------------------------ MODULE Context ------------------------------
(***************************************************************************)
(* The registers of the CPU across system calls, task switches, spawns,    *)
(* exits and faults (kernel/src/asm/proc/tasking.asm, asm/intr/*.asm,      *)
(* intr/syscall.c, and the parts of proc/proc.c that touch a context).     *)
(*                                                                         *)
(* A system call saves the registers it needs in syscall_regs.  A timer    *)
(* interrupt saves eight in the struct of the process it interrupts and    *)
(* loads those of the next process.  What lies between the program and the *)
(* save are C functions, which overwrite caller-saved registers.           *)
(*                                                                         *)
(* Any living process may be the next one here: the order is the subject   *)
(* of ProcQueue.  What a register holds is abstracted to a value of its    *)
(* process or to Kernel, which stands for whatever kernel code left.       *)
(***************************************************************************)
EXTENDS Integers, FiniteSets

CONSTANTS
  MaxProc,     \* bound: structs that kmalloc hands out in one behaviour
  Value,       \* what registers hold
  Own,         \* bound: the values each program computes with
  Kernel,      \* a value of kernel code
  Followed,    \* bound: the registers that are followed besides RIP and CR3
  Clobbered    \* the registers the C functions of the build overwrite

Proc == 1..MaxProc
NULL == 0
init_sys == 1            \* the process with PID 1

CalleeSaved == {"rbx", "rbp", "r12", "r13", "r14", "r15"}
CallerSaved == {"rax", "rcx", "rdx", "rsi", "rdi", "r8", "r9", "r10", "r11"}

ASSUME ContextAssumption ==
  /\ MaxProc \in Nat \ {0} /\ Kernel \in Value
  /\ Own \in [Proc -> SUBSET Value]
  /\ Followed \subseteq CalleeSaved \cup CallerSaved \cup {"rsp"}
  /\ Clobbered \subseteq CallerSaved

Reg == Followed \cup {"rip", "cr3"}

\* PCONTEXT_INDEX: the registers with a place in context[].
Saved == Reg \cap {"rbp", "rsp", "rbx", "rdx", "rcx", "rax", "rip", "cr3"}

\* The registers that survive a task switch: they have a place in context[],
\* no C function overwrites them before they are stored, and they are not
\* the stack pointer.
Kept == (Saved \ Clobbered) \ {"rsp"}

VARIABLES
  cpu,             \* the registers while a program runs
  context,         \* struct Process: context
  current_task,
  alive,
  nalloc,          \* how many structs were allocated; none is reused
  mode,            \* "user"; "dying", kill's last loop; "halted"
  parent,          \* struct Process: parent; a program is its own
  left             \* history: the registers a process had when it was left

tasks == <<context, current_task, alive, nalloc, mode, parent, left>>
vars == <<cpu, tasks>>

\* The part of some registers c that the history follows.
Watched(c) == [r \in Saved \ Clobbered |-> c[r]]

Content == Value \cup Proc

\* init.sys runs, in the address space that proc_init made for it.
Init ==
  /\ cpu = [r \in Reg |-> IF r = "cr3" THEN init_sys ELSE Kernel]
  /\ context = [p \in Proc |-> [r \in Saved |-> IF r = "cr3" THEN p ELSE Kernel]]
  /\ current_task = init_sys /\ alive = {init_sys} /\ nalloc = 1 /\ mode = "user"
  /\ parent = [p \in Proc |-> p]
  /\ left = [p \in Proc |-> Watched(context[p])]

-----------------------------------------------------------------------------
(* Programs and their system calls.                                        *)

Compute ==
  /\ mode = "user"
  /\ \E r \in Reg \ {"cr3"}, v \in Own[current_task] : cpu' = [cpu EXCEPT ![r] = v]
  /\ UNCHANGED tasks

SYSCALL_COUNT == 10

\* struct SyscallRegs.
syscall_regs == {"rax", "rbx", "rcx", "rdx", "rsi", "rdi", "r8", "r9", "r10"}

\* The registers in which the services of syscall_table answer.
Returned(n) == CASE n = 1 -> {"rax", "rbx"}
                 [] n \in 2..6 -> {"rax"}
                 [] OTHER -> {}

\* Mutant: the fourth register is not loaded again.
DispatchedShort(n) ==
  [r \in Reg |->
     IF r \in (syscall_regs \ {"rdx"}) \ Returned(n) THEN cpu[r]
     ELSE IF r \in CallerSaved \cup Returned(n) THEN Kernel ELSE cpu[r]]

\* dispatch_syscall, for a number in the table: the service works on
\* syscall_regs, and what is there is loaded behind it.
Dispatched(n) ==
  [r \in Reg |->
     IF r \in syscall_regs \ Returned(n) THEN cpu[r]
     ELSE IF r \in CallerSaved \cup Returned(n) THEN Kernel ELSE cpu[r]]

\* Any other number returns at .done, with R11 changed.
Refused == [r \in Reg |-> IF r = "r11" THEN Kernel ELSE cpu[r]]

\* System calls that make no process and return: 0 to 6 and 8.
SysCall(n) ==
  /\ mode = "user"
  /\ cpu' = IF n \in 0..(SYSCALL_COUNT - 1) THEN Dispatched(n) ELSE Refused
  /\ UNCHANGED tasks

-----------------------------------------------------------------------------
(* New processes.                                                          *)

\* The context that _spawn makes: the rest is what the memory held.
Fresh(space, rip, rsp) ==
  [r \in Saved |-> CASE r = "rip" -> rip
                     [] r \in {"rsp", "rbp"} -> rsp
                     [] r = "cr3" -> space
                     [] OTHER -> Kernel]

\* Mutant: the address space of the new process stays loaded.
LoadedBack == nalloc + 1

\* _spawn runs in the new address space and loads the old CR3 at its end.
LoadCr3 == cpu["cr3"]

\* _spawn in the address space of process q: NULL for a program, which gets
\* its own, the receiver of the signal for a handler.
Spawn(q) ==
  LET p == nalloc + 1
      owner == IF q = NULL THEN p ELSE q
  IN /\ nalloc < MaxProc /\ nalloc' = p /\ alive' = alive \cup {p}
     /\ \E rip, rsp \in Own[p] :
          context' = [context EXCEPT ![p] = Fresh(context[owner]["cr3"], rip, rsp)]
     /\ left' = [left EXCEPT ![p] = Watched(context'[p])]
     /\ parent' = [parent EXCEPT ![p] = owner]
     /\ UNCHANGED <<current_task, mode>>

\* System call 3, granted.
SysSpawn ==
  /\ mode = "user"
  /\ Spawn(NULL)
  /\ cpu' = [Dispatched(3) EXCEPT !["cr3"] = LoadCr3]

\* System call 4 to a process with a callback.  Handlers get no signals.
SysSignal(to) ==
  /\ mode = "user" /\ to \in alive /\ parent[to] = to
  /\ Spawn(to)
  /\ cpu' = [Dispatched(4) EXCEPT !["cr3"] = LoadCr3]

\* irq1_isr is compiled as an interrupt handler: it saves what it uses.
KeyInterrupt ==
  /\ mode \in {"user", "dying"}
  /\ Spawn(init_sys)
  /\ cpu' = [cpu EXCEPT !["cr3"] = LoadCr3]

-----------------------------------------------------------------------------
(* The timer interrupt.                                                    *)

\* Mutant: RBX goes to the place of RDX.
StoredShifted(c) ==
  [r \in Saved |-> IF r = "rsp" \/ r \in Clobbered THEN Kernel
                   ELSE IF r = "rbx" /\ "rdx" \in Saved THEN c["rdx"] ELSE c[r]]

\* What switch_task stores.  lapic_send_eoi and proc_get_context ran before
\* it; the stack pointer is read from below the interrupt frame, where those
\* calls left their own data.
Stored(c) ==
  [r \in Saved |-> IF r = "rsp" \/ r \in Clobbered THEN Kernel ELSE c[r]]

\* What the next process runs with: its stored registers; the stack pointer of
\* the interrupted one, because iretq takes it from the frame and the code
\* writes below the frame; and registers without a place as they are.
Loaded(c, x) ==
  [r \in Reg |->
     IF r \in Saved \ {"rsp"} THEN x[r]
     ELSE IF r \in Clobbered \cup {"rsi", "rdi", "r10", "r11"} THEN Kernel ELSE c[r]]

\* irq0_isr, switch_task and iretq, to p.
Tick(p) ==
  /\ mode \in {"user", "dying"} /\ p \in alive
  /\ context' = [context EXCEPT ![current_task] = Stored(cpu)]
  /\ cpu' = Loaded(cpu, context'[p])
  /\ left' = IF mode = "user"
             THEN [left EXCEPT ![current_task] = Watched(cpu)] ELSE left
  /\ current_task' = p /\ mode' = "user"
  /\ UNCHANGED <<alive, nalloc, parent>>

-----------------------------------------------------------------------------
(* The end of a process.                                                   *)

\* kill, called for the running process: it waits in its own registers.
Kill ==
  /\ current_task # init_sys
  /\ alive' = alive \ {current_task} /\ mode' = "dying"
  /\ cpu' = [r \in Reg |-> IF r = "cr3" THEN cpu[r] ELSE Kernel]
  /\ UNCHANGED <<context, current_task, nalloc, parent, left>>

\* System call 7.
Exit == mode = "user" /\ Kill

\* kill refuses PID 1: taskjmp_userland to the instruction and the stack that
\* the context holds from the last task switch.
ExitRefused ==
  /\ mode = "user" /\ current_task = init_sys
  /\ cpu' = [r \in Reg |-> CASE r \in {"rip", "rsp"} -> context[current_task][r]
                             [] r = "cr3" -> cpu[r]
                             [] OTHER -> Kernel]
  /\ UNCHANGED tasks

\* exceptions[], and the stubs that use kpanic.
exceptions ==
  [v \in 0..14 |->
     CASE v = 0 -> "divide_error"          [] v = 1 -> "debug_exception"
       [] v = 4 -> "overflow"              [] v = 5 -> "bound_range_exceeded"
       [] v = 6 -> "invalid_opcode"        [] v = 7 -> "no_mathcoprocessor"
       [] v = 8 -> "double_fault"          [] v = 10 -> "invalid_tss"
       [] v = 11 -> "segment_not_present"  [] v = 12 -> "stack_segment_fault"
       [] v = 14 -> "page_fault"           [] OTHER -> "general_protection_fault"]

Panics == {"overflow", "no_mathcoprocessor", "double_fault",
           "segment_not_present", "stack_segment_fault"}

Halt == mode' = "halted" /\ UNCHANGED <<cpu, context, current_task, alive, nalloc, parent, left>>

\* A fault of the running program: kpanic; or handle_exception, which halts
\* for PID 1 and else exits.
Fault(v) ==
  /\ mode = "user"
  /\ IF exceptions[v] \in Panics \/ current_task = init_sys THEN Halt ELSE Kill

\* System call 9.
SysReboot == mode = "user" /\ Halt

Next ==
  \/ Compute
  \/ \E n \in (-1..SYSCALL_COUNT) \ {7, 9} : SysCall(n)
  \/ SysSpawn \/ KeyInterrupt
  \/ \E p \in Proc : SysSignal(p) \/ Tick(p)
  \/ Exit \/ ExitRefused \/ SysReboot
  \/ \E v \in 0..14 : Fault(v)

Spec == Init /\ [][Next]_vars

-----------------------------------------------------------------------------
(* Properties.                                                             *)

TypeOK ==
  /\ cpu \in [Reg -> Content]
  /\ context \in [Proc -> [Saved -> Content]] 
  /\ left \in [Proc -> [Saved \ Clobbered -> Content]]
  /\ current_task \in Proc /\ alive \subseteq Proc /\ init_sys \in alive /\ nalloc \in Proc
  /\ mode \in {"user", "dying", "halted"} /\ parent \in [Proc -> Proc]

\* A process that gets the CPU finds the registers in Kept as it left them,
\* however many other processes ran, were spawned, got signals, exited or
\* faulted meanwhile; a new one finds what _spawn prepared.  switch_task.
ResumesAsLeft ==
  [][(\E p \in Proc : Tick(p)) =>
       \A r \in Kept : cpu'[r] = left'[current_task'][r]]_vars

\* A system call changes no register but the ones its answer is documented to
\* be in, and R11.  dispatch_syscall.
SyscallKeepsRegisters ==
  [][(\/ \E n \in -1..SYSCALL_COUNT : SysCall(n)
      \/ SysSpawn \/ \E p \in Proc : SysSignal(p))
     => \A r \in Reg \ {"rax", "rbx", "r11"} : cpu'[r] = cpu[r]]_vars

\* Whatever runs, runs in its own address space, a handler in its parent's:
\* also behind a _spawn, which loads another one on the way.
OwnAddressSpace ==
  mode = "user" => cpu["cr3"] = parent[current_task]

\* tasking.asm:102-103, "Set RSP in IRET stack frame to be our next task's
\* RSP.": a process continues on the stack it was left with.  The code
\* violates it: it writes to [rsp-(8*3)], below the frame that iretq pops.
RspRestored ==
  [][(\E p \in Proc : Tick(p)) =>
       \A r \in Reg \cap {"rsp"} : cpu'[r] = left'[current_task'][r]]_vars
=============================================================================
