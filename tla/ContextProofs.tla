--------------------------- MODULE ContextProofs ---------------------------
(* Proofs about Context: for every number of processes, every choice of    *)
(* followed registers and every set of registers that the C functions of   *)
(* the build overwrite.                                                    *)
EXTENDS Context, TLAPS

-----------------------------------------------------------------------------
(* The registers.                                                          *)

LEMMA RegFacts ==
  /\ "cr3" \in Reg /\ "rip" \in Reg /\ "cr3" \in Saved /\ "rip" \in Saved
  /\ "cr3" \notin Clobbered /\ "rip" \notin Clobbered
  /\ Saved \subseteq Reg /\ Kept \subseteq Saved \ Clobbered /\ "rsp" \notin Kept
BY ContextAssumption DEF Reg, Saved, Kept, CallerSaved

LEMMA ProcFacts ==
  /\ Proc \subseteq Nat /\ init_sys \in Proc /\ NULL \notin Proc
  /\ \A n \in Proc : n < MaxProc => n + 1 \in Proc
BY ContextAssumption DEF Proc, init_sys, NULL

LEMMA ContentFacts ==
  /\ Kernel \in Content /\ Proc \subseteq Content /\ \A p \in Proc : Own[p] \subseteq Content
BY ContextAssumption DEF Content

-----------------------------------------------------------------------------
(* The invariant.                                                          *)

\* A struct is made for its own address space unless it is a handler's; what
\* is still to be allocated is nobody's handler.
Parents ==
  /\ alive \subseteq 1..nalloc /\ current_task <= nalloc
  /\ parent[init_sys] = init_sys
  /\ \A p \in Proc : nalloc < p => parent[p] = p

\* Loaded or stored, CR3 is that of the process or of its parent.
Spaces ==
  /\ cpu["cr3"] = parent[current_task]
  /\ \A p \in Proc : context[p]["cr3"] = parent[p]

\* The living processes but the running one are stored as they were left.
StoredAsLeft ==
  \A p \in alive \ {current_task} : \A r \in Kept : context[p][r] = left[p][r]

Running ==
  /\ mode = "user" => current_task \in alive
  /\ mode = "dying" => current_task \notin alive

XInv == TypeOK /\ Parents /\ Spaces /\ StoredAsLeft /\ Running

LEMMA InitXInv == Init => XInv
<1> SUFFICES ASSUME Init PROVE XInv
  OBVIOUS
<1>1. TypeOK
  <2>1. cpu \in [Reg -> Content]
    BY ProcFacts, ContentFacts DEF Init
  <2>2. context \in [Proc -> [Saved -> Content]]
    BY ContentFacts DEF Init
  <2>3. left \in [Proc -> [Saved \ Clobbered -> Content]]
    <3>1. \A p \in Proc : Watched(context[p]) \in [Saved \ Clobbered -> Content]
      BY <2>2 DEF Watched
    <3>2. QED
      BY <3>1 DEF Init
  <2>4. 1 \in Proc
    BY ProcFacts DEF init_sys
  <2>5. QED
    BY <2>1, <2>2, <2>3, <2>4 DEF Init, TypeOK, init_sys
<1>2. Parents
  BY ProcFacts DEF Init, Parents, init_sys
<1>3. Spaces
  BY RegFacts, ProcFacts DEF Init, Spaces
<1>4. StoredAsLeft
  BY RegFacts DEF Init, StoredAsLeft, init_sys
<1>5. Running
  BY DEF Init, Running
<1>6. QED
  BY <1>1, <1>2, <1>3, <1>4, <1>5 DEF XInv

\* Steps that leave everything but the registers alone, and CR3 too.
LEMMA CpuOnly ==
  ASSUME XInv, UNCHANGED tasks, cpu' \in [Reg -> Content], cpu'["cr3"] = cpu["cr3"]
  PROVE  XInv'
BY DEF XInv, TypeOK, Parents, Spaces, StoredAsLeft, Running, tasks

LEMMA DispatchedType ==
  ASSUME XInv, NEW n
  PROVE  /\ Dispatched(n) \in [Reg -> Content]
         /\ "cr3" \notin Returned(n) => Dispatched(n)["cr3"] = cpu["cr3"]
<1>1. cpu \in [Reg -> Content] /\ Kernel \in Content /\ "cr3" \in Reg
  BY ContentFacts, RegFacts DEF XInv, TypeOK
<1>2. QED
  BY <1>1 DEF Dispatched, CallerSaved, syscall_regs

LEMMA ReturnedRegs == \A n \in -1..SYSCALL_COUNT : Returned(n) \subseteq {"rax", "rbx"}
BY DEF Returned, SYSCALL_COUNT

LEMMA SysCallXInv ==
  ASSUME XInv, NEW n \in -1..SYSCALL_COUNT, SysCall(n)
  PROVE  XInv'
<1>1. Dispatched(n) \in [Reg -> Content] /\ Dispatched(n)["cr3"] = cpu["cr3"]
  BY DispatchedType, ReturnedRegs
<1>2. Refused \in [Reg -> Content] /\ Refused["cr3"] = cpu["cr3"]
  BY ContentFacts, RegFacts DEF Refused, XInv, TypeOK
<1>3. QED
  BY <1>1, <1>2, CpuOnly DEF SysCall

\* A spawn in the address space of q, with the caller's CR3 loaded again.
LEMMA SpawnXInv ==
  ASSUME XInv, NEW q, q = NULL \/ (q \in Proc /\ q <= nalloc /\ parent[q] = q), Spawn(q),
         cpu' \in [Reg -> Content], cpu'["cr3"] = cpu["cr3"]
  PROVE  XInv'
<1> DEFINE p == nalloc + 1
           owner == IF q = NULL THEN p ELSE q
<1>1. /\ TypeOK /\ Parents /\ Spaces /\ StoredAsLeft /\ Running
      /\ nalloc \in Nat /\ p \in Proc /\ nalloc' = p /\ alive' = alive \cup {p}
  BY ProcFacts DEF XInv, TypeOK, Spawn
<1>2. PICK rip \in Own[p], rsp \in Own[p] :
        context' = [context EXCEPT ![p] = Fresh(context[owner]["cr3"], rip, rsp)]
  BY DEF Spawn
<1>3. /\ left' = [left EXCEPT ![p] = Watched(context'[p])]
      /\ parent' = [parent EXCEPT ![p] = owner]
      /\ UNCHANGED <<current_task, mode>>
  BY DEF Spawn
<1>4. owner \in Proc /\ parent[owner] = owner /\ context[owner]["cr3"] = owner
  <2>1. owner \in Proc
    BY <1>1
  <2>2. parent[owner] = owner
    <3>1. parent[p] = p
      BY <1>1 DEF Parents
    <3>2. CASE q = NULL
      BY <3>1, <3>2
    <3>3. CASE q # NULL
      BY <3>3
    <3>4. QED
      BY <3>2, <3>3
  <2>3. QED
    BY <1>1, <2>1, <2>2 DEF Spaces
<1> DEFINE f == Fresh(context[owner]["cr3"], rip, rsp)
<1>5. f \in [Saved -> Content] /\ f["cr3"] = owner
  BY <1>1, <1>2, <1>4, ContentFacts, RegFacts DEF Fresh
<1> HIDE DEF f, owner
<1>6. context' = [context EXCEPT ![p] = f]
  BY <1>2 DEF f
<1> HIDE DEF p
<1>7. /\ context'[p] = f /\ left'[p] = Watched(f) /\ parent'[p] = owner
      /\ \A k \in Proc : k # p => /\ context'[k] = context[k] /\ left'[k] = left[k]
                                  /\ parent'[k] = parent[k]
  BY <1>1, <1>3, <1>6 DEF TypeOK
<1>8. current_task \in Proc /\ current_task # p /\ p # init_sys /\ p \notin alive
      /\ \A k \in alive : k \in Proc
  BY <1>1, ProcFacts DEF TypeOK, Parents, p, init_sys
<1>9. TypeOK'
  <2>1. Watched(f) \in [Saved \ Clobbered -> Content]
    BY <1>5 DEF Watched
  <2>2. left' \in [Proc -> [Saved \ Clobbered -> Content]]
    BY <1>1, <1>3, <1>7, <2>1 DEF TypeOK
  <2>3. context' \in [Proc -> [Saved -> Content]] /\ parent' \in [Proc -> Proc]
    BY <1>1, <1>3, <1>4, <1>5, <1>6 DEF TypeOK
  <2>4. QED
    BY <1>1, <1>3, <2>2, <2>3 DEF TypeOK
<1>10. Parents'
  BY <1>1, <1>3, <1>7, <1>8, ProcFacts DEF Parents, TypeOK, p
<1>11. Spaces'
  BY <1>1, <1>3, <1>4, <1>5, <1>7, <1>8 DEF Spaces
<1>12. StoredAsLeft'
  <2>1. \A r \in Kept : f[r] = Watched(f)[r]
    BY RegFacts DEF Watched
  <2>2. QED
    BY <1>1, <1>3, <1>7, <1>8, <2>1 DEF StoredAsLeft
<1>13. Running'
  BY <1>1, <1>3, <1>8 DEF Running
<1>14. QED
  BY <1>9, <1>10, <1>11, <1>12, <1>13 DEF XInv

LEMMA StoredFacts ==
  ASSUME NEW c \in [Reg -> Content]
  PROVE  /\ Stored(c) \in [Saved -> Content] /\ Stored(c)["cr3"] = c["cr3"]
         /\ \A r \in Kept : Stored(c)[r] = c[r]
BY RegFacts, ContentFacts DEF Stored

LEMMA LoadedFacts ==
  ASSUME NEW c \in [Reg -> Content], NEW x \in [Saved -> Content]
  PROVE  /\ Loaded(c, x) \in [Reg -> Content] /\ Loaded(c, x)["cr3"] = x["cr3"]
         /\ \A r \in Kept : Loaded(c, x)[r] = x[r]
<1>1. \A r \in Saved \ {"rsp"} : r \in Reg /\ Loaded(c, x)[r] = x[r]
  BY RegFacts DEF Loaded
<1>2. "cr3" \in Saved \ {"rsp"} /\ Kept \subseteq Saved \ {"rsp"}
  BY RegFacts
<1>3. Loaded(c, x) \in [Reg -> Content]
  BY ContentFacts DEF Loaded
<1>4. QED
  BY <1>1, <1>2, <1>3

LEMMA TickStep ==
  ASSUME XInv, NEW p \in Proc, Tick(p)
  PROVE  XInv' /\ \A r \in Kept : cpu'[r] = left'[current_task'][r]
<1> DEFINE c == current_task
           st == Stored(cpu)
<1>1. /\ TypeOK /\ Parents /\ Spaces /\ StoredAsLeft /\ Running
      /\ c \in Proc /\ cpu \in [Reg -> Content] /\ mode \in {"user", "dying"} /\ p \in alive
  BY DEF XInv, TypeOK, Tick
<1>2. /\ context' = [context EXCEPT ![c] = st] /\ cpu' = Loaded(cpu, context'[p])
      /\ left' = IF mode = "user" THEN [left EXCEPT ![c] = Watched(cpu)] ELSE left
      /\ current_task' = p /\ mode' = "user" /\ UNCHANGED <<alive, nalloc, parent>>
  BY DEF Tick
<1>3. /\ st \in [Saved -> Content] /\ st["cr3"] = cpu["cr3"]
      /\ \A r \in Kept : st[r] = cpu[r]
  BY <1>1, StoredFacts
<1>4. Watched(cpu) \in [Saved \ Clobbered -> Content] /\ \A r \in Kept : Watched(cpu)[r] = cpu[r]
  BY <1>1, RegFacts DEF Watched
<1> HIDE DEF st
<1>5. /\ context'[c] = st /\ \A k \in Proc \ {c} : context'[k] = context[k] /\ left'[k] = left[k]
      /\ mode = "user" => left'[c] = Watched(cpu)
  BY <1>1, <1>2 DEF TypeOK
<1>6. context' \in [Proc -> [Saved -> Content]]
  BY <1>1, <1>2, <1>3 DEF TypeOK
<1>7. left' \in [Proc -> [Saved \ Clobbered -> Content]]
  BY <1>1, <1>2, <1>4 DEF TypeOK
<1>8. /\ cpu' \in [Reg -> Content] /\ cpu'["cr3"] = context'[p]["cr3"]
      /\ \A r \in Kept : cpu'[r] = context'[p][r]
  BY <1>1, <1>2, <1>6, LoadedFacts
<1>9. \A k \in Proc : context'[k]["cr3"] = parent[k]
  BY <1>1, <1>3, <1>5 DEF Spaces
\* Where the stored registers of a living process differ from what it was
\* left with, it is a dead one's.
<1>10. \A k \in alive : \A r \in Kept : context'[k][r] = left'[k][r]
  <2>1. SUFFICES ASSUME NEW k \in alive, NEW r \in Kept PROVE context'[k][r] = left'[k][r]
    OBVIOUS
  <2>2. k \in Proc
    BY <1>1 DEF TypeOK
  <2>3. CASE k = c
    <3>1. mode = "user"
      BY <1>1, <2>3 DEF Running
    <3>2. QED
      BY <1>3, <1>4, <1>5, <2>3, <3>1
  <2>4. CASE k # c
    BY <1>1, <1>5, <2>2, <2>4 DEF StoredAsLeft
  <2>5. QED
    BY <2>3, <2>4
<1>11. TypeOK'
  BY <1>1, <1>2, <1>6, <1>7, <1>8 DEF TypeOK
<1>12. Parents'
  BY <1>1, <1>2 DEF Parents
<1>13. Spaces'
  BY <1>2, <1>8, <1>9 DEF Spaces
<1>14. StoredAsLeft' /\ Running'
  BY <1>1, <1>2, <1>10 DEF StoredAsLeft, Running
<1>15. QED
  BY <1>1, <1>2, <1>8, <1>10, <1>11, <1>12, <1>13, <1>14 DEF XInv

LEMMA KillXInv ==
  ASSUME XInv, mode = "user", Kill
  PROVE  XInv'
<1>1. cpu' \in [Reg -> Content] /\ cpu'["cr3"] = cpu["cr3"]
  BY RegFacts, ContentFacts DEF Kill, XInv, TypeOK
<1>2. QED
  BY <1>1 DEF Kill, XInv, TypeOK, Parents, Spaces, StoredAsLeft, Running

LEMMA HaltXInv ==
  ASSUME XInv, Halt
  PROVE  XInv'
BY DEF Halt, XInv, TypeOK, Parents, Spaces, StoredAsLeft, Running

LEMMA NextXInv ==
  ASSUME XInv, [Next]_vars
  PROVE  XInv'
<1>1. CASE Compute
  <2>1. UNCHANGED tasks /\ cpu' \in [Reg -> Content] /\ cpu'["cr3"] = cpu["cr3"]
    BY <1>1, ContentFacts, RegFacts DEF Compute, XInv, TypeOK
  <2>2. QED
    BY <2>1, CpuOnly
<1>2. CASE \E n \in (-1..SYSCALL_COUNT) \ {7, 9} : SysCall(n)
  BY <1>2, SysCallXInv
<1>3. CASE SysSpawn
  <2>1. Dispatched(3) \in [Reg -> Content] /\ cpu["cr3"] \in Content
    BY DispatchedType, RegFacts DEF XInv, TypeOK
  <2>2. cpu' \in [Reg -> Content] /\ cpu'["cr3"] = cpu["cr3"]
    BY <1>3, <2>1, RegFacts DEF SysSpawn, LoadCr3
  <2>3. QED
    BY <1>3, <2>2, SpawnXInv DEF SysSpawn
<1>4. CASE KeyInterrupt
  <2>1. cpu' \in [Reg -> Content] /\ cpu'["cr3"] = cpu["cr3"]
    BY <1>4, RegFacts DEF KeyInterrupt, LoadCr3, XInv, TypeOK
  <2>2. init_sys \in Proc /\ init_sys <= nalloc /\ parent[init_sys] = init_sys
    BY ProcFacts DEF XInv, TypeOK, Parents
  <2>3. QED
    BY <1>4, <2>1, <2>2, SpawnXInv DEF KeyInterrupt
<1>5. ASSUME NEW p \in Proc, SysSignal(p)
      PROVE  XInv'
  <2>1. Dispatched(4) \in [Reg -> Content] /\ cpu["cr3"] \in Content
    BY DispatchedType, RegFacts DEF XInv, TypeOK
  <2>2. cpu' \in [Reg -> Content] /\ cpu'["cr3"] = cpu["cr3"]
    BY <1>5, <2>1, RegFacts DEF SysSignal, LoadCr3
  <2>3. p <= nalloc /\ parent[p] = p
    BY <1>5 DEF SysSignal, XInv, Parents
  <2>4. QED
    BY <1>5, <2>2, <2>3, SpawnXInv DEF SysSignal
<1>6. ASSUME NEW p \in Proc, Tick(p)
      PROVE  XInv'
  BY <1>6, TickStep
<1>7. CASE Exit \/ SysReboot
  BY <1>7, KillXInv, HaltXInv DEF Exit, SysReboot
<1>8. CASE ExitRefused
  <2>1. cpu' \in [Reg -> Content] /\ cpu'["cr3"] = cpu["cr3"]
    <3>1. /\ cpu \in [Reg -> Content] /\ context[current_task] \in [Saved -> Content]
          /\ \A r \in Reg \cap {"rip", "rsp"} : r \in Saved
      BY DEF XInv, TypeOK, Saved
    <3>2. QED
      BY <1>8, <3>1, ContentFacts, RegFacts DEF ExitRefused
  <2>2. QED
    BY <1>8, <2>1, CpuOnly DEF ExitRefused
<1>9. ASSUME NEW v \in 0..14, Fault(v)
      PROVE  XInv'
  BY <1>9, KillXInv, HaltXInv DEF Fault
<1>10. CASE UNCHANGED vars
  BY <1>10 DEF vars, tasks, XInv, TypeOK, Parents, Spaces, StoredAsLeft, Running
<1>11. QED
  BY <1>1, <1>2, <1>3, <1>4, <1>5, <1>6, <1>7, <1>8, <1>9, <1>10 DEF Next

-----------------------------------------------------------------------------
(* The theorems.                                                           *)

LEMMA XInvariantProof == Spec => []XInv
<1>1. XInv /\ [Next]_vars => XInv'
  BY NextXInv
<1>2. QED
  BY <1>1, InitXInv, PTL DEF Spec

\* The registers and the stored contexts keep their types.
THEOREM ContextTypeCorrect == Spec => []TypeOK
<1>1. XInv => TypeOK
  BY DEF XInv
<1>2. QED
  BY <1>1, XInvariantProof, PTL

\* A program runs in its own address space, a handler in its parent's, also
\* behind a _spawn or a signal, which loads another CR3 on the way.
THEOREM InOwnAddressSpace == Spec => []OwnAddressSpace
<1>1. XInv => OwnAddressSpace
  BY DEF XInv, Spaces, OwnAddressSpace
<1>2. QED
  BY <1>1, XInvariantProof, PTL

\* switch_task gives every process back the registers that survive the way to
\* its stores, whatever ran, was spawned, exited or faulted meanwhile.
THEOREM ResumedAsLeft == Spec => ResumesAsLeft
<1> DEFINE A == (\E p \in Proc : Tick(p)) => \A r \in Kept : cpu'[r] = left'[current_task'][r]
<1>1. XInv /\ [Next]_vars => A
  BY TickStep
<1> HIDE DEF A
<1>2. Spec => [][A]_vars
  BY <1>1, XInvariantProof, PTL DEF Spec
<1>3. QED
  BY <1>2 DEF A, ResumesAsLeft

\* dispatch_syscall and the services it calls change no register of the
\* program but RAX, RBX and R11, whatever the C functions overwrite.
THEOREM SyscallsKeepRegisters == Spec => SyscallKeepsRegisters
<1> DEFINE Call == \/ \E n \in -1..SYSCALL_COUNT : SysCall(n)
                   \/ SysSpawn \/ \E p \in Proc : SysSignal(p)
           A == Call => \A r \in Reg \ {"rax", "rbx", "r11"} : cpu'[r] = cpu[r]
<1>1. ASSUME NEW n \in -1..SYSCALL_COUNT, NEW r \in Reg \ {"rax", "rbx", "r11"}
      PROVE  Dispatched(n)[r] = cpu[r] /\ Refused[r] = cpu[r]
  <2>1. r \notin Returned(n) /\ (r \in CallerSaved => r \in syscall_regs)
    BY ReturnedRegs DEF CallerSaved, syscall_regs
  <2>2. QED
    BY <2>1 DEF Dispatched, Refused
<1>2. ASSUME NEW n \in -1..SYSCALL_COUNT, SysCall(n)
      PROVE  \A r \in Reg \ {"rax", "rbx", "r11"} : cpu'[r] = cpu[r]
  BY <1>1, <1>2 DEF SysCall
<1>3. ASSUME SysSpawn \/ \E p \in Proc : SysSignal(p)
      PROVE  \A r \in Reg \ {"rax", "rbx", "r11"} : cpu'[r] = cpu[r]
  <2>1. PICK n \in {3, 4} : cpu' = [Dispatched(n) EXCEPT !["cr3"] = LoadCr3]
    BY <1>3 DEF SysSpawn, SysSignal
  <2>2. n \in -1..SYSCALL_COUNT /\ DOMAIN Dispatched(n) = Reg
    BY DEF SYSCALL_COUNT, Dispatched
  <2>3. QED
    BY <1>1, <2>1, <2>2 DEF LoadCr3
<1>4. A
  BY <1>2, <1>3
<1> HIDE DEF A
<1>5. Spec => [][A]_vars
  BY <1>4, PTL DEF Spec
<1>6. QED
  BY <1>5 DEF A, SyscallKeepsRegisters
=============================================================================
