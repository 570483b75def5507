---------------------------- MODULE AddressSpace ----------------------------
(***************************************************************************)
(* Processes and frames together: which frame holds the top page table     *)
(* (CR3) of which process.  _spawn gets one from mkpml4, a signal handler  *)
(* trades its own for its parent's, and kill frees the CR3 of the process  *)
(* it ends (kernel/src/proc/proc.c, mm/vmm.c, mm/pmm.c).                   *)
(*                                                                         *)
(* The frame allocator is that of module Pmm with two restrictions: memory *)
(* does not run out, and every frame is below 4 GiB.                       *)
(***************************************************************************)
EXTENDS ProcQueue, FiniteSetsExt

CONSTANTS
  Frames,    \* the frames the bitmap has marked free when init.sys starts
  Pages      \* how many frames besides CR3 a spawn may take

ASSUME AddressAssumption ==
  Frames \subseteq Nat \ {0, 1, 2} /\ Pages \subseteq Nat

VARIABLES
  free, bitmap_i,   \* as in Pmm
  cr3, parent,      \* context[PCTX_CR3] and parent of struct Process
  stray             \* history: the frames freed while another process had them

frames == <<free, bitmap_i, cr3, parent, stray>>
all == <<vars, frames>>

\* init.sys has frame 2.
SpaceInit ==
  /\ Init
  /\ free = Frames /\ bitmap_i = 3
  /\ cr3 = [n \in Node |-> IF n = queue_base THEN 2 ELSE 0]
  /\ parent = [n \in Node |-> NULL]
  /\ stray = {}

\* The frames that k calls of pmm_alloc return.
Ahead == {f \in free : f >= bitmap_i}
Taken(k) == {f \in Ahead : Cardinality({g \in Ahead : g < f}) < k}

\* Mutant: the frames stay marked free.
TakeUnmarked(k) ==
  /\ Cardinality(Ahead) >= k
  /\ UNCHANGED free /\ bitmap_i' = Max(Taken(k)) + 1

Take(k) ==
  /\ Cardinality(Ahead) >= k       \* bound: memory does not run out
  /\ free' = free \ Taken(k)
  /\ bitmap_i' = Max(Taken(k)) + 1

\* System call 3: of the frames _spawn takes, for the struct, CR3, the
\* program and the stack, one becomes CR3.
SpawnSpace(m) ==
  /\ SysSpawn(m)
  /\ \E k \in Pages :
       /\ Take(k + 1)
       /\ \E f \in Taken(k + 1) : cr3' = [cr3 EXCEPT ![nalloc + 1] = f]
  /\ UNCHANGED <<parent, stray>>

\* A signal to process `to': the frame that mkpml4 took for the handler is
\* not used and not given back.  Handlers get no signals (Psignal).
HandlerSpace(to) ==
  /\ parent[to] = NULL
  /\ SpawnHandler(to)
  /\ \E k \in Pages : Take(k + 1)
  /\ cr3' = [cr3 EXCEPT ![nalloc + 1] = cr3[to]]
  /\ parent' = [parent EXCEPT ![nalloc + 1] = to]
  /\ UNCHANGED stray

\* kill: pmm_free(current->context[PCTX_CR3]) moves the hint to that frame.
ExitSpace ==
  LET c == locate_proc(pid, next, pid[current_task])
  IN /\ Exit
     /\ free' = free \cup {cr3[c]} /\ bitmap_i' = cr3[c]
     /\ stray' = stray \cup {cr3[k] : k \in {j \in live \ {c} : cr3[j] = cr3[c]}}
     /\ UNCHANGED <<cr3, parent>>

TickSpace == Tick /\ UNCHANGED frames

SpaceNext ==
  \/ \E m \in Masks : SpawnSpace(m)
  \/ \E to \in live : HandlerSpace(to)
  \/ ExitSpace
  \/ InitFault /\ UNCHANGED frames
  \/ TickSpace

\* Fair as in ProcQueue.
SpaceSpec == SpaceInit /\ [][SpaceNext]_all /\ WF_all(TickSpace)

-----------------------------------------------------------------------------
(* Properties.                                                             *)

Root(n) == IF parent[n] = NULL THEN n ELSE parent[n]

\* The page tables of a living program stay its own, unless a handler ended
\* before its parent or the parent before its handler: the top one is not
\* free, and no other program has the same.  _spawn, psignal_exec_callback, kill.
SpaceOwned ==
  \A n \in live : cr3[n] \in stray
    \/ /\ cr3[n] \notin free
       /\ \A k \in live : cr3[k] = cr3[n] => Root(k) = Root(n)

\* proc.c:309, "Free it's address space.": what kill frees belonged to the
\* process it ends.  The code violates it: a handler's CR3 is its parent's,
\* and the next spawn takes the frame while the parent lives.
KillFreesItsOwn == \A n \in live : cr3[n] \notin free
=============================================================================
