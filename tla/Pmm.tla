-------------------------------- MODULE Pmm --------------------------------
(***************************************************************************)
(* The physical memory manager (kernel/src/mm/pmm.c): pmm_alloc and        *)
(* pmm_free over a bitmap with one byte per frame, a hint where to search, *)
(* and the two mutexes the functions take.                                 *)
(*                                                                         *)
(* The kernel calls both with interrupts off, so a call is one step, and a *)
(* spin on a mutex that nobody will release is the end of the machine.     *)
(***************************************************************************)
EXTENDS Bitmap, FiniteSets

CONSTANT bitmap_length   \* bytes of the second biggest chunk, as pmm_init stored it

ASSUME PmmAssumption ==
  bitmap_length \in Nat /\ bitmap_length > 2 /\ Memory >= bitmap_length

VARIABLES
  free,       \* the i with bitmap[i] = BITMAP_FREE, behind the bitmap's end too
  bitmap_i,   \* where pmm_alloc goes on searching
  lock,       \* the static lock of pmm_alloc
  ret,        \* the frame the last pmm_alloc returned, 0 for none
  given,      \* history: frames ever handed out
  held,       \* history: frames handed out and not given back since
  hung        \* pmm_alloc spins on its lock

vars == <<free, bitmap_i, lock, ret, given, held, hung>>

\* Mutant: the search starts at frame 0.
InitAtZero ==
  /\ free \in SUBSET Byte
  /\ bitmap_i = 0 /\ lock = 0 /\ ret = 0
  /\ given = {} /\ held = {} /\ hung = FALSE

\* Nothing writes the bitmap before the first pmm_alloc: it holds what the
\* chunk held at boot.
Init ==
  /\ free \in SUBSET Byte
  /\ bitmap_i = 2 /\ lock = 0 /\ ret = 0
  /\ given = {} /\ held = {} /\ hung = FALSE

\* Mutant: the frame is handed out and stays marked free.
AllocUnmarked ==
  /\ ~ hung /\ lock = 0 /\ Stops(free, bitmap_i, bitmap_length) \cap free # {}
  /\ ret' = Min(Stops(free, bitmap_i, bitmap_length)) /\ bitmap_i' = ret' + 1
  /\ given' = given \cup {ret'} /\ held' = held \cup {ret'}
  /\ UNCHANGED <<free, lock, hung>>

\* pmm_alloc.  The early return does not release the lock.
pmm_alloc ==
  /\ ~ hung
  /\ \/ /\ lock = 1
        /\ hung' = TRUE
        /\ UNCHANGED <<free, bitmap_i, lock, ret, given, held>>
     \/ /\ lock = 0
        /\ Stops(free, bitmap_i, bitmap_length) # {}                   \* bound
        /\ LET i == Min(Stops(free, bitmap_i, bitmap_length))
           IN IF i \in free
              THEN /\ free' = free \ {i} /\ given' = given \cup {i} /\ held' = held \cup {i}
                   /\ ret' = i /\ bitmap_i' = i + 1
                   /\ UNCHANGED lock
              ELSE /\ ret' = 0 /\ bitmap_i' = i /\ lock' = 1
                   /\ UNCHANGED <<free, given, held>>
        /\ UNCHANGED hung

\* The index whose address, computed in 32 bits, is that of frame f.
Matching(f) == {i \in 0..(bitmap_length - 1) : i = f /\ i < WordFrames}

\* pmm_free of frame f; its lock is a local variable.
pmm_free(f) ==
  /\ ~ hung
  /\ IF Matching(f) = {} THEN UNCHANGED <<free, bitmap_i>>
     ELSE free' = free \cup {f} /\ bitmap_i' = f
  /\ held' = held \ {f}
  /\ UNCHANGED <<lock, ret, given, hung>>

\* The kernel frees what it was given, some of it more than once.
Next == pmm_alloc \/ \E f \in given : pmm_free(f)

Spec == Init /\ [][Next]_vars

-----------------------------------------------------------------------------
(* Properties.                                                             *)

TypeOK ==
  /\ free \subseteq Byte /\ held \subseteq given /\ given \subseteq Byte /\ ret \in Byte
  /\ bitmap_i \in 2..(Memory + 1)
  /\ lock \in {0, 1} /\ hung \in BOOLEAN

\* As long as pmm_alloc and pmm_free alone write the bitmap: a frame that was
\* handed out and not given back is not handed out again, whatever garbage the
\* bitmap held at boot, in whatever order frames come back and however often;
\* and the search starts above frames 0 and 1, so 0 stays the mark of failure.
HeldExclusively == held \cap free = {} /\ \A f \in held : f >= 2

\* pmm_alloc passes over no free frame at or above the hint, so frames are
\* lost only to a pmm_free that moves the hint up.
NoneSkippedAbove ==
  [][pmm_alloc => \A f \in free : f \in free' /\ f >= bitmap_i => f >= bitmap_i']_vars

\* pmm.h:11, "Returns 0 if out of frames.": when pmm_alloc returned 0, and no
\* frame came back since, no frame of the bitmap is free.  The code violates
\* it: pmm_free moves the hint up as well as down, and free frames below the
\* hint are not searched.
ZeroMeansOutOfFrames ==
  lock = 1 /\ bitmap_i \notin free => free \cap 2..(bitmap_length - 1) = {}
=============================================================================
