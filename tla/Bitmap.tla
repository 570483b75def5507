------------------------------- MODULE Bitmap -------------------------------
(***************************************************************************)
(* The search of pmm_alloc (kernel/src/mm/pmm.c) in the bytes of the       *)
(* bitmap, for the allocator itself (Pmm) and for the boot (Boot).         *)
(***************************************************************************)
EXTENDS Integers, FiniteSetsExt

CONSTANTS
  Memory,      \* bound: the last byte behind the bitmap that is modelled
  WordFrames   \* frames a uint32_t address reaches, those below 4 GiB: 2^20

ASSUME BitmapAssumption == Memory \in Nat /\ WordFrames \in Nat

Byte == 0..Memory

\* Mutant: the frame under the hint is not looked at.
StopsBehind(free, hint, length) == {i \in Byte : i > hint /\ (i \in free \/ i >= length - 1)}

\* Where the loop stops that starts at a hint: at a free frame, or at the end
\* of the bitmap, which it tests only where the frame is not free.
Stops(free, hint, length) == {i \in Byte : i >= hint /\ (i \in free \/ i >= length - 1)}
=============================================================================
