----------------------------- MODULE PmmChunks -----------------------------
(***************************************************************************)
(* pmm_init (kernel/src/mm/pmm.c): one pass over the memory map of the     *)
(* boot loader that picks two usable chunks.  The second one holds the     *)
(* bitmap of the physical memory manager, and its length is the number of  *)
(* frames.                                                                 *)
(***************************************************************************)
EXTENDS Integers, Sequences, SequencesExt

CONSTANTS
  MaxEntries,  \* bound: entries of the memory map
  Lengths      \* lengths of chunks

ASSUME ChunksAssumption == MaxEntries \in Nat /\ Lengths \subseteq Nat

VARIABLES
  entries,               \* the memory map
  i,                     \* the loop counter, from 1
  biggest_chunk, second_biggest_chunk,   \* indexes of entries, 0 for NULL
  phase                  \* "scan", "ready" or "panic"

vars == <<entries, i, biggest_chunk, second_biggest_chunk, phase>>

NULL == 0
Entry == [usable : BOOLEAN, length : Lengths]

Init ==
  /\ entries \in BoundedSeq(Entry, MaxEntries)
  /\ i = 1 /\ phase = "scan"
  /\ biggest_chunk = NULL /\ second_biggest_chunk = NULL

\* The first usable chunk is the biggest so far.
TakesFirst == entries[i].usable /\ biggest_chunk = NULL

\* Mutant: a chunk as long as the biggest displaces it.
DisplacesEqual ==
  /\ entries[i].usable /\ biggest_chunk # NULL
  /\ entries[i].length >= entries[biggest_chunk].length

\* A usable chunk longer than the biggest so far takes its place.
Displaces ==
  /\ entries[i].usable /\ biggest_chunk # NULL
  /\ entries[i].length > entries[biggest_chunk].length

\* One turn of the loop.
Scan ==
  /\ phase = "scan" /\ i <= Len(entries)
  /\ i' = i + 1
  /\ biggest_chunk' = IF TakesFirst \/ Displaces THEN i ELSE biggest_chunk
  /\ second_biggest_chunk' = IF Displaces THEN biggest_chunk ELSE second_biggest_chunk
  /\ UNCHANGED <<entries, phase>>

\* Behind the loop: "Not enough memory!" and HLT, or the bitmap is placed.
Decide ==
  /\ phase = "scan" /\ i > Len(entries)
  /\ phase' = IF NULL \in {biggest_chunk, second_biggest_chunk} THEN "panic" ELSE "ready"
  /\ UNCHANGED <<entries, i, biggest_chunk, second_biggest_chunk>>

Next == Scan \/ Decide

Spec == Init /\ [][Next]_vars

-----------------------------------------------------------------------------
(* Properties.                                                             *)

\* The loop's counter, the chosen chunks and the verdict keep their types.
TypeOK ==
  /\ entries \in Seq(Entry) /\ i \in 1..(Len(entries) + 1)
  /\ biggest_chunk \in 0..Len(entries) /\ second_biggest_chunk \in 0..Len(entries)
  /\ phase \in {"scan", "ready", "panic"}

Usable == {k \in 1..Len(entries) : entries[k].usable}

FirstLongest(k, S) ==
  /\ k \in S
  /\ \A j \in S : /\ entries[j].length <= entries[k].length
                  /\ j < k => entries[j].length < entries[k].length

\* The bitmap is put into the longest of the usable chunks in front of the
\* longest one, and that need not be the second biggest: what lies behind the
\* longest is passed over.  So the kernel gives up not only where there is one
\* usable chunk, but also where the first usable chunk is the longest.  Of
\* chunks of one length the first counts.
ChunksSound ==
  /\ phase = "ready" =>
       /\ FirstLongest(biggest_chunk, Usable)
       /\ FirstLongest(second_biggest_chunk, {k \in Usable : k < biggest_chunk})
  /\ phase = "panic" =>
       \A k \in Usable : FirstLongest(k, Usable) => \A j \in Usable : k <= j
=============================================================================
