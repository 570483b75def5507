------------------------------- MODULE Memory -------------------------------
(***************************************************************************)
(* Virtual memory and the kernel heap (kernel/src/mm/vmm.c, mm/kheap.c) on *)
(* top of the frames of Pmm.                                               *)
(*                                                                         *)
(* The boot loader maps the first 4 GiB at their own addresses, except     *)
(* page 0, and once more at HIGHER_HALF_DATA, where the heap lies; behind  *)
(* both there are no tables.  mkpml4 copies the top level only, so the     *)
(* tables below it, and every mapping in them, are common to all address   *)
(* spaces.                                                                 *)
(*                                                                         *)
(* A function that maps several pages is a call that is worked off page by *)
(* page: nothing interrupts it, as the kernel runs with interrupts off.    *)
(* A page fault of the kernel ends the process that called, or the machine *)
(* if that was PID 1: the call is over, and Kill or nothing may follow.    *)
(*                                                                         *)
(* The heap, the programs, the frames handed out, the bitmap and the       *)
(* tables of the boot loader lie in the same memory, and nothing in the    *)
(* code keeps them apart.  When one is written over another, anything may  *)
(* happen; the model stops there.                                          *)
(***************************************************************************)
EXTENDS Pmm, Sequences, SequencesExt

CONSTANTS
  Page,       \* bytes of a page, 0x1000 in the code
  Header,     \* sizeof(struct KHeapBlock), 48 in the code
  Sizes,      \* the sizes kmalloc is asked for
  Reserved,   \* frames with the bitmap, the kernel, the loader's tables
  Linked,     \* pages that programs are linked to, below 4 GiB
  HeapPages,  \* bound: pages from HEAP_START_ADDR on that are modelled
  MaxSpaces   \* bound: processes at a time

ASSUME MemoryAssumption ==
  /\ Header \in Nat \ {0} /\ Page \in Nat /\ Page > Header
  /\ Sizes \subseteq Nat /\ HeapPages \in Nat \ {0} /\ MaxSpaces \in Nat
  /\ Linked \subseteq 1..Memory /\ \A p \in Linked : p < WordFrames

VARIABLES
  pte,       \* the frame a page is mapped to, NoFrame if it is not present
  user,      \* the pages with PAGE_USER
  blocks,    \* the heap: [addr, size, user], oldest first; heap_head is the last
  overrun,   \* the list of blocks leads to an address that is not mapped
  cr3,       \* the CR3 of a process, NoFrame for none; 0 is the boot
  filled,    \* history: frames that hold a copy of the top level
  maplock,   \* the static lock of vmm_map_page
  call,      \* the function at work: [op, size, todo], todo its pages to map
  fate       \* "runs"; "stuck" at the lock of vmm_map_page; "lost", with NULL in
             \* CR3 or by a fault with no process; "wild", see above

heap == <<blocks, overrun>>
spaces == <<cr3, filled>>
memvars == <<vars, pte, user, heap, spaces, maplock, call, fate>>

NoFrame == -1
Process == 1..MaxSpaces

\* Pages are numbered; those of the heap come behind those of the low addresses.
Low == Byte
HeapPage(k) == Memory + 1 + k
Heap == {HeapPage(k) : k \in 0..(HeapPages - 1)}
PageOf(addr) == HeapPage(addr \div Page)

\* The pages for which the boot loader left no tables.
Untabled == {p \in Low : p >= WordFrames} \cup {p \in Heap : p >= HeapPage(WordFrames)}

Map(p, u) == [page |-> p, user |-> u]
Idle == [op |-> "none", size |-> 0, todo |-> <<>>]

\* The heap is a block of size 0.  kheap_init finds its page mapped and only
\* writes that block, so it is through here; vmm_init is the first mkpml4.
MemInit ==
  /\ Init
  /\ pte = [p \in Low \cup Heap |->
              IF p \in Untabled \cup {0} THEN NoFrame
              ELSE IF p \in Heap THEN p - HeapPage(0) ELSE p]
  /\ user = {} /\ blocks = <<[addr |-> 0, size |-> 0, user |-> FALSE]>>
  /\ overrun = FALSE
  /\ cr3 = [s \in {0} \cup Process |-> NoFrame] /\ filled = {}
  /\ maplock = 0 /\ call = Idle /\ fate = "runs"

Running == ~ hung /\ fate = "runs"

-----------------------------------------------------------------------------
(* What lies where.                                                        *)

\* The addresses of a block are offsets from HEAP_START_ADDR.
DataStart(b) == b.addr + Header

\* The bytes of a block, with its header, and the frames under them.
Extent(b) == b.addr..(DataStart(b) + b.size - 1)
Under(b) == {pte[PageOf(a)] : a \in Extent(b)} \ {NoFrame}

HeapFrames == UNION {Under(b) : b \in ToSet(blocks)}

\* The frames with contents that the kernel relies on, apart from the heap.
InUse == ({cr3[s] : s \in DOMAIN cr3} \ {NoFrame}) \cup Reserved

\* What becomes of the machine when these frames are written.
Written(frames, taken) == fate' = IF frames \cap taken = {} THEN fate ELSE "wild"

\* What becomes of it when the kernel faults: a process ends, if there is one.
Faults == fate' = IF \A s \in Process : cr3[s] = NoFrame THEN "lost" ELSE fate

-----------------------------------------------------------------------------
(* vmm_map_page.                                                           *)

Flags(m) == IF m.user THEN user \cup {m.page} ELSE user \ {m.page}

\* Mutant: a page that is present is mapped afresh.
PresentNever(p) == FALSE

Present(p) == pte[p] # NoFrame

\* A page whose tables are missing: pmm_alloc gives a frame for one, memzero
\* clears it through the page of its number.  Either that page is not mapped,
\* and the fault leaves the lock taken, or the call for this page waits for
\* the lock this one holds.
MapUntabled(m) ==
  /\ m.page \in Untabled
  /\ pmm_alloc /\ maplock' = 1
  /\ IF hung' THEN UNCHANGED <<call, fate, filled>>
     ELSE IF pte[ret'] = NoFrame THEN call' = Idle /\ Faults /\ UNCHANGED filled
     ELSE fate' = "stuck" /\ filled' = filled \ {pte[ret']} /\ UNCHANGED call
  /\ UNCHANGED <<pte, user>>

\* A page that is mapped only gets new flags, another one a frame, be it 0.
MapTabled(m) ==
  /\ m.page \notin Untabled
  /\ IF Present(m.page) THEN UNCHANGED <<vars, pte>>
     ELSE pmm_alloc /\ pte' = IF hung' THEN pte ELSE [pte EXCEPT ![m.page] = ret']
  /\ IF hung' THEN UNCHANGED <<user, call>>
     ELSE user' = Flags(m) /\ call' = [call EXCEPT !.todo = Tail(@)]
  /\ UNCHANGED <<filled, maplock, fate>>

\* One call of vmm_map_page, for the first page of the list.
MapNext ==
  /\ Running /\ call.todo # <<>>
  /\ \/ /\ maplock = 1 /\ fate' = "stuck"
        /\ UNCHANGED <<vars, pte, user, filled, maplock, call>>
     \/ maplock = 0 /\ MapUntabled(Head(call.todo))
     \/ maplock = 0 /\ MapTabled(Head(call.todo))
  /\ UNCHANGED <<heap, cr3>>

-----------------------------------------------------------------------------
(* The heap.                                                               *)

\* Mutant: the new block is put behind the size of the last one, in bytes.
NextTight(b) == b.addr + b.size + Header \div 2

\* DATA_START(heap_head + heap_head->size): the size counts block headers.
NextBlock(b) == b.addr + b.size * Header + Header

\* What kfree marks free: the blocks from the one it is given up to the one it
\* is given.
FreedBy(k) == k..(k - 1)

\* The blocks that first_fit could return.
is_free == UNION {FreedBy(k) : k \in 1..Len(blocks)}

\* Mutant: the loop moves by as many pages as a page has bytes.
LowPagesFar(n) == [k \in 1..((n + Page - 1) \div Page) |-> Map((k - 1) * Page, FALSE)]

\* The loop of kmalloc.  first_fit found nothing, so tmp starts at
\* DATA_START(NULL), in page 0, and moves by 0x1000 headers at a time.
LowPages(n) ==
  [k \in 1..((n + Page - 1) \div Page) |->
     Map((Header + (k - 1) * Page * Header) \div Page, FALSE)]

\* kmalloc; the block is there when the pages are mapped.  Behind an overrun
\* first_fit faults, and nothing changes.
kmalloc(n, op) ==
  /\ Running /\ call = Idle /\ cr3[0] # NoFrame
  /\ ~ overrun /\ is_free = {}
  /\ \A k \in 1..Len(LowPages(n)) : LowPages(n)[k].page \in Low     \* bound
  /\ NextBlock(Last(blocks)) + Header + n <= HeapPages * Page       \* bound
  /\ call' = [op |-> op, size |-> n, todo |-> LowPages(n)]
  /\ UNCHANGED <<vars, pte, user, heap, spaces, maplock, fate>>

\* Mutant: the first page is not the one in which the block starts.
UserPagesUnaligned(block, n) ==
  [k \in 1..((n + Page - 1) \div Page) |-> Map(PageOf(block + (k - 1) * Page), TRUE)]

\* The pages kmalloc_user maps, from ALIGN_DOWN(block) up to block + n_bytes.
UserPages(block, n) ==
  LET first == (block \div Page) * Page
  IN [k \in 1..((block + n - first + Page - 1) \div Page) |->
        Map(PageOf(first + (k - 1) * Page), TRUE)]

\* The end of kmalloc, and of its caller kmalloc_user.  heap_head->next is set
\* before the header of the new block is written, heap_head behind it.
Return ==
  /\ Running /\ call.todo = <<>> /\ call.op \in {"kmalloc", "kmalloc_user"}
  /\ LET b == [addr |-> NextBlock(Last(blocks)), size |-> call.size, user |-> FALSE]
     IN IF \E a \in b.addr..(DataStart(b) - 1) : pte[PageOf(a)] = NoFrame
        THEN overrun' = TRUE /\ call' = Idle /\ Faults /\ UNCHANGED blocks
        ELSE /\ blocks' = Append(blocks, b) /\ Written(Under(b), InUse)
             /\ IF call.op = "kmalloc" THEN call' = Idle
                ELSE call' = [op |-> "user", size |-> call.size,
                              todo |-> UserPages(DataStart(b), call.size)]
             /\ UNCHANGED overrun
  /\ UNCHANGED <<vars, pte, user, spaces, maplock>>

ReturnUser ==
  /\ Running /\ call.todo = <<>> /\ call.op = "user"
  /\ blocks' = [blocks EXCEPT ![Len(blocks)].user = TRUE]
  /\ call' = Idle
  /\ UNCHANGED <<vars, pte, user, overrun, spaces, maplock, fate>>

-----------------------------------------------------------------------------
(* Address spaces.                                                         *)

\* mkpml4, up to pmm_alloc in vmm_alloc_page: by vmm_init, then by proc_init
\* and _spawn, which have put the process on the heap before.
mkpml4 ==
  /\ Running /\ call = Idle
  /\ cr3[0] # NoFrame => Len(blocks) > 1 /\ \E s \in Process : cr3[s] = NoFrame
  /\ pmm_alloc
  /\ IF hung' THEN UNCHANGED <<call, fate>>
     ELSE IF ret' = 0 THEN fate' = "lost" /\ UNCHANGED call
     ELSE /\ call' = [op |-> "mkpml4", size |-> ret', todo |-> <<Map(ret', FALSE)>>]
          /\ UNCHANGED fate
  /\ UNCHANGED <<pte, user, heap, spaces, maplock>>

\* The frame is mapped; the entries are copied to the page of its number.  A
\* signal handler then gets the CR3 of its parent instead.
ReturnSpace ==
  /\ Running /\ call.todo = <<>> /\ call.op = "mkpml4"
  /\ filled' = filled \cup {pte[call.size]}
  /\ Written({pte[call.size]}, HeapFrames \cup Reserved)
  /\ \/ cr3[0] = NoFrame /\ cr3' = [cr3 EXCEPT ![0] = call.size]
     \/ /\ cr3[0] # NoFrame
        /\ \E s \in Process, c \in {call.size} \cup ({cr3[t] : t \in Process} \ {NoFrame}) :
             cr3[s] = NoFrame /\ cr3' = [cr3 EXCEPT ![s] = c]
  /\ call' = Idle
  /\ UNCHANGED <<vars, pte, user, heap, maplock>>

\* kill gives the frame of CR3 back, whoever else runs on it, and the mapping
\* of its page stays.
Kill(s) ==
  /\ Running /\ call = Idle /\ cr3[s] # NoFrame
  /\ pmm_free(cr3[s])
  /\ cr3' = [cr3 EXCEPT ![s] = NoFrame]
  /\ UNCHANGED <<pte, user, heap, filled, maplock, call, fate>>

\* elf_get_entry maps a page of a program for users ...
MapProgram(p) ==
  /\ Running /\ call = Idle /\ cr3[0] # NoFrame
  /\ call' = [op |-> "elf", size |-> p, todo |-> <<Map(p, TRUE)>>]
  /\ UNCHANGED <<vars, pte, user, heap, spaces, maplock, fate>>

\* ... and fills it.
ReturnProgram ==
  /\ Running /\ call.todo = <<>> /\ call.op = "elf"
  /\ Written({pte[call.size]}, InUse \cup HeapFrames)
  /\ call' = Idle
  /\ UNCHANGED <<vars, pte, user, heap, spaces, maplock>>

MemNext ==
  \/ MapNext
  \/ \E n \in Sizes, op \in {"kmalloc", "kmalloc_user"} : kmalloc(n, op)
  \/ Return \/ ReturnUser
  \/ mkpml4 \/ ReturnSpace \/ (\E s \in Process : Kill(s))
  \/ (\E p \in Linked : MapProgram(p)) \/ ReturnProgram

MemSpec == MemInit /\ [][MemNext]_memvars

-----------------------------------------------------------------------------
(* Properties.                                                             *)

\* A page that is mapped stays mapped to its frame: another flag, another
\* owner, the end of the process leave it there.  vmm_map_page, mkpml4.
TranslationsKept == [][\A p \in Low \cup Heap : pte[p] # NoFrame => pte'[p] = pte[p]]_memvars

\* Whatever a process runs on is a frame that mkpml4 filled, though kill gives
\* it back with every handler while the parent runs on it, and the allocator
\* hands it out again: all that is ever written to it is the same entries.
\* And mkpml4 writes to the page with the number of the frame, so the two must
\* coincide.
SpacesFilled == Running => \A s \in DOMAIN cr3 : cr3[s] # NoFrame => cr3[s] \in filled

\* No two blocks of the heap share a byte, though the distance between them
\* counts headers where it means bytes.  kmalloc.
HeapBlocksDisjoint ==
  \A j, k \in 1..Len(blocks) : j < k => Extent(blocks[j]) \cap Extent(blocks[k]) = {}

\* What kmalloc_user returned can be used by a program to its last byte, and
\* goes on to be: no other call takes PAGE_USER from these pages.
UserBlocksMapped ==
  \A b \in ToSet(blocks) :
    b.user => \A i \in DataStart(b)..(DataStart(b) + b.size - 1) :
                pte[PageOf(i)] # NoFrame /\ PageOf(i) \in user

\* vmm_map_page waits for its own lock, or loses it in a fault, only behind a
\* frame above 4 GiB or with a heap that has outgrown the 4 GiB: no program
\* and no page kmalloc maps on the way, page 0 among them, lacks a table.
StuckOnlyBeyond4GiB ==
  fate = "stuck" \/ maplock = 1 =>
    \/ \E f \in given : f >= WordFrames
    \/ DataStart(Last(blocks)) + Last(blocks).size > WordFrames * Page
=============================================================================
