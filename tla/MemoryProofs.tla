---------------------------- MODULE MemoryProofs ----------------------------
(* Proofs about Memory, for every size of a page, of a block header, of the *)
(* heap and of the requests: that it uses the frames as Pmm allows, that    *)
(* mappings stay, that the heap's blocks stay apart and mapped, that every  *)
(* CR3 is a filled table, and where vmm_map_page can get stuck.             *)
EXTENDS Memory, NatLemmas, SequenceTheorems, TLAPS

-----------------------------------------------------------------------------
(* Frames: theorems about Pmm by itself, for every length of the bitmap and *)
(* every content of the memory under it.                                    *)

\* The places where the search of the next pmm_alloc stops.
StopsNow == Stops(free, bitmap_i, bitmap_length)

\* The search loop stops at the first place it can.
LEMMA FirstStop ==
  ASSUME TypeOK, StopsNow # {}
  PROVE  Min(StopsNow) \in StopsNow /\ \A k \in StopsNow : Min(StopsNow) <= k
<1>1. StopsNow \in SUBSET Nat
  BY BitmapAssumption DEF StopsNow, Stops, Byte
<1>2. \E m \in StopsNow : \A k \in StopsNow : m <= k
  BY <1>1, LeastElement
<1>3. QED
  BY <1>2 DEF Min

\* A call of pmm_alloc with the lock free.
LEMMA AllocStep ==
  ASSUME TypeOK, pmm_alloc, lock = 0
  PROVE  /\ Min(StopsNow) \in Byte /\ Min(StopsNow) >= bitmap_i
         /\ \A k \in StopsNow : Min(StopsNow) <= k
         /\ IF Min(StopsNow) \in free
            THEN /\ free' = free \ {Min(StopsNow)} /\ held' = held \cup {Min(StopsNow)}
                 /\ given' = given \cup {Min(StopsNow)}
                 /\ ret' = Min(StopsNow) /\ bitmap_i' = Min(StopsNow) + 1 /\ lock' = lock
            ELSE /\ ret' = 0 /\ bitmap_i' = Min(StopsNow) /\ lock' = 1
                 /\ UNCHANGED <<free, given, held>>
         /\ hung' = hung
<1>1. StopsNow # {}
  BY DEF pmm_alloc, StopsNow
<1>2. Min(StopsNow) \in StopsNow /\ \A k \in StopsNow : Min(StopsNow) <= k
  BY <1>1, FirstStop
<1>3. Min(StopsNow) \in Byte /\ Min(StopsNow) >= bitmap_i
  BY <1>2 DEF StopsNow, Stops
<1>4. QED
  BY <1>2, <1>3 DEF pmm_alloc, StopsNow

PmmInv == TypeOK /\ HeldExclusively /\ \A f \in given : f >= 2

LEMMA PmmInvStep ==
  ASSUME PmmInv, [Next]_vars
  PROVE  PmmInv'
<1> USE BitmapAssumption, PmmAssumption
<1>1. CASE pmm_alloc /\ lock = 0
  <2>1. TypeOK
    BY DEF PmmInv
  <2>2. /\ Min(StopsNow) \in Byte /\ Min(StopsNow) >= bitmap_i /\ bitmap_i >= 2
        /\ bitmap_i \in Nat /\ Min(StopsNow) \in Nat /\ Min(StopsNow) <= Memory
    BY <1>1, <2>1, AllocStep DEF TypeOK, Byte
  <2> DEFINE m == Min(StopsNow)
  <2>3. \/ /\ free' = free \ {m} /\ held' = held \cup {m} /\ given' = given \cup {m}
           /\ ret' = m /\ bitmap_i' = m + 1 /\ lock' = lock /\ hung' = hung
        \/ /\ ret' = 0 /\ bitmap_i' = m /\ lock' = 1
           /\ UNCHANGED <<free, given, held, hung>>
    BY <1>1, <2>1, AllocStep
  <2> HIDE DEF m
  <2>4. m \in Byte /\ m >= 2 /\ m \in Nat /\ m <= Memory
    BY <2>2 DEF m
  <2>5. m + 1 \in 2..(Memory + 1) /\ m \in 2..(Memory + 1) /\ 0 \in Byte
    BY <2>4 DEF Byte
  <2>6. TypeOK'
    BY <2>1, <2>3, <2>4, <2>5 DEF TypeOK
  <2>7. HeldExclusively' /\ \A f \in given' : f >= 2
    BY <2>3, <2>4 DEF PmmInv, HeldExclusively
  <2>8. QED
    BY <2>6, <2>7 DEF PmmInv
<1>2. CASE pmm_alloc /\ lock # 0
  BY <1>2 DEF pmm_alloc, PmmInv, TypeOK, HeldExclusively
<1>3. ASSUME NEW f \in given, pmm_free(f) PROVE PmmInv'
  <2>1. TypeOK /\ HeldExclusively /\ f \in Byte /\ f >= 2
    BY DEF PmmInv, TypeOK
  <2>2. f \in 2..(Memory + 1)
    BY <2>1 DEF Byte
  <2>3. /\ held' = held \ {f} /\ UNCHANGED <<lock, ret, given, hung>>
        /\ \/ UNCHANGED <<free, bitmap_i>>
           \/ free' = free \cup {f} /\ bitmap_i' = f
    BY <1>3 DEF pmm_free
  <2>4. TypeOK'
    BY <2>1, <2>2, <2>3 DEF TypeOK
  <2>5. HeldExclusively' /\ \A g \in given' : g >= 2
    BY <2>1, <2>3 DEF PmmInv, HeldExclusively
  <2>6. QED
    BY <2>4, <2>5 DEF PmmInv
<1>4. CASE UNCHANGED vars
  BY <1>4 DEF vars, PmmInv, TypeOK, HeldExclusively
<1>5. QED
  BY <1>1, <1>2, <1>3, <1>4 DEF Next

LEMMA PmmInit == Init => PmmInv
<1>1. 0 \in Byte /\ 2 \in 2..(Memory + 1)
  BY BitmapAssumption, PmmAssumption DEF Byte
<1>2. QED
  BY <1>1 DEF Init, PmmInv, TypeOK, HeldExclusively

LEMMA PmmInvariant == Spec => []PmmInv
BY PmmInit, PmmInvStep, PTL DEF Spec

\* Frames, hint and locks keep their types.
THEOREM PmmTypeCorrect == Spec => []TypeOK
<1>1. PmmInv => TypeOK
  BY DEF PmmInv
<1>2. QED
  BY <1>1, PmmInvariant, PTL

\* pmm_alloc never hands out a frame that was not given back, nor frame 0,
\* whatever the bitmap held at boot and in whatever order frames are allocated
\* and freed, once or more often.
THEOREM FramesExclusive == Spec => []HeldExclusively
<1>1. PmmInv => HeldExclusively
  BY DEF PmmInv
<1>2. QED
  BY <1>1, PmmInvariant, PTL

\* The search goes past no free frame at or above the hint.
THEOREM SearchIsFirstFit == Spec => NoneSkippedAbove
<1>1. PmmInv /\ [Next]_vars =>
        [pmm_alloc => \A f \in free : f \in free' /\ f >= bitmap_i => f >= bitmap_i']_vars
  <2> SUFFICES ASSUME PmmInv, pmm_alloc, NEW f \in free, f \in free', f >= bitmap_i
               PROVE  f >= bitmap_i'
    OBVIOUS
  <2>1. CASE lock = 0
    <3>1. TypeOK /\ f \in Byte
      BY DEF PmmInv, TypeOK
    <3>2. f \in StopsNow
      BY <3>1 DEF StopsNow, Stops
    <3>3. Min(StopsNow) <= f /\ Min(StopsNow) \in Byte
      BY <2>1, <3>1, <3>2, AllocStep
    <3>4. \/ bitmap_i' = Min(StopsNow) + 1 /\ f # Min(StopsNow)
          \/ bitmap_i' = Min(StopsNow)
      BY <2>1, <3>1, AllocStep
    <3>5. QED
      BY <3>1, <3>3, <3>4, BitmapAssumption DEF Byte
  <2>2. CASE lock # 0
    BY <2>2 DEF pmm_alloc
  <2>3. QED
    BY <2>1, <2>2
<1>2. QED
  BY <1>1, PmmInvariant, PTL DEF Spec, NoneSkippedAbove

-----------------------------------------------------------------------------
(* The pages of the heap.                                                  *)

\* The page of a byte of the heap.
LEMMA HeapByte ==
  ASSUME NEW i \in Nat, i < HeapPages * Page
  PROVE  PageOf(i) \in Heap /\ PageOf(i) \in Int /\ PageOf(i) > Memory
<1>1. Page \in Nat /\ Page > 0 /\ HeapPages \in Nat /\ Memory \in Nat
  BY MemoryAssumption, BitmapAssumption
<1>2. i \div Page \in Nat /\ (i \div Page) * Page <= i
  BY <1>1, Division
<1> DEFINE k == i \div Page
<1>3. k < HeapPages
  <2>1. k * Page < HeapPages * Page /\ k \in Nat
    BY <1>1, <1>2
  <2> HIDE DEF k
  <2>2. QED
    BY <1>1, <2>1
<1>4. k \in 0..(HeapPages - 1)
  BY <1>1, <1>2, <1>3
<1>5. PageOf(i) = HeapPage(k)
  BY DEF PageOf
<1>6. HeapPage(k) \in Int /\ HeapPage(k) > Memory
  BY <1>1, <1>2 DEF HeapPage
<1>7. QED
  BY <1>4, <1>5, <1>6 DEF Heap

\* No page is low and of the heap.
LEMMA LowNotHeap ==
  /\ Low \in SUBSET Nat /\ Heap \in SUBSET Nat
  /\ \A p \in Low : p <= Memory
  /\ \A p \in Heap : p > Memory
BY MemoryAssumption, BitmapAssumption DEF Low, Heap, HeapPage, Byte

-----------------------------------------------------------------------------
(* The lists of pages.                                                     *)

Job == [page : Int, user : BOOLEAN]

LEMMA LowPagesType ==
  ASSUME NEW n \in Nat
  PROVE  /\ LowPages(n) \in Seq(Job)
         /\ \A k \in 1..Len(LowPages(n)) : LowPages(n)[k].user = FALSE
<1>1. Page \in Nat /\ Page > 0 /\ Header \in Nat
  BY MemoryAssumption
<1> DEFINE N == (n + Page - 1) \div Page
           At(k) == Map((Header + (k - 1) * Page * Header) \div Page, FALSE)
<1>2. N \in Nat
  BY <1>1, Division
<1>3. ASSUME NEW k \in 1..N PROVE At(k) \in Job /\ At(k).user = FALSE
  <2>1. (Header + (k - 1) * Page * Header) \in Nat
    BY <1>1, <1>2
  <2>2. (Header + (k - 1) * Page * Header) \div Page \in Nat
    BY <1>1, <2>1, Division
  <2>3. QED
    BY <2>2 DEF Map, Job
<1>4. LowPages(n) = [k \in 1..N |-> At(k)]
  BY DEF LowPages
<1> HIDE DEF N, At
<1>5. LowPages(n) \in [1..N -> Job]
  BY <1>3, <1>4
<1>6. LowPages(n) \in Seq(Job) /\ Len(LowPages(n)) = N
  BY <1>2, <1>5
<1>7. QED
  BY <1>3, <1>4, <1>6

LEMMA UserPagesType ==
  ASSUME NEW block \in Nat, NEW n \in Nat
  PROVE  /\ UserPages(block, n) \in Seq(Job)
         /\ \A k \in 1..Len(UserPages(block, n)) :
              UserPages(block, n)[k].user /\ UserPages(block, n)[k].page > Memory
         /\ \A i \in block..(block + n - 1) :
              \E k \in 1..Len(UserPages(block, n)) :
                UserPages(block, n)[k] = Map(PageOf(i), TRUE)
         /\ \A w \in Nat, k \in 1..Len(UserPages(block, n)) :
              UserPages(block, n)[k].page >= HeapPage(w) => w * Page < block + n
<1>1. Page \in Nat /\ Page > 0 /\ Memory \in Nat
  BY MemoryAssumption, BitmapAssumption
<1> DEFINE q == block \div Page
           first == q * Page
           x == block + n - first + Page - 1
           N == x \div Page
           At(k) == Map(PageOf(first + (k - 1) * Page), TRUE)
<1>2. q \in Nat /\ first <= block /\ block < first + Page /\ first \in Nat
  BY <1>1, Division
<1>3. x \in Nat
  BY <1>1, <1>2
<1>4. N \in Nat /\ N * Page <= x /\ x < N * Page + Page
  <2> HIDE DEF x
  <2>1. QED
    BY <1>1, <1>3, Division
<1>5. ASSUME NEW k \in Nat, k >= 1
      PROVE  /\ (first + (k - 1) * Page) \div Page = q + k - 1
             /\ At(k) = Map(Memory + 1 + (q + k - 1), TRUE)
  <2>1. (q + k - 1) \in Nat /\ (q + k - 1) * Page = first + (k - 1) * Page
    <3>1. q + k - 1 \in Nat
      BY <1>2, <1>5
    <3>2. first = q * Page /\ q \in Int /\ k - 1 \in Int /\ Page \in Int
      BY <1>1, <1>2
    <3> HIDE DEF q, first
    <3>3. (q + (k - 1)) * Page = q * Page + (k - 1) * Page
      BY <3>2
    <3>4. QED
      BY <3>1, <3>2, <3>3
  <2>2. (first + (k - 1) * Page) \div Page = q + k - 1
    <3> HIDE DEF q, first
    <3>1. QED
      BY <1>1, <2>1, Quotient, <1>2
  <2>3. QED
    BY <2>2 DEF PageOf, HeapPage
<1>6. UserPages(block, n) = [k \in 1..N |-> At(k)]
  BY DEF UserPages
<1>7. ASSUME NEW k \in 1..N
      PROVE  At(k) \in Job /\ At(k).user /\ At(k).page > Memory
  <2>1. k \in Nat /\ k >= 1
    BY <1>4
  <2>2. At(k) = Map(Memory + 1 + (q + k - 1), TRUE)
    BY <1>5, <2>1
  <2>3. QED
    BY <1>1, <1>2, <2>1, <2>2 DEF Map, Job
<1>8. ASSUME NEW i \in block..(block + n - 1)
      PROVE  \E k \in 1..N : At(k) = Map(PageOf(i), TRUE)
  <2> DEFINE r == i \div Page
             k == r - q + 1
  <2>1. i \in Nat /\ i >= block /\ i <= block + n - 1
    BY <1>1
  <2>2. r \in Nat /\ r * Page <= i /\ i < r * Page + Page
    BY <1>1, <2>1, Division
  <2>3. r >= q
    <3>1. q * Page < (r + 1) * Page
      BY <1>1, <1>2, <2>1, <2>2
    <3> HIDE DEF q, r
    <3>2. QED
      BY <1>1, <1>2, <2>2, <3>1
  <2>4. k <= N
    <3>1. k * Page = r * Page - first + Page
      <4> HIDE DEF r
      <4>1. QED
        BY <1>1, <1>2, <2>2
    <3>2. k * Page <= x
      BY <1>1, <1>2, <2>1, <2>2, <3>1
    <3>3. k * Page < (N + 1) * Page /\ k \in Int
      BY <1>1, <1>2, <1>4, <2>2, <3>2
    <3> HIDE DEF k, N
    <3>4. QED
      BY <1>1, <1>4, <3>3
  <2>5. k \in 1..N /\ k \in Nat /\ k >= 1 /\ q + k - 1 = r
    BY <1>2, <1>4, <2>2, <2>3, <2>4
  <2>6. At(k) = Map(Memory + 1 + (q + k - 1), TRUE)
    BY <1>5, <2>5
  <2>7. PageOf(i) = Memory + 1 + r
    BY DEF PageOf, HeapPage
  <2>8. QED
    BY <2>5, <2>6, <2>7
<1>9. ASSUME NEW w \in Nat, NEW k \in 1..N, At(k).page >= HeapPage(w)
      PROVE  w * Page < block + n
  <2>1. k \in Nat /\ k >= 1 /\ k <= N
    BY <1>4
  <2>2. At(k).page = Memory + 1 + (q + k - 1) /\ HeapPage(w) = Memory + 1 + w
    BY <1>5, <2>1 DEF HeapPage, Map
  <2>3. w <= q + (N - 1) /\ q + (N - 1) \in Nat
    <3>1. Memory + 1 + (q + k - 1) >= Memory + 1 + w /\ N \in Nat
      BY <1>4, <1>9, <2>2
    <3> HIDE DEF q, N
    <3>2. QED
      BY <1>1, <1>2, <2>1, <3>1
  <2>4. w * Page <= (q + (N - 1)) * Page
    <3> HIDE DEF q, N
    <3>1. QED
      BY <1>1, <2>3, Monotone
  <2>5. (q + (N - 1)) * Page = first + N * Page - Page
    <3>1. q \in Int /\ N \in Int /\ Page \in Int
      BY <1>1, <1>2, <1>4
    <3> HIDE DEF q, N
    <3>2. QED
      BY <3>1
  <2>6. w * Page \in Int /\ N * Page \in Int /\ first \in Int
    <3>1. N \in Int /\ Page \in Int /\ w \in Int
      BY <1>1, <1>4
    <3> HIDE DEF N
    <3>2. w * Page \in Int /\ N * Page \in Int
      BY <3>1
    <3>3. QED
      BY <1>2, <3>2
  <2> HIDE DEF N, q
  <2>7. QED
    <3> DEFINE np == N * Page
               wp == w * Page
    <3>1. wp <= first + np - Page /\ np <= block + n - first + Page - 1
          /\ wp \in Int /\ np \in Int /\ first \in Int
      BY <1>4, <2>4, <2>5, <2>6
    <3> HIDE DEF np, wp, first
    <3>2. wp < block + n
      BY <1>1, <3>1
    <3>3. QED
      BY <3>2 DEF wp
<1> HIDE DEF N, At
<1>10. UserPages(block, n) \in [1..N -> Job]
  BY <1>6, <1>7
<1>11. UserPages(block, n) \in Seq(Job) /\ Len(UserPages(block, n)) = N
  BY <1>4, <1>10
<1>12. QED
  BY <1>6, <1>7, <1>8, <1>9, <1>11

-----------------------------------------------------------------------------
(* The invariant.                                                          *)

Ops == {"none", "kmalloc", "kmalloc_user", "user", "mkpml4", "elf"}
Block == [addr : Nat, size : Nat, user : BOOLEAN]

MemTypes ==
  /\ pte \in [Low \cup Heap -> Int]
  /\ call \in [op : Ops, size : Nat, todo : Seq(Job)]
  /\ blocks \in Seq(Block) /\ blocks # <<>>
  /\ DOMAIN cr3 = {0} \cup Process

\* What the boot loader mapped is there, the low addresses at themselves.
BootMap ==
  /\ \A p \in Low \ Untabled : p # 0 => pte[p] = p
  /\ \A p \in Heap \ Untabled : pte[p] # NoFrame

\* The pages without PAGE_USER are low.
KernelJobsLow == \A k \in 1..Len(call.todo) : call.todo[k].user \/ call.todo[k].page \in Low

\* mkpml4 maps the frame it got, at its own address or never.
SpaceCall ==
  call.op = "mkpml4" =>
    /\ call.size \in given
    /\ \/ call.todo = <<>> /\ call.size \notin Untabled
       \/ call.todo = <<Map(call.size, FALSE)>>

\* What kill gives back was handed out.
SpacesGiven == \A s \in {0} \cup Process : cr3[s] # NoFrame => cr3[s] \in given

Tables ==
  /\ PmmInv /\ MemTypes /\ BootMap /\ KernelJobsLow
  /\ SpaceCall /\ SpacesGiven /\ user \cap Untabled = {}

\* Every step is one of the allocator or leaves it alone.
LEMMA StepOfPmm ==
  ASSUME SpacesGiven, [MemNext]_memvars
  PROVE  [Next]_vars
<1>1. ASSUME NEW s \in Process, Kill(s) PROVE Next
  <2>1. cr3[s] \in given /\ pmm_free(cr3[s])
    BY <1>1 DEF Kill, SpacesGiven
  <2>2. QED
    BY <2>1 DEF Next
<1>2. CASE MapNext
  BY <1>2 DEF MapNext, MapUntabled, MapTabled, Next, vars
<1>3. CASE mkpml4
  BY <1>3 DEF mkpml4, Next
<1>4. ASSUME ~ MapNext, ~ mkpml4, \A s \in Process : ~ Kill(s) PROVE UNCHANGED vars
  BY <1>4 DEF MemNext, memvars, kmalloc, Return, ReturnUser, ReturnSpace, MapProgram,
              ReturnProgram
<1>5. QED
  BY <1>1, <1>2, <1>3, <1>4

\* A step of the allocator takes no frame out of its history.
LEMMA GivenGrows ==
  ASSUME [Next]_vars
  PROVE  given \subseteq given'
BY DEF Next, pmm_alloc, pmm_free, vars

\* What a call of vmm_map_page does for the first page m of the list.
LEMMA MapOutcome ==
  ASSUME Tables, MapNext
  PROVE  LET m == call.todo[1]
         IN /\ PmmInv' /\ given \subseteq given' /\ m \in Job
            /\ pte' \in [Low \cup Heap -> Int]
            /\ \A p \in Low \cup Heap : pte[p] # NoFrame => pte'[p] = pte[p]
            /\ \/ call' \in {call, Idle} /\ user' = user
               \/ /\ call' = [call EXCEPT !.todo = Tail(@)] /\ user' = Flags(m)
                  /\ m.page \notin Untabled
            /\ fate' = "stuck" \/ maplock' = 1 => m.page \in Untabled \/ maplock = 1
            /\ Running' => filled' = filled
            /\ call.todo # <<>>
            /\ UNCHANGED <<heap, cr3>>
<1> DEFINE m == call.todo[1]
<1>1. /\ Head(call.todo) = m /\ call.todo # <<>> /\ m \in Job /\ fate = "runs" /\ ~ hung
      /\ UNCHANGED <<heap, cr3>>
  BY DEF MapNext, Tables, MemTypes, Running
<1>2. [Next]_vars
  BY StepOfPmm DEF MemNext, Tables
<1>3. PmmInv' /\ given \subseteq given'
  BY <1>2, PmmInvStep, GivenGrows DEF Tables
<1>4. ret' \in Int
  BY <1>3, BitmapAssumption DEF PmmInv, TypeOK, Byte
<1>5. pte \in [Low \cup Heap -> Int]
  BY DEF Tables, MemTypes
<1> HIDE DEF m
<1>6. CASE maplock = 1 /\ UNCHANGED <<vars, pte, user, filled, maplock, call>>
  BY <1>1, <1>3, <1>5, <1>6 DEF m
<1>7. CASE MapUntabled(m)
  <2>1. m.page \in Untabled /\ UNCHANGED <<pte, user>>
    BY <1>7 DEF MapUntabled
  <2>2. call' \in {call, Idle} /\ (Running' => filled' = filled)
    BY <1>7 DEF MapUntabled, Running
  <2>3. QED
    BY <1>1, <1>3, <1>5, <2>1, <2>2 DEF m
<1>8. CASE MapTabled(m)
  <2>1. m.page \notin Untabled /\ UNCHANGED <<filled, maplock, fate>>
    BY <1>8 DEF MapTabled
  <2>2. \/ call' = call /\ user' = user
        \/ call' = [call EXCEPT !.todo = Tail(@)] /\ user' = Flags(m)
    BY <1>8 DEF MapTabled
  <2>3. \/ pte' = pte
        \/ pte[m.page] = NoFrame /\ pte' = [pte EXCEPT ![m.page] = ret']
    BY <1>8 DEF MapTabled, Present
  <2>4. /\ pte' \in [Low \cup Heap -> Int]
        /\ \A p \in Low \cup Heap : pte[p] # NoFrame => pte'[p] = pte[p]
    BY <1>4, <1>5, <2>3
  <2>5. QED
    BY <1>1, <1>3, <2>1, <2>2, <2>4 DEF m
<1>9. QED
  BY <1>1, <1>6, <1>7, <1>8 DEF MapNext

LEMMA TablesInit == MemInit => Tables
<1> SUFFICES ASSUME MemInit PROVE Tables
  OBVIOUS
<1>1. Init
  BY DEF MemInit
<1>2. PmmInv
  BY <1>1, PmmInit
<1>3. /\ pte = [p \in Low \cup Heap |->
                  IF p \in Untabled \cup {0} THEN NoFrame
                  ELSE IF p \in Heap THEN p - HeapPage(0) ELSE p]
      /\ blocks = <<[addr |-> 0, size |-> 0, user |-> FALSE]>> /\ user = {}
      /\ call = Idle /\ cr3 = [s \in {0} \cup Process |-> NoFrame]
  BY DEF MemInit
<1>4. /\ \A p \in Low \cup Heap : p \in Nat
      /\ \A p \in Heap : p > Memory
      /\ \A p \in Low : p \notin Heap
      /\ Memory \in Nat /\ HeapPage(0) = Memory + 1
  BY LowNotHeap, BitmapAssumption DEF HeapPage
<1>5. pte \in [Low \cup Heap -> Int]
  <2>1. ASSUME NEW p \in Low \cup Heap
        PROVE  (IF p \in Untabled \cup {0} THEN NoFrame
                ELSE IF p \in Heap THEN p - HeapPage(0) ELSE p) \in Int
    BY <1>4 DEF NoFrame
  <2>2. QED
    BY <1>3, <2>1
<1>6. BootMap
  <2>1. ASSUME NEW p \in Low \ Untabled, p # 0 PROVE pte[p] = p
    BY <1>3, <1>4, <2>1
  <2>2. ASSUME NEW p \in Heap \ Untabled PROVE pte[p] # NoFrame
    <3>1. p > Memory /\ p \in Nat /\ p # 0 /\ pte[p] = p - HeapPage(0)
      BY <1>3, <1>4
    <3>2. QED
      BY <1>4, <3>1 DEF NoFrame
  <2>3. QED
    BY <2>1, <2>2 DEF BootMap
<1>7. call \in [op : Ops, size : Nat, todo : Seq(Job)] /\ call.op = "none" /\ call.todo = <<>>
  BY <1>3 DEF Idle, Ops
<1>8. blocks \in Seq(Block) /\ blocks # <<>>
  BY <1>3 DEF Block
<1>9. KernelJobsLow /\ SpaceCall /\ SpacesGiven
  BY <1>3, <1>7 DEF KernelJobsLow, SpaceCall, SpacesGiven
<1>10. QED
  BY <1>2, <1>3, <1>5, <1>6, <1>7, <1>8, <1>9 DEF Tables, MemTypes

\* The list without its first page.
LEMMA TailJobs ==
  ASSUME NEW s \in Seq(Job), s # <<>>
  PROVE  /\ Tail(s) \in Seq(Job) /\ Len(Tail(s)) = Len(s) - 1 /\ Len(s) \in Nat
         /\ \A k \in 1..Len(Tail(s)) : Tail(s)[k] = s[k + 1] /\ k + 1 \in 1..Len(s)
         /\ \A k \in 1..Len(s) : k = 1 \/ s[k] \in {Tail(s)[j] : j \in 1..Len(Tail(s))}
<1>1. /\ Tail(s) \in Seq(Job) /\ Len(Tail(s)) = Len(s) - 1 /\ Len(s) \in Nat
      /\ \A k \in 1..Len(Tail(s)) : Tail(s)[k] = s[k + 1]
  BY HeadTailProperties, LenProperties
<1>2. ASSUME NEW k \in 1..Len(s), k # 1 PROVE s[k] = Tail(s)[k - 1] /\ k - 1 \in 1..Len(Tail(s))
  BY <1>1, <1>2
<1>3. QED
  BY <1>1, <1>2

LEMMA OneJob ==
  ASSUME NEW m \in Job
  PROVE  <<m>> \in Seq(Job) /\ Len(<<m>>) = 1 /\ \A k \in 1..Len(<<m>>) : <<m>>[k] = m
OBVIOUS

\* Where the next block lies: not before the end of the last one.
LEMMA NextBlockType ==
  ASSUME NEW b, b.addr \in Nat, b.size \in Nat
  PROVE  NextBlock(b) \in Nat /\ b.addr + Header + b.size <= NextBlock(b)
<1>1. ASSUME NEW a \in Nat, NEW s \in Nat, NEW h \in Nat \ {0}
      PROVE  s * h + a + h \in Nat /\ s <= s * h
  <2>1. s * 1 <= s * h
    OBVIOUS
  <2>2. QED
    BY <2>1
<1>2. Header \in Nat \ {0}
  BY MemoryAssumption
<1>3. QED
  BY <1>1, <1>2 DEF NextBlock

\* The heap when its last block is marked.
LEMMA LastMarked ==
  ASSUME NEW s \in Seq(Block), s # <<>>
  PROVE  LET t == [s EXCEPT ![Len(s)].user = TRUE]
         IN /\ t \in Seq(Block) /\ t # <<>> /\ Len(t) = Len(s) /\ Len(s) \in Nat \ {0}
            /\ \A k \in 1..Len(s) : t[k].addr = s[k].addr /\ t[k].size = s[k].size
            /\ \A k \in 1..Len(s) : k # Len(s) => t[k] = s[k]
<1>1. Len(s) \in Nat \ {0} /\ Len(s) \in 1..Len(s)
  OBVIOUS
<1> DEFINE e == [s[Len(s)] EXCEPT !.user = TRUE]
           t == [s EXCEPT ![Len(s)] = e]
<1>2. s[Len(s)] \in Block
  BY <1>1
<1>3. e \in Block /\ e.addr = s[Len(s)].addr /\ e.size = s[Len(s)].size
  BY <1>2 DEF Block
<1> HIDE DEF e
<1>4. /\ t \in Seq(Block) /\ Len(t) = Len(s)
      /\ \A j \in 1..Len(s) : t[j] = IF j = Len(s) THEN e ELSE s[j]
  BY <1>1, <1>3, ExceptSeq
<1>5. [s EXCEPT ![Len(s)].user = TRUE] = t
  BY DEF e
<1> HIDE DEF t
<1>6. t # <<>>
  BY <1>1, <1>4
<1>7. QED
  BY <1>1, <1>3, <1>4, <1>5, <1>6

LEMMA TablesMap ==
  ASSUME Tables, MapNext
  PROVE  Tables'
<1> DEFINE m == call.todo[1]
<1>1. /\ PmmInv' /\ given \subseteq given' /\ m \in Job
      /\ pte' \in [Low \cup Heap -> Int]
      /\ \A p \in Low \cup Heap : pte[p] # NoFrame => pte'[p] = pte[p]
      /\ \/ call' \in {call, Idle} /\ user' = user
         \/ /\ call' = [call EXCEPT !.todo = Tail(@)] /\ user' = Flags(m)
            /\ m.page \notin Untabled
      /\ call.todo # <<>>
      /\ blocks' = blocks /\ cr3' = cr3
  BY MapOutcome DEF heap
<1>2. call.todo \in Seq(Job) /\ MemTypes
  BY DEF Tables, MemTypes
<1>3. /\ Tail(call.todo) \in Seq(Job) /\ Len(Tail(call.todo)) = Len(call.todo) - 1
      /\ \A k \in 1..Len(Tail(call.todo)) :
           Tail(call.todo)[k] = call.todo[k + 1] /\ k + 1 \in 1..Len(call.todo)
  BY <1>1, <1>2, TailJobs
<1>4. Idle \in [op : Ops, size : Nat, todo : Seq(Job)] /\ Idle.op = "none" /\ Idle.todo = <<>>
  BY DEF Idle, Ops
<1> HIDE DEF m
<1>5. MemTypes'
  BY <1>1, <1>2, <1>3, <1>4 DEF MemTypes
<1>6. BootMap'
  <2>1. \A p \in Low \ Untabled : p # 0 => p \in Low \cup Heap /\ pte[p] = p /\ p # NoFrame
    BY LowNotHeap DEF Tables, BootMap, NoFrame
  <2>2. \A p \in Heap \ Untabled : p \in Low \cup Heap /\ pte[p] # NoFrame
    BY DEF Tables, BootMap
  <2>3. QED
    BY <1>1, <2>1, <2>2 DEF BootMap
<1>7. KernelJobsLow'
  <2>1. KernelJobsLow
    BY DEF Tables
  <2>2. CASE call' = call
    BY <2>1, <2>2 DEF KernelJobsLow
  <2>3. CASE call' = [call EXCEPT !.todo = Tail(@)]
    <3>1. call'.todo = Tail(call.todo)
      BY <1>2, <2>3 DEF MemTypes
    <3>2. QED
      BY <1>3, <2>1, <3>1 DEF KernelJobsLow
  <2>4. CASE call' = Idle
    BY <1>4, <2>4 DEF KernelJobsLow
  <2>5. QED
    BY <1>1, <2>2, <2>3, <2>4
<1>8. SpaceCall'
  <2> SUFFICES ASSUME call'.op = "mkpml4"
               PROVE  /\ call'.size \in given'
                      /\ \/ call'.todo = <<>> /\ call'.size \notin Untabled
                         \/ call'.todo = <<Map(call'.size, FALSE)>>
    BY DEF SpaceCall
  <2>1. call.op = "mkpml4" /\ call'.size = call.size /\ call' # Idle
    BY <1>1, <1>2, <1>4 DEF MemTypes
  <2>2. call.size \in given /\ call.todo = <<Map(call.size, FALSE)>>
    BY <1>1, <2>1 DEF Tables, SpaceCall
  <2>3. m.page = call.size
    BY <2>2 DEF m, Map
  <2>4. CASE call' = call
    BY <1>1, <2>2, <2>4
  <2>5. CASE call' = [call EXCEPT !.todo = Tail(@)] /\ m.page \notin Untabled
    <3>1. Tail(call.todo) = <<>>
      BY <2>2
    <3>2. call'.todo = <<>>
      BY <1>2, <2>5, <3>1 DEF MemTypes
    <3>3. QED
      BY <1>1, <2>1, <2>2, <2>3, <2>5, <3>2
  <2>6. QED
    BY <1>1, <2>1, <2>4, <2>5
<1>9. SpacesGiven'
  BY <1>1 DEF Tables, SpacesGiven
<1>10. user' \cap Untabled = {}
  <2>1. user' \subseteq user \cup {m.page}
    BY <1>1 DEF Flags
  <2>2. QED
    BY <1>1, <2>1 DEF Tables
<1>11. QED
  BY <1>1, <1>5, <1>6, <1>7, <1>8, <1>9, <1>10 DEF Tables

\* The steps that leave the tables and the spaces alone.
LEMMA TablesKept ==
  ASSUME Tables, PmmInv', given \subseteq given', UNCHANGED <<pte, user, cr3>>,
         MemTypes', KernelJobsLow', SpaceCall'
  PROVE  Tables'
<1>1. BootMap'
  BY DEF Tables, BootMap
<1>2. SpacesGiven'
  BY DEF Tables, SpacesGiven
<1>3. QED
  BY <1>1, <1>2 DEF Tables

\* A call that is over.
LEMMA CallOver ==
  ASSUME call' = Idle
  PROVE  /\ call' \in [op : Ops, size : Nat, todo : Seq(Job)]
         /\ KernelJobsLow' /\ SpaceCall'
<1>1. /\ Idle \in [op : Ops, size : Nat, todo : Seq(Job)]
      /\ Idle.op = "none" /\ Idle.todo = <<>>
  BY DEF Idle, Ops
<1>2. QED
  BY <1>1 DEF KernelJobsLow, SpaceCall

LEMMA TablesStep ==
  ASSUME Tables, [MemNext]_memvars
  PROVE  Tables'
<1>1. PmmInv' /\ given \subseteq given'
  BY StepOfPmm, PmmInvStep, GivenGrows DEF Tables
<1>2. CASE MapNext
  BY <1>2, TablesMap
<1>3. ASSUME NEW n \in Sizes, NEW op \in {"kmalloc", "kmalloc_user"}, kmalloc(n, op)
      PROVE  Tables'
  <2>1. n \in Nat
    BY MemoryAssumption
  <2>2. /\ call' = [op |-> op, size |-> n, todo |-> LowPages(n)]
        /\ UNCHANGED <<vars, pte, user, blocks, cr3>>
        /\ \A k \in 1..Len(LowPages(n)) : LowPages(n)[k].page \in Low
    BY <1>3 DEF kmalloc, heap, spaces
  <2>3. MemTypes'
    BY <2>1, <2>2, LowPagesType DEF Tables, MemTypes, Ops
  <2>4. KernelJobsLow' /\ SpaceCall'
    BY <2>2 DEF KernelJobsLow, SpaceCall
  <2>5. QED
    BY <1>1, <2>2, <2>3, <2>4, TablesKept
<1>4. CASE Return
  <2> DEFINE b == [addr |-> NextBlock(Last(blocks)), size |-> call.size, user |-> FALSE]
  <2>1. /\ UNCHANGED <<vars, pte, user, cr3>>
        /\ \/ call' = Idle /\ (blocks' = blocks \/ blocks' = Append(blocks, b))
           \/ /\ call' = [op |-> "user", size |-> call.size,
                          todo |-> UserPages(DataStart(b), call.size)]
              /\ blocks' = Append(blocks, b)
    BY <1>4 DEF Return, spaces
  <2>2. NextBlock(Last(blocks)) \in Nat /\ call.size \in Nat /\ Header \in Nat
    <3>1. Last(blocks) \in Block
      BY DEF Tables, MemTypes, Last
    <3>2. Last(blocks).addr \in Nat /\ Last(blocks).size \in Nat /\ Header \in Nat
      BY <3>1, MemoryAssumption DEF Block
    <3>3. NextBlock(Last(blocks)) \in Nat
      BY <3>2, NextBlockType
    <3>4. QED
      BY <3>2, <3>3 DEF Tables, MemTypes
  <2>3. b \in Block /\ DataStart(b) \in Nat
    BY <2>2 DEF Block, DataStart
  <2> HIDE DEF b
  <2>4. /\ UserPages(DataStart(b), call.size) \in Seq(Job)
        /\ \A k \in 1..Len(UserPages(DataStart(b), call.size)) :
             UserPages(DataStart(b), call.size)[k].user
    BY <2>2, <2>3, UserPagesType
  <2>5. blocks' \in Seq(Block) /\ blocks' # <<>>
    <3>1. blocks \in Seq(Block) /\ blocks # <<>>
      BY DEF Tables, MemTypes
    <3>2. Append(blocks, b) \in Seq(Block) /\ Append(blocks, b) # <<>>
      BY <2>3, <3>1
    <3>3. QED
      BY <2>1, <3>1, <3>2
  <2>6. CASE call' = Idle
    <3>1. MemTypes' /\ KernelJobsLow' /\ SpaceCall'
      BY <2>1, <2>5, <2>6, CallOver DEF Tables, MemTypes
    <3>2. QED
      BY <1>1, <2>1, <3>1, TablesKept
  <2>7. CASE call' = [op |-> "user", size |-> call.size,
                      todo |-> UserPages(DataStart(b), call.size)]
    <3>1. call' \in [op : Ops, size : Nat, todo : Seq(Job)]
      BY <2>2, <2>4, <2>7 DEF Ops
    <3>2. MemTypes'
      BY <2>1, <2>5, <3>1 DEF Tables, MemTypes
    <3>3. KernelJobsLow' /\ SpaceCall'
      BY <2>4, <2>7 DEF KernelJobsLow, SpaceCall
    <3>4. QED
      BY <1>1, <2>1, <3>2, <3>3, TablesKept
  <2>8. QED
    BY <2>1, <2>6, <2>7
<1>5. CASE ReturnUser
  <2>1. /\ UNCHANGED <<vars, pte, user, cr3>> /\ call' = Idle
        /\ blocks' = [blocks EXCEPT ![Len(blocks)].user = TRUE]
    BY <1>5 DEF ReturnUser, spaces
  <2>2. blocks' \in Seq(Block) /\ blocks' # <<>>
    BY <2>1, LastMarked DEF Tables, MemTypes
  <2>3. MemTypes' /\ KernelJobsLow' /\ SpaceCall'
    BY <2>1, <2>2, CallOver DEF Tables, MemTypes
  <2>4. QED
    BY <1>1, <2>1, <2>3, TablesKept
<1>6. CASE mkpml4
  <2>1. /\ UNCHANGED <<pte, user, blocks, cr3>> /\ call = Idle /\ pmm_alloc
        /\ \/ call' = call
           \/ /\ ret' # 0 /\ ~ hung'
              /\ call' = [op |-> "mkpml4", size |-> ret', todo |-> <<Map(ret', FALSE)>>]
    BY <1>6 DEF mkpml4, heap, spaces
  <2>2. ret' # 0 /\ ~ hung' => ret' \in given'
    <3>1. CASE lock = 0
      BY <2>1, <3>1, AllocStep DEF Tables, PmmInv
    <3>2. CASE lock # 0
      BY <2>1, <3>2 DEF pmm_alloc
    <3>3. QED
      BY <3>1, <3>2
  <2>3. ret' \in Low /\ ret' \in Nat
    BY <1>1, LowNotHeap DEF PmmInv, TypeOK, Low
  <2>4. CASE call' = call
    <3>1. MemTypes' /\ KernelJobsLow' /\ SpaceCall'
      BY <2>1, <2>4, CallOver DEF Tables, MemTypes
    <3>2. QED
      BY <1>1, <2>1, <3>1, TablesKept
  <2>5. CASE /\ ret' # 0 /\ ~ hung'
             /\ call' = [op |-> "mkpml4", size |-> ret', todo |-> <<Map(ret', FALSE)>>]
    <3>1. Map(ret', FALSE) \in Job /\ Map(ret', FALSE).page \in Low
      BY <2>3 DEF Map, Job
    <3>2. MemTypes'
      BY <2>1, <2>3, <2>5, <3>1, OneJob DEF Tables, MemTypes, Ops
    <3>3. KernelJobsLow'
      BY <2>5, <3>1, OneJob DEF KernelJobsLow
    <3>4. SpaceCall'
      BY <2>2, <2>5 DEF SpaceCall
    <3>5. QED
      BY <1>1, <2>1, <3>2, <3>3, <3>4, TablesKept
  <2>6. QED
    BY <2>1, <2>4, <2>5
<1>7. CASE ReturnSpace
  <2>1. /\ UNCHANGED <<vars, pte, user, blocks>> /\ call' = Idle /\ call.op = "mkpml4"
        /\ \E s \in {0} \cup Process, c \in {call.size} \cup ({cr3[t] : t \in Process} \ {NoFrame}) :
             cr3' = [cr3 EXCEPT ![s] = c]
    BY <1>7 DEF ReturnSpace, heap
  <2>2. PICK s \in {0} \cup Process,
             c \in {call.size} \cup ({cr3[t] : t \in Process} \ {NoFrame}) :
               cr3' = [cr3 EXCEPT ![s] = c]
    BY <2>1
  <2>3. c \in given
    BY <2>1 DEF Tables, SpaceCall, SpacesGiven
  <2>4. SpacesGiven'
    BY <1>1, <2>2, <2>3 DEF Tables, SpacesGiven
  <2>5. MemTypes' /\ KernelJobsLow' /\ SpaceCall' /\ BootMap'
    BY <2>1, CallOver DEF Tables, MemTypes, BootMap
  <2>6. QED
    BY <1>1, <2>1, <2>4, <2>5 DEF Tables
<1>8. ASSUME NEW s \in Process, Kill(s) PROVE Tables'
  <2>1. /\ UNCHANGED <<pte, user, blocks, call>> /\ call = Idle
        /\ cr3' = [cr3 EXCEPT ![s] = NoFrame]
    BY <1>8 DEF Kill, heap
  <2>2. MemTypes' /\ KernelJobsLow' /\ SpaceCall' /\ BootMap'
    BY <2>1, CallOver DEF Tables, MemTypes, BootMap
  <2>3. SpacesGiven'
    BY <1>1, <2>1 DEF Tables, SpacesGiven
  <2>4. QED
    BY <1>1, <2>1, <2>2, <2>3 DEF Tables
<1>9. ASSUME NEW p \in Linked, MapProgram(p) PROVE Tables'
  <2>1. /\ UNCHANGED <<vars, pte, user, blocks, cr3>>
        /\ call' = [op |-> "elf", size |-> p, todo |-> <<Map(p, TRUE)>>]
    BY <1>9 DEF MapProgram, heap, spaces
  <2>2. p \in Nat /\ Map(p, TRUE) \in Job /\ Map(p, TRUE).user
    BY MemoryAssumption, BitmapAssumption DEF Map, Job
  <2>3. /\ <<Map(p, TRUE)>> \in Seq(Job)
        /\ \A k \in 1..Len(<<Map(p, TRUE)>>) : <<Map(p, TRUE)>>[k].user
    BY <2>2, OneJob
  <2>4. MemTypes'
    BY <2>1, <2>2, <2>3 DEF Tables, MemTypes, Ops
  <2>5. KernelJobsLow' /\ SpaceCall'
    BY <2>1, <2>3 DEF KernelJobsLow, SpaceCall
  <2>6. QED
    BY <1>1, <2>1, <2>4, <2>5, TablesKept
<1>10. CASE ReturnProgram
  <2>1. UNCHANGED <<vars, pte, user, blocks, cr3>> /\ call' = Idle
    BY <1>10 DEF ReturnProgram, heap, spaces
  <2>2. MemTypes' /\ KernelJobsLow' /\ SpaceCall'
    BY <2>1, CallOver DEF Tables, MemTypes
  <2>3. QED
    BY <1>1, <2>1, <2>2, TablesKept
<1>11. CASE UNCHANGED memvars
  <2>1. UNCHANGED <<vars, pte, user, blocks, cr3, call>>
    BY <1>11 DEF memvars, heap, spaces
  <2>2. MemTypes' /\ KernelJobsLow' /\ SpaceCall'
    BY <2>1 DEF Tables, MemTypes, KernelJobsLow, SpaceCall, vars
  <2>3. QED
    BY <1>1, <2>1, <2>2, TablesKept
<1>12. QED
  BY <1>2, <1>3, <1>4, <1>5, <1>6, <1>7, <1>8, <1>9, <1>10, <1>11 DEF MemNext

LEMMA TablesInvariant == MemSpec => []Tables
BY TablesInit, TablesStep, PTL DEF MemSpec

\* Memory is a client of Pmm: all it frees are frames that were handed out,
\* some of them more than once, and every theorem about Pmm holds for it.
\* vmm_map_page, mkpml4, kill.
THEOREM MemoryUsesPmm == MemSpec => Spec
<1>1. MemInit => Init
  BY DEF MemInit
<1>2. Tables /\ [MemNext]_memvars => [Next]_vars
  BY StepOfPmm DEF Tables
<1>3. QED
  BY <1>1, <1>2, TablesInvariant, PTL DEF MemSpec, Spec

\* Whatever CR3 a process runs on, one that was given back or handed out twice
\* too, is a frame that mkpml4 filled: the low addresses, where it writes, are
\* mapped at themselves.
THEOREM SpacesStayFilled == MemSpec => []SpacesFilled
<1>1. MemInit => SpacesFilled
  BY DEF MemInit, SpacesFilled
<1>2. Tables /\ SpacesFilled /\ [MemNext]_memvars => SpacesFilled'
  <2> SUFFICES ASSUME Tables, SpacesFilled, [MemNext]_memvars PROVE SpacesFilled'
    OBVIOUS
  <2>1. CASE MapNext
    <3>1. Running /\ cr3' = cr3 /\ (Running' => filled' = filled)
      BY <2>1, MapOutcome DEF MapNext
    <3>2. QED
      BY <3>1 DEF SpacesFilled
  <2>2. CASE ReturnSpace
    <3>1. /\ Running /\ call.op = "mkpml4" /\ call.todo = <<>>
          /\ filled' = filled \cup {pte[call.size]}
          /\ \E s \in {0} \cup Process,
                c \in {call.size} \cup ({cr3[t] : t \in Process} \ {NoFrame}) :
               cr3' = [cr3 EXCEPT ![s] = c]
      BY <2>2 DEF ReturnSpace
    <3>2. call.size \in given /\ call.size \notin Untabled
      <4>1. <<>> # <<Map(call.size, FALSE)>>
        OBVIOUS
      <4>2. QED
        BY <3>1, <4>1 DEF Tables, SpaceCall
    <3>3. call.size \in Low /\ call.size # 0
      <4>1. given \subseteq Byte /\ \A f \in given : f >= 2
        BY DEF Tables, PmmInv, TypeOK
      <4>2. call.size \in Byte /\ call.size >= 2
        BY <3>2, <4>1
      <4>3. call.size # 0
        BY <4>2, BitmapAssumption DEF Byte
      <4>4. QED
        BY <4>2, <4>3 DEF Low
    <3>4. pte[call.size] = call.size
      BY <3>2, <3>3 DEF Tables, BootMap
    <3>5. DOMAIN cr3 = {0} \cup Process
      BY DEF Tables, MemTypes
    <3>6. QED
      BY <3>1, <3>4, <3>5 DEF SpacesFilled
  <2>3. ASSUME NEW s \in Process, Kill(s) PROVE SpacesFilled'
    <3>1. Running /\ cr3' = [cr3 EXCEPT ![s] = NoFrame] /\ filled' = filled
      BY <2>3 DEF Kill
    <3>2. QED
      BY <3>1 DEF SpacesFilled
  <2>4. CASE UNCHANGED memvars
    BY <2>4 DEF memvars, vars, spaces, SpacesFilled, Running
  <2>5. ASSUME MemNext, ~ MapNext, ~ ReturnSpace, \A s \in Process : ~ Kill(s)
        PROVE  SpacesFilled'
    <3>1. Running /\ UNCHANGED spaces
      BY <2>5 DEF MemNext, kmalloc, Return, ReturnUser, mkpml4, MapProgram, ReturnProgram
    <3>2. QED
      BY <3>1 DEF spaces, SpacesFilled
  <2>6. QED
    BY <2>1, <2>2, <2>3, <2>4, <2>5
<1>3. QED
  BY <1>1, <1>2, TablesInvariant, PTL DEF MemSpec

\* vmm_map_page moves no page that is mapped, whoever asks for it.
THEOREM MappingsStay == MemSpec => TranslationsKept
<1>1. Tables /\ [MemNext]_memvars =>
        [\A p \in Low \cup Heap : pte[p] # NoFrame => pte'[p] = pte[p]]_memvars
  <2> SUFFICES ASSUME Tables, MemNext
               PROVE  \A p \in Low \cup Heap : pte[p] # NoFrame => pte'[p] = pte[p]
    OBVIOUS
  <2>1. CASE MapNext
    BY <2>1, MapOutcome
  <2>2. CASE ~ MapNext
    <3>1. pte' = pte
      BY <2>2 DEF MemNext, kmalloc, Return, ReturnUser, mkpml4, ReturnSpace, Kill,
                  MapProgram, ReturnProgram
    <3>2. QED
      BY <3>1
  <2>3. QED
    BY <2>1, <2>2
<1>2. QED
  BY <1>1, TablesInvariant, PTL DEF MemSpec, TranslationsKept

-----------------------------------------------------------------------------
(* The heap.                                                               *)

End(b) == b.addr + Header + b.size

\* The blocks lie one behind the other in the heap, and there is room for the
\* one kmalloc is about to make.
HeapInOrder ==
  /\ \A j, k \in 1..Len(blocks) : j < k => End(blocks[j]) <= blocks[k].addr
  /\ \A k \in 1..Len(blocks) : End(blocks[k]) <= HeapPages * Page
  /\ call.op \in {"kmalloc", "kmalloc_user"} =>
       NextBlock(Last(blocks)) + Header + call.size <= HeapPages * Page

LEMMA EndType ==
  ASSUME NEW b, b.addr \in Nat, b.size \in Nat
  PROVE  End(b) \in Nat /\ b.addr <= End(b)
BY MemoryAssumption DEF End

LEMMA HeapInit == MemInit => HeapInOrder
<1> SUFFICES ASSUME MemInit PROVE HeapInOrder
  OBVIOUS
<1>1. /\ blocks = <<[addr |-> 0, size |-> 0, user |-> FALSE]>> /\ call.op = "none"
  BY DEF MemInit, Idle
<1>2. Header <= HeapPages * Page /\ Header \in Nat
  <2>1. /\ Page \in Nat /\ HeapPages \in Nat /\ HeapPages >= 1 /\ Header \in Nat
        /\ Header < Page
    BY MemoryAssumption
  <2>2. 1 * Page <= HeapPages * Page
    BY <2>1
  <2>3. QED
    BY <2>1, <2>2
<1>3. Len(blocks) = 1 /\ End(blocks[1]) = Header
  BY <1>1, <1>2 DEF End
<1>4. \A j, k \in 1..Len(blocks) : ~ j < k /\ k = 1
  BY <1>3
<1>5. \A k \in 1..Len(blocks) : End(blocks[k]) <= HeapPages * Page
  BY <1>2, <1>3, <1>4
<1>6. QED
  BY <1>1, <1>4, <1>5 DEF HeapInOrder

LEMMA HeapStep ==
  ASSUME Tables, HeapInOrder, [MemNext]_memvars
  PROVE  HeapInOrder'
<1>1. CASE Return
  <2> DEFINE b == [addr |-> NextBlock(Last(blocks)), size |-> call.size, user |-> FALSE]
  <2>1. /\ call'.op \in {"none", "user"} /\ call.op \in {"kmalloc", "kmalloc_user"}
        /\ blocks' = blocks \/ blocks' = Append(blocks, b)
    BY <1>1 DEF Return, Idle
  <2>2. CASE blocks' = blocks
    BY <2>1, <2>2 DEF HeapInOrder
  <2>3. CASE blocks' = Append(blocks, b)
    <3>1. /\ blocks \in Seq(Block) /\ Len(blocks) \in Nat /\ Len(blocks) >= 1
          /\ Last(blocks) = blocks[Len(blocks)] /\ call.size \in Nat
      BY DEF Tables, MemTypes, Last
    <3>2. \A k \in 1..Len(blocks) : blocks[k].addr \in Nat /\ blocks[k].size \in Nat
      <4>1. \A k \in 1..Len(blocks) : blocks[k] \in Block
        BY <3>1
      <4>2. QED
        BY <4>1 DEF Block
    <3>3. /\ NextBlock(Last(blocks)) \in Nat /\ Header \in Nat
          /\ End(blocks[Len(blocks)]) <= NextBlock(Last(blocks))
      BY <3>1, <3>2, NextBlockType, MemoryAssumption DEF End
    <3>4. /\ b.addr = NextBlock(Last(blocks)) /\ b.size = call.size
          /\ End(b) <= HeapPages * Page
      BY <2>1, <3>3 DEF HeapInOrder, End
    <3> HIDE DEF b
    <3>5. /\ Len(blocks') = Len(blocks) + 1 /\ blocks'[Len(blocks) + 1] = b
          /\ \A k \in 1..Len(blocks) : blocks'[k] = blocks[k]
      BY <2>3, <3>1
    <3>6. \A k \in 1..Len(blocks) : End(blocks[k]) <= b.addr
      <4>1. ASSUME NEW k \in 1..Len(blocks), k < Len(blocks)
            PROVE  End(blocks[k]) <= b.addr
        <5>1. /\ End(blocks[k]) <= blocks[Len(blocks)].addr
              /\ blocks[Len(blocks)].addr \in Nat /\ blocks[Len(blocks)].size \in Nat
              /\ blocks[k].addr \in Nat /\ blocks[k].size \in Nat
          BY <3>1, <3>2, <4>1 DEF HeapInOrder
        <5>2. /\ End(blocks[k]) \in Nat /\ End(blocks[Len(blocks)]) \in Nat
              /\ blocks[Len(blocks)].addr <= End(blocks[Len(blocks)])
          BY <5>1, EndType
        <5>3. QED
          BY <3>3, <3>4, <5>1, <5>2
      <4>2. QED
        BY <3>1, <3>3, <3>4, <4>1
    <3>7. \A j, k \in 1..Len(blocks') : j < k => End(blocks'[j]) <= blocks'[k].addr
      BY <3>1, <3>5, <3>6 DEF HeapInOrder
    <3>8. \A k \in 1..Len(blocks') : End(blocks'[k]) <= HeapPages * Page
      BY <3>1, <3>4, <3>5 DEF HeapInOrder
    <3>9. QED
      BY <2>1, <3>7, <3>8 DEF HeapInOrder, End
  <2>4. QED
    BY <2>1, <2>2, <2>3
<1>2. CASE ReturnUser
  <2>1. /\ blocks' = [blocks EXCEPT ![Len(blocks)].user = TRUE] /\ call'.op = "none"
    BY <1>2 DEF ReturnUser, Idle
  <2>2. blocks \in Seq(Block) /\ blocks # <<>>
    BY DEF Tables, MemTypes
  <2>3. /\ Len(blocks') = Len(blocks)
        /\ \A k \in 1..Len(blocks) :
             blocks'[k].addr = blocks[k].addr /\ blocks'[k].size = blocks[k].size
    BY <2>1, <2>2, LastMarked
  <2>4. \A k \in 1..Len(blocks) : End(blocks'[k]) = End(blocks[k])
    BY <2>3 DEF End
  <2>5. QED
    BY <2>1, <2>3, <2>4 DEF HeapInOrder, End
<1>3. ASSUME NEW n \in Sizes, NEW op \in {"kmalloc", "kmalloc_user"}, kmalloc(n, op)
      PROVE  HeapInOrder'
  BY <1>3 DEF kmalloc, heap, HeapInOrder, End, NextBlock, Last
<1>4. ASSUME blocks' = blocks,
             call' = call \/ call'.op \notin {"kmalloc", "kmalloc_user"}
      PROVE  HeapInOrder'
  BY <1>4 DEF HeapInOrder, End, NextBlock, Last
<1>5. CASE MapNext
  <2>1. blocks' = blocks /\ call' \in {call, Idle, [call EXCEPT !.todo = Tail(@)]}
    BY <1>5, MapOutcome DEF heap
  <2>2. Idle.op = "none" /\ call \in [op : Ops, size : Nat, todo : Seq(Job)]
    BY DEF Idle, Tables, MemTypes
  <2>3. call'.op = "none" \/ (call'.op = call.op /\ call'.size = call.size)
    <3>1. CASE call' = Idle
      <4>1. call'.op = "none"
        BY <3>1, <2>2, Zenon
      <4>2. QED
        BY <4>1
    <3>2. CASE call' = call
      BY <3>2
    <3>3. CASE call' = [call EXCEPT !.todo = Tail(@)]
      BY <2>2, <3>3
    <3>4. QED
      BY <2>1, <3>1, <3>2, <3>3
  <2>4. QED
    BY <2>1, <2>3 DEF HeapInOrder, End, NextBlock, Last
<1>6. CASE mkpml4 \/ ReturnSpace \/ ReturnProgram
  <2>1. blocks' = blocks
    BY <1>6 DEF mkpml4, ReturnSpace, ReturnProgram, heap
  <2>2. call' = call \/ call'.op \notin {"kmalloc", "kmalloc_user"}
    <3>1. call' = call \/ call' = Idle
            \/ call' = [op |-> "mkpml4", size |-> ret', todo |-> <<Map(ret', FALSE)>>]
      BY <1>6 DEF mkpml4, ReturnSpace, ReturnProgram
    <3>2. Idle.op = "none"
      BY DEF Idle
    <3>3. [op |-> "mkpml4", size |-> ret', todo |-> <<Map(ret', FALSE)>>].op = "mkpml4"
      OBVIOUS
    <3>4. call' = call \/ call'.op = "none" \/ call'.op = "mkpml4"
      BY <3>1, <3>2, <3>3, Zenon
    <3>5. QED
      BY <3>4
  <2>3. QED
    BY <1>4, <2>1, <2>2
<1>7. CASE (\E s \in Process : Kill(s)) \/ \E p \in Linked : MapProgram(p)
  <2>1. blocks' = blocks
    BY <1>7 DEF Kill, MapProgram, heap
  <2>2. call' = call \/ call'.op \notin {"kmalloc", "kmalloc_user"}
    <3>1. CASE \E s \in Process : Kill(s)
      BY <3>1 DEF Kill
    <3>2. CASE \E p \in Linked : MapProgram(p)
      <4>1. call'.op = "elf"
        BY <3>2 DEF MapProgram
      <4>2. QED
        BY <4>1
    <3>3. QED
      BY <1>7, <3>1, <3>2
  <2>3. QED
    BY <1>4, <2>1, <2>2
<1>8. CASE UNCHANGED memvars
  BY <1>4, <1>8 DEF memvars, heap
<1>9. QED
  BY <1>1, <1>2, <1>3, <1>5, <1>6, <1>7, <1>8 DEF MemNext

LEMMA HeapInvariant == MemSpec => [](Tables /\ HeapInOrder)
BY TablesInit, TablesStep, HeapInit, HeapStep, PTL DEF MemSpec

\* No two blocks of the heap share a byte: counting headers for bytes, kmalloc
\* leaves room between them and never too little.
THEOREM BlocksApart == MemSpec => []HeapBlocksDisjoint
<1>1. Tables /\ HeapInOrder => HeapBlocksDisjoint
  <2> SUFFICES ASSUME Tables, HeapInOrder, NEW j \in 1..Len(blocks), NEW k \in 1..Len(blocks),
                      j < k
               PROVE  Extent(blocks[j]) \cap Extent(blocks[k]) = {}
    BY DEF HeapBlocksDisjoint
  <2>1. blocks[j] \in Block /\ blocks[k] \in Block
    BY DEF Tables, MemTypes
  <2>2. /\ blocks[j].addr \in Nat /\ blocks[j].size \in Nat
        /\ blocks[k].addr \in Nat /\ blocks[k].size \in Nat /\ Header \in Nat
    BY <2>1, MemoryAssumption DEF Block
  <2>3. blocks[j].addr + Header + blocks[j].size <= blocks[k].addr
    BY DEF HeapInOrder, End
  <2>4. QED
    <3> DEFINE a == blocks[j].addr
               b == blocks[j].size
               c == blocks[k].addr
               d == blocks[k].size
    <3>1. Extent(blocks[j]) = a..(a + Header + b - 1) /\ Extent(blocks[k]) = c..(c + Header + d - 1)
      BY DEF Extent, DataStart
    <3> HIDE DEF a, b, c, d
    <3>2. a \in Nat /\ b \in Nat /\ c \in Nat /\ d \in Nat /\ a + Header + b <= c
      BY <2>2, <2>3 DEF a, b, c, d
    <3>3. a..(a + Header + b - 1) \cap c..(c + Header + d - 1) = {}
      BY <2>2, <3>2
    <3>4. QED
      BY <3>1, <3>3
<1>2. QED
  BY <1>1, HeapInvariant, PTL

-----------------------------------------------------------------------------
(* The blocks of users.                                                    *)

Data(b) == DataStart(b)..(DataStart(b) + b.size - 1)

Pending(i) == \E k \in 1..Len(call.todo) : call.todo[k] = Map(PageOf(i), TRUE)

\* The pages of a block of a user have PAGE_USER; those of the block that
\* kmalloc_user is at work on have it or are still to get it.
MarkedForUsers ==
  /\ \A j \in 1..Len(blocks) : blocks[j].user => \A i \in Data(blocks[j]) : PageOf(i) \in user
  /\ call.op = "user" => \A i \in Data(blocks[Len(blocks)]) : PageOf(i) \in user \/ Pending(i)

\* The bytes of a block lie in the heap.
LEMMA DataInHeap ==
  ASSUME Tables, HeapInOrder, NEW j \in 1..Len(blocks), NEW i \in Data(blocks[j])
  PROVE  i \in Nat /\ i < HeapPages * Page /\ PageOf(i) \in Heap
         /\ PageOf(i) \in Int /\ PageOf(i) > Memory
<1>1. blocks[j].addr \in Nat /\ blocks[j].size \in Nat /\ Header \in Nat
  <2>1. blocks[j] \in Block
    BY DEF Tables, MemTypes
  <2>2. QED
    BY <2>1, MemoryAssumption DEF Block
<1>2. End(blocks[j]) <= HeapPages * Page
  BY DEF HeapInOrder
<1>3. i \in Nat /\ i < blocks[j].addr + Header + blocks[j].size
  <2> DEFINE from == blocks[j].addr + Header
             size == blocks[j].size
  <2>1. i \in from..(from + size - 1)
    BY DEF Data, DataStart
  <2>2. from \in Nat /\ size \in Nat
    BY <1>1
  <2>3. i \in Nat /\ i < from + size
    <3> HIDE DEF from, size
    <3>1. QED
      BY <2>1, <2>2
  <2>4. QED
    BY <2>3
<1>4. HeapPages * Page \in Nat
  BY MemoryAssumption
<1> DEFINE bytes == HeapPages * Page
<1>5. i < bytes
  <2> HIDE DEF bytes
  <2>1. End(blocks[j]) <= bytes /\ bytes \in Nat
    BY <1>2, <1>4 DEF bytes
  <2>2. QED
    BY <1>1, <1>3, <2>1 DEF End
<1>6. QED
  BY <1>3, <1>5, HeapByte

LEMMA MarkedInit == MemInit => MarkedForUsers
<1> SUFFICES ASSUME MemInit PROVE MarkedForUsers
  OBVIOUS
<1>1. blocks = <<[addr |-> 0, size |-> 0, user |-> FALSE]>> /\ call.op = "none"
  BY DEF MemInit, Idle
<1>2. \A j \in 1..Len(blocks) : blocks[j].user = FALSE
  BY <1>1
<1>3. QED
  BY <1>1, <1>2 DEF MarkedForUsers

\* The first page of the list gets its flag, and no page of the heap loses it.
LEMMA MarkedMap ==
  ASSUME Tables, HeapInOrder, MarkedForUsers, MapNext
  PROVE  MarkedForUsers'
<1> DEFINE m == call.todo[1]
<1>1. /\ blocks' = blocks /\ m \in Job /\ call.todo # <<>>
      /\ \/ call' \in {call, Idle} /\ user' = user
         \/ call' = [call EXCEPT !.todo = Tail(@)] /\ user' = Flags(m)
  BY MapOutcome DEF heap
<1>2. call.todo \in Seq(Job) /\ call \in [op : Ops, size : Nat, todo : Seq(Job)]
  BY DEF Tables, MemTypes
<1>3. m.user \/ m.page \in Low
  <2>1. 1 \in 1..Len(call.todo)
    BY <1>1, <1>2
  <2>2. QED
    BY <2>1 DEF Tables, KernelJobsLow
<1> HIDE DEF m
<1>4. \A p \in Heap : p \in user => p \in user'
  <2>1. \/ user' = user \/ user' = user \cup {m.page}
        \/ user' = user \ {m.page} /\ m.page \in Low
    <3>1. CASE user' = user
      BY <3>1
    <3>2. CASE user' = Flags(m)
      <4>1. m.user => user' = user \cup {m.page}
        BY <3>2, Zenon DEF Flags
      <4>2. ~ m.user => user' = user \ {m.page}
        BY <3>2, Zenon DEF Flags
      <4>3. QED
        BY <1>3, <4>1, <4>2, Zenon
    <3>3. QED
      BY <1>1, <3>1, <3>2, Zenon
  <2>2. \A p \in Heap : p \notin Low
    BY LowNotHeap, BitmapAssumption
  <2>3. QED
    BY <2>1, <2>2
<1>5. \A j \in 1..Len(blocks') :
        blocks'[j].user => \A i \in Data(blocks'[j]) : PageOf(i) \in user'
  BY <1>1, <1>4, DataInHeap DEF MarkedForUsers
<1>6. ASSUME call'.op = "user", NEW i \in Data(blocks[Len(blocks)])
      PROVE  PageOf(i) \in user' \/ Pending(i)'
  <2>1. call.op = "user" /\ call' # Idle
    <3>1. call' # Idle
      BY <1>6 DEF Idle
    <3>2. QED
      BY <1>1, <1>2, <1>6, <3>1
  <2>2. PageOf(i) \in Heap
    <3>1. Len(blocks) \in 1..Len(blocks)
      BY DEF Tables, MemTypes
    <3>2. QED
      BY <3>1, DataInHeap
  <2>3. CASE PageOf(i) \in user
    BY <1>4, <2>2, <2>3
  <2>4. CASE Pending(i)
    <3>1. PICK k \in 1..Len(call.todo) : call.todo[k] = Map(PageOf(i), TRUE)
      BY <2>4 DEF Pending
    <3>2. CASE call' = call
      BY <3>1, <3>2 DEF Pending
    <3>3. CASE call' = [call EXCEPT !.todo = Tail(@)] /\ user' = Flags(m)
      <4>1. CASE k = 1
        <5>1. m.user = TRUE /\ m.page = PageOf(i)
          BY <3>1, <4>1 DEF m, Map
        <5>2. QED
          BY <3>3, <5>1 DEF Flags
      <4>2. CASE k # 1
        <5>1. PICK j \in 1..Len(Tail(call.todo)) : Tail(call.todo)[j] = call.todo[k]
          BY <1>1, <1>2, <4>2, TailJobs
        <5>2. call'.todo = Tail(call.todo)
          BY <1>2, <3>3
        <5>3. QED
          BY <3>1, <5>1, <5>2 DEF Pending
      <4>3. QED
        BY <4>1, <4>2
    <3>4. QED
      BY <1>1, <2>1, <3>2, <3>3
  <2>5. QED
    BY <2>1, <2>3, <2>4 DEF MarkedForUsers
<1>7. QED
  BY <1>1, <1>5, <1>6 DEF MarkedForUsers

LEMMA MarkedStep ==
  ASSUME Tables, HeapInOrder, MarkedForUsers, [MemNext]_memvars
  PROVE  MarkedForUsers'
<1>0. blocks \in Seq(Block) /\ Len(blocks) \in Nat /\ Len(blocks) >= 1 /\ call.size \in Nat
  BY DEF Tables, MemTypes
<1>1. CASE MapNext
  BY <1>1, MarkedMap
<1>2. CASE Return
  <2> DEFINE b == [addr |-> NextBlock(Last(blocks)), size |-> call.size, user |-> FALSE]
  <2>1. /\ user' = user
        /\ \/ call' = Idle
           \/ call' = [op |-> "user", size |-> call.size,
                       todo |-> UserPages(DataStart(b), call.size)]
        /\ \/ blocks' = Append(blocks, b)
           \/ blocks' = blocks /\ call' = Idle
    BY <1>2 DEF Return
  <2>2. b.user = FALSE /\ b.size = call.size /\ DataStart(b) \in Nat
    <3>1. Last(blocks) \in Block
      BY <1>0 DEF Last
    <3>2. NextBlock(Last(blocks)) \in Nat
      BY <3>1, NextBlockType DEF Block
    <3>3. QED
      BY <3>2, MemoryAssumption DEF DataStart
  <2> HIDE DEF b
  <2>3. CASE blocks' = blocks /\ call' = Idle
    <3>1. call'.op # "user"
      BY <2>3 DEF Idle
    <3>2. QED
      BY <2>1, <2>3, <3>1 DEF MarkedForUsers
  <2>4. ASSUME blocks' = Append(blocks, b)
        PROVE  /\ Len(blocks') = Len(blocks) + 1 /\ blocks'[Len(blocks')] = b
               /\ \A k \in 1..Len(blocks) : blocks'[k] = blocks[k]
    BY <1>0, <2>4
  <2> SUFFICES ASSUME blocks' = Append(blocks, b) PROVE MarkedForUsers'
    BY <2>1, <2>3
  <2>5. /\ Len(blocks') = Len(blocks) + 1 /\ blocks'[Len(blocks')] = b
        /\ \A k \in 1..Len(blocks) : blocks'[k] = blocks[k]
    BY <2>4
  <2>6. \A j \in 1..Len(blocks') : j = Len(blocks') \/ j \in 1..Len(blocks)
    BY <1>0, <2>5
  <2>7. ASSUME NEW j \in 1..Len(blocks'), blocks'[j].user, NEW i \in Data(blocks'[j])
        PROVE  PageOf(i) \in user'
    BY <2>1, <2>2, <2>5, <2>6, <2>7 DEF MarkedForUsers
  <2>8. ASSUME call'.op = "user", NEW i \in Data(b) PROVE Pending(i)'
    <3>1. call'.todo = UserPages(DataStart(b), call.size)
      BY <2>1, <2>8 DEF Idle
    <3>2. i \in DataStart(b)..(DataStart(b) + call.size - 1)
      BY <2>2 DEF Data
    <3>3. QED
      <4>1. PICK k \in 1..Len(UserPages(DataStart(b), call.size)) :
              UserPages(DataStart(b), call.size)[k] = Map(PageOf(i), TRUE)
        BY <1>0, <2>2, <3>2, UserPagesType
      <4>2. QED
        BY <3>1, <4>1, Zenon DEF Pending
  <2>9. QED
    BY <2>5, <2>7, <2>8 DEF MarkedForUsers
<1>3. CASE ReturnUser
  <2>1. /\ blocks' = [blocks EXCEPT ![Len(blocks)].user = TRUE] /\ call'.op = "none"
        /\ user' = user /\ call.op = "user" /\ call.todo = <<>>
    BY <1>3 DEF ReturnUser, Idle
  <2>2. /\ Len(blocks') = Len(blocks)
        /\ \A k \in 1..Len(blocks) :
             blocks'[k].addr = blocks[k].addr /\ blocks'[k].size = blocks[k].size
        /\ \A k \in 1..Len(blocks) : k # Len(blocks) => blocks'[k] = blocks[k]
    BY <1>0, <2>1, LastMarked
  <2>3. \A k \in 1..Len(blocks) : Data(blocks'[k]) = Data(blocks[k])
    BY <2>2 DEF Data, DataStart
  <2>4. \A i \in Data(blocks[Len(blocks)]) : PageOf(i) \in user
    <3>1. \A i : ~ Pending(i)
      BY <2>1 DEF Pending
    <3>2. QED
      BY <2>1, <3>1 DEF MarkedForUsers
  <2>5. ASSUME NEW j \in 1..Len(blocks'), blocks'[j].user, NEW i \in Data(blocks'[j])
        PROVE  PageOf(i) \in user'
    BY <2>1, <2>2, <2>3, <2>4, <2>5 DEF MarkedForUsers
  <2>6. QED
    BY <2>1, <2>5 DEF MarkedForUsers
<1>4. ASSUME blocks' = blocks, user' = user, call' = call \/ call'.op # "user"
      PROVE  MarkedForUsers'
  BY <1>4 DEF MarkedForUsers, Pending
<1>5. CASE ~ MapNext /\ ~ Return /\ ~ ReturnUser
  <2>1. blocks' = blocks /\ user' = user
    BY <1>5 DEF MemNext, memvars, heap, kmalloc, mkpml4, ReturnSpace, Kill, MapProgram,
                ReturnProgram
  <2>2. ASSUME NEW n \in Sizes, NEW op \in {"kmalloc", "kmalloc_user"}, kmalloc(n, op)
        PROVE  call'.op # "user"
    BY <2>2 DEF kmalloc
  <2>3. CASE mkpml4
    <3>1. call' = call \/ call' = [op |-> "mkpml4", size |-> ret', todo |-> <<Map(ret', FALSE)>>]
      BY <2>3 DEF mkpml4
    <3>2. [op |-> "mkpml4", size |-> ret', todo |-> <<Map(ret', FALSE)>>].op # "user"
      OBVIOUS
    <3>3. QED
      BY <1>4, <2>1, <3>1, <3>2, Zenon
  <2>4. ASSUME NEW p \in Linked, MapProgram(p) PROVE call'.op # "user"
    <3>1. call'.op = "elf"
      BY <2>4 DEF MapProgram
    <3>2. QED
      BY <3>1
  <2>5. CASE ReturnSpace \/ ReturnProgram
    <3>1. call'.op = "none"
      BY <2>5 DEF ReturnSpace, ReturnProgram, Idle
    <3>2. QED
      BY <1>4, <2>1, <3>1
  <2>6. CASE \E s \in Process : Kill(s)
    BY <1>4, <2>1, <2>6 DEF Kill
  <2>7. CASE UNCHANGED memvars
    BY <1>4, <2>1, <2>7 DEF memvars
  <2>8. QED
    BY <1>4, <1>5, <2>1, <2>2, <2>3, <2>4, <2>5, <2>6, <2>7 DEF MemNext
<1>6. QED
  BY <1>1, <1>2, <1>3, <1>5

LEMMA MarkedInvariant == MemSpec => [](Tables /\ HeapInOrder /\ MarkedForUsers)
BY TablesInit, TablesStep, HeapInit, HeapStep, MarkedInit, MarkedStep, PTL DEF MemSpec

\* A program can use what kmalloc_user gave it to the last byte and for ever:
\* no other call of vmm_map_page takes PAGE_USER from a page of the heap.
THEOREM UserBlocksUsable == MemSpec => []UserBlocksMapped
<1>1. Tables /\ HeapInOrder /\ MarkedForUsers => UserBlocksMapped
  <2> SUFFICES ASSUME Tables, HeapInOrder, MarkedForUsers, NEW j \in 1..Len(blocks),
                      blocks[j].user, NEW i \in Data(blocks[j])
               PROVE  pte[PageOf(i)] # NoFrame /\ PageOf(i) \in user
    <3>1. DOMAIN blocks = 1..Len(blocks)
      BY DEF Tables, MemTypes
    <3>2. QED
      BY <3>1 DEF UserBlocksMapped, ToSet, Data
  <2>1. PageOf(i) \in Heap
    BY DataInHeap
  <2>2. PageOf(i) \in user
    BY DEF MarkedForUsers
  <2>3. PageOf(i) \notin Untabled
    BY <2>2 DEF Tables
  <2>4. QED
    BY <2>1, <2>2, <2>3 DEF Tables, BootMap
<1>2. QED
  BY <1>1, MarkedInvariant, PTL

-----------------------------------------------------------------------------
(* The lock of vmm_map_page.                                               *)

\* The pages kmalloc maps on the way have tables: no request is so large that
\* its loop, which moves by 0x1000 headers, leaves the first 4 GiB.
SmallRequests ==
  \A n \in Sizes : \A k \in 1..Len(LowPages(n)) : LowPages(n)[k].page < WordFrames

\* A frame above 4 GiB was handed out, or the heap has grown past the 4 GiB.
Beyond4GiB ==
  (\E f \in given : f >= WordFrames) \/ End(blocks[Len(blocks)]) > WordFrames * Page

\* Pages without a table are mapped only then.
FarJobs == \A k \in 1..Len(call.todo) : call.todo[k].page \in Untabled => Beyond4GiB

LockInv == FarJobs /\ (fate = "stuck" \/ maplock = 1 => Beyond4GiB)

LEMMA LockInit == MemInit => LockInv
<1> SUFFICES ASSUME MemInit PROVE LockInv
  OBVIOUS
<1>1. fate = "runs" /\ maplock = 0 /\ call.todo = <<>>
  BY DEF MemInit, Idle
<1>2. QED
  BY <1>1 DEF LockInv, FarJobs

\* The last block ends in no step before the one it was.
LEMMA HeapGrows ==
  ASSUME Tables, HeapInOrder, [MemNext]_memvars
  PROVE  /\ End(blocks[Len(blocks)]) <= End(blocks[Len(blocks)])'
         /\ End(blocks[Len(blocks)]) \in Int /\ End(blocks[Len(blocks)])' \in Int
<1>1. Tables' /\ HeapInOrder'
  BY TablesStep, HeapStep
<1>2. ASSUME NEW s \in Seq(Block), s # <<>> PROVE End(s[Len(s)]) \in Int
  <2>1. s[Len(s)] \in Block
    BY <1>2
  <2>2. s[Len(s)].addr \in Nat /\ s[Len(s)].size \in Nat
    BY <2>1 DEF Block
  <2>3. QED
    BY <2>2, EndType
<1>3. blocks \in Seq(Block) /\ blocks # <<>> /\ blocks' \in Seq(Block) /\ blocks' # <<>>
  BY <1>1 DEF Tables, MemTypes
<1>4. End(blocks[Len(blocks)]) \in Int /\ End(blocks[Len(blocks)])' \in Int
  BY <1>2, <1>3
<1>5. CASE blocks' = blocks
  BY <1>4, <1>5
<1>6. ASSUME NEW b, blocks' = Append(blocks, b)
      PROVE  End(blocks[Len(blocks)]) <= End(blocks[Len(blocks)])'
  <2>1. /\ Len(blocks') = Len(blocks) + 1 /\ blocks'[Len(blocks)] = blocks[Len(blocks)]
        /\ Len(blocks) \in 1..Len(blocks') /\ Len(blocks') \in 1..Len(blocks')
        /\ Len(blocks) < Len(blocks')
    BY <1>3, <1>6
  <2>2. End(blocks'[Len(blocks)]) <= blocks'[Len(blocks')].addr
    BY <1>1, <2>1 DEF HeapInOrder, End
  <2>3. blocks'[Len(blocks')] \in Block
    BY <1>3, <2>1
  <2>4. blocks'[Len(blocks')].addr \in Nat /\ blocks'[Len(blocks')].addr <= End(blocks'[Len(blocks')])
    BY <2>3, EndType DEF Block
  <2>5. QED
    BY <1>4, <2>1, <2>2, <2>4 DEF End
<1>7. CASE blocks' = [blocks EXCEPT ![Len(blocks)].user = TRUE]
  <2>1. /\ Len(blocks') = Len(blocks) /\ Len(blocks) \in 1..Len(blocks)
        /\ \A k \in 1..Len(blocks) :
             blocks'[k].addr = blocks[k].addr /\ blocks'[k].size = blocks[k].size
    BY <1>3, <1>7, LastMarked
  <2>2. End(blocks[Len(blocks)])' = End(blocks[Len(blocks)])
    BY <2>1 DEF End
  <2>3. QED
    BY <1>4, <2>2
<1>8. \/ blocks' = blocks
      \/ \E b : blocks' = Append(blocks, b)
      \/ blocks' = [blocks EXCEPT ![Len(blocks)].user = TRUE]
  <2>1. CASE Return
    BY <2>1 DEF Return
  <2>2. CASE ReturnUser
    BY <2>2 DEF ReturnUser
  <2>3. CASE ~ Return /\ ~ ReturnUser
    BY <2>3 DEF MemNext, memvars, heap, MapNext, kmalloc, mkpml4, ReturnSpace, Kill,
                MapProgram, ReturnProgram
  <2>4. QED
    BY <2>1, <2>2, <2>3
<1>9. QED
  BY <1>4, <1>5, <1>6, <1>7, <1>8

LEMMA BeyondStays ==
  ASSUME Tables, HeapInOrder, [MemNext]_memvars, Beyond4GiB
  PROVE  Beyond4GiB'
<1>1. given \subseteq given'
  BY StepOfPmm, GivenGrows DEF Tables
<1>2. /\ End(blocks[Len(blocks)]) <= End(blocks[Len(blocks)])'
      /\ End(blocks[Len(blocks)]) \in Int /\ End(blocks[Len(blocks)])' \in Int
  BY HeapGrows
<1>3. WordFrames * Page \in Int
  BY MemoryAssumption, BitmapAssumption
<1>4. QED
  <2> DEFINE e == End(blocks[Len(blocks)])
             f == End(blocks[Len(blocks)])'
             w == WordFrames * Page
  <2>1. e > w => f > w
    <3>1. e <= f /\ e \in Int /\ f \in Int /\ w \in Int
      BY <1>2, <1>3
    <3> HIDE DEF e, f, w
    <3>2. QED
      BY <3>1
  <2>2. Beyond4GiB' <=> (\E x \in given' : x >= WordFrames) \/ f > w
    BY DEF Beyond4GiB
  <2>3. QED
    BY <1>1, <2>1, <2>2 DEF Beyond4GiB

LEMMA LockMap ==
  ASSUME Tables, HeapInOrder, LockInv, MapNext
  PROVE  LockInv'
<1> DEFINE m == call.todo[1]
<1>1. /\ m \in Job /\ call.todo # <<>>
      /\ call' \in {call, Idle} \/ call' = [call EXCEPT !.todo = Tail(@)]
      /\ fate' = "stuck" \/ maplock' = 1 => m.page \in Untabled \/ maplock = 1
  BY MapOutcome
<1>2. call.todo \in Seq(Job) /\ call \in [op : Ops, size : Nat, todo : Seq(Job)]
  BY DEF Tables, MemTypes
<1>3. Beyond4GiB => Beyond4GiB'
  BY BeyondStays DEF MemNext
<1>4. FarJobs'
  <2>1. CASE call' = call
    BY <1>3, <2>1 DEF LockInv, FarJobs
  <2>2. CASE call' = [call EXCEPT !.todo = Tail(@)]
    <3>1. call'.todo = Tail(call.todo)
      BY <1>2, <2>2
    <3>2. QED
      BY <1>1, <1>2, <1>3, <3>1, TailJobs DEF LockInv, FarJobs
  <2>3. CASE call' = Idle
    BY <2>3 DEF FarJobs, Idle
  <2>4. QED
    BY <1>1, <2>1, <2>2, <2>3
<1>5. ASSUME fate' = "stuck" \/ maplock' = 1 PROVE Beyond4GiB'
  <2>1. 1 \in 1..Len(call.todo)
    BY <1>1, <1>2
  <2>2. QED
    BY <1>1, <1>3, <1>5, <2>1 DEF LockInv, FarJobs
<1>6. QED
  BY <1>4, <1>5 DEF LockInv

LEMMA LockStep ==
  ASSUME SmallRequests, Tables, HeapInOrder, LockInv, [MemNext]_memvars
  PROVE  LockInv'
<1>0. Beyond4GiB => Beyond4GiB'
  BY BeyondStays
<1>1. CASE MapNext
  BY <1>1, LockMap
<1>2. ASSUME fate' = "stuck" => fate = "stuck", maplock' = maplock, FarJobs' PROVE LockInv'
  BY <1>0, <1>2 DEF LockInv
<1>3. ASSUME call' = Idle PROVE FarJobs'
  BY <1>3 DEF FarJobs, Idle
<1>4. ASSUME call' = call PROVE FarJobs'
  BY <1>0, <1>4 DEF LockInv, FarJobs
<1>5. ASSUME NEW n \in Sizes, NEW op \in {"kmalloc", "kmalloc_user"}, kmalloc(n, op)
      PROVE  LockInv'
  <2>1. /\ call'.todo = LowPages(n) /\ fate' = fate /\ maplock' = maplock
        /\ \A k \in 1..Len(LowPages(n)) : LowPages(n)[k].page \in Low
    BY <1>5 DEF kmalloc
  <2>2. \A k \in 1..Len(LowPages(n)) : LowPages(n)[k].page \notin Untabled
    <3>1. ASSUME NEW k \in 1..Len(LowPages(n)) PROVE LowPages(n)[k].page \notin Untabled
      <4> DEFINE p == LowPages(n)[k].page
      <4>1. p \in Low /\ p < WordFrames
        BY <2>1 DEF SmallRequests
      <4> HIDE DEF p
      <4>2. p \notin Heap /\ p \in Nat
        BY <4>1, LowNotHeap, BitmapAssumption
      <4>3. p \notin Untabled
        BY <4>1, <4>2, BitmapAssumption DEF Untabled
      <4>4. QED
        BY <4>3 DEF p
    <3>2. QED
      BY <3>1
  <2>3. FarJobs'
    BY <2>1, <2>2 DEF FarJobs
  <2>4. QED
    BY <1>2, <2>1, <2>3
<1>6. CASE Return
  <2> DEFINE b == [addr |-> NextBlock(Last(blocks)), size |-> call.size, user |-> FALSE]
  <2>1. /\ fate' = "stuck" => fate = "stuck"
        /\ maplock' = maplock
        /\ \/ call' = Idle
           \/ call'.todo = UserPages(DataStart(b), call.size) /\ blocks' = Append(blocks, b)
    BY <1>6 DEF Return, Faults, Written
  <2>2. CASE call' = Idle
    BY <1>2, <1>3, <2>1, <2>2
  <2>3. CASE call'.todo = UserPages(DataStart(b), call.size) /\ blocks' = Append(blocks, b)
    <3>1. /\ DataStart(b) \in Nat /\ call.size \in Nat
          /\ DataStart(b) + call.size = End(b) /\ blocks \in Seq(Block)
      <4>1. Last(blocks) \in Block /\ call.size \in Nat /\ blocks \in Seq(Block)
        BY DEF Last, Tables, MemTypes
      <4>2. NextBlock(Last(blocks)) \in Nat
        BY <4>1, NextBlockType DEF Block
      <4>3. QED
        BY <4>1, <4>2, MemoryAssumption DEF DataStart, End
    <3> HIDE DEF b
    <3>2. End(blocks'[Len(blocks')]) = End(b)
      BY <2>3, <3>1
    <3> DEFINE P == UserPages(DataStart(b), call.size)
    <3>3. /\ P \in Seq(Job)
          /\ \A k \in 1..Len(P) : P[k].page > Memory
          /\ \A k \in 1..Len(P) : P[k].page >= HeapPage(WordFrames) => WordFrames * Page < End(b)
      <4>1. \A w \in Nat, k \in 1..Len(P) : P[k].page >= HeapPage(w) => w * Page < End(b)
        <5>1. \A w \in Nat, k \in 1..Len(P) :
                P[k].page >= HeapPage(w) => w * Page < DataStart(b) + call.size
          BY <3>1, UserPagesType, Zenon
        <5>2. QED
          BY <3>1, <5>1, Zenon
      <4>2. P \in Seq(Job) /\ \A k \in 1..Len(P) : P[k].page > Memory
        BY <3>1, UserPagesType
      <4> HIDE DEF P
      <4>3. WordFrames \in Nat
        BY BitmapAssumption
      <4>4. QED
        BY <4>1, <4>2, <4>3
    <3> HIDE DEF P
    <3>4. ASSUME NEW k \in 1..Len(P), P[k].page \in Untabled PROVE Beyond4GiB'
      <4>1. P[k].page \in Int /\ P[k].page > Memory
        <5>1. P[k] \in Job
          BY <3>3
        <5>2. QED
          BY <3>3, <5>1 DEF Job
      <4>2. P[k].page \notin Low
        BY <4>1, LowNotHeap, BitmapAssumption
      <4>3. P[k].page >= HeapPage(WordFrames)
        BY <3>4, <4>2 DEF Untabled
      <4>4. WordFrames * Page < End(b)
        BY <3>3, <4>3
      <4>5. QED
        BY <3>2, <4>4 DEF Beyond4GiB, End
    <3>5. FarJobs'
      BY <2>3, <3>4 DEF FarJobs, P
    <3>6. QED
      BY <1>2, <2>1, <3>5
  <2>4. QED
    BY <2>1, <2>2, <2>3
<1>7. CASE ReturnUser \/ ReturnSpace \/ ReturnProgram
  <2>1. call' = Idle /\ maplock' = maplock /\ (fate' = "stuck" => fate = "stuck")
    BY <1>7 DEF ReturnUser, ReturnSpace, ReturnProgram, Written
  <2>2. QED
    BY <1>2, <1>3, <2>1
<1>8. CASE mkpml4
  <2>1. /\ maplock' = maplock /\ (fate' = "stuck" => fate = "stuck")
        /\ \/ call' = call
           \/ ret' # 0 /\ ~ hung' /\ call'.todo = <<Map(ret', FALSE)>>
        /\ pmm_alloc
    <3>1. CASE call' = [op |-> "mkpml4", size |-> ret', todo |-> <<Map(ret', FALSE)>>]
      <4>1. call'.todo = <<Map(ret', FALSE)>>
        BY <3>1
      <4>2. QED
        BY <1>8, <4>1 DEF mkpml4
    <3>2. CASE call' = call
      BY <1>8, <3>2 DEF mkpml4
    <3>3. QED
      BY <1>8, <3>1, <3>2 DEF mkpml4
  <2>2. CASE call' = call
    BY <1>2, <1>4, <2>1, <2>2
  <2>3. CASE ret' # 0 /\ ~ hung' /\ call'.todo = <<Map(ret', FALSE)>>
    <3>1. ret' \in given'
      <4>1. CASE lock = 0
        BY <2>1, <2>3, <4>1, AllocStep DEF Tables, PmmInv
      <4>2. CASE lock # 0
        BY <2>1, <2>3, <4>2 DEF pmm_alloc
      <4>3. QED
        BY <4>1, <4>2
    <3>2. ret' \in Low
      <4>1. Tables'
        BY TablesStep
      <4>2. QED
        BY <4>1 DEF Tables, PmmInv, TypeOK, Low
    <3>3. ret' \in Untabled => Beyond4GiB'
      <4>1. ret' \notin Heap /\ ret' \in Nat
        BY <3>2, LowNotHeap, BitmapAssumption
      <4>2. QED
        BY <3>1, <4>1 DEF Untabled, Beyond4GiB
    <3>4. Map(ret', FALSE) \in Job /\ Map(ret', FALSE).page = ret'
      BY <3>2, LowNotHeap DEF Map, Job
    <3>5. \A k \in 1..Len(<<Map(ret', FALSE)>>) : <<Map(ret', FALSE)>>[k].page = ret'
      BY <3>4, OneJob
    <3>6. FarJobs'
      BY <2>3, <3>3, <3>5 DEF FarJobs
    <3>7. QED
      BY <1>2, <2>1, <3>6
  <2>4. QED
    BY <2>1, <2>2, <2>3
<1>9. ASSUME NEW s \in Process, Kill(s) PROVE LockInv'
  <2>1. fate' = fate /\ maplock' = maplock /\ call' = call
    BY <1>9 DEF Kill
  <2>2. QED
    BY <1>2, <1>4, <2>1
<1>10. ASSUME NEW p \in Linked, MapProgram(p) PROVE LockInv'
  <2>1. fate' = fate /\ maplock' = maplock /\ call'.todo = <<Map(p, TRUE)>>
    BY <1>10 DEF MapProgram
  <2>2. p \in Nat /\ p < WordFrames /\ p \in Low
    BY MemoryAssumption, BitmapAssumption DEF Low, Byte
  <2>3. p \notin Heap
    BY <2>2, LowNotHeap, BitmapAssumption
  <2>4. p \notin Untabled
    BY <2>2, <2>3, BitmapAssumption DEF Untabled
  <2>5. Map(p, TRUE) \in Job /\ Map(p, TRUE).page = p
    BY <2>2 DEF Map, Job
  <2>6. \A k \in 1..Len(<<Map(p, TRUE)>>) : <<Map(p, TRUE)>>[k].page = p
    BY <2>5, OneJob
  <2>7. FarJobs'
    BY <2>1, <2>4, <2>6 DEF FarJobs
  <2>8. QED
    BY <1>2, <2>1, <2>7
<1>11. CASE UNCHANGED memvars
  <2>1. fate' = fate /\ maplock' = maplock /\ call' = call
    BY <1>11 DEF memvars
  <2>2. QED
    BY <1>2, <1>4, <2>1
<1>12. QED
  BY <1>1, <1>5, <1>6, <1>7, <1>8, <1>9, <1>10, <1>11 DEF MemNext

\* As long as no request is so large that the pages kmalloc maps on its way
\* leave the first 4 GiB, vmm_map_page waits for its own lock, or loses it in a
\* fault, only behind a frame above 4 GiB or a heap that has grown past them.
THEOREM StuckBehind4GiB ==
  ASSUME SmallRequests
  PROVE  MemSpec => []StuckOnlyBeyond4GiB
<1>1. Tables /\ HeapInOrder /\ LockInv /\ [MemNext]_memvars => LockInv'
  BY LockStep
<1>2. Tables /\ LockInv => StuckOnlyBeyond4GiB
  <2> SUFFICES ASSUME Tables, LockInv, fate = "stuck" \/ maplock = 1
               PROVE  \/ \E f \in given : f >= WordFrames
                      \/ DataStart(Last(blocks)) + Last(blocks).size > WordFrames * Page
    BY DEF StuckOnlyBeyond4GiB
  <2>1. Beyond4GiB
    BY DEF LockInv
  <2>2. Last(blocks) = blocks[Len(blocks)]
    BY DEF Last
  <2>3. QED
    BY <2>1, <2>2 DEF Beyond4GiB, End, DataStart
<1>3. QED
  BY <1>1, <1>2, LockInit, HeapInvariant, PTL DEF MemSpec
=============================================================================
