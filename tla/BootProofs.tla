----------------------------- MODULE BootProofs -----------------------------
(* Proofs about PmmChunks, for every memory map: the one pass of pmm_init  *)
(* finds the longest usable chunk, and the longest in front of it for the  *)
(* bitmap.  Then about Boot, for every machine: no interrupt and no return *)
(* to user mode meets anything missing, the wires of the timer and the     *)
(* keyboard are unmasked with their vectors, the programs stay in memory   *)
(* where no frame, heap or later program is put on them, the walk over the *)
(* RAM disk finds every file, and the boot ends, at init.sys exactly on    *)
(* the machines that have what it needs, counted out to the single frame.  *)
EXTENDS Boot, NatLemmas, TLAPS

\* The entries the loop has passed, and what holds of them.
Passed == {k \in Usable : k < i}

ScanInv ==
  /\ biggest_chunk = NULL => Passed = {} /\ second_biggest_chunk = NULL
  /\ biggest_chunk # NULL => FirstLongest(biggest_chunk, Passed)
  /\ second_biggest_chunk # NULL =>
       FirstLongest(second_biggest_chunk, {k \in Usable : k < biggest_chunk})
  /\ biggest_chunk # NULL /\ second_biggest_chunk = NULL =>
       \A k \in Usable : biggest_chunk <= k
  /\ phase # "scan" =>
       /\ i > Len(entries)
       /\ phase = "ready" <=> biggest_chunk # NULL /\ second_biggest_chunk # NULL

CInv == TypeOK /\ ScanInv

LEMMA EntryFacts ==
  ASSUME TypeOK
  PROVE  /\ Len(entries) \in Nat /\ i \in Nat /\ Usable \subseteq 1..Len(entries)
         /\ \A k \in 1..Len(entries) : entries[k].length \in Nat
<1>1. \A k \in 1..Len(entries) : entries[k] \in Entry
  BY DEF TypeOK
<1>2. \A e \in Entry : e.length \in Nat
  BY ChunksAssumption DEF Entry
<1>3. Len(entries) \in Nat /\ i \in Nat
  BY DEF TypeOK
<1>4. Usable \subseteq 1..Len(entries)
  BY DEF Usable
<1>5. QED
  BY <1>1, <1>2, <1>3, <1>4

\* Before the first turn of the loop, whatever the memory map.
LEMMA StartCInv ==
  ASSUME entries \in Seq(Entry), i = 1, phase = "scan",
         biggest_chunk = NULL, second_biggest_chunk = NULL
  PROVE  CInv
<1>1. Len(entries) \in Nat
  OBVIOUS
<1>2. TypeOK
  BY <1>1 DEF TypeOK, NULL
<1>3. ScanInv
  BY <1>1 DEF ScanInv, Passed, Usable, NULL
<1>4. QED
  BY <1>2, <1>3 DEF CInv

LEMMA InitCInv == Init => CInv
<1>1. Init => entries \in Seq(Entry)
  BY ChunksAssumption DEF Init, BoundedSeq, SeqOf
<1>2. QED
  BY <1>1, StartCInv DEF Init

LEMMA ScanCInv ==
  ASSUME CInv, Scan
  PROVE  CInv'
<1>1. /\ TypeOK /\ ScanInv /\ i \in 1..Len(entries) /\ i' = i + 1
      /\ UNCHANGED <<entries, phase>> /\ phase = "scan"
  BY DEF CInv, Scan, TypeOK
<1>2. /\ Len(entries) \in Nat /\ i \in Nat /\ Usable \subseteq 1..Len(entries)
      /\ \A k \in 1..Len(entries) : entries[k].length \in Nat
  BY <1>1, EntryFacts
<1>3. Usable' = Usable /\ (i \in Usable <=> entries[i].usable)
  BY <1>1 DEF Usable
<1>4. biggest_chunk \in 0..Len(entries) /\ second_biggest_chunk \in 0..Len(entries)
  BY <1>1 DEF TypeOK
<1>5. /\ Passed' = IF i \in Usable THEN Passed \cup {i} ELSE Passed
      /\ \A k \in Passed : k \in Usable /\ k < i /\ k \in Nat /\ entries[k].length \in Nat
  <2>1. \A k \in Usable : k < i' <=> k < i \/ k = i
    BY <1>1, <1>2
  <2>2. Passed' = {k \in Usable : k < i \/ k = i}
    BY <1>3, <2>1 DEF Passed
  <2>3. \A k \in Passed : k \in Usable /\ k < i /\ k \in Nat /\ entries[k].length \in Nat
    BY <1>2 DEF Passed
  <2>4. QED
    BY <2>2, <2>3 DEF Passed
<1>6. CASE TakesFirst
  <2>1. /\ i \in Usable /\ biggest_chunk = NULL /\ ~ Displaces
        /\ biggest_chunk' = i /\ second_biggest_chunk' = second_biggest_chunk
    BY <1>3, <1>6 DEF TakesFirst, Displaces, Scan
  <2>2. second_biggest_chunk = NULL /\ Passed = {} /\ Passed' = {i}
    BY <1>1, <1>5, <2>1 DEF ScanInv
  <2>3. TypeOK'
    BY <1>1, <1>2, <1>4, <2>1 DEF TypeOK
  <2>4. \A k \in Usable : i <= k
    BY <1>2, <2>2 DEF Passed
  <2>5. FirstLongest(biggest_chunk', Passed')
    BY <1>1, <1>2, <2>1, <2>2 DEF FirstLongest
  <2>6. ScanInv'
    BY <1>1, <1>2, <1>3, <2>1, <2>2, <2>4, <2>5 DEF ScanInv, NULL, FirstLongest
  <2>7. QED
    BY <2>3, <2>6 DEF CInv
<1>7. CASE Displaces
  <2>1. /\ i \in Usable /\ biggest_chunk # NULL
        /\ entries[i].length > entries[biggest_chunk].length
        /\ biggest_chunk' = i /\ second_biggest_chunk' = biggest_chunk
    BY <1>3, <1>7 DEF Displaces, Scan
  <2>2. FirstLongest(biggest_chunk, Passed)
    BY <1>1, <2>1 DEF ScanInv
  <2>3. \A k \in Passed : entries[k].length < entries[i].length
    <3>1. /\ biggest_chunk \in Passed
          /\ \A k \in Passed : entries[k].length <= entries[biggest_chunk].length
      BY <2>2 DEF FirstLongest
    <3>2. entries[i].length \in Nat
      BY <1>1, <1>2
    <3>3. QED
      BY <1>5, <2>1, <3>1, <3>2
  <2>4. FirstLongest(biggest_chunk', Passed')
    <3>1. entries[i].length \in Nat /\ Passed' = Passed \cup {i}
      BY <1>1, <1>2, <1>5, <2>1
    <3>2. QED
      BY <1>1, <1>2, <1>5, <2>1, <2>3, <3>1 DEF FirstLongest
  <2>5. FirstLongest(biggest_chunk, {k \in Usable : k < i})
    BY <2>2 DEF Passed
  <2>6. TypeOK'
    BY <1>1, <1>2, <1>4, <2>1 DEF TypeOK
  <2>7. FirstLongest(second_biggest_chunk', {k \in Usable' : k < biggest_chunk'})
    BY <1>3, <2>1, <2>5
  <2>8. biggest_chunk' # NULL /\ second_biggest_chunk' # NULL /\ phase' = "scan"
    BY <1>1, <2>1 DEF NULL
  <2>9. ScanInv'
    BY <1>1, <1>3, <2>1, <2>4, <2>7, <2>8 DEF ScanInv, FirstLongest
  <2>10. QED
    BY <2>6, <2>9 DEF CInv
<1>8. CASE ~ TakesFirst /\ ~ Displaces
  <2>1. UNCHANGED <<biggest_chunk, second_biggest_chunk>>
    BY <1>8 DEF Scan
  <2>2. i \in Usable =>
          biggest_chunk # NULL /\ entries[i].length <= entries[biggest_chunk].length
    <3>1. biggest_chunk # NULL => entries[biggest_chunk].length \in Nat
      BY <1>2, <1>4 DEF NULL
    <3>2. QED
      BY <1>1, <1>2, <1>3, <1>8, <3>1 DEF TakesFirst, Displaces
  <2>3. TypeOK'
    BY <1>1, <1>2, <1>4, <2>1 DEF TypeOK
  <2>4. biggest_chunk # NULL => FirstLongest(biggest_chunk, Passed')
    <3>1. SUFFICES ASSUME biggest_chunk # NULL PROVE FirstLongest(biggest_chunk, Passed')
      OBVIOUS
    <3>2. FirstLongest(biggest_chunk, Passed) /\ biggest_chunk < i
      BY <1>1, <1>5, <3>1 DEF ScanInv, FirstLongest
    <3>3. QED
      BY <1>1, <1>2, <1>4, <1>5, <2>1, <2>2, <3>2 DEF FirstLongest
  <2>5. ScanInv'
    <3>1. biggest_chunk' = NULL => Passed' = {} /\ second_biggest_chunk' = NULL
      BY <1>1, <1>5, <2>1, <2>2 DEF ScanInv
    <3>2. QED
      BY <1>1, <1>3, <2>1, <2>4, <3>1 DEF ScanInv, FirstLongest
  <2>6. QED
    BY <2>3, <2>5 DEF CInv
<1>9. QED
  BY <1>6, <1>7, <1>8

LEMMA NextCInv ==
  ASSUME CInv, [Next]_vars
  PROVE  CInv'
<1>1. CASE Decide
  <2>1. /\ UNCHANGED <<entries, i, biggest_chunk, second_biggest_chunk>> /\ phase = "scan"
        /\ i > Len(entries)
        /\ phase' = IF NULL \in {biggest_chunk, second_biggest_chunk} THEN "panic" ELSE "ready"
    BY <1>1 DEF Decide
  <2>2. TypeOK'
    BY <2>1 DEF CInv, TypeOK
  <2>3. ScanInv'
    BY <2>1 DEF CInv, ScanInv, Passed, Usable, FirstLongest
  <2>4. QED
    BY <2>2, <2>3 DEF CInv
<1>2. CASE UNCHANGED vars
  BY <1>2 DEF vars, CInv, TypeOK, ScanInv, Passed, Usable, FirstLongest
<1>3. QED
  BY <1>1, <1>2, ScanCInv DEF Next

LEMMA CInvariantProof == Spec => []CInv
<1>1. CInv /\ [Next]_vars => CInv'
  BY NextCInv
<1>2. QED
  BY <1>1, InitCInv, PTL DEF Spec

LEMMA CInvChunksSound == CInv => ChunksSound
<1>1. SUFFICES ASSUME CInv, phase # "scan" PROVE ChunksSound
  BY DEF ChunksSound
<1>2. /\ i > Len(entries) /\ i \in Nat /\ Len(entries) \in Nat
      /\ \A k \in Usable : k \in 1..Len(entries)
      /\ \A k \in 1..Len(entries) : entries[k].length \in Nat
  BY <1>1, EntryFacts DEF CInv, ScanInv
<1>3. Passed = Usable
  BY <1>2 DEF Passed
<1>4. CASE phase = "ready"
  BY <1>1, <1>3, <1>4 DEF CInv, ScanInv, ChunksSound
<1>5. CASE phase # "ready"
  <2> SUFFICES ASSUME NEW k \in Usable, FirstLongest(k, Usable), NEW j \in Usable
               PROVE  k <= j
    BY <1>5 DEF ChunksSound
  <2>1. biggest_chunk # NULL /\ second_biggest_chunk = NULL
    BY <1>1, <1>3, <1>5 DEF CInv, ScanInv
  <2>2. FirstLongest(biggest_chunk, Usable) /\ \A l \in Usable : biggest_chunk <= l
    BY <1>1, <1>3, <2>1 DEF CInv, ScanInv
  <2>3. biggest_chunk \in Usable /\ biggest_chunk <= k /\ biggest_chunk <= j
    BY <2>2 DEF FirstLongest
  <2>4. ~ biggest_chunk < k
    BY <1>2, <2>2, <2>3 DEF FirstLongest
  <2>5. QED
    BY <1>2, <2>3, <2>4
<1>6. QED
  BY <1>4, <1>5

\* The loop over the memory map keeps its types.
THEOREM ChunksTypeCorrect == Spec => []TypeOK
<1>1. CInv => TypeOK
  BY DEF CInv
<1>2. QED
  BY <1>1, CInvariantProof, PTL

\* Which chunks pmm_init picks, and when it gives up, for every memory map.
THEOREM ChunksChosen == Spec => []ChunksSound
<1>1. QED
  BY CInvChunksSound, CInvariantProof, PTL

-----------------------------------------------------------------------------
(* The first and the last of a sequence that passes a test.                *)

\* Min of a non-empty set of naturals.
LEMMA MinOf ==
  ASSUME NEW S \in SUBSET Nat, S # {}
  PROVE  Min(S) \in S /\ \A y \in S : Min(S) <= y
<1>1. \E x \in S : \A y \in S : x <= y
  BY LeastElement
<1>2. QED
  BY <1>1 DEF Min

\* Max of a non-empty set of indexes.
LEMMA MaxOf ==
  ASSUME NEW n \in Nat, NEW S \in SUBSET (1..n), S # {}
  PROVE  Max(S) \in S /\ \A y \in S : y <= Max(S)
<1> DEFINE Mirror == {n - x : x \in S}
<1>1. Mirror \in SUBSET Nat /\ Mirror # {}
  <2>1. \A x \in S : x \in 1..n /\ n - x \in Nat
    OBVIOUS
  <2>2. QED
    BY <2>1
<1>2. PICK m \in Mirror : \A k \in Mirror : m <= k
  BY <1>1, LeastElement
<1>3. PICK x \in S : m = n - x
  BY <1>2
<1>4. ASSUME NEW y \in S PROVE x >= y
  <2>1. m <= n - y
    BY <1>2
  <2>2. QED
    BY <1>3, <2>1
<1>5. \E z \in S : \A y \in S : z >= y
  BY <1>4
<1>6. QED
  BY <1>5 DEF Max

-----------------------------------------------------------------------------
(* The walk of initrd_open over the archive.                               *)

\* Blocks is the division that rounds up.
LEMMA BlocksOf ==
  ASSUME NEW n \in Nat
  PROVE  Blocks(n) \in Nat /\ Blocks(n) = (n + Block - 1) \div Block
<1> DEFINE q == (n + Block - 1) \div Block
<1>1. Block \in Nat /\ Block > 0 /\ n + Block - 1 \in Nat
  BY LoaderAssumption
<1>2. q \in Nat /\ q * Block <= n + Block - 1 /\ n + Block - 1 < q * Block + Block
  BY <1>1, Division
<1> HIDE DEF q
<1>3. ASSUME NEW a \in Int, NEW b \in Int, a <= b PROVE a * Block <= b * Block
  BY <1>1, <1>3
<1>4. (q - 1) * Block = q * Block - Block
  BY <1>1, <1>2
<1>5. (q - 1) * Block < n /\ n <= q * Block
  BY <1>1, <1>2, <1>4
<1>6. q \in 0..n
  <2>1. CASE n <= q - 1
    <3>1. n * Block <= (q - 1) * Block
      BY <1>2, <1>3, <2>1
    <3>2. n * 1 <= n * Block
      BY <1>1
    <3>3. QED
      BY <1>1, <1>2, <1>5, <3>1, <3>2
  <2>2. QED
    BY <1>2, <2>1
<1>7. ASSUME NEW b \in 0..n, (b - 1) * Block < n, n <= b * Block PROVE b = q
  <2>1. CASE b <= q - 1
    BY <1>1, <1>2, <1>3, <1>5, <1>7, <2>1
  <2>2. CASE q <= b - 1
    BY <1>1, <1>2, <1>3, <1>5, <1>7, <2>2
  <2>3. QED
    BY <1>2, <2>1, <2>2
<1>8. Blocks(n) = q
  BY <1>5, <1>6, <1>7 DEF Blocks
<1>9. QED
  BY <1>2, <1>8 DEF q

\* The header of the first file is the first block.  Each next one follows the
\* blocks of the file before it.
LEMMA HeaderStep ==
  ASSUME NEW files
  PROVE  /\ HeaderAt(files, 1) = 0
         /\ \A k \in Nat \ {0} :
              HeaderAt(files, k + 1) = HeaderAt(files, k) + 1 + Blocks(files[k].size)
<1> DEFINE Over(k, f) == [n \in 1..k |->
             IF n = 1 THEN 0 ELSE f[n - 1] + 1 + Blocks(files[n - 1].size)]
           Lost == {k \in Nat \ {0} : ~ \E f : f = Over(k, f)}
           At(k) == CHOOSE f : f = Over(k, f)
<1>1. Lost = {}
  <2> SUFFICES ASSUME Lost # {} PROVE FALSE
    OBVIOUS
  <2>1. PICK m \in Lost : \A k \in Lost : m <= k
    <3>1. Lost \in SUBSET Nat
      OBVIOUS
    <3>2. QED
      BY <3>1, LeastElement
  <2>2. m \in Nat /\ m # 0
    OBVIOUS
  <2>3. CASE m = 1
    <3> DEFINE f == [n \in 1..1 |-> 0]
    <3>1. f = Over(1, f)
      OBVIOUS
    <3>2. QED
      BY <2>3, <3>1
  <2>4. CASE m # 1
    <3>1. m - 1 \in Nat \ {0} /\ m - 1 < m
      BY <2>2, <2>4
    <3>2. m - 1 \notin Lost
      <4> HIDE DEF Lost
      <4>1. QED
        BY <2>1, <2>2, <3>1
    <3>3. PICK f : f = Over(m - 1, f)
      BY <3>1, <3>2
    <3> DEFINE g == [n \in 1..m |->
                       IF n = m THEN f[m - 1] + 1 + Blocks(files[m - 1].size) ELSE f[n]]
    <3>4. ASSUME NEW n \in 1..m
          PROVE  g[n] = IF n = 1 THEN 0 ELSE g[n - 1] + 1 + Blocks(files[n - 1].size)
      <4>1. CASE n = m
        <5>1. m - 1 \in 1..m /\ m - 1 # m /\ n # 1
          BY <2>2, <3>1, <4>1
        <5>2. g[m - 1] = f[m - 1]
          BY <5>1
        <5>3. QED
          BY <4>1, <5>1, <5>2
      <4>2. CASE n # m
        <5>1. n \in 1..(m - 1)
          BY <2>2, <4>2
        <5>2. f[n] = IF n = 1 THEN 0 ELSE f[n - 1] + 1 + Blocks(files[n - 1].size)
          BY <3>3, <5>1
        <5>3. n # 1 => n - 1 \in 1..m /\ n - 1 # m
          BY <5>1, <2>2
        <5>4. QED
          BY <4>2, <5>2, <5>3
      <4>3. QED
        BY <4>1, <4>2
    <3>5. g = Over(m, g)
      <4> HIDE DEF g
      <4>1. g = [n \in 1..m |-> g[n]]
        BY DEF g
      <4>2. QED
        BY <3>4, <4>1
    <3>6. QED
      BY <3>5
  <2>5. QED
    BY <2>3, <2>4
<1>2. ASSUME NEW k \in Nat \ {0} PROVE At(k) = Over(k, At(k)) /\ HeaderAt(files, k) = At(k)[k]
  <2>1. \E f : f = Over(k, f)
    BY <1>1
  <2>2. At(k) = Over(k, At(k))
    BY <2>1
  <2>3. QED
    BY <2>2 DEF HeaderAt
<1> HIDE DEF At, Lost
<1>3. ASSUME NEW k \in Nat \ {0}, NEW n \in 1..k
      PROVE  At(k)[n] = IF n = 1 THEN 0 ELSE At(k)[n - 1] + 1 + Blocks(files[n - 1].size)
  <2>1. At(k) = Over(k, At(k))
    BY <1>2
  <2>2. Over(k, At(k))[n] = IF n = 1 THEN 0 ELSE At(k)[n - 1] + 1 + Blocks(files[n - 1].size)
    OBVIOUS
  <2>3. QED
    BY <2>1, <2>2
<1>4. ASSUME NEW k \in Nat \ {0}
      PROVE  \A n \in 1..k : At(k + 1)[n] = At(k)[n]
  <2> DEFINE Differ == {n \in 1..k : At(k + 1)[n] # At(k)[n]}
  <2> SUFFICES ASSUME Differ # {} PROVE FALSE
    OBVIOUS
  <2>1. PICK n \in Differ : \A o \in Differ : n <= o
    <3>1. Differ \in SUBSET Nat
      OBVIOUS
    <3>2. QED
      BY <3>1, LeastElement
  <2>2. n \in 1..k /\ n \in 1..(k + 1) /\ At(k + 1)[n] # At(k)[n]
    OBVIOUS
  <2>3. n # 1
    BY <1>3, <2>2
  <2>4. n - 1 \in 1..k /\ n - 1 < n
    BY <2>2, <2>3
  <2>5. At(k + 1)[n - 1] = At(k)[n - 1]
    BY <2>1, <2>4
  <2>6. QED
    BY <1>3, <2>2, <2>3, <2>5
<1>5. HeaderAt(files, 1) = 0
  BY <1>2, <1>3
<1>6. ASSUME NEW k \in Nat \ {0}
      PROVE  HeaderAt(files, k + 1) = HeaderAt(files, k) + 1 + Blocks(files[k].size)
  <2>1. k + 1 \in Nat \ {0} /\ k + 1 \in 1..(k + 1) /\ k + 1 # 1 /\ (k + 1) - 1 = k /\ k \in 1..k
    OBVIOUS
  <2>2. At(k + 1)[k + 1] = At(k + 1)[k] + 1 + Blocks(files[k].size)
    BY <1>3, <2>1
  <2>3. QED
    BY <1>2, <1>4, <2>1, <2>2
<1>7. QED
  BY <1>5, <1>6

\* No two files have their headers in one block.
LEMMA HeadersApart ==
  ASSUME NEW files, Archive(files)
  PROVE  /\ \A k \in 1..(Len(files) + 1) : HeaderAt(files, k) \in Nat
         /\ \A l \in 1..(Len(files) + 1) : \A k \in 1..(l - 1) :
              HeaderAt(files, k) < HeaderAt(files, l)
<1>1. Len(files) \in Nat /\ \A k \in 1..Len(files) : files[k].size \in Nat
  <2>1. Len(files) \in Nat
    <3>1. files \in Seq(ToSet(files))
      BY DEF Archive
    <3>2. QED
      BY <3>1
  <2>2. \A k \in 1..Len(files) : files[k].size \in Nat
    BY DEF Archive
  <2>3. QED
    BY <2>1, <2>2
<1> DEFINE Wrong == {l \in 1..(Len(files) + 1) :
                       ~ /\ HeaderAt(files, l) \in Nat
                         /\ \A k \in 1..(l - 1) : HeaderAt(files, k) < HeaderAt(files, l)}
<1> SUFFICES ASSUME Wrong # {} PROVE FALSE
  OBVIOUS
<1>2. PICK l \in Wrong : \A o \in Wrong : l <= o
  <2>1. Wrong \in SUBSET Nat
    BY <1>1
  <2>2. QED
    BY <2>1, LeastElement
<1>3. l \in 1..(Len(files) + 1)
  OBVIOUS
<1>4. l # 1
  <2>1. CASE l = 1
    <3>1. HeaderAt(files, l) \in Nat
      BY <2>1, HeaderStep
    <3>2. 1..(l - 1) = {}
      BY <2>1
    <3>3. QED
      BY <3>1, <3>2
  <2>2. QED
    BY <2>1
<1>5. l - 1 \in 1..Len(files) /\ l - 1 < l /\ l - 1 \in Nat \ {0} /\ (l - 1) + 1 = l
  BY <1>1, <1>3, <1>4
<1>6. l - 1 \notin Wrong
  BY <1>2, <1>3, <1>5
<1>7. /\ HeaderAt(files, l - 1) \in Nat
      /\ \A k \in 1..(l - 1 - 1) : HeaderAt(files, k) < HeaderAt(files, l - 1)
  BY <1>1, <1>5, <1>6
<1>8. HeaderAt(files, l) = HeaderAt(files, l - 1) + 1 + Blocks(files[l - 1].size)
  BY <1>5, HeaderStep
<1>9. Blocks(files[l - 1].size) \in Nat
  BY <1>1, <1>5, BlocksOf
<1>10. HeaderAt(files, l) \in Nat /\ HeaderAt(files, l - 1) < HeaderAt(files, l)
  BY <1>7, <1>8, <1>9
<1>11. ASSUME NEW k \in 1..(l - 1) PROVE HeaderAt(files, k) < HeaderAt(files, l)
  <2>1. CASE k = l - 1
    BY <1>10, <2>1
  <2>2. CASE k # l - 1
    <3>1. k \in 1..(l - 1 - 1) /\ k \in 1..Len(files)
      BY <1>5, <2>2
    <3>2. HeaderAt(files, k) < HeaderAt(files, l - 1)
      BY <1>7, <3>1
    <3>3. k \notin Wrong
      BY <1>2, <1>3, <3>1
    <3>4. HeaderAt(files, k) \in Nat
      BY <1>1, <3>1, <3>3
    <3>5. QED
      BY <1>7, <1>10, <3>2, <3>4
  <2>3. QED
    BY <2>1, <2>2
<1>12. QED
  BY <1>10, <1>11

\* The block of a header holds that file; behind the last file comes no other.
LEMMA FileAtHeader ==
  ASSUME NEW files, Archive(files)
  PROVE  /\ \A k \in 1..Len(files) : FileAt(files, HeaderAt(files, k)) = files[k]
         /\ FileAt(files, HeaderAt(files, Len(files) + 1)) = NULL_FILE
<1> DEFINE Here(at) == {k \in 1..Len(files) : HeaderAt(files, k) = at}
<1>1. Len(files) \in Nat
  <2>1. files \in Seq(ToSet(files))
    BY DEF Archive
  <2>2. QED
    BY <2>1
<1>2. ASSUME NEW k \in 1..(Len(files) + 1), NEW l \in 1..(Len(files) + 1),
             HeaderAt(files, k) = HeaderAt(files, l)
      PROVE  k = l
  <2>1. HeaderAt(files, k) \in Nat /\ HeaderAt(files, l) \in Nat
    BY HeadersApart
  <2>2. CASE k < l
    <3>1. k \in 1..(l - 1)
      BY <1>1, <2>2
    <3>2. HeaderAt(files, k) < HeaderAt(files, l)
      BY <3>1, HeadersApart
    <3>3. QED
      BY <1>2, <2>1, <3>2
  <2>3. CASE l < k
    <3>1. l \in 1..(k - 1)
      BY <1>1, <2>3
    <3>2. HeaderAt(files, l) < HeaderAt(files, k)
      BY <3>1, HeadersApart
    <3>3. QED
      BY <1>2, <2>1, <3>2
  <2>4. QED
    BY <1>1, <2>2, <2>3
<1>3. ASSUME NEW at
      PROVE  FileAt(files, at) =
               IF Here(at) = {} THEN NULL_FILE ELSE files[CHOOSE k \in Here(at) : TRUE]
  BY DEF FileAt
<1>4. ASSUME NEW k \in 1..Len(files) PROVE FileAt(files, HeaderAt(files, k)) = files[k]
  <2>1. k \in Here(HeaderAt(files, k))
    OBVIOUS
  <2>2. \A l \in Here(HeaderAt(files, k)) : l = k
    <3>1. \A l \in 1..Len(files) : l \in 1..(Len(files) + 1)
      BY <1>1
    <3>2. QED
      BY <1>2, <3>1
  <2> HIDE DEF Here
  <2>3. (CHOOSE l \in Here(HeaderAt(files, k)) : TRUE) = k
    BY <2>1, <2>2
  <2>4. QED
    BY <1>3, <2>1, <2>3
<1>5. Here(HeaderAt(files, Len(files) + 1)) = {}
  <2>1. SUFFICES ASSUME NEW k \in 1..Len(files),
                        HeaderAt(files, k) = HeaderAt(files, Len(files) + 1)
                 PROVE  FALSE
    OBVIOUS
  <2>2. k \in 1..(Len(files) + 1) /\ Len(files) + 1 \in 1..(Len(files) + 1)
    BY <1>1
  <2>3. k = Len(files) + 1
    BY <1>2, <2>1, <2>2
  <2>4. QED
    BY <1>1, <2>3
<1>6. QED
  BY <1>3, <1>4, <1>5

\* getsize reads what tar wrote: eleven octal digits hold every size.
LEMMA SizeRead ==
  ASSUME NEW n \in Nat, n \div 8^10 < 8
  PROVE  getsize(Digits(n)) = n
<1> DEFINE d == Digits(n)
           Cut(j) == n \div 8^(11 - j)
           Step(f) == [j \in 0..11 |-> IF j = 0 THEN 0 ELSE f[j - 1] * 8 + d[j]]
           Size == CHOOSE f : f = Step(f)
<1>1. n \in Nat /\ n < 8589934592 /\ 8^11 = 8589934592
  <2>1. 8^10 = 1073741824 /\ 8^11 = 8589934592
    OBVIOUS
  <2>2. n \div 1073741824 < 8
    BY <2>1
  <2>3. QED
    BY <2>1, <2>2
<1>2. /\ 8^10 = 1073741824 /\ 8^9 = 134217728 /\ 8^8 = 16777216 /\ 8^7 = 2097152
      /\ 8^6 = 262144 /\ 8^5 = 32768 /\ 8^4 = 4096 /\ 8^3 = 512 /\ 8^2 = 64 /\ 8^1 = 8
      /\ 8^0 = 1
  OBVIOUS
<1>3. ASSUME NEW j \in 1..11 PROVE d[j] = Cut(j) % 8
  BY DEF Digits
<1>4. Cut(0) = 0
  BY <1>1
<1>5. \A j \in 1..11 : Cut(j) \in Nat /\ Cut(j - 1) = Cut(j) \div 8
  <2>1. SUFFICES ASSUME NEW j \in 1..11 PROVE Cut(j) \in Nat /\ Cut(j - 1) = Cut(j) \div 8
    OBVIOUS
  <2>2. j \in {1, 2, 3, 4, 5, 6, 7, 8, 9, 10, 11}
    OBVIOUS
  <2>3. CASE j = 1
    BY <1>1, <1>2, <2>3
  <2>4. CASE j = 2
    BY <1>1, <1>2, <2>4
  <2>5. CASE j = 3
    BY <1>1, <1>2, <2>5
  <2>6. CASE j = 4
    BY <1>1, <1>2, <2>6
  <2>7. CASE j = 5
    BY <1>1, <1>2, <2>7
  <2>8. CASE j = 6
    BY <1>1, <1>2, <2>8
  <2>9. CASE j = 7
    BY <1>1, <1>2, <2>9
  <2>10. CASE j = 8
    BY <1>1, <1>2, <2>10
  <2>11. CASE j = 9
    BY <1>1, <1>2, <2>11
  <2>12. CASE j = 10
    BY <1>1, <1>2, <2>12
  <2>13. CASE j = 11
    BY <1>1, <1>2, <2>13
  <2>14. QED
    BY <2>2, <2>3, <2>4, <2>5, <2>6, <2>7, <2>8, <2>9, <2>10, <2>11, <2>12, <2>13
<1>6. \A x \in Nat : x = ((x \div 8) * 8) + (x % 8)
  OBVIOUS
<1> HIDE DEF Cut, d
<1>7. \A j \in 1..11 : Cut(j) = Cut(j - 1) * 8 + d[j]
  BY <1>3, <1>5, <1>6
<1>8. \E f : f = Step(f)
  <2> DEFINE g == [j \in 0..11 |-> Cut(j)]
  <2>1. ASSUME NEW j \in 0..11 PROVE g[j] = IF j = 0 THEN 0 ELSE g[j - 1] * 8 + d[j]
    <3>1. CASE j = 0
      BY <1>4, <3>1
    <3>2. CASE j # 0
      <4>1. j \in 1..11 /\ j - 1 \in 0..11
        BY <3>2
      <4>2. QED
        BY <1>7, <3>2, <4>1
    <3>3. QED
      BY <3>1, <3>2
  <2>2. g = Step(g)
    <3>1. g = [j \in 0..11 |-> g[j]]
      OBVIOUS
    <3> HIDE DEF g
    <3>2. QED
      BY <2>1, <3>1
  <2>3. QED
    BY <2>2
<1>9. Size = Step(Size)
  BY <1>8
<1>10. getsize(d) = Size[11]
  BY DEF getsize
<1> HIDE DEF Size
<1>11. ASSUME NEW j \in 0..11 PROVE Size[j] = IF j = 0 THEN 0 ELSE Size[j - 1] * 8 + d[j]
  <2>1. Step(Size)[j] = IF j = 0 THEN 0 ELSE Size[j - 1] * 8 + d[j]
    OBVIOUS
  <2>2. QED
    BY <1>9, <2>1
<1>12. \A j \in 0..11 : Size[j] = Cut(j)
  <2> DEFINE Differ == {j \in 0..11 : Size[j] # Cut(j)}
  <2> SUFFICES ASSUME Differ # {} PROVE FALSE
    OBVIOUS
  <2>1. PICK j \in Differ : \A k \in Differ : j <= k
    <3>1. Differ \in SUBSET Nat
      OBVIOUS
    <3>2. QED
      BY <3>1, LeastElement
  <2>2. j \in 0..11 /\ Size[j] # Cut(j)
    OBVIOUS
  <2>3. j # 0
    BY <1>4, <1>11, <2>2
  <2>4. j \in 1..11 /\ j - 1 \in 0..11 /\ j - 1 < j
    BY <2>2, <2>3
  <2>5. Size[j - 1] = Cut(j - 1)
    BY <2>1, <2>4
  <2>6. QED
    BY <1>7, <1>11, <2>2, <2>3, <2>4, <2>5
<1>13. Cut(11) = n
  BY <1>1, <1>2 DEF Cut
<1>14. QED
  BY <1>10, <1>12, <1>13 DEF d

\* From the header of a file the walk goes on to the next header.
LEMMA NextHeaderOf ==
  ASSUME NEW files, Archive(files), NEW k \in 1..Len(files)
  PROVE  NextHeader(files, HeaderAt(files, k)) = HeaderAt(files, k + 1)
<1>1. files[k].size \in Nat /\ files[k].size \div 8^10 < 8
  BY DEF Archive
<1>2. files[k].size \in Nat /\ k \in Nat \ {0}
  BY <1>1
<1>3. getsize(Digits(files[k].size)) = files[k].size
  BY <1>1, SizeRead
<1>4. FileAt(files, HeaderAt(files, k)) = files[k]
  BY FileAtHeader
<1>5. NextHeader(files, HeaderAt(files, k)) =
        HeaderAt(files, k) + Blocks(files[k].size) + 1
  BY <1>2, <1>3, <1>4, BlocksOf DEF NextHeader
<1>6. HeaderAt(files, k + 1) = HeaderAt(files, k) + 1 + Blocks(files[k].size)
  BY <1>2, HeaderStep
<1>7. Blocks(files[k].size) \in Nat
  BY <1>2, BlocksOf
<1>8. HeaderAt(files, k) \in Nat
  <2>1. files \in Seq(ToSet(files))
    BY DEF Archive
  <2>2. k \in 1..(Len(files) + 1)
    BY <2>1
  <2>3. QED
    BY <2>2, HeadersApart
<1>9. QED
  BY <1>5, <1>6, <1>7, <1>8

\* The files called path from file k on, and the header of the first of them.
Named(files, path, k) == {j \in k..Len(files) : files[j].name = path}
FirstFrom(files, path, k) ==
  IF Named(files, path, k) = {} THEN 0 ELSE HeaderAt(files, Min(Named(files, path, k)))

LEMMA FirstFromStep ==
  ASSUME NEW files, Archive(files), NEW path, NEW k \in 1..Len(files)
  PROVE  FirstFrom(files, path, k) =
           IF files[k].name = path THEN HeaderAt(files, k) ELSE FirstFrom(files, path, k + 1)
<1>1. Len(files) \in Nat
  <2>1. files \in Seq(ToSet(files))
    BY DEF Archive
  <2>2. QED
    BY <2>1
<1>2. CASE files[k].name = path
  <2>1. k \in Named(files, path, k) /\ \A j \in Named(files, path, k) : k <= j
    BY <1>1, <1>2 DEF Named
  <2>2. Named(files, path, k) \in SUBSET Nat
    BY DEF Named
  <2>3. Min(Named(files, path, k)) \in Named(files, path, k)
        /\ Min(Named(files, path, k)) <= k
    BY <2>1, <2>2, MinOf
  <2>4. Min(Named(files, path, k)) = k
    BY <2>1, <2>2, <2>3
  <2>5. QED
    BY <1>2, <2>1, <2>4 DEF FirstFrom
<1>3. CASE files[k].name # path
  <2>1. Named(files, path, k) = Named(files, path, k + 1)
    BY <1>1, <1>3 DEF Named
  <2>2. QED
    BY <1>3, <2>1 DEF FirstFrom
<1>4. QED
  BY <1>2, <1>3

\* initrd_open finds the first file of a name behind the first of the archive,
\* and nothing else.
LEMMA FileOpened ==
  ASSUME NEW files, Archive(files), NEW path, path # NoName
  PROVE  initrd_open(files, path) = IF path = Long THEN 0 ELSE FirstFrom(files, path, 2)
<1> DEFINE last == HeaderAt(files, Len(files) + 1)
           Cursor == 1..(2 * last + 2)
           Name(at) == FileAt(files, at).name
           Step(w) == [at \in Cursor |->
                         IF Name(at) = path THEN at
                         ELSE IF Name(at) = NoName THEN 0
                         ELSE w[NextHeader(files, at)]]
           Walk == CHOOSE w : w = Step(w)
           At(k) == HeaderAt(files, k)
           First(k) == FirstFrom(files, path, k)
<1>1. Len(files) \in Nat /\ Len(files) > 0
  <2>1. files \in Seq(ToSet(files)) /\ files # <<>>
    BY DEF Archive
  <2>2. QED
    BY <2>1
<1>2. initrd_open(files, path) = IF path = Long \/ Name(1) = NoName THEN 0 ELSE Walk[1]
  BY DEF initrd_open
<1>3. \A k \in 1..Len(files) : /\ Name(At(k)) = files[k].name /\ files[k].name # NoName
                               /\ NextHeader(files, At(k)) = At(k + 1)
                               /\ First(k) = IF files[k].name = path THEN At(k) ELSE First(k + 1)
  BY FileAtHeader, NextHeaderOf, FirstFromStep DEF Archive
<1>4. Name(last) = NoName
  <2>1. FileAt(files, last) = NULL_FILE
    BY FileAtHeader
  <2>2. QED
    BY <2>1 DEF NULL_FILE
<1>5. ASSUME NEW at, \A k \in 1..Len(files) : at # At(k) PROVE Name(at) = NoName
  <2>1. FileAt(files, at) = NULL_FILE
    BY <1>5 DEF FileAt
  <2>2. QED
    BY <2>1 DEF NULL_FILE
<1>6. At(1) = 0 /\ At(2) = 1
  <2>1. At(1) = 0 /\ At(1 + 1) = At(1) + 1 + Blocks(files[1].size)
    BY HeaderStep
  <2>2. files[1].size = 0
    BY DEF Archive
  <2>3. Blocks(0) = 0
    BY LoaderAssumption DEF Blocks
  <2>4. QED
    BY <2>1, <2>2, <2>3
<1>7. \A k \in 1..(Len(files) + 1) : At(k) \in Nat /\ At(k) <= last
  <2>1. SUFFICES ASSUME NEW k \in 1..(Len(files) + 1) PROVE At(k) \in Nat /\ At(k) <= last
    OBVIOUS
  <2>2. At(k) \in Nat
    BY HeadersApart
  <2>3. k = Len(files) + 1 \/ k \in 1..(Len(files) + 1 - 1)
    BY <1>1
  <2>4. Len(files) + 1 \in 1..(Len(files) + 1)
    BY <1>1
  <2>5. k # Len(files) + 1 => At(k) < last
    BY <2>3, <2>4, HeadersApart
  <2>6. last \in Nat
    BY <2>4, HeadersApart
  <2>7. QED
    BY <2>2, <2>5, <2>6
<1>8. last \in Nat
  BY <1>1, <1>7
<1>9. \A k \in 2..(Len(files) + 1) : At(k) \in Cursor
  <2>1. SUFFICES ASSUME NEW k \in 2..(Len(files) + 1) PROVE At(k) \in Cursor
    OBVIOUS
  <2>2. 1 \in 1..(k - 1) /\ k \in 1..(Len(files) + 1)
    BY <1>1
  <2>3. At(1) < At(k)
    BY <2>2, HeadersApart
  <2>4. At(k) \in Nat /\ At(k) <= last
    BY <1>7, <2>2
  <2>5. QED
    BY <1>6, <1>8, <2>3, <2>4
<1>10. First(Len(files) + 1) = 0
  <2>1. Named(files, path, Len(files) + 1) = {}
    BY <1>1 DEF Named
  <2>2. QED
    BY <2>1 DEF FirstFrom
<1> HIDE DEF Name, At, First, last
<1>11. \E w : w = Step(w)
  <2> DEFINE Here(at) == {k \in 1..Len(files) : At(k) = at}
             g == [at \in Cursor |-> IF Here(at) = {} THEN 0
                                     ELSE First(CHOOSE k \in Here(at) : TRUE)]
  <2>1. ASSUME NEW at \in Cursor
        PROVE  g[at] = IF Name(at) = path THEN at
                       ELSE IF Name(at) = NoName THEN 0 ELSE g[NextHeader(files, at)]
    <3>1. CASE Here(at) = {}
      <4>1. Name(at) = NoName
        BY <1>5, <3>1
      <4>2. QED
        BY <3>1, <4>1
    <3>2. CASE Here(at) # {}
      <4> DEFINE k == CHOOSE k \in Here(at) : TRUE
      <4>1. k \in 1..Len(files) /\ At(k) = at
        BY <3>2
      <4>2. g[at] = First(k)
        BY <3>2
      <4> HIDE DEF k
      <4>3. CASE Name(at) = path
        BY <1>3, <4>1, <4>2, <4>3
      <4>4. CASE Name(at) # path
        <5>1. First(k) = First(k + 1) /\ NextHeader(files, at) = At(k + 1) /\ Name(at) # NoName
          BY <1>3, <4>1, <4>4
        <5>2. k + 1 \in 2..(Len(files) + 1)
          BY <1>1, <4>1
        <5>3. At(k + 1) \in Cursor
          BY <1>9, <5>2
        <5>4. g[At(k + 1)] = First(k + 1)
          <6>1. CASE k + 1 = Len(files) + 1
            <7>1. Here(At(k + 1)) = {}
              <8>1. \A j \in 1..Len(files) : Name(At(j)) # NoName
                BY <1>3
              <8>2. Name(At(k + 1)) = NoName
                BY <1>4, <6>1 DEF At, last
              <8>3. QED
                BY <8>1, <8>2
            <7>2. QED
              BY <1>10, <5>3, <6>1, <7>1
          <6>2. CASE k + 1 # Len(files) + 1
            <7>1. k + 1 \in 1..Len(files)
              BY <1>1, <4>1, <6>2
            <7>2. k + 1 \in Here(At(k + 1))
              BY <7>1
            <7>3. \A j \in Here(At(k + 1)) : j = k + 1
              <8>1. SUFFICES ASSUME NEW j \in 1..Len(files), At(j) = At(k + 1) PROVE j = k + 1
                OBVIOUS
              <8>2. j \in 1..(Len(files) + 1) /\ k + 1 \in 1..(Len(files) + 1)
                BY <1>1, <7>1
              <8>3. At(j) \in Nat
                BY <1>7, <8>2
              <8>4. j < k + 1 => At(j) < At(k + 1)
                <9>1. j < k + 1 => j \in 1..(k + 1 - 1)
                  BY <1>1, <4>1
                <9>2. QED
                  BY <8>2, <9>1, HeadersApart DEF At
              <8>5. k + 1 < j => At(k + 1) < At(j)
                <9>1. k + 1 < j => k + 1 \in 1..(j - 1)
                  BY <1>1, <4>1
                <9>2. QED
                  BY <8>2, <9>1, HeadersApart DEF At
              <8>6. QED
                BY <1>1, <8>1, <8>2, <8>3, <8>4, <8>5
            <7> HIDE DEF Here
            <7>4. (CHOOSE j \in Here(At(k + 1)) : TRUE) = k + 1
              BY <7>2, <7>3
            <7>5. QED
              BY <5>3, <7>2, <7>4
          <6>3. QED
            BY <6>1, <6>2
        <5>5. QED
          BY <4>2, <4>4, <5>1, <5>4
      <4>5. QED
        BY <4>3, <4>4
    <3>3. QED
      BY <3>1, <3>2
  <2>2. g = Step(g)
    <3>1. g = [at \in Cursor |-> g[at]]
      OBVIOUS
    <3> HIDE DEF g
    <3>2. QED
      BY <2>1, <3>1
  <2>3. QED
    BY <2>2
<1>12. Walk = Step(Walk)
  BY <1>11
<1> HIDE DEF Walk
<1>13. ASSUME NEW at \in Cursor
       PROVE  Walk[at] = IF Name(at) = path THEN at
                         ELSE IF Name(at) = NoName THEN 0 ELSE Walk[NextHeader(files, at)]
  <2>1. Step(Walk)[at] = IF Name(at) = path THEN at
                         ELSE IF Name(at) = NoName THEN 0 ELSE Walk[NextHeader(files, at)]
    OBVIOUS
  <2>2. QED
    BY <1>12, <2>1
<1> HIDE DEF Cursor
<1>14. \A k \in 2..(Len(files) + 1) : Walk[At(k)] = First(k)
  <2> DEFINE From(m) == Len(files) + 1 - m
             Wrong == {m \in 0..(Len(files) - 1) : Walk[At(From(m))] # First(From(m))}
  <2>1. Wrong = {}
    <3> SUFFICES ASSUME Wrong # {} PROVE FALSE
      OBVIOUS
    <3>1. PICK m \in Wrong : \A o \in Wrong : m <= o
      <4>1. Wrong \in SUBSET Nat
        OBVIOUS
      <4>2. QED
        BY <4>1, LeastElement
    <3>2. m \in 0..(Len(files) - 1) /\ Walk[At(From(m))] # First(From(m))
      OBVIOUS
    <3>3. From(m) \in 2..(Len(files) + 1)
      BY <1>1, <3>2
    <3>4. At(From(m)) \in Cursor
      BY <1>9, <3>3
    <3>5. CASE m = 0
      <4>1. From(m) = Len(files) + 1
        BY <1>1, <3>5
      <4>2. Name(At(From(m))) = NoName
        BY <1>4, <4>1 DEF At, last
      <4>3. QED
        BY <1>10, <1>13, <3>2, <3>4, <4>1, <4>2
    <3>6. CASE m # 0
      <4>1. From(m) \in 1..Len(files) /\ From(m) + 1 = From(m - 1)
            /\ m - 1 \in 0..(Len(files) - 1) /\ m - 1 < m
        BY <1>1, <3>2, <3>6
      <4>2. Walk[At(From(m - 1))] = First(From(m - 1))
        BY <3>1, <4>1
      <4>3. /\ Name(At(From(m))) = files[From(m)].name /\ files[From(m)].name # NoName
            /\ NextHeader(files, At(From(m))) = At(From(m - 1))
            /\ First(From(m)) = IF files[From(m)].name = path THEN At(From(m))
                                ELSE First(From(m - 1))
        BY <1>3, <4>1
      <4>4. QED
        BY <1>13, <3>2, <3>4, <4>2, <4>3
    <3>7. QED
      BY <3>5, <3>6
  <2>2. SUFFICES ASSUME NEW k \in 2..(Len(files) + 1) PROVE Walk[At(k)] = First(k)
    OBVIOUS
  <2>3. Len(files) + 1 - k \in 0..(Len(files) - 1) /\ From(Len(files) + 1 - k) = k
    BY <1>1
  <2>4. QED
    BY <2>1, <2>3
<1>15. 2 \in 2..(Len(files) + 1)
  BY <1>1
<1>16. Walk[1] = First(2)
  BY <1>6, <1>14, <1>15
<1>17. Name(1) = NoName => First(2) = 0
  <2>1. CASE Len(files) = 1
    BY <1>10, <2>1
  <2>2. CASE Len(files) # 1
    <3>1. 2 \in 1..Len(files)
      BY <1>1, <2>2
    <3>2. QED
      BY <1>3, <1>6, <3>1
  <2>3. QED
    BY <2>1, <2>2
<1>18. QED
  BY <1>2, <1>16, <1>17 DEF First

\* What is at the block that initrd_open finds.
LEMMA FileRead ==
  ASSUME NEW files, Archive(files), NEW path, path # NoName
  PROVE  LET named == {k \in 2..Len(files) : files[k].name = path}
             at == initrd_open(files, path)
         IN /\ named \in SUBSET Nat /\ (path = Long => named = {})
            /\ at = IF named = {} THEN 0 ELSE HeaderAt(files, Min(named))
            /\ named # {} => at # 0 /\ FileAt(files, at) = files[Min(named)]
<1> DEFINE named == {k \in 2..Len(files) : files[k].name = path}
           at == initrd_open(files, path)
<1>1. named \in SUBSET Nat /\ named \in SUBSET (2..Len(files))
  OBVIOUS
<1>2. Len(files) \in Nat
  <2>1. files \in Seq(ToSet(files))
    BY DEF Archive
  <2>2. QED
    BY <2>1
<1>3. path = Long => named = {}
  <2>1. \A k \in 2..Len(files) : k \in 1..Len(files)
    BY <1>2
  <2>2. QED
    BY <2>1 DEF Archive
<1>4. at = IF named = {} THEN 0 ELSE HeaderAt(files, Min(named))
  <2>1. Named(files, path, 2) = named
    BY DEF Named
  <2> HIDE DEF named
  <2>2. QED
    BY <1>3, <2>1, FileOpened DEF FirstFrom
<1> HIDE DEF named
<1>5. ASSUME named # {} PROVE at # 0 /\ FileAt(files, at) = files[Min(named)]
  <2>1. Min(named) \in named
    BY <1>1, <1>5, MinOf
  <2>2. Min(named) \in 2..Len(files)
    BY <1>1, <2>1
  <2>3. /\ Min(named) \in 1..Len(files) /\ Min(named) \in 1..(Len(files) + 1)
        /\ 1 \in 1..(Min(named) - 1) /\ 1 \in 1..(Len(files) + 1)
    BY <1>2, <2>2
  <2>4. /\ HeaderAt(files, 1) \in Nat /\ HeaderAt(files, Min(named)) \in Nat
        /\ HeaderAt(files, 1) < HeaderAt(files, Min(named))
    BY <2>3, HeadersApart
  <2>5. FileAt(files, HeaderAt(files, Min(named))) = files[Min(named)]
    BY <2>3, FileAtHeader
  <2> HIDE DEF at
  <2>6. QED
    BY <1>4, <1>5, <2>4, <2>5
<1>6. QED
  BY <1>1, <1>3, <1>4, <1>5 DEF named

-----------------------------------------------------------------------------
(* What each stage finds and leaves.                                       *)

Wired == {"heap", "proc", "initrd", "cli", "gdt", "font", "init", "ring3"}
Parsed == {"ioapic", "lapic", "irqs"} \cup Wired

\* The entry of pin p of the I/O APIC at address u, once ioapic_init is through.
VectorOf(u, p) ==
  IF u # ioapic_base THEN machine.firmware
  ELSE IF stage \in Wired /\ p = PinOf(acpi_irq_to_gsi(madt, 1)) THEN 33
  ELSE IF stage \in Wired /\ p = PinOf(acpi_irq_to_gsi(madt, 0)) THEN 32
  ELSE Masked

\* Types, the tables of the firmware and the local APIC.
Tables ==
  /\ machine \in Machines /\ DOMAIN idt = 0..255
  /\ stage \in {"intr", "pmm", "vmm", "acpi", "halt", "hang", "crash", "wild", "down"} \cup Parsed
  /\ stage # "intr" => idtr
  /\ stage \in Parsed =>
       /\ TrueMadt # NoTable /\ madt = TrueMadt
       /\ ioapic_base = IoApicBase(TrueMadt) /\ acpi_lapic_base = TrueMadt.lapic_addr
  /\ stage \in {"irqs"} \cup Wired => lapic_base = acpi_lapic_base

\* The gates and the redirection entries.
Wires ==
  /\ stage \in {"intr", "pmm", "vmm", "acpi", "ioapic"} =>
       redirection = [u \in IoApicAddr |-> [p \in Pin |-> machine.firmware]]
  /\ stage \in {"lapic", "irqs"} \cup Wired =>
       redirection = [u \in IoApicAddr |-> [p \in Pin |-> VectorOf(u, p)]]
  /\ stage \in Wired =>
       /\ idt[32] = Gate("irq0_isr", INT_GATE_FLAGS)
       /\ idt[33] = Gate("irq1_isr", INT_GATE_FLAGS)

\* When interrupts may come, and what they and the way to user mode need.
Window ==
  /\ IF_flag => stage \in {"initrd", "cli", "ring3", "wild"}
  /\ stage \in Wired \ {"heap"} => current_task
  /\ stage \in {"font", "init", "ring3"} => gdtr /\ tss
  /\ ~ fault

StageInv == Tables /\ Wires /\ Window

\* StageInv is about these variables only.
stagevars == <<machine, stage, IF_flag, tables, devices, kernel, fault>>

LEMMA StageInvStutter ==
  ASSUME StageInv, UNCHANGED stagevars
  PROVE  StageInv'
<1>1. /\ UNCHANGED <<machine, stage, IF_flag, fault>>
      /\ UNCHANGED <<madt, ioapic_base, acpi_lapic_base>>
      /\ UNCHANGED <<idtr, idt, lapic_base, redirection>>
      /\ UNCHANGED <<current_task, gdtr, tss>>
  BY DEF stagevars, tables, devices, kernel
<1>2. UNCHANGED TrueMadt
  BY <1>1 DEF TrueMadt
<1>3. Tables'
  BY <1>1, <1>2 DEF StageInv, Tables
<1>4. \A u, p : VectorOf(u, p)' = VectorOf(u, p)
  BY <1>1 DEF VectorOf
<1>5. Wires'
  BY <1>1, <1>4 DEF StageInv, Wires
<1>6. QED
  BY <1>1, <1>3, <1>5 DEF StageInv, Window

LEMMA StageInvInit ==
  ASSUME BootInit
  PROVE  StageInv
BY DEF BootInit, StageInv, Tables, Wires, Window, Wired, Parsed

\* Where the model stops, nothing is asked for.
LEMMA StageInvStops ==
  ASSUME StageInv, stage # "intr", stage' \in {"halt", "hang", "crash", "wild", "down"},
         UNCHANGED <<machine, idtr, idt, fault>>, IF_flag' => stage' = "wild"
  PROVE  StageInv'
BY DEF StageInv, Tables, Wires, Window, Parsed, Wired

\* The stages that only the stage, the flags and the kernel's state change.
LEMMA StageInvEasy ==
  ASSUME StageInv,
         pmm_init \/ vmm_init \/ lapic_init \/ kheap_init \/ proc_init \/ initrd_init
           \/ cli \/ init_font_uapi
  PROVE  StageInv'
<1>1. UNCHANGED <<machine, madt, ioapic_base, acpi_lapic_base, idtr, idt, redirection,
                  gdtr, tss, fault>>
  BY DEF pmm_init, vmm_init, lapic_init, kheap_init, proc_init, initrd_init, cli,
         init_font_uapi, tables, kernel, devices, interrupts
<1>2. UNCHANGED TrueMadt
  BY <1>1 DEF TrueMadt
<1>3. /\ stage \in {"pmm", "vmm", "lapic", "heap", "proc", "initrd", "cli", "font"}
      /\ stage' \in {"halt", "hang", "crash", "wild", "pmm", "vmm", "acpi", "irqs", "proc",
                     "initrd", "cli", "gdt", "init"}
      /\ stage' \in Wired => stage \in Wired
      /\ stage' = "irqs" => stage = "lapic"
      /\ stage' \in {"pmm", "vmm"} => stage = "pmm"
      /\ stage' = "acpi" => stage = "vmm"
      /\ stage' = "init" => stage = "font"
  BY DEF pmm_init, vmm_init, lapic_init, kheap_init, proc_init, initrd_init, cli,
         init_font_uapi, Stage, Onward, Halts, Wired
<1>4. lapic_base' = (IF stage = "lapic" THEN acpi_lapic_base ELSE lapic_base)
  BY DEF pmm_init, vmm_init, lapic_init, kheap_init, proc_init, initrd_init, cli,
         init_font_uapi, devices, Stage, Halts
<1>5. Tables'
  BY <1>1, <1>2, <1>3, <1>4 DEF StageInv, Tables, Parsed, Wired
<1>6. stage' \in {"irqs"} \cup Wired =>
        \A u, p : VectorOf(u, p)' = VectorOf(u, p)
  BY <1>1, <1>3 DEF VectorOf, Wired
<1>7. Wires'
  BY <1>1, <1>3, <1>6 DEF StageInv, Wires, Wired
<1>8. /\ IF_flag' => stage' \in {"initrd", "cli", "ring3", "wild"}
      /\ stage' \in Wired \ {"heap"} => current_task'
  <2>1. CASE pmm_init \/ vmm_init \/ lapic_init
    BY <1>3, <2>1 DEF pmm_init, vmm_init, lapic_init, kernel, Stage, Onward, Halts,
                      StageInv, Window, Wired
  <2>2. CASE kheap_init
    BY <2>2 DEF kheap_init, Onward, StageInv, Window
  <2>3. CASE proc_init
    BY <2>3 DEF proc_init, kernel, Onward, Halts, Stage, StageInv, Window, Wired
  <2>4. CASE initrd_init \/ cli \/ init_font_uapi
    BY <2>4 DEF initrd_init, cli, init_font_uapi, kernel, Stage, Onward, Halts,
                StageInv, Window, Wired
  <2>5. QED
    BY <2>1, <2>2, <2>3, <2>4
<1>9. Window'
  BY <1>1, <1>3, <1>8 DEF StageInv, Window
<1>10. QED
  BY <1>5, <1>7, <1>9 DEF StageInv

\* intr_init: the timer's and the keyboard's gates come later.
LEMMA IntrInitStep ==
  ASSUME StageInv, intr_init
  PROVE  StageInv'
<1>1. /\ UNCHANGED <<machine, IF_flag, madt, ioapic_base, acpi_lapic_base,
                     redirection, fault>>
      /\ stage = "intr" /\ stage' = "pmm" /\ idtr' /\ DOMAIN idt' = 0..255
  BY DEF intr_init, tables, interrupts, Stage
<1>2. QED
  BY <1>1 DEF StageInv, Tables, Wires, Window, Parsed, Wired

\* acpi_init either stops or has parsed the one MADT of the machine.
LEMMA AcpiInitStep ==
  ASSUME StageInv, acpi_init
  PROVE  StageInv'
<1>1. /\ UNCHANGED <<machine, idtr, idt, lapic_base, redirection, fault>>
      /\ stage = "acpi" /\ stage' \in {"halt", "hang", "ioapic"}
      /\ IF_flag' => IF_flag
  BY DEF acpi_init, devices, interrupts, Stage, Halts
<1>2. UNCHANGED TrueMadt
  BY <1>1 DEF TrueMadt
<1>3. stage' = "ioapic" =>
        /\ TrueMadt # NoTable /\ madt' = TrueMadt
        /\ ioapic_base' = IoApicBase(TrueMadt) /\ acpi_lapic_base' = TrueMadt.lapic_addr
  BY DEF acpi_init, Stage, Halts, TablesValid, TrueMadt
<1>4. Tables'
  BY <1>1, <1>2, <1>3 DEF StageInv, Tables, Parsed, Wired
<1>5. QED
  BY <1>1, <1>4 DEF StageInv, Wires, Window, Wired

\* ioapic_init masks the I/O APIC at ioapic_base.
LEMMA IoapicInitStep ==
  ASSUME StageInv, ioapic_init
  PROVE  StageInv'
<1>0. CASE ioapic_base = None
  <2>1. /\ UNCHANGED <<machine, idtr, idt, fault, IF_flag>>
        /\ stage = "ioapic" /\ stage' = "crash"
    BY <1>0 DEF ioapic_init, Stage, interrupts
  <2>2. ~ IF_flag
    BY <2>1 DEF StageInv, Window
  <2>3. QED
    BY <2>1, <2>2, StageInvStops
<1> SUFFICES ASSUME ioapic_base # None PROVE StageInv'
  BY <1>0
<1>1. /\ UNCHANGED <<machine, IF_flag, madt, ioapic_base, acpi_lapic_base, idtr, idt,
                     lapic_base, fault>>
      /\ stage = "ioapic" /\ stage' = "lapic"
  BY DEF ioapic_init, tables, interrupts, Stage
<1>2. UNCHANGED TrueMadt
  BY <1>1 DEF TrueMadt
<1>3. Tables'
  BY <1>1, <1>2 DEF StageInv, Tables, Parsed, Wired
<1>4. redirection = [u \in IoApicAddr |-> [p \in Pin |-> machine.firmware]]
  BY <1>1 DEF StageInv, Wires
<1>5. redirection' = [u \in IoApicAddr |->
                        IF u = ioapic_base THEN [p \in Pin |-> Masked] ELSE redirection[u]]
  BY <1>4 DEF ioapic_init
<1>6. \A u, p : VectorOf(u, p)' = IF u = ioapic_base THEN Masked ELSE machine.firmware
  BY <1>1 DEF VectorOf, Wired
<1>7. redirection' = [u \in IoApicAddr |-> [p \in Pin |-> VectorOf(u, p)']]
  BY <1>4, <1>5, <1>6
<1>8. Wires'
  BY <1>1, <1>7 DEF Wires, Wired
<1>9. QED
  BY <1>1, <1>3, <1>8 DEF StageInv, Window, Wired

\* init_irqs opens one pin for each of the two interrupts.
LEMMA InitIrqsStep ==
  ASSUME StageInv, init_irqs
  PROVE  StageInv'
<1>1. /\ UNCHANGED <<machine, IF_flag, madt, ioapic_base, acpi_lapic_base, idtr,
                     lapic_base, fault>>
      /\ stage = "irqs" /\ stage' = "heap"
  BY DEF init_irqs, tables, interrupts, Stage
<1>2. UNCHANGED TrueMadt
  BY <1>1 DEF TrueMadt
<1>3. /\ idt' = [idt EXCEPT ![32] = Gate("irq0_isr", INT_GATE_FLAGS),
                            ![33] = Gate("irq1_isr", INT_GATE_FLAGS)]
      /\ DOMAIN idt = 0..255
  BY DEF init_irqs, StageInv, Tables
<1>4. /\ DOMAIN idt' = 0..255
      /\ idt'[32] = Gate("irq0_isr", INT_GATE_FLAGS)
      /\ idt'[33] = Gate("irq1_isr", INT_GATE_FLAGS)
  <2>1. 32 \in DOMAIN idt /\ 33 \in DOMAIN idt
    BY <1>3
  <2>2. QED
    BY <1>3, <2>1
<1>5. Tables'
  BY <1>1, <1>2, <1>4 DEF StageInv, Tables, Parsed, Wired
<1> DEFINE P0 == PinOf(acpi_irq_to_gsi(madt, 0))
           P1 == PinOf(acpi_irq_to_gsi(madt, 1))
<1>6. redirection = [u \in IoApicAddr |->
                       [p \in Pin |-> IF u = ioapic_base THEN Masked ELSE machine.firmware]]
  <2>1. \A u, p : VectorOf(u, p) = IF u = ioapic_base THEN Masked ELSE machine.firmware
    BY <1>1 DEF VectorOf, Wired
  <2>2. redirection = [u \in IoApicAddr |-> [p \in Pin |-> VectorOf(u, p)]]
    BY <1>1 DEF StageInv, Wires
  <2>3. QED
    BY <2>1, <2>2
<1>7. \A u, p : VectorOf(u, p)' =
        IF u # ioapic_base THEN machine.firmware
        ELSE IF p = P1 THEN 33 ELSE IF p = P0 THEN 32 ELSE Masked
  BY <1>1 DEF VectorOf, Wired
<1>8. redirection' = [u \in IoApicAddr |-> [p \in Pin |-> VectorOf(u, p)']]
  <2> DEFINE R0 == WriteEntry(redirection, acpi_irq_to_gsi(madt, 0), 32)
             G(u, p) == IF u # ioapic_base THEN machine.firmware
                        ELSE IF p = P0 THEN 32 ELSE Masked
  <2>1. R0 = [u \in IoApicAddr |-> [p \in Pin |-> G(u, p)]]
    BY <1>6 DEF WriteEntry
  <2>2. redirection' = WriteEntry(R0, acpi_irq_to_gsi(madt, 1), 33)
    BY DEF init_irqs
  <2> HIDE DEF R0
  <2>3. redirection' = [u \in IoApicAddr |-> [p \in Pin |->
                          IF u = ioapic_base /\ p = P1 THEN 33 ELSE G(u, p)]]
    BY <2>1, <2>2 DEF WriteEntry
  <2>4. QED
    BY <2>3, <1>7
<1>9. Wires'
  BY <1>1, <1>4, <1>8 DEF Wires
<1>10. QED
  BY <1>1, <1>5, <1>9 DEF StageInv, Window, Wired

\* load_gdt, write_tss, load_tss: the selector 0x48 is the TSS's.
LEMMA LoadGdtStep ==
  ASSUME StageInv, load_gdt_tss
  PROVE  StageInv'
<1>0. CASE stage' # "font"
  <2>1. /\ UNCHANGED <<machine, idtr, idt, fault>> /\ stage = "gdt"
        /\ stage' \in {"halt", "hang", "wild"} /\ (IF_flag' => IF_flag)
    BY <1>0 DEF load_gdt_tss, devices, interrupts, Onward, Halts, Stage
  <2>2. ~ IF_flag
    BY <2>1 DEF StageInv, Window
  <2>3. QED
    BY <2>1, <2>2, StageInvStops
<1> SUFFICES ASSUME stage' = "font" PROVE StageInv'
  BY <1>0
<1>1. /\ UNCHANGED <<machine, IF_flag, madt, ioapic_base, acpi_lapic_base, idtr, idt,
                     lapic_base, redirection, current_task, fault>>
      /\ stage = "gdt" /\ stage' = "font" /\ gdtr'
  BY DEF load_gdt_tss, tables, devices, interrupts, Stage, Halts
<1>2. UNCHANGED TrueMadt
  BY <1>1 DEF TrueMadt
<1>3. tss'
  <2>1. 72 \div 8 + 1 = 10
    OBVIOUS
  <2>2. Descriptor(72) = "tss"
    BY <2>1 DEF Descriptor, gdt
  <2>3. QED
    BY <2>2 DEF load_gdt_tss, Halts, Stage
<1>4. Tables'
  BY <1>1, <1>2 DEF StageInv, Tables, Parsed, Wired
<1>5. \A u, p : VectorOf(u, p)' = VectorOf(u, p)
  BY <1>1 DEF VectorOf, Wired
<1>6. Wires'
  BY <1>1, <1>5 DEF StageInv, Wires, Wired
<1>7. QED
  BY <1>1, <1>3, <1>4, <1>6 DEF StageInv, Window, Wired

\* switch_to_ring3 finds the selectors 0x3B and 0x43 in our GDT.
LEMMA StartInitStep ==
  ASSUME StageInv, start_init_system
  PROVE  StageInv'
<1>1. /\ UNCHANGED <<machine, madt, ioapic_base, acpi_lapic_base, idtr, idt,
                     lapic_base, redirection, current_task, gdtr, tss>>
      /\ stage = "init" /\ stage' \in {"ring3", "halt", "wild"} /\ (stage' = "halt" => ~ IF_flag')
  BY DEF start_init_system, tables, devices, kernel, Stage, Halts
<1>2. UNCHANGED TrueMadt
  BY <1>1 DEF TrueMadt
<1>3. UserSegments
  <2>1. 56 \div 8 + 1 = 8 /\ 64 \div 8 + 1 = 9
    OBVIOUS
  <2>2. Descriptor(56) = "user code" /\ Descriptor(64) = "user data"
    BY <2>1 DEF Descriptor, gdt
  <2>3. QED
    BY <1>1, <2>2 DEF UserSegments, StageInv, Window
<1>4. ~ fault'
  BY <1>3 DEF start_init_system, StageInv, Window
<1>5. Tables'
  BY <1>1, <1>2 DEF StageInv, Tables, Parsed, Wired
<1>6. \A u, p : stage' = "ring3" => VectorOf(u, p)' = VectorOf(u, p)
  BY <1>1 DEF VectorOf, Wired
<1>7. Wires'
  BY <1>1, <1>6 DEF StageInv, Wires, Wired
<1>8. QED
  BY <1>1, <1>4, <1>5, <1>7 DEF StageInv, Window, Wired

\* What the MADT of a machine that got so far is known to be.
LEMMA MadtFacts ==
  ASSUME StageInv, stage \in Parsed
  PROVE  WellFormed(TrueMadt) /\ Quiet(machine)
BY BootAssumption DEF StageInv, Tables, TrueMadt

\* The wire of an interrupt ends at an entry of redirection.
LEMMA LineFacts ==
  ASSUME StageInv, stage \in Wired, NEW irq, NEW line \in Line(irq)
  PROVE  /\ line[1] \in IoApicAddr /\ line[2] \in Pin
         /\ machine.firmware = Masked \/ line[1] = ioapic_base
         /\ redirection[line[1]][line[2]] = VectorOf(line[1], line[2])
<1>1. stage \in Parsed /\ WellFormed(TrueMadt) /\ Quiet(machine)
  BY MadtFacts DEF Parsed
<1>2. PICK u \in IoApics : Gsi(irq) - u.gsi_base \in Pin /\ line = <<u.addr, Gsi(irq) - u.gsi_base>>
  BY DEF Line
<1>3. PICK k \in 1..Len(TrueMadt.entries) :
        u = TrueMadt.entries[k] /\ TrueMadt.entries[k].type = "io_apic"
  BY DEF IoApics
<1>4. line[1] \in IoApicAddr /\ line[2] \in Pin
  BY <1>1, <1>2, <1>3 DEF WellFormed
<1>5. machine.firmware = Masked \/ line[1] = ioapic_base
  BY <1>1, <1>2, <1>3 DEF Quiet, TrueMadt, StageInv, Tables
<1>6. QED
  BY <1>4, <1>5 DEF StageInv, Wires

\* The gates of the two interrupts work from the STI of proc_init on.
LEMMA GatesWork ==
  ASSUME StageInv, stage \in Wired \ {"heap"}, stage = "ring3" => tss,
         NEW v \in {32, 33}
  PROVE  Handled(idt[v])
<1>1. /\ idt[v].cs = 40 /\ idt[v] # NoGate
  BY DEF StageInv, Wires, Gate, NoGate
<1>2. 40 \div 8 + 1 = 6
  OBVIOUS
<1>3. Descriptor(idt[v].cs) = "kernel code"
  BY <1>1, <1>2 DEF Descriptor, gdt
<1>4. stage \in Parsed
  BY DEF Parsed
<1>5. lapic_base # None
  BY <1>4, MadtFacts DEF WellFormed, StageInv, Tables
<1>6. QED
  BY <1>1, <1>3, <1>5, <1>4 DEF Handled, StageInv, Tables, Window, Wired

\* An interrupt comes through one of the two gates, and finds what it needs.
LEMMA InterruptStep ==
  ASSUME StageInv, NEW irq \in {0, 1}, Interrupt(irq)
  PROVE  StageInv'
<1>1. stage \in {"initrd", "cli", "ring3"}
  BY DEF Interrupt, StageInv, Window
<1>2. stage \in Wired /\ stage \in Wired \ {"heap"} /\ (stage = "ring3" => tss)
  BY <1>1 DEF Wired, StageInv, Window
<1>3. PICK line \in Line(irq) :
        LET vector == redirection[line[1]][line[2]]
        IN vector # Masked /\ (Handled(idt[vector]) => UNCHANGED fault)
  BY DEF Interrupt
<1>4. redirection[line[1]][line[2]] \in {32, 33}
  BY <1>2, <1>3, LineFacts DEF VectorOf
<1>5. UNCHANGED fault
  BY <1>2, <1>3, <1>4, GatesWork
<1>6. UNCHANGED stagevars
  BY <1>5 DEF Interrupt, stagevars
<1>7. QED
  BY <1>6, StageInvStutter

LEMMA StageInvStep ==
  ASSUME StageInv, [BootNext]_bootvars
  PROVE  StageInv'
<1>1. ASSUME NEW path \in Later, spawn(path)
      PROVE  StageInv'
  <2>1. CASE UNCHANGED stage
    <3>1. UNCHANGED stagevars
      BY <1>1, <2>1 DEF spawn, stagevars, interrupts
    <3>2. QED
      BY <3>1, StageInvStutter
  <2>2. CASE stage' # stage
    BY <1>1, <2>2, StageInvStops DEF spawn, devices, interrupts
  <2>3. QED
    BY <2>1, <2>2
<1>3. CASE spawn_fails
  BY <1>3, StageInvStops DEF spawn_fails, Stage, devices, interrupts
<1>2. CASE UNCHANGED bootvars
  <2>1. UNCHANGED stagevars
    BY <1>2 DEF bootvars, stagevars, interrupts
  <2>2. QED
    BY <2>1, StageInvStutter
<1>4. QED
  BY <1>1, <1>2, <1>3, StageInvEasy, IntrInitStep, AcpiInitStep, IoapicInitStep, InitIrqsStep,
     LoadGdtStep, StartInitStep, InterruptStep
  DEF BootNext, BootStep

LEMMA StageInvariantProof == BootSpec => []StageInv
<1>1. StageInv /\ [BootNext]_bootvars => StageInv'
  BY StageInvStep
<1>2. QED
  BY <1>1, StageInvInit, PTL DEF BootSpec

\* No timer or keyboard interrupt between the STI in proc_init and the CLI of
\* init, or in user mode, and no jump to user mode meets anything that is not
\* set up yet, on every machine whose tables make sense and whose boot loader
\* left nothing open on an I/O APIC the kernel does not program.
THEOREM NothingMissing == BootSpec => []NoStrayInterrupt
<1>1. StageInv => NoStrayInterrupt
  BY DEF StageInv, Window, NoStrayInterrupt
<1>2. QED
  BY <1>1, StageInvariantProof, PTL

-----------------------------------------------------------------------------
(* The routing of the two interrupts.                                      *)

\* acpi_irq_to_gsi reads the MADT as the wires do, in sixteen bits.
LEMMA GsiRead ==
  ASSUME WellFormed(TrueMadt), NEW irq \in {0, 1}
  PROVE  Gsi(irq) \in Nat /\ acpi_irq_to_gsi(TrueMadt, irq) = Gsi(irq) % 65536
<1>1. Len(TrueMadt.entries) \in Nat /\ Overrides(irq) \in SUBSET (1..Len(TrueMadt.entries))
  BY DEF WellFormed, Overrides
<1> DEFINE k == SelectInSeq(TrueMadt.entries,
                            LAMBDA e : e.type = "override" /\ e.source = irq)
<1>2. k = IF Overrides(irq) # {} THEN Min(Overrides(irq)) ELSE 0
  BY DEF SelectInSeq, Overrides
<1>3. acpi_irq_to_gsi(TrueMadt, irq) =
        IF k = 0 THEN irq ELSE TrueMadt.entries[k].interrupt % 65536
  BY DEF acpi_irq_to_gsi
<1> HIDE DEF k
<1>4. CASE Overrides(irq) = {}
  BY <1>2, <1>3, <1>4 DEF Gsi
<1>5. CASE Overrides(irq) # {}
  <2>1. Min(Overrides(irq)) \in Overrides(irq)
    BY <1>1, <1>5, MinOf
  <2>2. /\ Min(Overrides(irq)) \in 1..Len(TrueMadt.entries) /\ Min(Overrides(irq)) # 0
        /\ TrueMadt.entries[Min(Overrides(irq))].type = "override"
    BY <1>1, <2>1 DEF Overrides
  <2>3. TrueMadt.entries[Min(Overrides(irq))].interrupt \in Nat
    BY <2>2 DEF WellFormed
  <2>4. QED
    BY <1>2, <1>3, <1>5, <2>2, <2>3 DEF Gsi
<1>6. QED
  BY <1>4, <1>5

\* The register number of a pin does not overflow.
LEMMA PinOfPin ==
  ASSUME NEW p \in Pin
  PROVE  PinOf(p % 65536) = p
<1>1. p \in 0..119
  BY BootAssumption DEF Pin
<1>2. p % 65536 = p /\ p % 256 = p
  BY <1>1
<1>3. (16 + p * 2) % 256 = 16 + p * 2
  BY <1>1
<1>4. PinOf(p) = ((16 + p * 2) - 16) \div 2
  BY <1>2, <1>3 DEF PinOf
<1>5. ((16 + p * 2) - 16) \div 2 = p
  BY <1>1
<1>6. QED
  BY <1>2, <1>4, <1>5

\* From init_irqs on, an I/O APIC that has both wires and starts at GSI 0 has
\* exactly their two pins open, each with its vector, for every order and
\* number of overrides and of I/O APICs, of up to 120 pins.
THEOREM InterruptsRouted == BootSpec => []IrqRouting
<1>1. ASSUME StageInv, stage \in Wired,
             \A u \in IoApics : u.addr = ioapic_base => u.gsi_base = 0,
             NEW p0 \in Pin, NEW p1 \in Pin, NEW p \in Pin,
             Line(0) = {<<ioapic_base, p0>>}, Line(1) = {<<ioapic_base, p1>>}, p0 # p1
      PROVE  redirection[ioapic_base][p] =
               CASE <<ioapic_base, p>> \in Line(0) -> 32
                 [] <<ioapic_base, p>> \in Line(1) -> 33
                 [] OTHER -> Masked
  <2>1. WellFormed(TrueMadt) /\ madt = TrueMadt
    BY <1>1, MadtFacts DEF Parsed, StageInv, Tables
  <2>2. ASSUME NEW irq \in {0, 1}, NEW q \in Pin, Line(irq) = {<<ioapic_base, q>>}
        PROVE  PinOf(acpi_irq_to_gsi(madt, irq)) = q
    <3> DEFINE line == <<ioapic_base, q>>
    <3>1. line \in Line(irq)
      BY <2>2
    <3>2. PICK u \in IoApics : line = <<u.addr, Gsi(irq) - u.gsi_base>>
      <4> HIDE DEF line
      <4>1. QED
        BY <3>1 DEF Line
    <3>3. q = Gsi(irq)
      <4>1. ioapic_base = u.addr /\ q = Gsi(irq) - u.gsi_base
        BY <3>2
      <4>2. u.gsi_base = 0
        BY <1>1, <4>1
      <4>3. QED
        BY <2>1, <4>1, <4>2, GsiRead
    <3>4. QED
      BY <2>1, <3>3, GsiRead, PinOfPin
  <2>3. PinOf(acpi_irq_to_gsi(madt, 0)) = p0 /\ PinOf(acpi_irq_to_gsi(madt, 1)) = p1
    BY <1>1, <2>2
  <2>4. ioapic_base \in IoApicAddr
    <3>1. <<ioapic_base, p0>> \in Line(0)
      BY <1>1
    <3>2. <<ioapic_base, p0>>[1] \in IoApicAddr
      BY <1>1, <3>1, LineFacts
    <3>3. QED
      BY <3>2
  <2>5. redirection[ioapic_base][p] = VectorOf(ioapic_base, p)
    BY <1>1, <2>4 DEF StageInv, Wires
  <2>6. QED
    BY <1>1, <2>3, <2>5 DEF VectorOf
<1>2. StageInv => IrqRouting
  BY <1>1 DEF IrqRouting, Wired
<1>3. QED
  BY <1>2, StageInvariantProof, PTL

-----------------------------------------------------------------------------
(* The memory map that pmm_init is given.                                  *)

\* PmmChunks goes on unchanged while the kernel boots.
LEMMA ChunksKeptAtBoot == BootSpec => []CInv
<1>1. BootInit => CInv
  <2> SUFFICES ASSUME BootInit PROVE CInv
    OBVIOUS
  <2>1. entries \in Seq(Entry)
    BY BootAssumption DEF BootInit
  <2>2. QED
    BY <2>1, StartCInv DEF BootInit
<1>2. CInv /\ [BootNext]_bootvars => CInv'
  <2> SUFFICES ASSUME CInv, [BootNext]_bootvars PROVE CInv'
    OBVIOUS
  <2>1. CASE pmm_init
    BY <2>1, NextCInv DEF pmm_init, Next
  <2>2. CASE UNCHANGED scan
    BY <2>2, NextCInv DEF scan, vars
  <2>3. ASSUME NEW irq \in {0, 1}, Interrupt(irq) PROVE UNCHANGED scan
    BY <2>3 DEF Interrupt
  <2>4. ASSUME NEW path \in Later, spawn(path) PROVE UNCHANGED scan
    BY <2>4 DEF spawn
  <2>5. BootStep \/ spawn_fails => pmm_init \/ UNCHANGED scan
    BY DEF BootStep, intr_init, vmm_init, acpi_init, ioapic_init, lapic_init, init_irqs,
           kheap_init, proc_init, initrd_init, cli, load_gdt_tss, init_font_uapi,
           start_init_system, spawn_fails
  <2>6. UNCHANGED bootvars => UNCHANGED scan
    BY DEF bootvars
  <2>7. QED
    BY <2>1, <2>2, <2>3, <2>4, <2>5, <2>6 DEF BootNext
<1>3. QED
  BY <1>1, <1>2, PTL DEF BootSpec

\* While the kernel boots, pmm_init scans the memory map as PmmChunks says, and
\* nothing else touches what it chose.
THEOREM ChunksChosenAtBoot == BootSpec => []ChunksSound
<1>1. QED
  BY CInvChunksSound, ChunksKeptAtBoot, PTL

-----------------------------------------------------------------------------
(* Programs in memory.                                                     *)

\* What FileAt finds is a file of the archive or nothing.
LEMMA FileAtFile ==
  ASSUME NEW files, NEW at
  PROVE  \/ FileAt(files, at) = NULL_FILE
         \/ \E k \in 1..Len(files) : FileAt(files, at) = files[k]
<1> DEFINE here == {k \in 1..Len(files) : HeaderAt(files, k) = at}
<1>1. FileAt(files, at) = IF here = {} THEN NULL_FILE ELSE files[CHOOSE k \in here : TRUE]
  BY DEF FileAt
<1>2. here # {} => (CHOOSE k \in here : TRUE) \in here
  OBVIOUS
<1>3. here \subseteq 1..Len(files)
  OBVIOUS
<1> HIDE DEF here
<1>4. QED
  BY <1>1, <1>2, <1>3

\* What elf_get_entry accepts was linked.
LEMMA AcceptedFile ==
  ASSUME machine \in Machines, NEW path, Loadable(path)
  PROVE  LET file == FileAt(Files, initrd_open(Files, path))
         IN /\ file \in {Files[k] : k \in 1..Len(Files)} /\ Linked(file)
            /\ New(path) = {file} /\ FileOf(path) = file
<1> DEFINE file == FileAt(Files, initrd_open(Files, path))
<1>1. Accepted(file)
  BY DEF Loadable
<1>2. ~ Accepted(NULL_FILE)
  <2>1. NotElf.magic # GoodHeader.magic
    BY DEF NotElf, GoodHeader
  <2>2. NULL_FILE.elf.header = NotElf
    BY DEF NULL_FILE
  <2>3. QED
    BY <2>1, <2>2 DEF Accepted
<1>3. file = NULL_FILE \/ \E k \in 1..Len(Files) : file = Files[k]
  BY FileAtFile
<1> HIDE DEF file
<1>4. PICK k \in 1..Len(Files) : file = Files[k]
  BY <1>1, <1>2, <1>3
<1>5. Linked(file)
  BY <1>1, <1>4, BootAssumption DEF Files
<1>6. QED
  BY <1>4, <1>5 DEF file, New, FileOf

\* Counting the pages in bytes, and up to twice the end of the segment, leaves
\* out no page of it, wherever it starts.
LEMMA MapsCover ==
  ASSUME NEW ph, ph.paddr \in Nat, ph.memsz \in Nat,
         NEW a \in ph.paddr..(ph.paddr + ph.memsz - 1)
  PROVE  a \div Page \in Maps(ph)
<1> DEFINE first == ph.paddr
           top == (ph.paddr + (ph.memsz + Page - 1)) * 2 - 1
           k == (a - first) \div Page
<1>1. Page \in Nat /\ Page > 0 /\ first \in Nat /\ a \in Nat /\ a - first \in Nat
  BY LoaderAssumption
<1>2. k \in Nat /\ k * Page \in Nat /\ k * Page <= a - first /\ a - first < k * Page + Page
  BY <1>1, Division
<1>3. \A j \in first..top : (j - first) % Page = 0 => j \div Page \in Maps(ph)
  BY DEF Maps
<1>4. (k * Page) % Page = 0 /\ (k * Page + Page) % Page = 0
  <2>1. k + 1 \in Nat /\ (k + 1) * Page = k * Page + Page
    BY <1>1, <1>2
  <2>2. QED
    BY <1>1, <1>2, <2>1, Multiple
<1> HIDE DEF k
<1>5. PICK start \in Nat : start = first + k * Page
  BY <1>1, <1>2
<1>6. PICK next \in Nat : next = start + Page
  BY <1>1, <1>5
<1>7. start <= a /\ a < next /\ start \in first..top /\ next \in first..top
  BY <1>1, <1>2, <1>5, <1>6
<1>8. start \div Page \in Maps(ph) /\ next \div Page \in Maps(ph)
  <2>1. start - first = k * Page /\ next - first = k * Page + Page
    BY <1>1, <1>2, <1>5, <1>6
  <2>2. (start - first) % Page = 0 /\ (next - first) % Page = 0
    BY <1>4, <2>1
  <2> HIDE DEF first, top
  <2>3. QED
    BY <1>3, <1>7, <2>2
<1> DEFINE q == start \div Page
<1>9. q \in Nat /\ q * Page \in Nat /\ q * Page <= start /\ start < q * Page + Page
  BY <1>1, <1>5, Division
<1> HIDE DEF q
<1>10. (q + 1) * Page = q * Page + Page
  BY <1>1, <1>9
<1>11. CASE a < q * Page + Page
  <2>1. a \div Page = q
    BY <1>1, <1>7, <1>9, <1>11, Quotient
  <2>2. QED
    BY <1>8, <2>1 DEF q
<1>12. CASE a >= q * Page + Page
  <2>1. a \div Page = q + 1
    BY <1>1, <1>6, <1>7, <1>9, <1>10, <1>12, Quotient
  <2>2. next \div Page = q + 1
    BY <1>1, <1>6, <1>9, <1>10, Quotient
  <2>3. QED
    BY <1>8, <2>1, <2>2
<1>13. QED
  BY <1>1, <1>9, <1>11, <1>12

\* What is appended to a sequence adds to it.
LEMMA Concatenated ==
  ASSUME NEW s, NEW t, s \in Seq(ToSet(s)), t \in Seq(ToSet(t))
  PROVE  /\ s \o t \in Seq(ToSet(s \o t))
         /\ ToSet(s) \subseteq ToSet(s \o t) /\ ToSet(t) \subseteq ToSet(s \o t)
<1>1. /\ DOMAIN s = 1..Len(s) /\ DOMAIN t = 1..Len(t) /\ Len(s) \in Nat /\ Len(t) \in Nat
  OBVIOUS
<1>2. s \in Seq(ToSet(s) \cup ToSet(t)) /\ t \in Seq(ToSet(s) \cup ToSet(t))
  <2> DEFINE S == ToSet(s)
             T == ToSet(t)
  <2>1. s \in Seq(S) /\ t \in Seq(T)
    OBVIOUS
  <2> HIDE DEF S, T
  <2>2. s \in Seq(S \cup T) /\ t \in Seq(S \cup T)
    BY <2>1
  <2>3. QED
    BY <2>2 DEF S, T
<1> DEFINE U == ToSet(s) \cup ToSet(t)
           r == s \o t
<1>3. s \in Seq(U) /\ t \in Seq(U)
  BY <1>2
<1> HIDE DEF U
<1>4. /\ r \in Seq(U) /\ Len(r) = Len(s) + Len(t) /\ DOMAIN r = 1..(Len(s) + Len(t))
      /\ \A k \in 1..Len(s) : r[k] = s[k]
      /\ \A k \in 1..Len(t) : r[Len(s) + k] = t[k]
  BY <1>1, <1>3
<1> HIDE DEF r
<1>5. \A k \in 1..Len(s) : k \in DOMAIN r
  BY <1>1, <1>4
<1>6. \A k \in 1..Len(t) : Len(s) + k \in DOMAIN r
  BY <1>1, <1>4
<1>7. ToSet(s) \subseteq ToSet(r) /\ ToSet(t) \subseteq ToSet(r)
  BY <1>1, <1>4, <1>5, <1>6 DEF ToSet
<1>8. r \in Seq(ToSet(r))
  <2>1. \A k \in 1..Len(r) : r[k] \in ToSet(r)
    BY <1>4 DEF ToSet
  <2>2. QED
    BY <1>4, <2>1
<1>9. QED
  BY <1>7, <1>8 DEF r

LEMMA Appended ==
  ASSUME NEW s, NEW x, s \in Seq(ToSet(s))
  PROVE  /\ Append(s, x) \in Seq(ToSet(Append(s, x)))
         /\ ToSet(s) \subseteq ToSet(Append(s, x)) /\ x \in ToSet(Append(s, x))
<1> DEFINE U == ToSet(s) \cup {x}
           r == Append(s, x)
<1>1. DOMAIN s = 1..Len(s) /\ Len(s) \in Nat
  OBVIOUS
<1>2. s \in Seq(U) /\ x \in U
  <2> DEFINE S == ToSet(s)
  <2>1. s \in Seq(S)
    OBVIOUS
  <2> HIDE DEF S
  <2>2. s \in Seq(S \cup {x})
    BY <2>1
  <2>3. QED
    BY <2>2 DEF S
<1> HIDE DEF U
<1>3. /\ r \in Seq(U) /\ Len(r) = Len(s) + 1 /\ DOMAIN r = 1..(Len(s) + 1)
      /\ r[Len(s) + 1] = x /\ \A k \in 1..Len(s) : r[k] = s[k]
  BY <1>1, <1>2
<1> HIDE DEF r
<1>4. \A k \in 1..Len(s) : k \in DOMAIN r
  BY <1>1, <1>3
<1>5. Len(s) + 1 \in DOMAIN r
  BY <1>1, <1>3
<1>6. ToSet(s) \subseteq ToSet(r) /\ x \in ToSet(r)
  BY <1>1, <1>3, <1>4, <1>5 DEF ToSet
<1>7. \A k \in 1..Len(r) : r[k] \in ToSet(r)
  BY <1>3 DEF ToSet
<1>8. r \in Seq(ToSet(r))
  BY <1>3, <1>7
<1>9. QED
  BY <1>6, <1>8 DEF r

LEMMA Tuples ==
  /\ <<>> \in Seq(ToSet(<<>>))
  /\ \A x : <<x>> \in Seq(ToSet(<<x>>))
  /\ \A x, y : <<x, y>> \in Seq(ToSet(<<x, y>>))
BY DEF ToSet

\* The blocks that a file takes are a sequence.
LEMMA BlocksOfFiles ==
  /\ \A path : Copy(path) \in Seq(ToSet(Copy(path)))
  /\ \A path : ElfBlocks(path) \in Seq(ToSet(ElfBlocks(path)))
  /\ FontBlocks \in Seq(ToSet(FontBlocks))
<1>1. ASSUME NEW path PROVE Copy(path) \in Seq(ToSet(Copy(path)))
  <2> DEFINE n == FileAt(Files, initrd_open(Files, path)).size + 1
  <2>1. Copy(path) = <<>> \/ Copy(path) = <<n>>
    BY DEF Copy
  <2> HIDE DEF n
  <2>2. QED
    BY <2>1, Tuples
<1>2. ASSUME NEW path PROVE ElfBlocks(path) \in Seq(ToSet(ElfBlocks(path)))
  BY <1>1, Appended DEF ElfBlocks
<1>3. FontBlocks \in Seq(ToSet(FontBlocks))
  <2> DEFINE font == FileAt(Files, initrd_open(Files, "initrd/font.psf"))
             x == SizeOf["FontHeader"]
             y == font.glyphs
             copy == Copy("initrd/font.psf")
  <2>1. FontBlocks \in {<<>>, copy \o <<x, y>>, copy \o <<x>>}
    BY DEF FontBlocks
  <2>2. copy \in Seq(ToSet(copy))
    BY <1>1
  <2> HIDE DEF font, x, y, copy
  <2>3. QED
    BY <2>1, <2>2, Tuples, Concatenated
<1>4. QED
  BY <1>1, <1>2, <1>3

\* A longer heap has passed over no fewer pages.
LEMMA LowPagesGrow ==
  ASSUME NEW s, NEW t, ToSet(s) \subseteq ToSet(t)
  PROVE  LowPages(s) \subseteq LowPages(t)
BY DEF LowPages

\* The programs loaded so far come from the archive, and what they need is
\* there.
ImageInv ==
  /\ machine \in Machines
  /\ DOMAIN memory = 0..MemTop
  /\ blocks \in Seq(ToSet(blocks))
  /\ loaded \in Seq({Files[k] : k \in 1..Len(Files)})
  /\ \A n \in 1..Len(loaded) : Linked(loaded[n])
  /\ ImagesKept

\* A byte of a segment to load.
LEMMA ByteOfImage ==
  ASSUME NEW file, NEW ph \in ToSet(Loads(file)), NEW a \in Filled(ph)
  PROVE  a \in Image(file)
BY DEF Image

\* The segments of a linked file.
LEMMA LinkedFacts ==
  ASSUME NEW file, Linked(file)
  PROVE  /\ Loads(file) \in Seq(ToSet(Loads(file)))
         /\ ToSet(Loads(file)) = {Loads(file)[k] : k \in 1..Len(Loads(file))}
         /\ \A ph \in ToSet(Loads(file)) :
              /\ ph.paddr \in Nat /\ ph.memsz \in Nat
              /\ Filled(ph) \subseteq ph.paddr..(ph.paddr + ph.memsz - 1)
              /\ Filled(ph) \subseteq 0..MemTop
<1>1. Loads(file) \in Seq(ToSet(Loads(file)))
  BY DEF Linked
<1>2. DOMAIN Loads(file) = 1..Len(Loads(file))
  BY <1>1
<1>3. ToSet(Loads(file)) = {Loads(file)[k] : k \in 1..Len(Loads(file))}
  BY <1>2 DEF ToSet
<1>4. ASSUME NEW k \in DOMAIN Loads(file)
      PROVE  LET ph == Loads(file)[k]
             IN /\ ph.paddr \in Nat /\ ph.memsz \in Nat
                /\ Filled(ph) \subseteq ph.paddr..(ph.paddr + ph.memsz - 1)
                /\ Filled(ph) \subseteq 0..MemTop
  <2> DEFINE ph == Loads(file)[k]
  <2>1. /\ ph.paddr \in Nat /\ ph.memsz \in Nat /\ ph.filesz \in 0..ph.memsz
        /\ ph.paddr + ph.memsz - 1 <= MemTop /\ MemTop \in Nat
    BY <1>4, BootAssumption DEF Linked
  <2> HIDE DEF ph
  <2>2. QED
    BY <2>1 DEF Filled, ph
<1>5. QED
  BY <1>1, <1>2, <1>3, <1>4

\* A byte of a segment comes from that segment, ...
LEMMA ByteLoaded ==
  ASSUME NEW mem, NEW file, Linked(file), NEW ph \in ToSet(Loads(file)),
         NEW a \in Filled(ph), a \in DOMAIN mem
  PROVE  LoadInto(mem, file)[a] = <<file.name, a - ph.paddr + ph.offset>>
<1> DEFINE segments == Loads(file)
           holders == {k \in 1..Len(segments) : a \in Filled(segments[k])}
<1>1. segments \in Seq(ToSet(segments)) /\ Len(segments) \in Nat
  BY LinkedFacts
<1>2. PICK k \in 1..Len(segments) : segments[k] = ph
  BY LinkedFacts
<1>3. \A l \in 1..Len(segments) : l # k => a \notin Filled(segments[l])
  <2>1. DOMAIN segments = 1..Len(segments)
    BY <1>1
  <2>2. \A l \in 1..Len(segments) :
          l # k => Filled(segments[k]) \cap Filled(segments[l]) = {}
    BY <2>1 DEF Linked
  <2>3. QED
    BY <1>2, <2>2
<1>4. holders = {k}
  BY <1>2, <1>3
<1>5. Max(holders) = k /\ k # 0
  <2>1. holders \in SUBSET (1..Len(segments)) /\ holders # {}
    BY <1>4
  <2>2. Max(holders) \in holders
    BY <1>1, <2>1, MaxOf
  <2>3. QED
    BY <1>4, <2>2
<1>6. SelectLastInSeq(segments, LAMBDA s : a \in Filled(s)) = k
  BY <1>4, <1>5 DEF SelectLastInSeq
<1>7. QED
  BY <1>2, <1>5, <1>6 DEF LoadInto

LEMMA SegmentLoaded ==
  ASSUME NEW mem, DOMAIN mem = 0..MemTop, NEW file, Linked(file), NEW ph \in ToSet(Loads(file))
  PROVE  \A a \in Filled(ph) :
           LoadInto(mem, file)[a] = <<file.name, a - ph.paddr + ph.offset>>
<1>1. TAKE a \in Filled(ph)
<1>2. a \in DOMAIN mem
  BY LinkedFacts
<1>3. QED
  BY <1>2, ByteLoaded

\* ... and every other byte stays.
LEMMA ByteKept ==
  ASSUME NEW mem, NEW file, NEW a \in DOMAIN mem, a \notin Image(file),
         Linked(file)
  PROVE  LoadInto(mem, file)[a] = mem[a]
<1> DEFINE segments == Loads(file)
<1>1. {k \in 1..Len(segments) : a \in Filled(segments[k])} = {}
  <2>1. ASSUME NEW k \in 1..Len(segments), a \in Filled(segments[k]) PROVE FALSE
    <3>1. segments[k] \in ToSet(segments)
      BY LinkedFacts
    <3>2. QED
      BY <2>1, <3>1, ByteOfImage
  <2>2. QED
    BY <2>1
<1>2. SelectLastInSeq(segments, LAMBDA s : a \in Filled(s)) = 0
  BY <1>1 DEF SelectLastInSeq
<1>3. QED
  BY <1>2 DEF LoadInto

\* How the frames and the heap grow.
Grow ==
  /\ UNCHANGED machine /\ granted \subseteq granted'
  /\ ToSet(blocks) \subseteq ToSet(blocks') /\ blocks' \in Seq(ToSet(blocks'))

\* A byte of a program lies on a page of it.
LEMMA PageOfByte ==
  ASSUME NEW file, Linked(file), NEW ph \in ToSet(Loads(file)), NEW a \in Filled(ph)
  PROVE  a \div Page \in Pages(file) /\ a \in 0..MemTop
<1>1. a \in ph.paddr..(ph.paddr + ph.memsz - 1) /\ a \in 0..MemTop
  BY LinkedFacts
<1>2. QED
  BY <1>1 DEF Pages

\* An image is kept when the step writes to other pages, and takes PAGE_USER from
\* other pages only.
LEMMA ImageKept ==
  ASSUME ImageInv, Grow, NEW n \in 1..Len(loaded), NEW bytes,
         \A m \in n + 1..Len(loaded) : Image(loaded[n]) \cap Image(loaded[m]) = {},
         Pages(loaded[n]) \cap (granted' \cup LowPages(blocks')) = {},
         mapped \ (granted' \cup LowPages(blocks')) \subseteq mapped',
         \A a \in DOMAIN memory : a \div Page \notin granted' => bytes[a] = memory[a]
  PROVE  /\ Pages(loaded[n]) \subseteq mapped'
         /\ \A ph \in ToSet(Loads(loaded[n])) : \A a \in Filled(ph) :
              bytes[a] = <<loaded[n].name, a - ph.paddr + ph.offset>>
<1>1. granted \subseteq granted' /\ LowPages(blocks) \subseteq LowPages(blocks')
  BY LowPagesGrow DEF Grow
<1>2. Pages(loaded[n]) \cap (granted \cup LowPages(blocks)) = {}
  BY <1>1
<1>3. /\ Pages(loaded[n]) \subseteq mapped
      /\ \A ph \in ToSet(Loads(loaded[n])) : \A a \in Filled(ph) :
           memory[a] = <<loaded[n].name, a - ph.paddr + ph.offset>>
  BY <1>2 DEF ImageInv, ImagesKept
<1>4. Pages(loaded[n]) \subseteq mapped'
  BY <1>3
<1>5. ASSUME NEW ph \in ToSet(Loads(loaded[n])), NEW a \in Filled(ph)
      PROVE  bytes[a] = memory[a]
  <2>1. Linked(loaded[n]) /\ DOMAIN memory = 0..MemTop
    BY DEF ImageInv
  <2>2. a \div Page \in Pages(loaded[n]) /\ a \in 0..MemTop
    BY <1>5, <2>1, PageOfByte
  <2>3. QED
    BY <2>1, <2>2
<1>6. QED
  BY <1>3, <1>4, <1>5

\* Loading one more file keeps the images of those that it does not touch.
LEMMA LoadStep ==
  ASSUME ImageInv, Grow, NEW path, Loadable(path), NEW bytes,
         DOMAIN bytes = 0..MemTop, elf_get_entry(path, bytes),
         \A a \in DOMAIN memory : a \div Page \notin granted' => bytes[a] = memory[a],
         (mapped \ (granted' \cup LowPages(blocks')))
           \cup (MappedPages(FileOf(path)) \ LowPages(blocks')) \subseteq mapped'
  PROVE  ImageInv'
<1> DEFINE file == FileOf(path)
           N == Len(loaded)
<1>1. /\ memory' = LoadInto(bytes, file)
      /\ MappedPages(file) \ LowPages(blocks') \subseteq mapped'
      /\ mapped \ (granted' \cup LowPages(blocks')) \subseteq mapped'
      /\ loaded' = Append(loaded, file)
  BY DEF elf_get_entry
<1>2. file \in {Files[k] : k \in 1..Len(Files)} /\ Linked(file)
  BY AcceptedFile DEF ImageInv
<1> HIDE DEF file
<1>3. /\ N \in Nat /\ Len(loaded') = N + 1 /\ loaded'[N + 1] = file
      /\ \A n \in 1..N : loaded'[n] = loaded[n]
      /\ loaded' \in Seq({Files[k] : k \in 1..Len(Files)})
  <2> DEFINE S == {Files[k] : k \in 1..Len(Files)}
  <2>1. loaded \in Seq(S) /\ file \in S
    BY <1>2 DEF ImageInv
  <2> HIDE DEF S
  <2>2. /\ N \in Nat /\ Len(loaded') = N + 1 /\ loaded'[N + 1] = file
        /\ \A n \in 1..N : loaded'[n] = loaded[n] /\ loaded' \in Seq(S)
    BY <1>1, <2>1
  <2>3. loaded' \in Seq(S)
    BY <1>1, <2>1
  <2>4. QED
    BY <2>2, <2>3 DEF S
<1>4. DOMAIN memory' = 0..MemTop /\ DOMAIN memory = 0..MemTop
  BY <1>1 DEF LoadInto, ImageInv
<1>5. \A n \in 1..(N + 1) : Linked(loaded'[n])
  <2>1. \A n \in 1..(N + 1) : n = N + 1 \/ n \in 1..N
    BY <1>3
  <2>2. QED
    BY <1>2, <1>3, <2>1 DEF ImageInv
<1>6. ASSUME NEW n \in 1..(N + 1),
             \A m \in n + 1..(N + 1) : Image(loaded'[n]) \cap Image(loaded'[m]) = {},
             Pages(loaded'[n]) \cap (granted' \cup LowPages(blocks')) = {}
      PROVE  /\ Pages(loaded'[n]) \subseteq mapped'
             /\ \A ph \in ToSet(Loads(loaded'[n])) : \A a \in Filled(ph) :
                  memory'[a] = <<loaded'[n].name, a - ph.paddr + ph.offset>>
  <2>1. CASE n = N + 1
    <3>1. loaded'[n] = file
      BY <1>3, <2>1
    <3>2. ASSUME NEW ph \in ToSet(Loads(file))
          PROVE  /\ {a \div Page : a \in ph.paddr..(ph.paddr + ph.memsz - 1)} \subseteq MappedPages(file)
                 /\ \A a \in Filled(ph) : memory'[a] = <<file.name, a - ph.paddr + ph.offset>>
      <4>1. /\ ph.paddr \in Nat /\ ph.memsz \in Nat /\ Filled(ph) \subseteq DOMAIN bytes
        BY <1>2, <3>2, LinkedFacts
      <4>2. \A a \in ph.paddr..(ph.paddr + ph.memsz - 1) : a \div Page \in Maps(ph)
        BY <4>1, MapsCover
      <4>3. Maps(ph) \subseteq MappedPages(file)
        BY <3>2 DEF MappedPages
      <4>4. \A a \in Filled(ph) : memory'[a] = <<file.name, a - ph.paddr + ph.offset>>
        <5>1. Linked(file)
          BY <1>2
        <5>2. \A a \in Filled(ph) :
                LoadInto(bytes, file)[a] = <<file.name, a - ph.paddr + ph.offset>>
          BY <5>1, SegmentLoaded
        <5>3. QED
          BY <1>1, <5>2
      <4>5. QED
        BY <4>2, <4>3, <4>4
    <3>3. Pages(file) \subseteq MappedPages(file)
      BY <3>2 DEF Pages
    <3>4. Pages(file) \subseteq mapped'
      BY <1>1, <1>6, <3>1, <3>3
    <3>5. QED
      BY <3>1, <3>2, <3>4
  <2>2. CASE n # N + 1
    <3>1. n \in 1..N /\ loaded'[n] = loaded[n]
      BY <1>3, <1>6, <2>2
    <3>2. \A m \in n + 1..N : Image(loaded[n]) \cap Image(loaded[m]) = {}
      <4>1. \A m \in n + 1..N : m \in n + 1..(N + 1) /\ m \in 1..N
        BY <1>3, <3>1
      <4>2. QED
        BY <1>3, <1>6, <3>1, <4>1
    <3>3. /\ Pages(loaded[n]) \subseteq mapped'
          /\ \A ph \in ToSet(Loads(loaded[n])) : \A a \in Filled(ph) :
               bytes[a] = <<loaded[n].name, a - ph.paddr + ph.offset>>
      <4>1. Pages(loaded[n]) \cap (granted' \cup LowPages(blocks')) = {}
        BY <1>6, <3>1
      <4>2. n \in 1..Len(loaded)
        BY <3>1
      <4>3. \A m \in n + 1..Len(loaded) : Image(loaded[n]) \cap Image(loaded[m]) = {}
        BY <3>2
      <4>4. mapped \ (granted' \cup LowPages(blocks')) \subseteq mapped'
        BY <1>1
      <4>5. QED
        BY <4>1, <4>2, <4>3, <4>4, ImageKept
    <3>4. Image(loaded[n]) \cap Image(file) = {}
      <4>1. N + 1 \in n + 1..(N + 1)
        BY <1>3, <3>1
      <4>2. QED
        BY <1>3, <1>6, <3>1, <4>1
    <3>5. ASSUME NEW ph \in ToSet(Loads(loaded[n])), NEW a \in Filled(ph)
          PROVE  memory'[a] = bytes[a]
      <4>1. a \in Image(loaded[n])
        BY <3>5, ByteOfImage
      <4>2. a \in DOMAIN bytes
        <5>1. Linked(loaded[n])
          BY <3>1 DEF ImageInv
        <5>2. QED
          BY <3>5, <5>1, LinkedFacts
      <4>3. QED
        BY <1>1, <1>2, <3>4, <4>1, <4>2, ByteKept
    <3>6. QED
      BY <3>1, <3>3, <3>5
  <2>3. QED
    BY <2>1, <2>2
<1>7. ImagesKept'
  BY <1>3, <1>6 DEF ImagesKept
<1>8. UNCHANGED Files
  BY DEF Files, Grow
<1>9. QED
  BY <1>3, <1>4, <1>5, <1>7, <1>8 DEF ImageInv, Grow

\* A step that loads nothing.
LEMMA GrowStep ==
  ASSUME ImageInv, Grow, UNCHANGED loaded, DOMAIN memory' = 0..MemTop,
         mapped \ (granted' \cup LowPages(blocks')) \subseteq mapped',
         \A a \in DOMAIN memory : a \div Page \notin granted' => memory'[a] = memory[a]
  PROVE  ImageInv'
<1>1. ASSUME NEW n \in 1..Len(loaded),
             \A m \in n + 1..Len(loaded) : Image(loaded[n]) \cap Image(loaded[m]) = {},
             Pages(loaded[n]) \cap (granted' \cup LowPages(blocks')) = {}
      PROVE  /\ Pages(loaded[n]) \subseteq mapped'
             /\ \A ph \in ToSet(Loads(loaded[n])) : \A a \in Filled(ph) :
                  memory'[a] = <<loaded[n].name, a - ph.paddr + ph.offset>>
  BY <1>1, ImageKept
<1>2. ImagesKept'
  BY <1>1 DEF ImagesKept
<1>3. UNCHANGED Files
  BY DEF Files, Grow
<1>4. QED
  BY <1>2, <1>3 DEF ImageInv, Grow

LEMMA StayStep ==
  ASSUME ImageInv, Grow, UNCHANGED programs
  PROVE  ImageInv'
<1>1. UNCHANGED memory /\ UNCHANGED mapped /\ UNCHANGED loaded
  BY DEF programs
<1>2. DOMAIN memory' = 0..MemTop
  BY <1>1 DEF ImageInv
<1>3. QED
  BY <1>1, <1>2, GrowStep

\* Loaded programs stay in memory and on user pages, as long as nothing was
\* loaded at their addresses, no frame under them was handed out and no page of
\* them passed over: through every spawn of init.sys, of files that can be loaded
\* and of others, and the heap and frames these take.
THEOREM ImagesStay == BootSpec => []ImagesKept
<1>1. BootInit => ImageInv
  BY Tuples DEF BootInit, ImageInv, ImagesKept
<1>2. ImageInv /\ [BootNext]_bootvars => ImageInv'
  <2> SUFFICES ASSUME ImageInv, [BootNext]_bootvars PROVE ImageInv'
    OBVIOUS
  <2>1. CASE start_init_system
    <3> DEFINE path == "initrd/init.sys"
    <3>1. /\ UNCHANGED machine /\ UNCHANGED granted
          /\ blocks' = blocks \o ElfBlocks(path)
      BY <2>1 DEF start_init_system
    <3>2. Grow
      BY <3>1, Concatenated, BlocksOfFiles DEF Grow, ImageInv
    <3>3. CASE UNCHANGED programs
      BY <3>2, <3>3, StayStep
    <3>4. CASE /\ Loadable(path) /\ elf_get_entry(path, memory)
               /\ mapped' = UserPages(path, mapped)
      <4>1. ToSet(ElfBlocks(path)) \subseteq ToSet(blocks')
        BY <3>1, Concatenated, BlocksOfFiles DEF ImageInv
      <4>2. LowPages(ElfBlocks(path)) \subseteq LowPages(blocks')
        BY <4>1, LowPagesGrow
      <4>3. (mapped \ (granted' \cup LowPages(blocks')))
              \cup (MappedPages(FileOf(path)) \ LowPages(blocks')) \subseteq mapped'
        BY <3>4, <4>2 DEF UserPages, New
      <4>4. DOMAIN memory = 0..MemTop
        BY DEF ImageInv
      <4> HIDE DEF path
      <4>5. QED
        BY <3>2, <3>4, <4>3, <4>4, LoadStep
    <3>5. QED
      BY <2>1, <3>3, <3>4 DEF start_init_system
  <2>2. ASSUME NEW path \in Later, spawn(path) PROVE ImageInv'
    <3> DEFINE before == <<SizeOf["Process"]>>
               behind == <<SizeOf["stack"]>>
               bytes == Entries(Frame)
    <3>1. /\ UNCHANGED machine /\ granted' = granted \cup ({Frame} \ {0}) /\ Frame # 0
          /\ blocks' = blocks \o before \o ElfBlocks(path) \o behind
      <4>1. vmm_alloc_page = "page" => Frame # 0
        BY DEF vmm_alloc_page
      <4>2. UNCHANGED machine /\ vmm_alloc_page = "page" /\ pmm_alloc
        BY <2>2 DEF spawn
      <4>3. blocks' = blocks \o before \o ElfBlocks(path) \o behind
        BY <2>2 DEF spawn
      <4>4. QED
        BY <4>1, <4>2, <4>3 DEF pmm_alloc
    <3>2. /\ before \in Seq(ToSet(before)) /\ behind \in Seq(ToSet(behind))
          /\ ElfBlocks(path) \in Seq(ToSet(ElfBlocks(path)))
      BY Tuples, BlocksOfFiles
    <3>3. /\ blocks' \in Seq(ToSet(blocks'))
          /\ ToSet(blocks) \subseteq ToSet(blocks') /\ ToSet(before) \subseteq ToSet(blocks')
          /\ ToSet(ElfBlocks(path)) \subseteq ToSet(blocks')
          /\ ToSet(behind) \subseteq ToSet(blocks')
      <4> HIDE DEF before, behind
      <4>1. QED
        BY <3>1, <3>2, Concatenated DEF ImageInv
    <3>4. Grow
      BY <3>1, <3>3 DEF Grow
    <3>5. CASE UNCHANGED programs
      BY <3>4, <3>5, StayStep
    <3>6. CASE /\ elf_get_entry(path, bytes)
               /\ mapped' = UserPages(path, mapped \ ({Frame} \cup LowPages(before)))
                            \ LowPages(behind)
      <4> HIDE DEF before, behind
      <4>1. /\ LowPages(before) \subseteq LowPages(blocks')
            /\ LowPages(behind) \subseteq LowPages(blocks')
            /\ LowPages(ElfBlocks(path)) \subseteq LowPages(blocks')
        BY <3>3, LowPagesGrow
      <4>2. DOMAIN memory = 0..MemTop /\ DOMAIN bytes = 0..MemTop
        BY DEF ImageInv, Entries
      <4>3. \A a \in DOMAIN memory : a \div Page \notin granted' => bytes[a] = memory[a]
        BY <3>1 DEF Entries
      <4> HIDE DEF bytes
      <4>4. CASE Loadable(path)
        <5>1. (mapped \ (granted' \cup LowPages(blocks')))
                \cup (MappedPages(FileOf(path)) \ LowPages(blocks')) \subseteq mapped'
          BY <3>1, <3>6, <4>1, <4>4 DEF UserPages, New
        <5>2. QED
          BY <3>4, <3>6, <4>2, <4>3, <4>4, <5>1, LoadStep
      <4>5. CASE ~ Loadable(path)
        <5>1. mapped \ (granted' \cup LowPages(blocks')) \subseteq mapped'
          BY <3>1, <3>6, <4>1 DEF UserPages
        <5>2. UNCHANGED loaded /\ memory' = bytes
          BY <3>6, <4>5 DEF elf_get_entry
        <5>3. QED
          BY <3>4, <4>2, <4>3, <5>1, <5>2, GrowStep
      <4>6. QED
        BY <4>4, <4>5
    <3>7. QED
      BY <2>2, <3>5, <3>6 DEF spawn
  <2>3. CASE Grow /\ UNCHANGED programs
    BY <2>3, StayStep
  <2>4. CASE UNCHANGED <<machine, mm, programs>>
    <3>1. Grow
      BY <2>4 DEF Grow, mm, ImageInv
    <3>2. QED
      BY <2>4, <3>1, StayStep
  <2>5. CASE vmm_init \/ kheap_init \/ proc_init \/ load_gdt_tss \/ init_font_uapi
    <3>1. /\ UNCHANGED machine /\ UNCHANGED programs
          /\ granted \subseteq granted'
      BY <2>5 DEF vmm_init, kheap_init, proc_init, load_gdt_tss, init_font_uapi, pmm_alloc, mm
    <3>2. \/ UNCHANGED blocks
          \/ \E more : more \in Seq(ToSet(more)) /\ blocks' = blocks \o more
          \/ \E x : blocks' = Append(blocks, x)
      <4>1. vmm_init => UNCHANGED blocks
        BY DEF vmm_init, mm
      <4>2. kheap_init => \E more : more \in Seq(ToSet(more)) /\ blocks' = blocks \o more
        BY Tuples DEF kheap_init
      <4>3. proc_init \/ load_gdt_tss => UNCHANGED blocks \/ \E x : blocks' = Append(blocks, x)
        BY DEF proc_init, load_gdt_tss, mm
      <4>4. init_font_uapi => \E more : more \in Seq(ToSet(more)) /\ blocks' = blocks \o more
        BY BlocksOfFiles DEF init_font_uapi
      <4>5. QED
        BY <2>5, <4>1, <4>2, <4>3, <4>4
    <3>3. Grow
      BY <3>1, <3>2, Concatenated, Appended DEF Grow, ImageInv
    <3>4. QED
      BY <3>1, <3>3, StayStep
  <2>6. ASSUME NEW irq \in {0, 1}, Interrupt(irq) PROVE ImageInv'
    BY <2>4, <2>6 DEF Interrupt
  <2>7. spawn_fails => UNCHANGED <<machine, mm, programs>>
    BY DEF spawn_fails
  <2>8. BootStep => \/ start_init_system
                    \/ vmm_init \/ kheap_init \/ proc_init \/ load_gdt_tss \/ init_font_uapi
                    \/ UNCHANGED <<machine, mm, programs>>
    BY DEF BootStep, intr_init, pmm_init, acpi_init, ioapic_init, lapic_init, init_irqs,
           initrd_init, cli
  <2>9. UNCHANGED bootvars => UNCHANGED <<machine, mm, programs>>
    BY DEF bootvars
  <2>10. QED
    BY <2>1, <2>2, <2>4, <2>5, <2>6, <2>7, <2>8, <2>9 DEF BootNext
<1>3. ImageInv => ImagesKept
  BY DEF ImageInv
<1>4. QED
  BY <1>1, <1>2, <1>3, PTL DEF BootSpec

-----------------------------------------------------------------------------
(* The RAM disk.                                                           *)

\* initrd_open finds every file behind the directory that heads the archive by
\* its name, and of two with one name the first, whatever number of files and
\* sizes lie before it, and no file that is not there.
THEOREM FilesFound == BootSpec => []OpenFindsFile
<1>1. ASSUME machine \in Machines PROVE OpenFindsFile
  <2>1. Archive(Files)
    BY <1>1, BootAssumption DEF Files
  <2>2. SUFFICES ASSUME NEW path \in {Files[k].name : k \in 1..Len(Files)} \cup {"absent", Long}
                 PROVE  LET named == {k \in 2..Len(Files) : Files[k].name = path}
                        IN initrd_open(Files, path) =
                             IF path = Long \/ named = {} THEN 0
                             ELSE HeaderAt(Files, Min(named))
    BY DEF OpenFindsFile
  <2>3. CASE path = Long
    BY <2>3 DEF initrd_open
  <2>4. CASE path # Long
    <3>1. path # NoName
      <4>1. \A k \in 1..Len(Files) : Files[k].name # NoName
        BY <2>1 DEF Archive
      <4>2. "absent" # NoName
        BY Zenon DEF NoName
      <4>3. QED
        BY <2>4, <4>1, <4>2
    <3> DEFINE named == {k \in 2..Len(Files) : Files[k].name = path}
    <3>2. initrd_open(Files, path) = IF named = {} THEN 0 ELSE HeaderAt(Files, Min(named))
      BY <2>1, <3>1, FileRead
    <3> HIDE DEF named
    <3>3. initrd_open(Files, path) =
            IF path = Long \/ named = {} THEN 0 ELSE HeaderAt(Files, Min(named))
      BY <2>4, <3>2
    <3>4. QED
      BY <3>3 DEF named
  <2>5. QED
    BY <2>3, <2>4
<1>2. StageInv => machine \in Machines
  BY DEF StageInv, Tables
<1>3. QED
  BY <1>1, <1>2, StageInvariantProof, PTL

-----------------------------------------------------------------------------
(* Where the boot ends.                                                    *)

\* A file that a stage needs is found by initrd_open as Carries says.
LEMMA FontFound ==
  ASSUME machine \in Machines
  PROVE  FontValid <=> Carries("initrd/font.psf", LAMBDA f : f.magic # <<FALSE, FALSE>>)
<1> DEFINE path == "initrd/font.psf"
           named == {k \in 2..Len(Files) : Files[k].name = path}
           at == initrd_open(Files, path)
<1>1. Archive(Files)
  BY BootAssumption DEF Files
<1>2. path # NoName
  BY Zenon DEF NoName
<1>3. /\ at = 0 <=> named = {}
      /\ named # {} => FileAt(Files, at) = Files[Min(named)]
  <2> HIDE DEF path
  <2>1. QED
    BY <1>1, <1>2, FileRead
<1>4. FontValid <=> at # 0 /\ FileAt(Files, at).magic # <<FALSE, FALSE>>
  BY DEF FontValid
<1>5. Carries(path, LAMBDA f : f.magic # <<FALSE, FALSE>>) <=>
        named # {} /\ Files[Min(named)].magic # <<FALSE, FALSE>>
  BY DEF Carries
<1> HIDE DEF named, at
<1>6. QED
  BY <1>3, <1>4, <1>5

LEMMA ProgramFound ==
  ASSUME machine \in Machines
  PROVE  Loadable("initrd/init.sys") <=>
           Carries("initrd/init.sys", LAMBDA f : f.elf.header = GoodHeader)
<1> DEFINE path == "initrd/init.sys"
           named == {k \in 2..Len(Files) : Files[k].name = path}
           at == initrd_open(Files, path)
<1>1. Archive(Files)
  BY BootAssumption DEF Files
<1>2. path # NoName
  BY Zenon DEF NoName
<1>3. /\ at = 0 <=> named = {}
      /\ named # {} => FileAt(Files, at) = Files[Min(named)]
  <2> HIDE DEF path
  <2>1. QED
    BY <1>1, <1>2, FileRead
<1>4. Loadable(path) <=> at # 0 /\ FileAt(Files, at).elf.header = GoodHeader
  BY DEF Loadable, Accepted
<1>5. Carries(path, LAMBDA f : f.elf.header = GoodHeader) <=>
        named # {} /\ Files[Min(named)].elf.header = GoodHeader
  BY DEF Carries
<1> HIDE DEF named, at
<1>6. QED
  BY <1>3, <1>4, <1>5

\* The walk over the MADT goes round in circles only at an entry of length 0.
LEMMA StuckFound ==
  ASSUME machine \in Machines, TrueMadt # NoTable
  PROVE  StuckAt(TrueMadt) = 0 <=> Stuck \notin ToSet(TrueMadt.entries)
<1> DEFINE I == {k \in 1..Len(TrueMadt.entries) : TrueMadt.entries[k] = Stuck}
<1>1. TrueMadt.entries \in Seq(ToSet(TrueMadt.entries))
  BY BootAssumption DEF TrueMadt, WellFormed
<1>2. Len(TrueMadt.entries) \in Nat /\ DOMAIN TrueMadt.entries = 1..Len(TrueMadt.entries)
  BY <1>1
<1>3. StuckAt(TrueMadt) = IF I # {} THEN Min(I) ELSE 0
  BY DEF StuckAt, SelectInSeq
<1>4. I \in SUBSET Nat /\ 0 \notin I
  BY <1>2
<1>5. I # {} => Min(I) # 0
  BY <1>4, MinOf
<1>6. Stuck \in ToSet(TrueMadt.entries) <=> I # {}
  BY <1>2 DEF ToSet
<1> HIDE DEF I
<1>7. QED
  BY <1>3, <1>5, <1>6

LEMMA ModuleFound ==
  ASSUME machine \in Machines, NEW path
  PROVE  FindModule(path) <=> path \in ToSet(machine.modules)
<1>1. machine.modules \in Seq(ToSet(machine.modules))
  BY BootAssumption
<1>2. DOMAIN machine.modules = 1..Len(machine.modules)
  BY <1>1
<1>3. QED
  BY <1>2 DEF FindModule, ToSet

\* parse_madt finds an I/O APIC if there is one.
LEMMA IoApicFound ==
  ASSUME machine \in Machines, TrueMadt # NoTable
  PROVE  IoApicBase(TrueMadt) # None <=> IoApics # {}
<1> DEFINE entry == TrueMadt.entries
           J == {k \in 1..Len(entry) : entry[k].type = "io_apic"}
<1>1. /\ entry \in Seq(ToSet(entry))
      /\ \A k \in 1..Len(entry) : entry[k].type = "io_apic" => entry[k].addr \in IoApicAddr
  BY BootAssumption DEF TrueMadt, WellFormed
<1>2. IoApicBase(TrueMadt) =
        LET last == IF J # {} THEN Max(J) ELSE 0 IN IF last = 0 THEN None ELSE entry[last].addr
  BY DEF IoApicBase, SelectLastInSeq
<1>3. IoApics # {} <=> J # {}
  BY DEF IoApics
<1>4. J # {} => Max(J) \in J
  <2>1. Len(entry) \in Nat /\ J \in SUBSET (1..Len(entry))
    BY <1>1
  <2> HIDE DEF J
  <2>2. QED
    BY <2>1, MaxOf
<1>5. J # {} => Max(J) # 0 /\ entry[Max(J)].addr \in IoApicAddr
  <2>1. \A k \in J : k \in 1..Len(entry) /\ k # 0 /\ entry[k].addr \in IoApicAddr
    BY <1>1
  <2> HIDE DEF J, entry
  <2>2. QED
    BY <1>4, <2>1
<1>6. None \notin IoApicAddr
  BY DEF None, IoApicAddr
<1> HIDE DEF J, entry
<1>7. QED
  BY <1>2, <1>3, <1>5, <1>6

-----------------------------------------------------------------------------
(* Chunks and frames.                                                      *)

\* There is one first longest chunk at most.
LEMMA LongestIs ==
  ASSUME TypeOK, NEW S \in SUBSET Usable, NEW k, FirstLongest(k, S)
  PROVE  Longest(S) = k
<1>1. \A j \in S : j \in Nat /\ entries[j].length \in Nat
  BY EntryFacts
<1>2. ASSUME NEW l \in S, FirstLongest(l, S) PROVE l = k
  <2>1. /\ k \in S /\ k \in Nat /\ l \in Nat
        /\ entries[k].length \in Nat /\ entries[l].length \in Nat
        /\ entries[k].length <= entries[l].length /\ entries[l].length <= entries[k].length
        /\ ~ k < l /\ ~ l < k
    BY <1>1, <1>2 DEF FirstLongest
  <2>2. QED
    BY <2>1
<1>3. k \in S
  BY DEF FirstLongest
<1>4. QED
  BY <1>2, <1>3 DEF Longest

\* pmm_init goes on with the longest chunk in front of the longest.
LEMMA ReadyChunks ==
  ASSUME CInv, phase = "ready"
  PROVE  /\ InFront # {} /\ second_biggest_chunk = Longest(InFront)
         /\ entries[second_biggest_chunk].length \in Lengths
<1>1. /\ FirstLongest(biggest_chunk, Usable)
      /\ FirstLongest(second_biggest_chunk, {k \in Usable : k < biggest_chunk})
  BY CInvChunksSound DEF ChunksSound
<1>2. TypeOK
  BY DEF CInv
<1>3. Longest(Usable) = biggest_chunk
  BY <1>1, <1>2, LongestIs
<1>4. InFront = {k \in Usable : k < biggest_chunk}
  BY <1>3 DEF InFront
<1>5. second_biggest_chunk \in InFront /\ Longest(InFront) = second_biggest_chunk
  BY <1>1, <1>2, <1>4, LongestIs DEF FirstLongest
<1>6. second_biggest_chunk \in 1..Len(entries) /\ entries \in Seq(Entry)
  BY <1>2, <1>5 DEF InFront, Usable, TypeOK
<1>7. entries[second_biggest_chunk] \in Entry
  BY <1>6
<1>8. QED
  BY <1>5, <1>7 DEF Entry

\* It gives up where none is in front.
LEMMA PanicChunks ==
  ASSUME CInv, phase = "panic"
  PROVE  InFront = {}
<1>1. /\ TypeOK /\ Usable \subseteq Nat
      /\ i > Len(entries) /\ i \in Nat /\ Len(entries) \in Nat
      /\ \A k \in Usable : k \in 1..Len(entries)
  BY EntryFacts DEF CInv, ScanInv
<1>2. Passed = Usable
  <2>1. \A k \in Usable : k < i
    BY <1>1
  <2>2. QED
    BY <2>1 DEF Passed
<1>3. CASE biggest_chunk = NULL
  BY <1>2, <1>3 DEF CInv, ScanInv, InFront
<1>4. CASE biggest_chunk # NULL
  <2>1. FirstLongest(biggest_chunk, Usable)
    BY <1>2, <1>4 DEF CInv, ScanInv
  <2>2. Longest(Usable) = biggest_chunk /\ biggest_chunk \in Usable
    BY <1>1, <2>1, LongestIs DEF FirstLongest
  <2>3. \A k \in Usable : biggest_chunk <= k
    BY <2>1, <2>2, CInvChunksSound DEF ChunksSound
  <2>4. \A k \in Usable : ~ k < biggest_chunk
    BY <1>1, <2>2, <2>3
  <2>5. QED
    BY <2>2, <2>4 DEF InFront
<1>5. QED
  BY <1>3, <1>4

\* The frames the machine gives, and the first of them from a hint on.
Length == entries[second_biggest_chunk].length
Handed == Given(Length)
First(f, hint) == f \in Handed /\ hint <= f /\ \A x \in Handed : hint <= x => f <= x
NoneFrom(hint) == \A x \in Handed : x < hint

LEMMA HandedFacts ==
  ASSUME machine \in Machines
  PROVE  \A x \in Handed : x \in Nat /\ 2 <= x /\ x + 1 <= Memory
<1>1. machine.free \subseteq 0..(Memory - 1) /\ Memory \in Nat
  BY BootAssumption, BitmapAssumption
<1>2. QED
  BY <1>1 DEF Handed, Given

\* Where the search starts, behind the frame handed out last.
Hint(hint) == hint = 2 \/ \E x \in Handed : hint = x + 1

\* The search finds the next frame the machine gives, or there is none.
LEMMA GotNext ==
  ASSUME machine \in Machines, Length \in Lengths, NEW hint, Hint(hint)
  PROVE  /\ Got(hint) \in Nat
         /\ IF Got(hint) = 0 THEN NoneFrom(hint) ELSE First(Got(hint), hint)
<1> DEFINE free == machine.free
           L == Length
           S == Stops(free, hint, L)
           stop == Min(S)
<1>1. /\ free \subseteq 0..(Memory - 1) /\ Memory \in Nat
      /\ L \in Nat /\ 3 <= L /\ L <= Memory + 1
  BY BootAssumption, BitmapAssumption, ChunksAssumption
<1>2. hint \in Nat /\ 2 <= hint /\ hint <= Memory
  BY <1>1, HandedFacts DEF Hint
<1>3. Handed = {f \in free : f >= 2 /\ \A j \in (L - 1)..f : j \in free}
  BY DEF Handed, Given
<1>4. \A j \in (L - 1)..(hint - 1) : j \in free
  <2>1. CASE hint = 2
    BY <1>1, <2>1
  <2>2. ASSUME NEW x \in Handed, hint = x + 1 PROVE \A j \in (L - 1)..(hint - 1) : j \in free
    <3>1. hint - 1 = x
      BY <2>2, HandedFacts
    <3>2. QED
      BY <1>3, <2>2, <3>1
  <2>3. QED
    BY <2>1, <2>2 DEF Hint
<1>5. Got(hint) = IF stop \in free THEN stop ELSE 0
  BY DEF Got, Stop, Length
<1> HIDE DEF free, L
<1>6. S = {j \in 0..Memory : j >= hint /\ (j \in free \/ j >= L - 1)}
  BY DEF Stops, Byte
<1>7. Memory \in S /\ S \in SUBSET Nat
  BY <1>1, <1>2, <1>6
<1>8. stop \in S /\ \A j \in S : stop <= j
  <2> HIDE DEF S
  <2>1. QED
    BY <1>7, MinOf
<1> HIDE DEF S, stop
<1>9. stop \in 0..Memory /\ stop >= hint /\ (stop \in free \/ stop >= L - 1)
  BY <1>6, <1>8
<1>10. \A x \in Handed : x \in Nat /\ (hint <= x => stop <= x)
  <2>1. ASSUME NEW x \in Handed, hint <= x PROVE x \in S
    BY <1>1, <1>3, <1>6, <2>1
  <2>2. QED
    BY <1>8, <2>1, HandedFacts
<1>11. CASE stop \in free
  <2>1. \A j \in (L - 1)..stop : j \in free
    <3>1. ASSUME NEW j \in (L - 1)..stop PROVE j \in free
      <4>1. CASE j < hint
        BY <1>1, <1>2, <1>4, <4>1
      <4>2. CASE j >= hint
        <5>1. j \in S
          BY <1>1, <1>6, <1>9, <4>2
        <5>2. j = stop
          BY <1>1, <1>8, <1>9, <5>1
        <5>3. QED
          BY <1>11, <5>2
      <4>3. QED
        BY <1>1, <1>2, <4>1, <4>2
    <3>2. QED
      BY <3>1
  <2>2. stop \in Handed
    BY <1>2, <1>3, <1>9, <1>11, <2>1
  <2>3. First(stop, hint) /\ stop # 0 /\ stop \in Nat
    BY <1>2, <1>9, <1>10, <2>2 DEF First
  <2>4. QED
    BY <1>5, <1>11, <2>3
<1>12. CASE stop \notin free
  <2>1. ASSUME NEW x \in Handed, ~ x < hint PROVE FALSE
    <3>1. x \in Nat /\ stop <= x
      BY <1>2, <1>10, <2>1
    <3>2. stop \in (L - 1)..x
      BY <1>1, <1>9, <1>12, <3>1
    <3>3. QED
      BY <1>3, <1>12, <2>1, <3>2
  <2>2. QED
    BY <1>5, <1>12, <2>1 DEF NoneFrom
<1>13. QED
  BY <1>11, <1>12

\* What the stages have taken: a frame for the tables of the boot, one for page 0,
\* and one for the address space of PID 1.
Running == {"initrd", "cli", "gdt"}
Late == {"font", "init", "ring3", "down"}

OneTaken(a) == First(a, 2) /\ a < WordFrames
TwoTaken(a, b) == OneTaken(a) /\ First(b, a + 1)
ThreeTaken(a, b, c) == TwoTaken(a, b) /\ First(c, b + 1) /\ c < WordFrames

FrameInv ==
  /\ stage \in {"vmm", "acpi", "down"} \cup Parsed => phase = "ready"
  /\ stage \in {"intr", "pmm", "vmm"} => bitmap_i = 2 /\ ~ pmm_lock
  /\ stage \in {"acpi", "ioapic", "lapic", "irqs", "heap"} =>
       ~ pmm_lock /\ \E a : OneTaken(a) /\ bitmap_i = a + 1
  /\ stage = "proc" =>
       \E a : /\ OneTaken(a)
              /\ \/ pmm_lock /\ NoneFrom(a + 1)
                 \/ ~ pmm_lock /\ \E b : TwoTaken(a, b) /\ bitmap_i = b + 1
  /\ stage \in Running =>
       ~ pmm_lock /\ \E a, b, c : ThreeTaken(a, b, c) /\ bitmap_i = c + 1
  /\ stage \in Late => FramesSuffice(Length)

\* FrameInv is about these variables only.
framevars == <<machine, entries, second_biggest_chunk, phase, bitmap_i, pmm_lock>>

LEMMA FramesKept ==
  ASSUME UNCHANGED <<machine, entries, second_biggest_chunk>>
  PROVE  /\ Handed' = Handed /\ FramesSuffice(Length)' = FramesSuffice(Length)
         /\ \A a : OneTaken(a)' = OneTaken(a) /\ NoneFrom(a)' = NoneFrom(a)
         /\ \A a, b : TwoTaken(a, b)' = TwoTaken(a, b)
         /\ \A a, b, c : ThreeTaken(a, b, c)' = ThreeTaken(a, b, c)
<1>1. Length' = Length /\ machine' = machine
  BY DEF Length
<1>2. Handed' = Handed
  BY <1>1 DEF Handed, Given
<1>3. FramesSuffice(Length)' = FramesSuffice(Length)
  BY <1>1 DEF FramesSuffice, Given
<1>4. \A f, h : First(f, h)' = First(f, h) /\ NoneFrom(h)' = NoneFrom(h)
  BY <1>2 DEF First, NoneFrom
<1>5. QED
  BY <1>2, <1>3, <1>4 DEF OneTaken, TwoTaken, ThreeTaken

\* What vmm_alloc_page returns, in terms of the frame.
LEMMA PageOrNot ==
  /\ vmm_alloc_page = "page" => ~ pmm_lock /\ Frame < WordFrames /\ Frame # 0
  /\ vmm_alloc_page = "NULL" => ~ pmm_lock /\ Frame < WordFrames /\ Frame = 0
  /\ vmm_alloc_page \notin {"page", "NULL"} => pmm_lock \/ ~ Frame < WordFrames
  /\ vmm_alloc_page # "page" => pmm_lock \/ ~ Frame < WordFrames \/ Frame = 0
BY DEF vmm_alloc_page

\* The next frame, whenever the allocator can be called.
LEMMA NextFrame ==
  ASSUME machine \in Machines, CInv, phase = "ready", Hint(bitmap_i)
  PROVE  /\ Frame \in Nat
         /\ Frame = 0 => NoneFrom(bitmap_i)
         /\ Frame # 0 => First(Frame, bitmap_i) /\ Hint(Frame + 1)
<1>1. Length \in Lengths
  BY ReadyChunks DEF Length
<1>2. QED
  BY <1>1, GotNext DEF Frame, First, Hint

\* FramesSuffice, told by the frames in their order.
LEMMA Suffices ==
  FramesSuffice(Length) <=>
    \E a, b, c \in Handed :
      /\ a < WordFrames /\ b < WordFrames /\ c < WordFrames
      /\ a < b /\ b < c
      /\ \/ \A x \in Handed : x < WordFrames
         \/ \E d \in Handed : d < WordFrames /\ c < d
<1> DEFINE low == {f \in Handed : f < WordFrames}
<1>1. FramesSuffice(Length) <=>
        \E a, b, c \in low : a < b /\ b < c /\ (Handed = low \/ \E d \in low : c < d)
  BY DEF FramesSuffice, Handed
<1>2. Handed = low <=> \A x \in Handed : x < WordFrames
  OBVIOUS
<1>3. QED
  BY <1>1, <1>2

\* Without a page for the tables of the boot, ...
LEMMA OneMissing ==
  ASSUME machine \in Machines,
         NoneFrom(2) \/ \E f : First(f, 2) /\ ~ f < WordFrames
  PROVE  ~ FramesSuffice(Length)
<1>1. /\ \A x \in Handed : x \in Nat /\ 2 <= x
      /\ WordFrames \in Nat
  BY HandedFacts, BitmapAssumption
<1>2. \A x \in Handed : ~ x < WordFrames
  BY <1>1 DEF NoneFrom, First
<1>3. QED
  BY <1>2, Suffices

\* ... for the address space of PID 1, ...
LEMMA ThreeMissing ==
  ASSUME machine \in Machines, NEW a, OneTaken(a),
         \/ NoneFrom(a + 1)
         \/ \E b : TwoTaken(a, b) /\ (NoneFrom(b + 1) \/ \E f : First(f, b + 1) /\ ~ f < WordFrames)
  PROVE  ~ FramesSuffice(Length)
<1>1. /\ \A x \in Handed : x \in Nat /\ a <= x
      /\ a \in Handed /\ WordFrames \in Nat
  BY HandedFacts, BitmapAssumption DEF OneTaken, First
<1>2. SUFFICES ASSUME NEW x \in Handed, NEW y \in Handed, NEW z \in Handed,
                      x < y, y < z, z < WordFrames
               PROVE  FALSE
  BY Suffices
<1>3. /\ x \in Nat /\ y \in Nat /\ z \in Nat /\ a \in Nat
      /\ a <= x /\ a + 1 <= y /\ a + 1 <= z
  BY <1>1, <1>2
<1>4. CASE NoneFrom(a + 1)
  BY <1>3, <1>4 DEF NoneFrom
<1>5. ASSUME NEW b, TwoTaken(a, b),
             NoneFrom(b + 1) \/ \E f : First(f, b + 1) /\ ~ f < WordFrames
      PROVE  FALSE
  <2>1. b \in Handed /\ b \in Nat /\ b <= y
    BY <1>1, <1>3, <1>5 DEF TwoTaken, First
  <2>2. b + 1 <= z
    BY <1>2, <1>3, <2>1
  <2>3. CASE NoneFrom(b + 1)
    BY <1>3, <2>1, <2>2, <2>3 DEF NoneFrom
  <2>4. ASSUME NEW f, First(f, b + 1), ~ f < WordFrames PROVE FALSE
    <3>1. f \in Nat /\ f <= z
      BY <1>1, <2>2, <2>4 DEF First
    <3>2. QED
      BY <1>1, <1>2, <1>3, <2>4, <3>1
  <2>5. QED
    BY <1>5, <2>3, <2>4
<1>6. QED
  BY <1>4, <1>5

\* ... or below 4 GiB for the stack of the TSS, if there is one above, the machine
\* has not the right frames.
LEMMA FourMissing ==
  ASSUME machine \in Machines, NEW a, NEW b, NEW c, ThreeTaken(a, b, c),
         NEW f, First(f, c + 1), ~ f < WordFrames
  PROVE  ~ FramesSuffice(Length)
<1>1. /\ \A x \in Handed : x \in Nat
      /\ a \in Handed /\ b \in Handed /\ c \in Handed /\ f \in Handed /\ WordFrames \in Nat
      /\ \A x \in Handed : /\ a <= x /\ (a + 1 <= x => b <= x) /\ (b + 1 <= x => c <= x)
                           /\ c + 1 <= x => f <= x
  BY HandedFacts, BitmapAssumption DEF ThreeTaken, TwoTaken, OneTaken, First
<1>2. SUFFICES ASSUME NEW x \in Handed, NEW y \in Handed, NEW z \in Handed, NEW u \in Handed,
                      x < y, y < z, z < u, u < WordFrames
               PROVE  FALSE
  BY <1>1, Suffices
<1>3. a <= x /\ a + 1 <= y
  BY <1>1, <1>2
<1>4. b <= y /\ b + 1 <= z
  BY <1>1, <1>2, <1>3
<1>5. c <= z /\ c + 1 <= u
  BY <1>1, <1>2, <1>4
<1>6. f <= u
  BY <1>1, <1>5
<1>7. QED
  BY <1>1, <1>2, <1>6

\* With the stack of the TSS in page 0 or in a fourth frame, it has.
LEMMA FourTaken ==
  ASSUME machine \in Machines, NEW a, NEW b, NEW c, ThreeTaken(a, b, c),
         NoneFrom(c + 1) \/ \E d : First(d, c + 1) /\ d < WordFrames
  PROVE  FramesSuffice(Length)
<1>1. /\ \A x \in Handed : x \in Nat
      /\ a \in Handed /\ b \in Handed /\ c \in Handed /\ WordFrames \in Nat
      /\ a + 1 <= b /\ b + 1 <= c /\ c < WordFrames
  BY HandedFacts, BitmapAssumption DEF ThreeTaken, TwoTaken, OneTaken, First
<1>2. a < b /\ b < c /\ a < WordFrames /\ b < WordFrames
  BY <1>1
<1>3. CASE NoneFrom(c + 1)
  <2>1. \A x \in Handed : x < WordFrames
    BY <1>1, <1>3 DEF NoneFrom
  <2>2. QED
    BY <1>1, <1>2, <2>1, Suffices
<1>4. ASSUME NEW d, First(d, c + 1), d < WordFrames PROVE FramesSuffice(Length)
  <2>1. d \in Handed /\ c < d
    BY <1>1, <1>4 DEF First
  <2>2. QED
    BY <1>1, <1>2, <1>4, <2>1, Suffices
<1>5. QED
  BY <1>3, <1>4

\* A step that takes no frame.
LEMMA FramesStay ==
  ASSUME FrameInv, UNCHANGED framevars,
         \/ stage' \in {"halt", "hang", "crash", "wild"} \/ stage' = stage
         \/ stage = "intr" /\ stage' = "pmm"
         \/ /\ stage \in {"acpi", "ioapic", "lapic", "irqs"}
            /\ stage' \in {"ioapic", "lapic", "irqs", "heap"}
         \/ stage \in Running /\ stage' \in Running
         \/ stage \in Late /\ stage' \in Late
  PROVE  FrameInv'
<1>1. /\ UNCHANGED phase /\ UNCHANGED bitmap_i /\ UNCHANGED pmm_lock
      /\ FramesSuffice(Length)' = FramesSuffice(Length)
      /\ \A a : OneTaken(a)' = OneTaken(a) /\ NoneFrom(a)' = NoneFrom(a)
      /\ \A a, b : TwoTaken(a, b)' = TwoTaken(a, b)
      /\ \A a, b, c : ThreeTaken(a, b, c)' = ThreeTaken(a, b, c)
  BY FramesKept DEF framevars
<1>2. CASE stage' \in {"halt", "hang", "crash", "wild"}
  BY <1>2 DEF FrameInv, Parsed, Wired, Running, Late
<1>3. CASE stage' = stage
  BY <1>1, <1>3 DEF FrameInv
<1>4. CASE stage = "intr" /\ stage' = "pmm"
  BY <1>1, <1>4 DEF FrameInv, Parsed, Wired, Running, Late
<1>5. CASE /\ stage \in {"acpi", "ioapic", "lapic", "irqs"}
           /\ stage' \in {"ioapic", "lapic", "irqs", "heap"}
  BY <1>1, <1>5 DEF FrameInv, Parsed, Wired, Running, Late
<1>6. CASE stage \in Running /\ stage' \in Running
  BY <1>1, <1>6 DEF FrameInv, Parsed, Wired, Running, Late
<1>7. CASE stage \in Late /\ stage' \in Late
  BY <1>1, <1>7 DEF FrameInv, Parsed, Wired, Running, Late
<1>8. QED
  BY <1>2, <1>3, <1>4, <1>5, <1>6, <1>7

\* The three stages that can stop for want of a frame, and the first kmalloc.
LEMMA VmmFrames ==
  ASSUME FrameInv, CInv, machine \in Machines, vmm_init
  PROVE  /\ FrameInv'
         /\ stage' \in {"halt", "hang", "crash"} => ~ FramesSuffice(Length)
<1>1. /\ stage = "vmm" /\ UNCHANGED <<machine, entries, second_biggest_chunk, phase>>
      /\ phase = "ready" /\ bitmap_i = 2 /\ ~ pmm_lock
  BY DEF vmm_init, scan, FrameInv
<1>2. /\ Frame \in Nat /\ WordFrames \in Nat
      /\ Frame = 0 => NoneFrom(2)
      /\ Frame # 0 => First(Frame, 2)
  BY <1>1, NextFrame, BitmapAssumption DEF Hint
<1>3. CASE vmm_alloc_page = "page"
  <2>1. /\ Frame < WordFrames /\ Frame # 0
        /\ bitmap_i' = Frame + 1 /\ ~ pmm_lock' /\ stage' \in {"acpi", "wild"}
    BY <1>3, PageOrNot DEF vmm_init, pmm_alloc, Onward
  <2>2. OneTaken(Frame)
    BY <1>2, <2>1 DEF OneTaken
  <2>3. \E a : OneTaken(a)' /\ bitmap_i' = a + 1
    <3>1. \A a : OneTaken(a)' = OneTaken(a)
      BY <1>1, FramesKept
    <3>2. QED
      BY <2>1, <2>2, <3>1
  <2>4. QED
    BY <1>1, <2>1, <2>3 DEF FrameInv, Parsed, Wired, Running, Late
<1>4. CASE vmm_alloc_page # "page"
  <2>1. stage' = "crash" /\ UNCHANGED mm
    BY <1>4 DEF vmm_init
  <2>2. UNCHANGED framevars
    BY <1>1, <2>1 DEF mm, framevars
  <2>3. NoneFrom(2) \/ \E f : First(f, 2) /\ ~ f < WordFrames
    BY <1>1, <1>2, <1>4, PageOrNot
  <2>4. QED
    BY <2>1, <2>2, <2>3, FramesStay, OneMissing
<1>5. QED
  BY <1>3, <1>4

LEMMA HeapFramesStep ==
  ASSUME FrameInv, CInv, machine \in Machines, kheap_init
  PROVE  FrameInv' /\ stage' \notin {"halt", "hang", "crash"}
<1>1. /\ stage = "heap" /\ UNCHANGED <<machine, entries, second_biggest_chunk, phase>>
      /\ pmm_alloc /\ stage' \in {"proc", "wild"}
  BY DEF kheap_init, scan, Onward
<1>2. phase = "ready"
  BY <1>1 DEF FrameInv, Parsed, Wired
<1>3. PICK a : OneTaken(a) /\ bitmap_i = a + 1
  BY <1>1 DEF FrameInv
<1>4. Hint(bitmap_i)
  BY <1>3 DEF OneTaken, First, Hint
<1>5. /\ Frame = 0 => NoneFrom(a + 1)
      /\ Frame # 0 => First(Frame, a + 1)
  BY <1>2, <1>3, <1>4, NextFrame
<1>6. \/ pmm_lock' /\ NoneFrom(a + 1)
      \/ ~ pmm_lock' /\ \E b : TwoTaken(a, b) /\ bitmap_i' = b + 1
  <2>1. CASE Frame = 0
    BY <1>1, <1>5, <2>1 DEF pmm_alloc
  <2>2. CASE Frame # 0
    <3>1. ~ pmm_lock' /\ bitmap_i' = Frame + 1
      BY <1>1, <2>2 DEF pmm_alloc
    <3>2. TwoTaken(a, Frame)
      BY <1>3, <1>5, <2>2 DEF TwoTaken
    <3>3. QED
      BY <3>1, <3>2
  <2>3. QED
    BY <2>1, <2>2
<1>7. \/ pmm_lock' /\ NoneFrom(a + 1)'
      \/ ~ pmm_lock' /\ \E b : TwoTaken(a, b)' /\ bitmap_i' = b + 1
  <2>1. \A b : TwoTaken(a, b)' = TwoTaken(a, b) /\ NoneFrom(b)' = NoneFrom(b)
    BY <1>1, FramesKept
  <2>2. QED
    BY <1>6, <2>1
<1>8. OneTaken(a)'
  BY <1>1, <1>3, FramesKept
<1>9. QED
  BY <1>1, <1>2, <1>7, <1>8 DEF FrameInv, Parsed, Wired, Running, Late

LEMMA ProcFrames ==
  ASSUME FrameInv, CInv, machine \in Machines, proc_init
  PROVE  /\ FrameInv'
         /\ stage' \in {"halt", "hang", "crash"} => ~ FramesSuffice(Length)
<1>1. /\ stage = "proc" /\ UNCHANGED <<machine, entries, second_biggest_chunk, phase>>
      /\ \/ vmm_alloc_page = "page" /\ pmm_alloc /\ stage' \in {"initrd", "wild"}
         \/ vmm_alloc_page # "page" /\ stage' \in {"hang", "halt"} /\ UNCHANGED mm
  BY DEF proc_init, scan, Onward, Halts, Stage
<1>2. phase = "ready"
  BY <1>1 DEF FrameInv, Parsed, Wired
<1>3. PICK a : /\ OneTaken(a)
               /\ \/ pmm_lock /\ NoneFrom(a + 1)
                  \/ ~ pmm_lock /\ \E b : TwoTaken(a, b) /\ bitmap_i = b + 1
  BY <1>1 DEF FrameInv
<1>4. ASSUME NEW b, TwoTaken(a, b), bitmap_i = b + 1
      PROVE  /\ Frame = 0 => NoneFrom(b + 1)
             /\ Frame # 0 => First(Frame, b + 1)
  <2>1. Hint(bitmap_i)
    BY <1>4 DEF TwoTaken, First, Hint
  <2>2. QED
    BY <1>2, <1>4, <2>1, NextFrame
<1>5. CASE vmm_alloc_page = "page" /\ pmm_alloc /\ stage' \in {"initrd", "wild"}
  <2>1. /\ Frame < WordFrames /\ Frame # 0 /\ ~ pmm_lock
        /\ bitmap_i' = Frame + 1 /\ ~ pmm_lock'
    BY <1>5, PageOrNot DEF pmm_alloc
  <2>2. PICK b : TwoTaken(a, b) /\ bitmap_i = b + 1
    BY <1>3, <2>1
  <2>3. ThreeTaken(a, b, Frame)
    BY <1>4, <2>1, <2>2 DEF ThreeTaken
  <2>4. \E x, y, z : ThreeTaken(x, y, z)' /\ bitmap_i' = z + 1
    <3>1. \A x, y, z : ThreeTaken(x, y, z)' = ThreeTaken(x, y, z)
      BY <1>1, FramesKept
    <3>2. QED
      BY <2>1, <2>3, <3>1
  <2>5. QED
    BY <1>1, <1>2, <1>5, <2>1, <2>4 DEF FrameInv, Parsed, Wired, Running, Late
<1>6. CASE vmm_alloc_page # "page" /\ stage' \in {"hang", "halt"} /\ UNCHANGED mm
  <2>1. UNCHANGED framevars
    BY <1>1, <1>6 DEF mm, framevars
  <2>2. FrameInv'
    BY <1>6, <2>1, FramesStay
  <2>3. CASE pmm_lock /\ NoneFrom(a + 1)
    BY <1>3, <2>2, <2>3, ThreeMissing
  <2>4. ASSUME ~ pmm_lock, NEW b, TwoTaken(a, b), bitmap_i = b + 1
        PROVE  ~ FramesSuffice(Length)
    <3>1. NoneFrom(b + 1) \/ \E f : First(f, b + 1) /\ ~ f < WordFrames
      BY <1>4, <1>6, <2>4, PageOrNot
    <3>2. QED
      BY <1>3, <2>4, <3>1, ThreeMissing
  <2>5. QED
    BY <1>3, <2>2, <2>3, <2>4
<1>7. QED
  BY <1>1, <1>5, <1>6

LEMMA TssFrames ==
  ASSUME FrameInv, CInv, machine \in Machines, load_gdt_tss
  PROVE  /\ FrameInv'
         /\ stage' \in {"halt", "hang", "crash"} => ~ FramesSuffice(Length)
<1>1. /\ stage = "gdt" /\ UNCHANGED <<machine, entries, second_biggest_chunk, phase>>
      /\ \/ vmm_alloc_page \in {"page", "NULL"} /\ stage' \in {"font", "wild"}
         \/ vmm_alloc_page \notin {"page", "NULL"} /\ stage' \in {"hang", "halt"} /\ UNCHANGED mm
  BY DEF load_gdt_tss, scan, Onward, Halts, Stage
<1>2. phase = "ready"
  BY <1>1 DEF FrameInv, Parsed, Wired
<1>3. ~ pmm_lock
  BY <1>1 DEF FrameInv, Running
<1>4. PICK a, b, c : ThreeTaken(a, b, c) /\ bitmap_i = c + 1
  BY <1>1 DEF FrameInv, Running
<1>5. Hint(bitmap_i)
  BY <1>4 DEF ThreeTaken, First, Hint
<1>6. /\ Frame = 0 => NoneFrom(c + 1)
      /\ Frame # 0 => First(Frame, c + 1)
  BY <1>2, <1>4, <1>5, NextFrame
<1>7. CASE vmm_alloc_page \in {"page", "NULL"} /\ stage' \in {"font", "wild"}
  <2>1. NoneFrom(c + 1) \/ \E d : First(d, c + 1) /\ d < WordFrames
    BY <1>6, <1>7, PageOrNot
  <2>2. FramesSuffice(Length)
    BY <1>4, <2>1, FourTaken
  <2>3. FramesSuffice(Length)'
    BY <1>1, <2>2, FramesKept
  <2>4. QED
    BY <1>1, <1>2, <1>7, <2>3 DEF FrameInv, Parsed, Wired, Running, Late
<1>8. CASE vmm_alloc_page \notin {"page", "NULL"} /\ stage' \in {"hang", "halt"} /\ UNCHANGED mm
  <2>1. UNCHANGED framevars
    BY <1>1, <1>8 DEF mm, framevars
  <2>2. ~ Frame < WordFrames /\ Frame # 0
    BY <1>3, <1>8, PageOrNot, BootAssumption
  <2>3. ~ FramesSuffice(Length)
    BY <1>4, <1>6, <2>2, FourMissing
  <2>4. QED
    BY <1>8, <2>1, <2>3, FramesStay
<1>9. QED
  BY <1>1, <1>7, <1>8

LEMMA FrameStep ==
  ASSUME FrameInv, CInv, machine \in Machines, [BootNext]_bootvars
  PROVE  /\ FrameInv'
         /\ stage \in {"vmm", "proc", "gdt"} /\ stage' \in {"halt", "hang", "crash"} =>
              ~ FramesSuffice(Length)
<1>1. CASE vmm_init \/ kheap_init \/ proc_init \/ load_gdt_tss
  BY <1>1, VmmFrames, HeapFramesStep, ProcFrames, TssFrames
<1>2. CASE pmm_init
  <2>1. /\ stage = "pmm" /\ UNCHANGED bitmap_i /\ UNCHANGED pmm_lock
        /\ \/ stage' \in {"pmm", "halt"}
           \/ stage' = "vmm" /\ phase' = "ready"
    <3>1. stage = "pmm" /\ UNCHANGED mm
      BY <1>2 DEF pmm_init
    <3>2. UNCHANGED bitmap_i /\ UNCHANGED pmm_lock
      BY <3>1 DEF mm
    <3>3. UNCHANGED stage \/ stage' = IF phase' = "ready" THEN "vmm" ELSE "halt"
      BY <1>2 DEF pmm_init
    <3>4. QED
      BY <3>1, <3>2, <3>3
  <2>2. QED
    BY <2>1 DEF FrameInv, Parsed, Wired, Running, Late
<1>3. CASE /\ UNCHANGED framevars
           /\ \/ stage \notin {"vmm", "proc", "gdt"}
                 /\ stage' \in {"halt", "hang", "crash", "wild"}
              \/ stage' = stage
              \/ stage = "intr" /\ stage' = "pmm"
              \/ /\ stage \in {"acpi", "ioapic", "lapic", "irqs"}
                 /\ stage' \in {"ioapic", "lapic", "irqs", "heap"}
              \/ stage \in Running /\ stage' \in Running
              \/ stage \in Late /\ stage' \in Late
  BY <1>3, FramesStay DEF Running, Late
<1>4. CASE intr_init \/ acpi_init \/ ioapic_init \/ lapic_init \/ init_irqs
  <2>1. UNCHANGED framevars
    BY <1>4 DEF intr_init, acpi_init, ioapic_init, lapic_init, init_irqs, scan, mm, framevars
  <2>2. \/ stage = "intr" /\ stage' = "pmm"
        \/ /\ stage \in {"acpi", "ioapic", "lapic", "irqs"}
           /\ stage' \in {"ioapic", "lapic", "irqs", "heap", "halt", "hang", "crash"}
    BY <1>4 DEF intr_init, acpi_init, ioapic_init, lapic_init, init_irqs, Stage, Halts
  <2>3. QED
    BY <1>3, <2>1, <2>2
<1>5. CASE initrd_init \/ cli \/ init_font_uapi \/ start_init_system \/ spawn_fails
  <2>1. UNCHANGED framevars
    BY <1>5 DEF initrd_init, cli, init_font_uapi, start_init_system, spawn_fails, scan, mm,
                framevars
  <2>2. \/ stage \in {"initrd", "font", "init"} /\ stage' \in {"halt", "wild"}
        \/ stage \in Running /\ stage' \in Running
        \/ stage \in Late /\ stage' \in Late
    BY <1>5 DEF initrd_init, cli, init_font_uapi, start_init_system, spawn_fails, Stage, Halts,
                Onward, Running, Late
  <2>3. QED
    BY <1>3, <2>1, <2>2
<1>6. ASSUME NEW path \in Later, spawn(path)
      PROVE  FrameInv' /\ stage \notin {"vmm", "proc", "gdt"}
  <2>1. /\ stage = "ring3" /\ stage' \in {"ring3", "wild"}
        /\ UNCHANGED <<machine, entries, second_biggest_chunk, phase>>
    BY <1>6 DEF spawn, scan
  <2>2. FramesSuffice(Length)'
    BY <2>1, FramesKept DEF FrameInv, Late
  <2>3. QED
    BY <2>1, <2>2 DEF FrameInv, Parsed, Wired, Running, Late
<1>7. ASSUME NEW irq \in {0, 1}, Interrupt(irq) PROVE UNCHANGED framevars /\ stage' = stage
  BY <1>7 DEF Interrupt, scan, mm, framevars
<1>8. CASE UNCHANGED bootvars
  BY <1>3, <1>8 DEF bootvars, scan, mm, framevars
<1>9. QED
  BY <1>1, <1>2, <1>3, <1>4, <1>5, <1>6, <1>7, <1>8 DEF BootNext, BootStep

-----------------------------------------------------------------------------
(* Where the boot ends.                                                    *)

\* What the stages up to here have found: each conjunct of Bootable holds from
\* the stage on that looks at it, and the boot stops where one does not.
FontCarried == Carries("initrd/font.psf", LAMBDA f : f.magic # <<FALSE, FALSE>>)
InitCarried == Carries("initrd/init.sys", LAMBDA f : f.elf.header = GoodHeader)
DiskCarried == "/Iridium/initrd.sys" \in ToSet(machine.modules)
TablesGood == TablesValid /\ Stuck \notin ToSet(TrueMadt.entries)
Enough == FramesSuffice(entries[Longest(InFront)].length)

EndInv ==
  /\ stage \in Parsed => TablesGood
  /\ stage \in Parsed \ {"ioapic"} => IoApics # {}
  /\ stage \in {"cli", "gdt", "font", "init", "ring3"} => DiskCarried
  /\ stage \in {"init", "ring3"} => FontCarried
  /\ EndsRight

\* The needs of a machine do not change while it boots.
LEMMA NeedsKept ==
  ASSUME UNCHANGED <<machine, entries>>
  PROVE  /\ InFront' = InFront /\ Enough' = Enough /\ TablesValid' = TablesValid
         /\ TablesGood' = TablesGood /\ TrueMadt' = TrueMadt /\ IoApics' = IoApics
         /\ DiskCarried' = DiskCarried /\ FontCarried' = FontCarried
         /\ Bootable' = Bootable
<1>1. InFront' = InFront /\ Enough' = Enough
  BY DEF InFront, Enough, Usable, Longest, FirstLongest, FramesSuffice, Given
<1>2. TablesValid' = TablesValid /\ TrueMadt' = TrueMadt
  BY DEF TablesValid, TrueMadt
<1>3. Files' = Files
  BY DEF Files
<1>4. FontCarried' = FontCarried /\ InitCarried' = InitCarried
  BY <1>3 DEF FontCarried, InitCarried, Carries
<1>5. TablesGood' = TablesGood /\ IoApics' = IoApics /\ DiskCarried' = DiskCarried
  BY <1>2 DEF TablesGood, IoApics, DiskCarried
<1>6. Bootable <=> /\ InFront # {} /\ Enough /\ TablesGood /\ IoApics # {}
                   /\ DiskCarried /\ FontCarried /\ InitCarried
  BY DEF Bootable, Enough, TablesGood, DiskCarried, FontCarried, InitCarried
<1>7. Bootable' <=> /\ InFront' # {} /\ Enough' /\ TablesGood' /\ IoApics' # {}
                    /\ DiskCarried' /\ FontCarried' /\ InitCarried'
  BY DEF Bootable, Enough, TablesGood, DiskCarried, FontCarried, InitCarried
<1>8. Bootable' = Bootable
  BY <1>1, <1>4, <1>5, <1>6, <1>7
<1>9. QED
  BY <1>1, <1>2, <1>4, <1>5, <1>8

LEMMA BootableParts ==
  Bootable <=> /\ InFront # {} /\ Enough /\ TablesGood /\ IoApics # {}
               /\ DiskCarried /\ FontCarried /\ InitCarried
BY DEF Bootable, Enough, TablesGood, DiskCarried, FontCarried, InitCarried

LEMMA EndInvKept ==
  ASSUME EndInv, UNCHANGED <<machine, entries, stage>>
  PROVE  EndInv'
BY NeedsKept DEF EndInv, EndsRight

\* With pmm_init through, the bitmap has the right length.
LEMMA ChunksGood ==
  ASSUME CInv, FrameInv, stage \in {"vmm", "acpi", "down"} \cup Parsed
  PROVE  InFront # {} /\ (Enough <=> FramesSuffice(Length))
BY ReadyChunks DEF FrameInv, Enough, Length

LEMMA EndInvStep ==
  ASSUME EndInv, CInv, CInv', StageInv, FrameInv, FrameInv', [BootNext]_bootvars
  PROVE  EndInv'
<1>0. machine \in Machines
  BY DEF StageInv, Tables
<1>1. ASSUME UNCHANGED <<machine, entries>>
      PROVE  EndInv' <=>
               /\ stage' \in Parsed => TablesGood
               /\ stage' \in Parsed \ {"ioapic"} => IoApics # {}
               /\ stage' \in {"cli", "gdt", "font", "init", "ring3"} => DiskCarried
               /\ stage' \in {"init", "ring3"} => FontCarried
               /\ stage' \in {"ring3", "down"} => Bootable
               /\ stage' \in {"halt", "hang", "crash"} => ~ Bootable
  BY <1>1, NeedsKept DEF EndInv, EndsRight
<1>2. ASSUME stage \in {"vmm", "proc", "gdt"}, stage' \in {"halt", "hang", "crash"}
      PROVE  ~ Bootable
  <2>1. ~ FramesSuffice(Length)
    BY <1>0, <1>2, FrameStep
  <2>2. Enough <=> FramesSuffice(Length)
    BY <1>2, ChunksGood DEF Parsed, Wired
  <2>3. QED
    BY <2>1, <2>2, BootableParts
<1>3. CASE intr_init
  <2>1. UNCHANGED <<machine, entries>> /\ stage' = "pmm"
    BY <1>3 DEF intr_init, scan, Stage
  <2>2. QED
    BY <1>1, <2>1 DEF Parsed, Wired
<1>4. CASE pmm_init
  <2>1. CASE Scan /\ UNCHANGED stage
    <3>1. UNCHANGED <<machine, entries, stage>>
      BY <1>4, <2>1 DEF pmm_init, Scan
    <3>2. QED
      BY <3>1, EndInvKept
  <2>2. CASE Decide /\ stage' = IF phase' = "ready" THEN "vmm" ELSE "halt"
    <3>1. UNCHANGED <<machine, entries>>
      BY <1>4, <2>2 DEF pmm_init, Decide
    <3>2. CASE phase' = "ready"
      BY <1>1, <2>2, <3>1, <3>2 DEF Parsed, Wired
    <3>3. CASE phase' # "ready"
      <4>1. phase' = "panic" /\ stage' = "halt"
        BY <2>2, <3>3 DEF Decide
      <4>2. InFront' = {}
        <5>1. (CInv /\ phase = "panic" => InFront = {})'
          BY PanicChunks, PTL
        <5>2. QED
          BY <4>1, <5>1
      <4>3. ~ Bootable
        BY <3>1, <4>2, NeedsKept, BootableParts
      <4>4. QED
        BY <1>1, <3>1, <4>1, <4>3 DEF Parsed, Wired
    <3>4. QED
      BY <3>2, <3>3
  <2>3. QED
    BY <1>4, <2>1, <2>2 DEF pmm_init
<1>5. CASE vmm_init
  <2>1. /\ UNCHANGED <<machine, entries>> /\ stage = "vmm"
        /\ stage' \in {"crash", "wild", "acpi"}
    BY <1>5 DEF vmm_init, scan, Onward
  <2>2. QED
    BY <1>1, <1>2, <2>1 DEF Parsed, Wired
<1>6. CASE acpi_init
  <2>1. UNCHANGED <<machine, entries>> /\ stage = "acpi"
    BY <1>6 DEF acpi_init, scan, Stage, Halts
  <2>2. CASE ~ TablesValid
    <3>1. stage' = "halt"
      BY <1>6, <2>2 DEF acpi_init, Halts, Stage
    <3>2. ~ Bootable
      BY <2>2, BootableParts DEF TablesGood
    <3>3. QED
      BY <1>1, <2>1, <3>1, <3>2 DEF Parsed, Wired
  <2>3. CASE TablesValid
    <3>1. stage' = IF StuckAt(TrueMadt) # 0 THEN "hang" ELSE "ioapic"
      BY <1>6, <2>3 DEF acpi_init, Stage, TrueMadt
    <3>2. StuckAt(TrueMadt) = 0 <=> Stuck \notin ToSet(TrueMadt.entries)
      BY <1>0, <2>3, StuckFound DEF TablesValid, TrueMadt
    <3>3. stage' = IF TablesGood THEN "ioapic" ELSE "hang"
      BY <2>3, <3>1, <3>2 DEF TablesGood
    <3>4. QED
      BY <1>1, <2>1, <3>3, BootableParts DEF Parsed, Wired
  <2>4. QED
    BY <2>2, <2>3
<1>7. CASE ioapic_init
  <2>1. /\ UNCHANGED <<machine, entries>> /\ stage = "ioapic"
        /\ stage' = IF ioapic_base = None THEN "crash" ELSE "lapic"
    BY <1>7 DEF ioapic_init, scan, Stage
  <2>2. TrueMadt # NoTable /\ ioapic_base = IoApicBase(TrueMadt)
    BY <2>1 DEF StageInv, Tables, Parsed
  <2>3. ioapic_base # None <=> IoApics # {}
    BY <1>0, <2>2, IoApicFound
  <2>4. TablesGood
    BY <2>1 DEF EndInv, Parsed
  <2>5. QED
    BY <1>1, <2>1, <2>3, <2>4, BootableParts DEF Parsed, Wired
<1>8. CASE lapic_init \/ init_irqs \/ kheap_init \/ cli
  <2>1. /\ UNCHANGED <<machine, entries>>
        /\ \/ stage = "lapic" /\ stage' = "irqs"
           \/ stage = "irqs" /\ stage' = "heap"
           \/ stage = "heap" /\ stage' \in {"proc", "wild"}
           \/ stage = "cli" /\ stage' = "gdt"
    BY <1>8 DEF lapic_init, init_irqs, kheap_init, cli, scan, Stage, Onward
  <2>2. QED
    BY <1>1, <2>1 DEF EndInv, Parsed, Wired
<1>9. CASE proc_init \/ load_gdt_tss
  <2>1. /\ UNCHANGED <<machine, entries>>
        /\ \/ stage = "proc" /\ stage' \in {"initrd", "wild", "halt", "hang"}
           \/ stage = "gdt" /\ stage' \in {"font", "wild", "halt", "hang"}
    BY <1>9 DEF proc_init, load_gdt_tss, scan, Stage, Onward, Halts
  <2>2. stage' \in {"halt", "hang", "crash"} => ~ Bootable
    BY <1>2, <2>1
  <2>3. QED
    BY <1>1, <2>1, <2>2 DEF EndInv, Parsed, Wired
<1>10. CASE initrd_init
  <2>1. /\ UNCHANGED <<machine, entries>> /\ stage = "initrd"
        /\ stage' = IF FindModule("/Iridium/initrd.sys") THEN "cli" ELSE "halt"
    BY <1>10 DEF initrd_init, scan, Stage, Halts
  <2>2. FindModule("/Iridium/initrd.sys") <=> DiskCarried
    BY <1>0, ModuleFound DEF DiskCarried
  <2>3. QED
    BY <1>1, <2>1, <2>2, BootableParts DEF EndInv, Parsed, Wired
<1>11. CASE init_font_uapi
  <2>1. /\ UNCHANGED <<machine, entries>> /\ stage = "font"
        /\ IF FontValid THEN stage' \in {"init", "wild"} ELSE stage' = "halt"
    BY <1>11 DEF init_font_uapi, scan, Stage, Onward, Halts
  <2>2. FontValid <=> FontCarried
    BY <1>0, FontFound DEF FontCarried
  <2>3. QED
    BY <1>1, <2>1, <2>2, BootableParts DEF EndInv, Parsed, Wired
<1>12. CASE start_init_system
  <2>1. /\ UNCHANGED <<machine, entries>> /\ stage = "init"
        /\ \/ ~ Loadable("initrd/init.sys") /\ stage' = "halt"
           \/ Loadable("initrd/init.sys") /\ stage' \in {"ring3", "wild"}
    BY <1>12 DEF start_init_system, scan, Halts, Stage
  <2>2. Loadable("initrd/init.sys") <=> InitCarried
    BY <1>0, ProgramFound DEF InitCarried
  <2>3. InFront # {} /\ Enough /\ TablesGood /\ IoApics # {} /\ DiskCarried /\ FontCarried
    <3>1. FramesSuffice(Length)
      BY <2>1 DEF FrameInv, Late
    <3>2. stage \in Parsed \ {"ioapic"}
      BY <2>1 DEF Parsed, Wired
    <3>3. QED
      BY <2>1, <3>1, <3>2, ChunksGood DEF EndInv
  <2>4. QED
    BY <1>1, <2>1, <2>2, <2>3, BootableParts DEF Parsed, Wired
<1>13. ASSUME NEW path \in Later, spawn(path) PROVE EndInv'
  <2>1. /\ UNCHANGED <<machine, entries>> /\ stage = "ring3"
        /\ stage' = stage \/ stage' = "wild"
    BY <1>13 DEF spawn, scan
  <2>2. QED
    BY <1>1, <2>1, EndInvKept DEF EndInv, EndsRight, Parsed, Wired
<1>14. CASE spawn_fails
  <2>1. UNCHANGED <<machine, entries>> /\ stage = "ring3" /\ stage' = "down"
    BY <1>14 DEF spawn_fails, scan, Stage
  <2>2. QED
    BY <1>1, <2>1 DEF EndInv, EndsRight, Parsed, Wired
<1>15. ASSUME NEW irq \in {0, 1}, Interrupt(irq) PROVE EndInv'
  <2>1. UNCHANGED <<machine, entries, stage>>
    BY <1>15 DEF Interrupt, scan
  <2>2. QED
    BY <2>1, EndInvKept
<1>16. CASE UNCHANGED bootvars
  <2>1. UNCHANGED <<machine, entries, stage>>
    BY <1>16 DEF bootvars, scan
  <2>2. QED
    BY <2>1, EndInvKept
<1>17. QED
  BY <1>3, <1>4, <1>5, <1>6, <1>7, <1>8, <1>9, <1>10, <1>11, <1>12, <1>13, <1>14, <1>15, <1>16
  DEF BootNext, BootStep

LEMMA FrameInvariantProof == BootSpec => []FrameInv
<1>1. BootInit => FrameInv
  BY DEF BootInit, FrameInv, Parsed, Wired, Running, Late
<1>2. FrameInv /\ CInv /\ StageInv /\ [BootNext]_bootvars => FrameInv'
  BY FrameStep DEF StageInv, Tables
<1>3. QED
  BY <1>1, <1>2, ChunksKeptAtBoot, StageInvariantProof, PTL DEF BootSpec

\* A machine that comes as far as init.sys had everything the kernel needs, and
\* one that stops on the way, by itself, at a lock, in the MADT or by a fault,
\* lacked something: for every memory map, every tables, modules and RAM disk,
\* whatever frames are free and whatever interrupts come in between.
THEOREM BootDecides == BootSpec => []EndsRight
<1>1. BootInit => EndInv
  BY DEF BootInit, EndInv, EndsRight, Parsed, Wired
<1>2. EndInv /\ CInv /\ CInv' /\ StageInv /\ FrameInv /\ FrameInv' /\ [BootNext]_bootvars
      => EndInv'
  BY EndInvStep
<1>3. EndInv => EndsRight
  BY DEF EndInv
<1>4. QED
  BY <1>1, <1>2, <1>3, ChunksKeptAtBoot, StageInvariantProof, FrameInvariantProof, PTL
  DEF BootSpec

\* The ways from one stage to the next, behind pmm_init.
Move ==
  \/ stage' = stage /\ i' = i
  \/ stage = "vmm" /\ stage' \in {"crash", "wild", "acpi"}
  \/ stage = "acpi" /\ stage' \in {"halt", "hang", "ioapic"}
  \/ stage = "ioapic" /\ stage' \in {"crash", "lapic"}
  \/ stage = "lapic" /\ stage' = "irqs"
  \/ stage = "irqs" /\ stage' = "heap"
  \/ stage = "heap" /\ stage' \in {"wild", "proc"}
  \/ stage = "proc" /\ stage' \in {"halt", "hang", "wild", "initrd"}
  \/ stage = "initrd" /\ stage' \in {"halt", "cli"}
  \/ stage = "cli" /\ stage' = "gdt"
  \/ stage = "gdt" /\ stage' \in {"halt", "hang", "wild", "font"}
  \/ stage = "font" /\ stage' \in {"halt", "wild", "init"}
  \/ stage = "init" /\ stage' \in {"halt", "wild", "ring3"}
  \/ stage = "ring3" /\ stage' \in {"wild", "down"}

\* What may be left of the boot: at most so many stages.  Left12 is every stage
\* but "intr" and "pmm".
Left0 == stage \in Final
Left1 == Left0 \/ stage = "init"
Left2 == Left1 \/ stage = "font"
Left3 == Left2 \/ stage = "gdt"
Left4 == Left3 \/ stage = "cli"
Left5 == Left4 \/ stage = "initrd"
Left6 == Left5 \/ stage = "proc"
Left7 == Left6 \/ stage = "heap"
Left8 == Left7 \/ stage = "irqs"
Left9 == Left8 \/ stage = "lapic"
Left10 == Left9 \/ stage = "ioapic"
Left11 == Left10 \/ stage = "acpi"
Left12 == Left11 \/ stage = "vmm"

Advance == stage' # stage \/ i' # i

LEMMA StageMoves ==
  ASSUME stage \notin {"intr", "pmm"}, [BootNext]_bootvars
  PROVE  Move
<1>1. CASE vmm_init \/ ioapic_init \/ lapic_init \/ init_irqs \/ kheap_init
  BY <1>1 DEF vmm_init, ioapic_init, lapic_init, init_irqs, kheap_init, Stage, Onward, Move
<1>2. CASE proc_init \/ initrd_init \/ cli \/ load_gdt_tss
  BY <1>2 DEF proc_init, initrd_init, cli, load_gdt_tss, Stage, Onward, Halts, Move
<1>3. CASE init_font_uapi \/ start_init_system \/ spawn_fails
  BY <1>3 DEF init_font_uapi, start_init_system, spawn_fails, Stage, Onward, Halts, Move
<1>4. CASE acpi_init
  BY <1>4 DEF acpi_init, Stage, Halts, Move
<1>5. ~ intr_init /\ ~ pmm_init
  BY DEF intr_init, pmm_init, Stage
<1>6. ASSUME NEW path \in Later, spawn(path) PROVE Move
  BY <1>6 DEF spawn, scan, Move
<1>7. ASSUME NEW irq \in {0, 1}, Interrupt(irq) PROVE Move
  BY <1>7 DEF Interrupt, scan, Move
<1>8. CASE UNCHANGED bootvars
  BY <1>8 DEF bootvars, scan, Move
<1>9. QED
  BY <1>1, <1>2, <1>3, <1>4, <1>5, <1>6, <1>7, <1>8 DEF BootNext, BootStep

\* Once pmm_init is through, the boot ends, and where it should, whatever the
\* interrupts do: every stage is left for a later one.
THEOREM BootEnds == BootSpec => [](Left12 => <>[](stage \in Final /\ EndsRight))
<1> USE DEF Left0, Left1, Left2, Left3, Left4, Left5, Left6, Left7, Left8, Left9, Left10, Left11, Left12,
            Final
<1>0. Left0 /\ [BootNext]_bootvars => Left0'
  BY StageMoves DEF Move
<1>1. /\ Left1 /\ [BootNext]_bootvars => Left1'
      /\ Left1 /\ [BootNext]_bootvars /\ <<Advance>>_bootvars => Left0'
  BY StageMoves DEF Move, Advance
<1>2. /\ Left2 /\ [BootNext]_bootvars => Left2'
      /\ Left2 /\ [BootNext]_bootvars /\ <<Advance>>_bootvars => Left1'
  BY StageMoves DEF Move, Advance
<1>3. /\ Left3 /\ [BootNext]_bootvars => Left3'
      /\ Left3 /\ [BootNext]_bootvars /\ <<Advance>>_bootvars => Left2'
  BY StageMoves DEF Move, Advance
<1>4. /\ Left4 /\ [BootNext]_bootvars => Left4'
      /\ Left4 /\ [BootNext]_bootvars /\ <<Advance>>_bootvars => Left3'
  BY StageMoves DEF Move, Advance
<1>5. /\ Left5 /\ [BootNext]_bootvars => Left5'
      /\ Left5 /\ [BootNext]_bootvars /\ <<Advance>>_bootvars => Left4'
  BY StageMoves DEF Move, Advance
<1>6. /\ Left6 /\ [BootNext]_bootvars => Left6'
      /\ Left6 /\ [BootNext]_bootvars /\ <<Advance>>_bootvars => Left5'
  BY StageMoves DEF Move, Advance
<1>7. /\ Left7 /\ [BootNext]_bootvars => Left7'
      /\ Left7 /\ [BootNext]_bootvars /\ <<Advance>>_bootvars => Left6'
  BY StageMoves DEF Move, Advance
<1>8. /\ Left8 /\ [BootNext]_bootvars => Left8'
      /\ Left8 /\ [BootNext]_bootvars /\ <<Advance>>_bootvars => Left7'
  BY StageMoves DEF Move, Advance
<1>9. /\ Left9 /\ [BootNext]_bootvars => Left9'
      /\ Left9 /\ [BootNext]_bootvars /\ <<Advance>>_bootvars => Left8'
  BY StageMoves DEF Move, Advance
<1>10. /\ Left10 /\ [BootNext]_bootvars => Left10'
       /\ Left10 /\ [BootNext]_bootvars /\ <<Advance>>_bootvars => Left9'
  BY StageMoves DEF Move, Advance
<1>11. /\ Left11 /\ [BootNext]_bootvars => Left11'
       /\ Left11 /\ [BootNext]_bootvars /\ <<Advance>>_bootvars => Left10'
  BY StageMoves DEF Move, Advance
<1>12. /\ Left12 /\ [BootNext]_bootvars => Left12'
       /\ Left12 /\ [BootNext]_bootvars /\ <<Advance>>_bootvars => Left11'
  BY StageMoves DEF Move, Advance
<1>13. BootFairness => []<>Left0 \/ []<><<Advance>>_bootvars
  BY PTL DEF BootFairness, Advance
<1>14. QED
  BY <1>0, <1>1, <1>2, <1>3, <1>4, <1>5, <1>6, <1>7, <1>8, <1>9, <1>10, <1>11, <1>12, <1>13,
     BootDecides, PTL
  DEF BootSpec
=============================================================================
