----------------------------- MODULE NatLemmas -----------------------------
(* Facts about sets of naturals that the proofs of several components use. *)
EXTENDS Integers, FiniteSetTheorems, TLAPS

\* Every non-empty set of naturals has a least element.
LEMMA LeastElement ==
  ASSUME NEW T \in SUBSET Nat, T # {}
  PROVE  \E m \in T : \A k \in T : m <= k
<1> DEFINE UpTo(k) == {j \in T : j <= k}
           Segments == {UpTo(k) : k \in T}
           Below == StrictSubsetOrdering(Nat)
<1>1. Segments \subseteq FiniteSubsetsOf(Nat)
  <2>1. ASSUME NEW k \in T PROVE UpTo(k) \in SUBSET Nat /\ IsFiniteSet(UpTo(k))
    <3>1. k \in Nat /\ UpTo(k) \in SUBSET Nat
      OBVIOUS
    <3>2. \A s \in UpTo(k) : s <= k
      OBVIOUS
    <3>3. QED
      BY <3>1, <3>2, FS_BoundedSetOfNaturals
  <2>2. QED
    BY <2>1, Zenon DEF FiniteSubsetsOf
<1>2. Segments # {}
  OBVIOUS
<1>3. PICK X \in Segments : \A Y \in Segments : <<Y, X>> \notin Below
  <2> HIDE DEF Segments
  <2>1. QED
    BY <1>1, <1>2, WFMin, FS_StrictSubsetOrderingWellFounded, Zenon
<1>4. PICK m \in T : X = UpTo(m)
  OBVIOUS
<1>5. ASSUME NEW k \in T, k < m PROVE FALSE
  <2>1. UpTo(k) \subseteq UpTo(m) /\ UpTo(k) # UpTo(m)
    <3>1. k \in Nat /\ m \in Nat
      OBVIOUS
    <3>2. \A j \in UpTo(k) : j \in UpTo(m)
      <4>1. ASSUME NEW j \in T, j <= k PROVE j <= m
        BY <1>5, <3>1, <4>1
      <4>2. QED
        BY <4>1
    <3>3. m \in UpTo(m) /\ m \notin UpTo(k)
      BY <1>5, <3>1
    <3>4. QED
      BY <3>2, <3>3
  <2>2. UpTo(k) \in SUBSET Nat /\ UpTo(m) \in SUBSET Nat /\ UpTo(k) \in Segments
    OBVIOUS
  <2>3. <<UpTo(k), UpTo(m)>> \in Below
    <3> HIDE DEF UpTo
    <3>1. QED
      BY <2>1, <2>2, Zenon DEF StrictSubsetOrdering
  <2>4. QED
    BY <2>2, <2>3, <1>3, <1>4
<1>6. QED
  BY <1>5

\* Division by a positive number, from below and from above.
LEMMA Division ==
  ASSUME NEW x \in Nat, NEW d \in Nat, d > 0
  PROVE  x \div d \in Nat /\ (x \div d) * d <= x /\ x < (x \div d) * d + d
OBVIOUS

\* The quotient is the only number with that property.
LEMMA Quotient ==
  ASSUME NEW x \in Nat, NEW d \in Nat, d > 0, NEW q \in Nat, q * d <= x, x < q * d + d
  PROVE  x \div d = q
OBVIOUS

\* Multiples keep the order.
LEMMA Monotone ==
  ASSUME NEW a \in Nat, NEW b \in Nat, a <= b, NEW d \in Nat
  PROVE  a * d <= b * d
OBVIOUS

\* Multiples leave no remainder.
LEMMA Multiple ==
  ASSUME NEW q \in Nat, NEW d \in Nat, d > 0
  PROVE  (q * d) % d = 0
OBVIOUS
=============================================================================
