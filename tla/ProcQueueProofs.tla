-------------------------- MODULE ProcQueueProofs --------------------------
(* Proofs about ProcQueue: its type invariant, the integrity of the ring,  *)
(* and that exit is accepted and ends nobody but its caller, for every     *)
(* MaxProc, PidMax and Masks.                                              *)
EXTENDS ProcQueue, NatLemmas, TLAPS

-----------------------------------------------------------------------------
(* locate_proc.                                                            *)

\* What locate_proc returns: a struct its loop looked at, with the PID, or
\* NULL when there is none.
LEMMA LocateResult ==
  ASSUME NEW pd, NEW nx, NEW p
  PROVE  LET c == locate_proc(pd, nx, p)
         IN  IF Matches(pd, nx, p) = {} THEN c = NULL
             ELSE c \in Examined(pd, nx, p) /\ c \in Node /\ pd[c] = p
<1>1. Matches(pd, nx, p) \subseteq Examined(pd, nx, p) /\ Matches(pd, nx, p) \subseteq Node
  BY DEF Matches, Examined
<1>2. ASSUME NEW c \in Matches(pd, nx, p) PROVE pd[c] = p
  BY DEF Matches
<1>3. CASE Matches(pd, nx, p) = {}
  BY <1>3 DEF locate_proc
<1>4. CASE Matches(pd, nx, p) # {}
  <2>1. locate_proc(pd, nx, p) \in Matches(pd, nx, p)
    BY <1>4, Zenon DEF locate_proc
  <2>2. QED
    BY <2>1, <1>1, <1>2, <1>4
<1>5. QED
  BY <1>3, <1>4

\* The loop stays inside any set of structs that `next' does not leave.
LEMMA ExaminedStaysInside ==
  ASSUME NEW L \in SUBSET Node, NEW pd, NEW nx, NEW p,
         queue_base \in L, \A k \in L : nx[k] \in L
  PROVE  Examined(pd, nx, p) \subseteq L
BY Zenon DEF Examined

\* The loop starts at queue_base and goes on from every struct without the
\* PID, unless it is back at queue_base.
LEMMA ExaminedGoesOn ==
  ASSUME NEW pd, NEW nx, NEW p, NEW k \in Examined(pd, nx, p),
         pd[k] # p, nx[k] # queue_base, nx[k] \in Node
  PROVE  nx[k] \in Examined(pd, nx, p)
BY Zenon DEF Examined

LEMMA ExaminedStarts ==
  ASSUME NEW pd, NEW nx, NEW p
  PROVE  queue_base \in Examined(pd, nx, p)
<1>1. queue_base \in Node
  BY BoundsAssumption DEF queue_base, Node
<1>2. QED
  BY <1>1, Zenon DEF Examined

\* If every struct of L but queue_base is the `next' of an older one of L,
\* then locate_proc misses no PID of L.
LEMMA LocateMissesNone ==
  ASSUME NEW L \in SUBSET Node, NEW pd, NEW nx, NEW p,
         \A m \in L \ {queue_base} : \E q \in L : q < m /\ nx[q] = m,
         locate_proc(pd, nx, p) = NULL
  PROVE  \A n \in L : pd[n] # p
<1>1. Matches(pd, nx, p) = {}
  <2>1. NULL \notin Node
    BY DEF NULL, Node
  <2>2. QED
    BY <2>1, LocateResult
<1>2. \A n \in Examined(pd, nx, p) : pd[n] # p
  BY <1>1 DEF Matches
<1>3. L \subseteq Examined(pd, nx, p)
  <2> DEFINE Missed == L \ Examined(pd, nx, p)
  <2>1. SUFFICES ASSUME Missed # {} PROVE FALSE
    OBVIOUS
  <2>2. Missed \in SUBSET Nat
    <3>1. Node \subseteq Nat
      BY BoundsAssumption DEF Node
    <3>2. QED
      BY <3>1
  <2>3. PICK m \in Missed : \A k \in Missed : m <= k
    BY <2>1, <2>2, LeastElement
  <2>4. m # queue_base
    BY ExaminedStarts
  <2>5. PICK q \in L : q < m /\ nx[q] = m
    BY <2>4
  <2>6. q \notin Missed
    BY <2>2, <2>3, <2>5, BoundsAssumption DEF Node
  <2>7. q \in Examined(pd, nx, p) /\ pd[q] # p
    BY <2>6, <1>2
  <2>8. nx[q] \in Examined(pd, nx, p)
    BY <2>4, <2>5, <2>7, ExaminedGoesOn
  <2>9. QED
    BY <2>5, <2>8
<1>4. QED
  BY <1>2, <1>3

-----------------------------------------------------------------------------
(* The ring.                                                               *)

\* The inductive invariant.  Beside the properties it says that queue_base
\* has PID 1, which is why kill never unlinks it, and that current_task, dead
\* or alive, is none of the structs still to be allocated.
IInv ==
  /\ TypeOK /\ RingInv /\ CurrentInv
  /\ pid[queue_base] = 1 /\ current_task <= nalloc

LEMMA NodeFacts == queue_base \in Node /\ NULL \notin Node /\ Node \subseteq Nat
BY BoundsAssumption DEF queue_base, Node, NULL

LEMMA WrapType == \A x \in PID_T : Wrap(x + 1) \in PID_T /\ Wrap(x - 1) \in PID_T
BY BoundsAssumption DEF Wrap, PID_T

LEMMA InitIInv == Init => IInv
<1> SUFFICES ASSUME Init PROVE IInv
  OBVIOUS
<1>1. TypeOK
  <2>1. 0 \in PID_T /\ 1 \in PID_T /\ 2 \in PID_T
    BY BoundsAssumption DEF PID_T
  <2>2. queue_base \in Node /\ 1 \in Node
    BY BoundsAssumption DEF Node, queue_base
  <2>3. QED
    BY <2>1, <2>2 DEF Init, TypeOK, Mode
<1>2. NextInOrder /\ PrevInverse
  BY NodeFacts DEF Init, NextInOrder, PrevInverse, queue_base
<1>3. CurrentInv
  BY NodeFacts DEF Init, CurrentInv, Up, queue_base
<1>4. pid[queue_base] = 1 /\ current_task <= nalloc
  BY NodeFacts DEF Init, queue_base
<1>5. QED
  BY <1>1, <1>2, <1>3, <1>4 DEF IInv, RingInv

\* On a ring in order, following `next' from queue_base stays among the
\* living processes and misses none of them.
LEMMA RingReach ==
  ASSUME TypeOK, NextInOrder, PrevInverse
  PROVE  /\ \A k \in live : next[k] \in live
         /\ \A m \in live \ {queue_base} : \E q \in live : q < m /\ next[q] = m
BY DEF TypeOK, NextInOrder, PrevInverse

\* _spawn links the new struct so that the ring stays in order, and finds it.
LEMMA SpawnIInv ==
  ASSUME IInv, Up, NEW m \in SUBSET Perm, Spawn(m)
  PROVE  IInv' /\ mode' = mode
<1> DEFINE n == nalloc + 1
<1> USE NodeFacts
<1>1. /\ n \in Node /\ n \notin live /\ \A k \in live : k < n
      /\ live \subseteq Node /\ NextInOrder /\ PrevInverse /\ queue_head \in live
  <2>1. NextInOrder /\ PrevInverse /\ TypeOK
    BY DEF IInv, RingInv
  <2>2. nalloc \in Node /\ nalloc < MaxProc /\ \A k \in live : k <= nalloc
    BY <2>1 DEF TypeOK, NextInOrder, Spawn
  <2>3. n \in Node /\ \A k \in Node : k <= nalloc => k < n
    BY <2>2, BoundsAssumption DEF Node
  <2>4. live \subseteq Node /\ queue_head \in live
    BY <2>1 DEF TypeOK, NextInOrder
  <2>5. \A k \in live : k < n
    BY <2>2, <2>3, <2>4
  <2>6. n \notin live
    BY <2>2, <2>4, <2>5
  <2>7. QED
    BY <2>1, <2>3, <2>4, <2>5, <2>6
<1>2. /\ live' = live \cup {n} /\ nalloc' = n /\ queue_head' = n
      /\ next' = LinkedNext(n) /\ prev' = [prev EXCEPT ![n] = queue_head]
      /\ pid' = [pid EXCEPT ![n] = next_pid]
      /\ state' = [state EXCEPT ![n] = "READY"] /\ perm' = [perm EXCEPT ![n] = m]
      /\ current_task' = current_task /\ next_pid' = Wrap(next_pid + 1)
  BY DEF Spawn
<1>3. /\ next' \in [Node -> Node \cup {NULL}]
      /\ next'[n] = queue_base /\ next'[queue_head] = n
      /\ \A k \in Node \ {n, queue_head} : next'[k] = next[k]
  BY <1>1, <1>2 DEF IInv, TypeOK, LinkedNext
<1>4. /\ prev' \in [Node -> Node \cup {NULL}] /\ prev'[n] = queue_head
      /\ \A k \in Node \ {n} : prev'[k] = prev[k]
  BY <1>1, <1>2 DEF IInv, TypeOK
<1>5. NextInOrder'
  <2> HIDE DEF n
  <2>1. n \in Nat /\ \A k \in live : k \in Nat
    BY <1>1
  <2>2. queue_base \in live' /\ n \in live' /\ next'[n] = queue_base
    BY <1>1, <1>2, <1>3 DEF NextInOrder
  <2>3. \A k \in live' : k <= n
    BY <1>1, <1>2, <2>1
  <2>4. ASSUME NEW k \in live
        PROVE  /\ next'[k] \in live' /\ k < next'[k]
               /\ \A j \in live' : j <= k \/ next'[k] <= j
    <3>1. CASE k = queue_head
      BY <3>1, <1>1, <1>2, <1>3, <2>1 DEF NextInOrder
    <3>2. CASE k # queue_head
      <4>1. next'[k] = next[k]
        BY <3>2, <1>1, <1>3, <2>4
      <4>2. next[k] \in live /\ k < next[k] /\ \A j \in live : j <= k \/ next[k] <= j
        BY <3>2, <1>1, <2>4 DEF NextInOrder
      <4>3. next[k] <= n
        <5>1. next[k] \in Nat /\ next[k] < n
          BY <1>1, <2>1, <4>2
        <5>2. QED
          BY <5>1, <2>1
      <4>4. QED
        BY <4>1, <4>2, <4>3, <1>2
    <3>3. QED
      BY <3>1, <3>2
  <2>5. QED
    BY <1>2, <2>2, <2>3, <2>4 DEF NextInOrder
<1>6. PrevInverse'
  <2> HIDE DEF n
  <2>1. ASSUME NEW k \in live' \ {queue_base}
        PROVE  prev'[k] \in live' /\ prev'[k] < k /\ next'[prev'[k]] = k
    <3>1. CASE k = n
      BY <3>1, <1>1, <1>2, <1>3, <1>4
    <3>2. CASE k # n
      <4>1. k \in live \ {queue_base} /\ k \in Node /\ prev'[k] = prev[k]
        BY <3>2, <1>1, <1>2, <1>4
      <4>2. prev[k] \in live /\ prev[k] < k /\ next[prev[k]] = k
        BY <4>1, <1>1 DEF PrevInverse
      <4>3. prev[k] # queue_head /\ prev[k] # n
        BY <4>1, <4>2, <1>1 DEF NextInOrder
      <4>4. next'[prev[k]] = next[prev[k]]
        BY <4>2, <4>3, <1>1, <1>3
      <4>5. QED
        BY <4>1, <4>2, <4>4, <1>2
    <3>3. QED
      BY <3>1, <3>2
  <2>2. QED
    BY <2>1 DEF PrevInverse
<1>7. mode' = mode
  <2>1. SUFFICES ASSUME locate_proc(pid', next', pid'[n]) = NULL PROVE FALSE
    BY <1>1, <1>2 DEF Spawn, IInv, TypeOK
  <2>2. \A k \in live' \ {queue_base} : \E q \in live' : q < k /\ next'[q] = k
    BY <1>2, <1>6 DEF PrevInverse
  <2>3. live' \in SUBSET Node
    BY <1>1, <1>2
  <2>4. QED
    <3>1. \A k \in live' : pid'[k] # pid'[n]
      BY <2>1, <2>2, <2>3, LocateMissesNone
    <3>2. QED
      BY <1>2, <3>1
<1>8. TypeOK'
  <2>1. pid' \in [Node -> PID_T] /\ next_pid' \in PID_T
    BY <1>1, <1>2, WrapType DEF IInv, TypeOK
  <2>2. perm' \in [Node -> SUBSET Perm] /\ state' \in [Node -> {"READY", "RUNNING"}]
    BY <1>1, <1>2 DEF IInv, TypeOK
  <2>3. QED
    BY <1>1, <1>2, <1>3, <1>4, <1>7, <2>1, <2>2 DEF IInv, TypeOK
<1>9. CurrentInv'
  <2>1. \A k \in live' : state'[k] = "RUNNING" => k = current_task'
    BY <1>1, <1>2 DEF IInv, TypeOK, CurrentInv
  <2>2. mode' = "user" => current_task' \in live'
    BY <1>2, <1>7 DEF IInv, CurrentInv
  <2>3. mode' = "dying" => current_task' \notin live' /\ next'[current_task'] \in live'
    <3>1. SUFFICES ASSUME mode = "dying"
                   PROVE  current_task \notin live' /\ next'[current_task] \in live'
      BY <1>2, <1>7
    <3>2. current_task # n
      BY <1>1 DEF IInv, TypeOK
    <3>3. QED
      BY <3>1, <3>2, <1>1, <1>2, <1>3 DEF IInv, CurrentInv, TypeOK
  <2>4. QED
    BY <2>1, <2>2, <2>3 DEF CurrentInv
<1>10. pid'[queue_base] = 1 /\ current_task' <= nalloc'
  BY <1>1, <1>2 DEF IInv, TypeOK, NextInOrder
<1>11. QED
  BY <1>5, <1>6, <1>7, <1>8, <1>9, <1>10 DEF IInv, RingInv

\* An exit that went through: the running process is gone, no other has its
\* PID, and queue_head is the newest process left.
Exited ==
  /\ current_task \in live /\ current_task # queue_base
  /\ live' = live \ {current_task} /\ nalloc' = nalloc /\ pid' = pid
  /\ \A k \in live' : pid[k] # pid[current_task]
  /\ queue_head' = IF current_task = queue_head THEN prev[current_task] ELSE queue_head
  /\ next_pid' = NextPidAfterKill(pid[current_task], queue_head')

\* exit unlinks the running process, or trips the ASSERT of kill.
LEMMA KillIInv ==
  ASSUME IInv, mode = "user", Exit
  PROVE  IInv' /\ (Up' => Exited)
<1> DEFINE p == pid[current_task]
           c == locate_proc(pid, next, p)
<1> USE NodeFacts
<1>1. TypeOK /\ NextInOrder /\ PrevInverse /\ CurrentInv
  BY DEF IInv, RingInv, Up
<1>2. /\ ~ KillRefused(p) /\ live' = live \ {c} /\ next' = UnlinkedNext(c)
      /\ prev' = UnlinkedPrev(c) /\ queue_head' = HeadAfterKill(p, c)
      /\ next_pid' = NextPidAfterKill(p, queue_head')
      /\ nalloc' = nalloc /\ pid' = pid /\ perm' = perm /\ state' = state
      /\ \/ Destroyed(p, next') /\ mode' = "dying" /\ current_task' = c
         \/ ~ Destroyed(p, next') /\ mode' = "assert_kill" /\ current_task' = current_task
  BY DEF Exit, Kill
<1>3. c \in live \ {queue_base} /\ pid[c] = p
  <2>1. Matches(pid, next, p) # {}
    BY <1>2, LocateResult DEF KillRefused
  <2>2. c \in Examined(pid, next, p) /\ pid[c] = p
    BY <2>1, LocateResult
  <2>3. Examined(pid, next, p) \subseteq live
    <3>1. live \in SUBSET Node /\ queue_base \in live
      BY <1>1 DEF TypeOK, NextInOrder
    <3>2. QED
      BY <1>1, <3>1, RingReach, ExaminedStaysInside
  <2>4. p # 1
    BY <1>2 DEF KillRefused
  <2>5. QED
    BY <2>2, <2>3, <2>4 DEF IInv
<1> HIDE DEF c, p
<1>4. /\ prev[c] \in live /\ prev[c] < c /\ next[prev[c]] = c
      /\ next[c] \in live /\ c \in Node /\ prev[c] \in Node /\ next[c] \in Node
      /\ c \in Nat /\ prev[c] \in Nat /\ next[c] \in Nat
  <2>1. /\ prev[c] \in live /\ prev[c] < c /\ next[prev[c]] = c
        /\ next[c] \in live /\ c \in Node /\ prev[c] \in Node /\ next[c] \in Node
    BY <1>1, <1>3, RingReach DEF PrevInverse, TypeOK
  <2>2. QED
    BY <2>1
<1>5. /\ next' \in [Node -> Node \cup {NULL}] /\ next'[prev[c]] = next[c]
      /\ \A k \in Node \ {prev[c]} : next'[k] = next[k]
  BY <1>1, <1>2, <1>4 DEF TypeOK, UnlinkedNext
<1>6. next'[c] = next[c]
  BY <1>4, <1>5
<1>7. /\ prev' \in [Node -> Node \cup {NULL}] /\ prev'[next[c]] = prev[c]
      /\ \A k \in Node \ {next[c]} : prev'[k] = prev[k]
  BY <1>1, <1>2, <1>4, <1>6 DEF TypeOK, UnlinkedPrev
<1>8. ASSUME NEW k \in live' \ {queue_base}
      PROVE  /\ prev'[k] \in live' /\ prev'[k] < k /\ next'[prev'[k]] = k
  <2>1. /\ k \in live /\ k # c /\ k \in Node
        /\ prev[k] \in live /\ prev[k] < k /\ next[prev[k]] = k /\ prev[k] \in Node
    BY <1>1, <1>2 DEF TypeOK, PrevInverse
  <2>2. CASE k = next[c]
    <3>1. prev[k] = c
      <4>1. c # queue_head
        BY <1>1, <2>2 DEF NextInOrder
      <4>2. c < k /\ (prev[k] <= c \/ k <= prev[k])
        BY <1>1, <1>3, <2>1, <2>2, <4>1 DEF NextInOrder
      <4>3. prev[k] # queue_head
        BY <1>1, <2>1 DEF NextInOrder
      <4>4. c <= prev[k] \/ k <= c
        BY <1>1, <1>3, <2>1, <4>3 DEF NextInOrder
      <4>5. c \in Nat /\ k \in Nat /\ prev[k] \in Nat
        BY <1>4, <2>1
      <4>6. QED
        BY <2>1, <4>2, <4>4, <4>5
    <3>2. prev'[k] = prev[c] /\ next'[prev[c]] = k
      BY <2>2, <1>5, <1>7
    <3>3. prev[c] # c /\ prev[c] < k
      <4>1. k \in Nat /\ c < k
        BY <2>1, <3>1
      <4>2. QED
        BY <4>1, <1>4
    <3>4. QED
      BY <1>2, <1>4, <3>2, <3>3
  <2>3. CASE k # next[c]
    <3>1. prev'[k] = prev[k]
      BY <2>1, <2>3, <1>7
    <3>2. prev[k] # c
      BY <2>1, <2>3
    <3>3. prev[k] # prev[c]
      BY <2>1, <1>4
    <3>4. next'[prev[k]] = next[prev[k]]
      BY <2>1, <3>3, <1>5
    <3>5. QED
      BY <1>2, <2>1, <3>1, <3>2, <3>4
  <2>4. QED
    BY <2>2, <2>3
<1>9. TypeOK'
  <2>1. queue_head' \in Node
    <3>1. CASE p = pid[queue_head]
      <4>1. queue_head' = prev'[queue_head]
        BY <1>2, <3>1 DEF HeadAfterKill
      <4>2. queue_head # queue_base
        BY <1>2, <3>1 DEF IInv, KillRefused
      <4>3. queue_head \in live /\ queue_head \in Node /\ prev[queue_head] \in Node
        BY <1>1, <4>2 DEF NextInOrder, PrevInverse, TypeOK
      <4>4. QED
        BY <4>1, <4>3, <1>4, <1>7
    <3>2. CASE p # pid[queue_head]
      BY <1>1, <1>2, <3>2 DEF HeadAfterKill, TypeOK
    <3>3. QED
      BY <3>1, <3>2
  <2>2. next_pid' \in PID_T
    <3>1. next_pid \in PID_T /\ Wrap(next_pid - 1) \in PID_T
      BY <1>1, WrapType DEF TypeOK
    <3>2. Wrap(Wrap(next_pid - 1) - 1) \in PID_T
      BY <3>1, WrapType
    <3>3. QED
      BY <1>2, <3>1, <3>2, WrapType DEF NextPidAfterKill
  <2>3. current_task' \in Node /\ mode' \in Mode /\ live' \subseteq Node
    BY <1>1, <1>2, <1>4 DEF TypeOK, Mode
  <2>4. QED
    BY <1>1, <1>2, <1>5, <1>7, <2>1, <2>2, <2>3 DEF TypeOK
<1>10. pid'[queue_base] = 1 /\ current_task' <= nalloc'
  BY <1>1, <1>2, <1>3 DEF IInv, NextInOrder
<1>11. CASE mode' = "assert_kill"
  BY <1>9, <1>10, <1>11 DEF IInv, RingInv, CurrentInv, Up
<1>12. CASE mode' = "dying"
  <2>1. Destroyed(p, next') /\ current_task' = c
    BY <1>2, <1>12
  <2>2. \A k \in live' : pid[k] # p
    <3>1. \A k \in live' \ {queue_base} : \E q \in live' : q < k /\ next'[q] = k
      BY <1>8
    <3>2. live' \in SUBSET Node
      BY <1>9 DEF TypeOK
    <3>3. QED
      BY <2>1, <3>1, <3>2, LocateMissesNone DEF Destroyed
  <2>3. c = current_task
    BY <2>2, <1>1, <1>2 DEF CurrentInv, p
  <2>4. queue_head' = IF c = queue_head THEN prev[c] ELSE queue_head
    <3>1. CASE c = queue_head
      <4>1. next[c] = queue_base
        BY <3>1, <1>1 DEF NextInOrder
      <4>2. prev'[queue_head] = prev[c]
        BY <3>1, <4>1, <1>3, <1>4, <1>7
      <4>3. QED
        BY <3>1, <4>2, <1>2, <1>3 DEF HeadAfterKill
    <3>2. CASE c # queue_head
      <4>1. queue_head \in live'
        BY <3>2, <1>1, <1>2 DEF NextInOrder
      <4>2. QED
        BY <3>2, <4>1, <2>2, <1>2 DEF HeadAfterKill
    <3>3. QED
      BY <3>1, <3>2
  <2>5. NextInOrder'
    <3>1. live' = live \ {c} /\ nalloc' = nalloc /\ queue_base \in live'
      BY <1>1, <1>2, <1>3 DEF NextInOrder
    <3>2. queue_head' \in live' /\ next'[queue_head'] = queue_base
      <4>1. CASE c = queue_head
        <5>1. next[c] = queue_base /\ prev[c] # c
          BY <4>1, <1>1, <1>4 DEF NextInOrder
        <5>2. QED
          BY <5>1, <4>1, <2>4, <3>1, <1>4, <1>5
      <4>2. CASE c # queue_head
        <5>1. queue_head \in live /\ next[queue_head] = queue_base /\ queue_head \in Node
          BY <1>1 DEF NextInOrder, TypeOK
        <5>2. prev[c] # queue_head
          BY <5>1, <1>3, <1>4
        <5>3. QED
          BY <4>2, <5>1, <5>2, <2>4, <3>1, <1>5
      <4>3. QED
        BY <4>1, <4>2
    <3>3. ASSUME NEW n \in live' PROVE n <= queue_head' /\ n <= nalloc
      <4>1. n \in live /\ n # c /\ n <= queue_head /\ n <= nalloc /\ n \in Node
        BY <1>1, <3>1 DEF NextInOrder, TypeOK
      <4>2. CASE c = queue_head
        <5>1. prev[c] # queue_head
          BY <4>2, <1>4
        <5>2. n <= prev[c] \/ c <= n
          BY <4>1, <5>1, <1>1, <1>4 DEF NextInOrder
        <5>3. n \in Nat /\ n < c
          BY <4>1, <4>2, <1>4
        <5>4. QED
          BY <4>1, <4>2, <5>2, <5>3, <2>4, <1>4
      <4>3. CASE c # queue_head
        BY <4>1, <4>3, <2>4
      <4>4. QED
        BY <4>2, <4>3
    <3>4. ASSUME NEW n \in live' \ {queue_head'}
          PROVE  /\ next'[n] \in live' /\ n < next'[n]
                 /\ \A k \in live' : k <= n \/ next'[n] <= k
      <4>1. n \in live /\ n # c /\ n \in Node /\ n # queue_head
        <5>1. n \in live /\ n # c /\ n \in Node
          BY <1>1, <3>1 DEF TypeOK
        <5>2. QED
          BY <5>1, <2>4, <3>4
      <4>2. next[n] \in live /\ n < next[n] /\ \A k \in live : k <= n \/ next[n] <= k
        BY <4>1, <1>1 DEF NextInOrder
      <4>3. CASE n = prev[c]
        <5>1. c # queue_head /\ next'[n] = next[c] /\ next[n] = c
          BY <4>1, <4>3, <3>4, <2>4, <1>4, <1>5
        <5>2. next[c] \in live /\ c < next[c] /\ \A k \in live : k <= c \/ next[c] <= k
          BY <5>1, <1>1, <1>3 DEF NextInOrder
        <5>3. ASSUME NEW k \in live' PROVE k <= n \/ next[c] <= k
          <6>1. k \in live /\ k # c /\ k \in Nat /\ c \in Nat
            BY <3>1, <1>1, <1>4 DEF TypeOK
          <6>2. QED
            BY <6>1, <4>2, <5>1, <5>2
        <5>4. n < next[c] /\ next[c] # c
          <6>1. n \in Nat /\ n < c
            BY <4>1, <4>2, <5>1
          <6>2. QED
            BY <6>1, <5>2, <1>4
        <5>5. QED
          BY <5>1, <5>2, <5>3, <5>4, <3>1
      <4>4. CASE n # prev[c]
        <5>1. next'[n] = next[n]
          BY <4>1, <4>4, <1>5
        <5>2. next[n] # c
          <6>1. SUFFICES ASSUME next[n] = c PROVE FALSE
            OBVIOUS
          <6>2. prev[c] <= n \/ c <= prev[c]
            BY <4>2, <6>1, <1>4
          <6>3. n <= prev[c] \/ c <= n
            <7>1. prev[c] # queue_head
              BY <1>1, <1>3, <1>4 DEF NextInOrder
            <7>2. QED
              BY <4>1, <7>1, <1>1, <1>4 DEF NextInOrder
          <6>4. QED
            <7>1. n \in Nat /\ n < c
              BY <4>1, <4>2, <6>1
            <7>2. QED
              BY <7>1, <4>4, <6>2, <6>3, <1>4
        <5>3. QED
          BY <5>1, <5>2, <4>2, <3>1
      <4>5. QED
        BY <4>3, <4>4
    <3>5. QED
      BY <3>1, <3>2, <3>3, <3>4 DEF NextInOrder
  <2>6. PrevInverse'
    BY <1>8 DEF PrevInverse
  <2>7. CurrentInv'
    <3>1. next'[c] \in live'
      <4>1. next[c] # c
        BY <1>1, <1>3 DEF NextInOrder, TypeOK
      <4>2. QED
        BY <4>1, <1>2, <1>4, <1>6
    <3>2. \A n \in live' : state'[n] = "RUNNING" => n = current_task'
      BY <1>1, <1>2, <1>12, <2>1, <2>3 DEF CurrentInv, Up
    <3>3. QED
      BY <1>2, <1>12, <2>1, <3>1, <3>2 DEF CurrentInv
  <2>8. Exited
    BY <1>2, <1>3, <2>2, <2>3, <2>4 DEF Exited, p
  <2>9. QED
    BY <1>9, <1>10, <2>5, <2>6, <2>7, <2>8 DEF IInv, RingInv
<1>13. QED
  BY <1>2, <1>11, <1>12

\* switch_task moves along `next', from a living struct or from the one kill
\* just freed, to a living one.
LEMMA TickIInv ==
  ASSUME IInv, Tick
  PROVE  IInv' /\ Up' /\ live' = live /\ mode' # "assert_spawn"
<1> USE NodeFacts
<1>1. /\ Up /\ TypeOK /\ NextInOrder /\ PrevInverse /\ CurrentInv
      /\ current_task' = next[current_task] /\ mode' = "user" /\ Up'
      /\ state' = [state EXCEPT ![current_task] = "READY", ![next[current_task]] = "RUNNING"]
      /\ UNCHANGED <<live, nalloc, pid, next, prev, perm, queue_head, next_pid>>
  BY DEF IInv, RingInv, Tick, proc_get_next, Up
<1>2. current_task' \in live /\ current_task' \in Node
  BY <1>1, RingReach DEF Up, CurrentInv, TypeOK
<1>3. TypeOK'
  BY <1>1, <1>2 DEF TypeOK, Mode
<1>4. NextInOrder' /\ PrevInverse'
  BY <1>1 DEF NextInOrder, PrevInverse
<1>5. CurrentInv'
  <2>1. ASSUME NEW n \in live, state'[n] = "RUNNING" PROVE n = current_task'
    BY <1>1, <1>2, <2>1 DEF TypeOK, CurrentInv
  <2>2. QED
    BY <1>1, <1>2, <2>1 DEF CurrentInv
<1>6. pid'[queue_base] = 1 /\ current_task' <= nalloc'
  BY <1>1, <1>2 DEF IInv, NextInOrder
<1>7. QED
  BY <1>1, <1>3, <1>4, <1>5, <1>6 DEF IInv, RingInv

\* Every step keeps the invariant, and trips no ASSERT of _spawn.
LEMMA NextIInv ==
  ASSUME IInv, SpawnAssertHolds, [Next]_vars
  PROVE  IInv' /\ SpawnAssertHolds'
<1>1. ASSUME NEW m \in Masks, SysSpawn(m) PROVE IInv' /\ SpawnAssertHolds'
  <2>1. Up /\ m \in SUBSET Perm /\ Spawn(m)
    BY <1>1, MasksAssumption DEF SysSpawn, Up
  <2>2. QED
    BY <2>1, SpawnIInv DEF SpawnAssertHolds
<1>2. ASSUME NEW to \in live, SpawnHandler(to) PROVE IInv' /\ SpawnAssertHolds'
  <2>1. Up /\ perm[to] \in SUBSET Perm /\ Spawn(perm[to])
    BY <1>2 DEF SpawnHandler, Up, IInv, TypeOK
  <2>2. QED
    BY <2>1, SpawnIInv DEF SpawnAssertHolds
<1>3. CASE Exit
  <2>1. mode = "user" /\ mode' \in {"dying", "assert_kill"}
    BY <1>3 DEF Exit, Kill
  <2>2. QED
    BY <1>3, <2>1, KillIInv DEF SpawnAssertHolds
<1>4. CASE InitFault
  BY <1>4 DEF InitFault, IInv, TypeOK, RingInv, CurrentInv, Up, Mode, SpawnAssertHolds
<1>5. CASE Tick
  BY <1>5, TickIInv DEF SpawnAssertHolds
<1>6. CASE UNCHANGED vars
  BY <1>6 DEF vars, IInv, TypeOK, RingInv, NextInOrder, PrevInverse, CurrentInv, Up,
              SpawnAssertHolds
<1>7. QED
  BY <1>1, <1>2, <1>3, <1>4, <1>5, <1>6 DEF Next

-----------------------------------------------------------------------------
(* The theorems.                                                           *)

LEMMA InvariantProof == Spec => [](IInv /\ SpawnAssertHolds)
<1>1. Init => IInv /\ SpawnAssertHolds
  BY InitIInv DEF Init, SpawnAssertHolds
<1>2. IInv /\ SpawnAssertHolds /\ [Next]_vars => (IInv /\ SpawnAssertHolds)'
  BY NextIInv
<1>3. QED
  BY <1>1, <1>2, PTL DEF Spec

\* Fields, counters and pointers keep their types; no pointer the code
\* follows is NULL or wild.
THEOREM TypeCorrect == Spec => []TypeOK
<1>1. IInv => TypeOK
  BY DEF IInv
<1>2. QED
  BY <1>1, InvariantProof, PTL

\* The ring lists the living processes in order of creation, through every
\* order of spawns, signals, exits and ticks.
THEOREM RingIntegrity == Spec => []RingInv
<1>1. IInv => RingInv
  BY DEF IInv
<1>2. QED
  BY <1>1, InvariantProof, PTL

\* The CPU runs a living process, and the stale `next' of a process that
\* just exited still leads to one.
THEOREM CurrentIsAlive == Spec => []CurrentInv
<1>1. IInv => CurrentInv
  BY DEF IInv
<1>2. QED
  BY <1>1, InvariantProof, PTL

\* The ASSERT at the end of _spawn never fails.
THEOREM SpawnAssertNeverFails == Spec => []SpawnAssertHolds
BY InvariantProof, PTL

\* exit ends its caller and no other process, PIDs unique or not.
THEOREM ExitEndsItsCaller == Spec => OnlyCurrentDies
<1>1. IInv /\ [Next]_vars => [Up' => live \ live' \subseteq {current_task}]_vars
  <2> SUFFICES ASSUME IInv, Next, Up' PROVE live \ live' \subseteq {current_task}
    BY DEF vars
  <2>1. CASE Exit
    BY <2>1, KillIInv DEF Exit, Exited
  <2>2. CASE ~ Exit
    BY <2>2 DEF Next, SysSpawn, SpawnHandler, Spawn, InitFault, Tick
  <2>3. QED
    BY <2>1, <2>2
<1>2. QED
  BY <1>1, InvariantProof, PTL DEF Spec, OnlyCurrentDies

-----------------------------------------------------------------------------
(* The order of PIDs, while the counter cannot reach the end of PID_T.     *)

\* PidOrder, and the bound that keeps next_pid from wrapping around.
PidInv ==
  Up => /\ \A n, k \in live : n <= k => pid[n] <= pid[k]
        /\ pid[queue_head] <= next_pid /\ next_pid <= nalloc + 1

LEMMA SpawnPidInv ==
  ASSUME MaxProc < PidMax, IInv, PidInv, Up, NEW m \in SUBSET Perm, Spawn(m)
  PROVE  PidInv'
<1> USE NodeFacts
<1>1. TypeOK /\ NextInOrder /\ IInv' /\ mode' = mode
  BY SpawnIInv DEF IInv, RingInv
<1>2. /\ nalloc' = nalloc + 1 /\ nalloc < MaxProc /\ live' = live \cup {nalloc + 1}
      /\ queue_head' = nalloc + 1 /\ next_pid' = Wrap(next_pid + 1)
      /\ pid' = [pid EXCEPT ![nalloc + 1] = next_pid]
  BY DEF Spawn
<1>3. nalloc + 1 \in Node /\ nalloc \in Nat /\ MaxProc \in Nat /\ PidMax \in Nat
  BY <1>1, <1>2, BoundsAssumption DEF TypeOK, Node
<1>4. next_pid \in Int /\ \A n \in Node : pid[n] \in Int
  BY <1>1, <1>3 DEF TypeOK, PID_T
<1>5. next_pid' = next_pid + 1
  <2>1. next_pid <= nalloc + 1 /\ next_pid >= -PidMax - 1
    BY <1>1, <1>3, <1>4 DEF PidInv, TypeOK, PID_T
  <2>2. ~ (next_pid + 1 > PidMax) /\ ~ (next_pid + 1 < -PidMax - 1)
    BY <2>1, <1>2, <1>3, <1>4
  <2>3. QED
    BY <2>2, <1>2 DEF Wrap
<1>6. \A n \in live : n \in Node /\ n \in Nat /\ n <= nalloc /\ n <= queue_head
  BY <1>1 DEF TypeOK, NextInOrder
<1>7. \A n \in live : pid'[n] = pid[n] /\ pid[n] <= next_pid
  <2>1. ASSUME NEW n \in live PROVE pid'[n] = pid[n] /\ pid[n] <= next_pid
    <3>1. n # nalloc + 1 /\ n \in Node
      BY <1>3, <1>6
    <3>2. pid[n] <= pid[queue_head] /\ pid[queue_head] <= next_pid
      BY <1>1, <1>6 DEF PidInv, NextInOrder
    <3>3. pid[n] \in Int /\ pid[queue_head] \in Int
      BY <1>1, <1>4, <3>1 DEF TypeOK
    <3>4. QED
      BY <1>1, <1>2, <1>4, <3>1, <3>2, <3>3 DEF TypeOK
  <2>2. QED
    BY <2>1
<1>8. pid'[nalloc + 1] = next_pid
  BY <1>1, <1>2, <1>3 DEF TypeOK
<1>9. ASSUME NEW n \in live', NEW k \in live', n <= k PROVE pid'[n] <= pid'[k]
  <2>1. CASE n \in live /\ k \in live
    BY <2>1, <1>7, <1>9 DEF PidInv
  <2>2. CASE n \in live /\ k = nalloc + 1
    BY <2>2, <1>7, <1>8
  <2>3. CASE n = nalloc + 1
    <3>1. k = nalloc + 1
      <4>1. k \in live => k \in Nat /\ k <= nalloc
        BY <1>6
      <4>2. QED
        BY <2>3, <4>1, <1>2, <1>3, <1>9
    <3>2. QED
      BY <2>3, <3>1, <1>4, <1>8
  <2>4. QED
    BY <2>1, <2>2, <2>3, <1>2
<1>10. QED
  BY <1>2, <1>3, <1>4, <1>5, <1>8, <1>9 DEF PidInv

LEMMA KillPidInv ==
  ASSUME MaxProc < PidMax, IInv, PidInv, mode = "user", Exit
  PROVE  PidInv'
<1> USE NodeFacts
<1>1. SUFFICES ASSUME Up' PROVE PidInv'
  BY DEF PidInv
<1>2. IInv' /\ Exited
  BY <1>1, KillIInv
<1>3. TypeOK /\ NextInOrder /\ NextInOrder' /\ Up
  BY <1>1, <1>2 DEF IInv, RingInv, Up
<1>4. /\ current_task \in live /\ live' \subseteq live /\ pid' = pid /\ nalloc' = nalloc
      /\ \A k \in live' : pid[k] # pid[current_task]
      /\ next_pid' = NextPidAfterKill(pid[current_task], queue_head')
  BY <1>2 DEF Exited
<1>5. /\ next_pid \in Int /\ nalloc \in Nat /\ PidMax \in Nat /\ MaxProc \in Nat
      /\ \A n \in live : n \in Nat /\ pid[n] \in Int /\ n <= queue_head /\ n <= nalloc
      /\ nalloc <= MaxProc
  BY <1>3, BoundsAssumption DEF TypeOK, NextInOrder, PID_T, Node
<1>6. \A n, k \in live' : n <= k => pid'[n] <= pid'[k]
  BY <1>3, <1>4 DEF PidInv
<1>7. pid[queue_head] <= next_pid /\ next_pid <= nalloc + 1
  BY <1>3 DEF PidInv
<1>8. queue_head' \in live' /\ queue_head \in live
  BY <1>3 DEF NextInOrder
<1>9. CASE current_task = queue_head
  <2>1. pid[queue_head'] <= pid[queue_head] /\ pid[queue_head'] # pid[queue_head]
    BY <1>3, <1>4, <1>5, <1>8, <1>9 DEF PidInv
  <2>2. pid[queue_head'] \in Int /\ pid[queue_head] \in Int /\ 1 <= pid[queue_head']
    <3>1. queue_base \in live /\ pid[queue_base] = 1 /\ queue_base <= queue_head'
      BY <1>3, <1>4, <1>5, <1>8 DEF NextInOrder, IInv, queue_base, TypeOK, Node
    <3>2. QED
      BY <1>3, <1>4, <1>5, <1>8, <3>1 DEF PidInv
  <2>3. Wrap(next_pid - 1) = next_pid - 1
    BY <1>5, <1>7, <2>1, <2>2 DEF Wrap
  <2>4. Wrap(next_pid - 1 - 1) = next_pid - 2
    BY <1>5, <1>7, <2>1, <2>2 DEF Wrap
  <2>5. next_pid' = IF next_pid - 1 > pid[queue_head'] THEN next_pid - 2 ELSE next_pid - 1
    BY <1>4, <1>9, <2>3, <2>4 DEF NextPidAfterKill
  <2>6. QED
    BY <1>4, <1>5, <1>6, <1>7, <2>1, <2>2, <2>5 DEF PidInv
<1>10. CASE current_task # queue_head
  <2>1. queue_head' = queue_head
    BY <1>2, <1>10 DEF Exited
  <2>2. pid[current_task] # pid[queue_head]
    BY <1>4, <1>8, <2>1
  <2>3. next_pid' = next_pid
    BY <1>4, <2>2 DEF NextPidAfterKill
  <2>4. QED
    BY <1>4, <1>6, <1>7, <2>1, <2>3 DEF PidInv
<1>11. QED
  BY <1>9, <1>10

LEMMA NextPidInv ==
  ASSUME MaxProc < PidMax, IInv, PidInv, [Next]_vars
  PROVE  PidInv'
<1>1. ASSUME NEW m \in Masks, SysSpawn(m) PROVE PidInv'
  <2>1. Up /\ m \in SUBSET Perm /\ Spawn(m)
    BY <1>1, MasksAssumption DEF SysSpawn, Up
  <2>2. QED
    BY <2>1, SpawnPidInv
<1>2. ASSUME NEW to \in live, SpawnHandler(to) PROVE PidInv'
  <2>1. Up /\ perm[to] \in SUBSET Perm /\ Spawn(perm[to])
    BY <1>2 DEF SpawnHandler, Up, IInv, TypeOK
  <2>2. QED
    BY <2>1, SpawnPidInv
<1>3. CASE Exit
  BY <1>3, KillPidInv DEF Exit
<1>4. CASE InitFault
  BY <1>4 DEF InitFault, PidInv, Up
<1>5. CASE Tick
  BY <1>5 DEF Tick, PidInv, Up
<1>6. CASE UNCHANGED vars
  BY <1>6 DEF vars, PidInv, Up
<1>7. QED
  BY <1>1, <1>2, <1>3, <1>4, <1>5, <1>6 DEF Next

\* PIDs follow the order of creation, however processes end, so that the
\* range checks of kill never refuse a living process; as long as fewer
\* processes are created than PID_T has positive values.
THEOREM PidsInOrder ==
  ASSUME MaxProc < PidMax
  PROVE  Spec => []PidOrder
<1>1. Init => PidInv
  BY NodeFacts DEF Init, PidInv, queue_base
<1>2. IInv /\ PidInv /\ [Next]_vars => PidInv'
  BY NextPidInv
<1>3. IInv /\ PidInv => PidOrder
  BY DEF IInv, PidInv, PidOrder
<1>4. QED
  BY <1>1, <1>2, <1>3, InvariantProof, PTL DEF Spec

\* As long as the counter cannot overflow, kill turns away no running process
\* but one with PID 1, whatever spawned and ended before.
THEOREM ExitsAccepted ==
  ASSUME MaxProc < PidMax
  PROVE  Spec => []ExitAccepted
<1>1. ASSUME IInv, PidOrder PROVE ExitAccepted
  <2> DEFINE p == pid[current_task]
  <2>1. SUFFICES ASSUME mode = "user", p # 1 PROVE ~ KillRefused(p)
    BY DEF ExitAccepted
  <2>2. Up /\ TypeOK /\ NextInOrder /\ PrevInverse /\ current_task \in live
    BY <1>1, <2>1 DEF Up, IInv, RingInv, CurrentInv
  <2>3. /\ live \subseteq Node /\ queue_base \in live /\ queue_head \in live
        /\ current_task <= queue_head /\ queue_base <= current_task
    <3>1. live \subseteq Node /\ queue_base \in live /\ queue_head \in live
          /\ current_task <= queue_head
      BY <2>2 DEF TypeOK, NextInOrder
    <3>2. queue_base <= current_task
      BY <2>2, <3>1, BoundsAssumption DEF Node, queue_base
    <3>3. QED
      BY <3>1, <3>2
  <2>4. 1 <= p /\ p <= pid[queue_head]
    BY <1>1, <2>2, <2>3 DEF PidOrder
  <2>5. p \in Int
    BY <2>2, <2>3, BoundsAssumption DEF TypeOK, PID_T
  <2>6. locate_proc(pid, next, p) # NULL
    <3>1. SUFFICES ASSUME locate_proc(pid, next, p) = NULL PROVE FALSE
      OBVIOUS
    <3>2. \A m \in live \ {queue_base} : \E q \in live : q < m /\ next[q] = m
      BY <2>2 DEF PrevInverse
    <3>3. \A n \in live : pid[n] # p
      BY <2>3, <3>1, <3>2, LocateMissesNone
    <3>4. QED
      BY <2>2, <3>3
  <2>7. pid[queue_head] \in Int
    BY <2>2, <2>3, BoundsAssumption DEF TypeOK, PID_T
  <2>8. QED
    BY <2>1, <2>4, <2>5, <2>6, <2>7 DEF KillRefused
<1>2. QED
  BY <1>1, PidsInOrder, InvariantProof, PTL
=============================================================================
