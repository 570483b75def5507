---------------------------- MODULE SpaceProofs ----------------------------
(* Proofs about AddressSpace, for every number of processes and frames and *)
(* every number of frames that a spawn takes; then that the process queue  *)
(* is a round robin, step by step.                                         *)
EXTENDS MCProcQueue, ProcQueueProofs

SpaceTypeOK ==
  /\ free \subseteq Nat
  /\ cr3 \in [Node -> Nat] /\ parent \in [Node -> Node \cup {NULL}]

SInv == IInv /\ SpaceTypeOK /\ SpaceOwned

\* Handlers are children of programs, and what is allocated is live for the
\* first time: the numbers of structs are not reused.
LEMMA NewStruct ==
  ASSUME SInv, Up, NEW m, Spawn(m)
  PROVE  /\ nalloc + 1 \in Node /\ nalloc + 1 \notin live /\ live \subseteq Node
         /\ live' = live \cup {nalloc + 1}
<1>1. TypeOK /\ NextInOrder
  BY DEF SInv, IInv, RingInv
<1>2. nalloc < MaxProc /\ live' = live \cup {nalloc + 1}
  BY DEF Spawn
<1>3. nalloc + 1 \in Node
  BY <1>1, <1>2, BoundsAssumption DEF TypeOK, Node
<1>4. \A n \in live : n <= nalloc
  BY <1>1 DEF NextInOrder
<1>5. nalloc + 1 \notin live
  BY <1>1, <1>4 DEF TypeOK, Node
<1>6. QED
  BY <1>1, <1>2, <1>3, <1>5 DEF TypeOK

LEMMA SpawnSpaceOwned ==
  ASSUME SInv, NEW m \in Masks, SpawnSpace(m)
  PROVE  SpaceTypeOK' /\ SpaceOwned'
<1> DEFINE n == nalloc + 1
<1>1. n \in Node /\ n \notin live /\ live \subseteq Node /\ live' = live \cup {n}
  BY NewStruct DEF SpawnSpace, SysSpawn, Up
<1>2. PICK k \in Pages : \E f \in Taken(k + 1) :
        Take(k + 1) /\ cr3' = [cr3 EXCEPT ![n] = f] /\ UNCHANGED <<parent, stray>>
  BY DEF SpawnSpace
<1>2a. PICK f \in Taken(k + 1) :
        Take(k + 1) /\ cr3' = [cr3 EXCEPT ![n] = f] /\ UNCHANGED <<parent, stray>>
  BY <1>2
<1>3. free' = free \ Taken(k + 1) /\ f \in free /\ f \notin free' /\ f \in Nat
  BY <1>2a DEF Take, Taken, Ahead, SInv, SpaceTypeOK
<1> HIDE DEF n
<1>4. SpaceTypeOK'
  BY <1>1, <1>2a, <1>3 DEF SInv, SpaceTypeOK
<1>5. cr3'[n] = f /\ \A j \in live : j # n /\ cr3'[j] = cr3[j]
  BY <1>1, <1>2a DEF SInv, SpaceTypeOK
<1>6. \A j : Root(j)' = Root(j)
  BY <1>2a DEF Root
<1>7. ASSUME NEW j \in live, cr3[j] \notin stray
      PROVE  /\ cr3[j] \notin free /\ cr3[j] # f
             /\ \A i \in live : cr3[i] = cr3[j] => Root(i) = Root(j)
  BY <1>3, <1>7 DEF SInv, SpaceOwned
<1>8. SUFFICES ASSUME NEW j \in live', cr3'[j] \notin stray'
               PROVE  /\ cr3'[j] \notin free'
                      /\ \A i \in live' : cr3'[i] = cr3'[j] => Root(i)' = Root(j)'
  BY <1>4 DEF SpaceOwned
<1>9. CASE j = n
  BY <1>1, <1>2a, <1>3, <1>5, <1>7, <1>8, <1>9
<1>10. CASE j # n
  BY <1>1, <1>2a, <1>3, <1>5, <1>6, <1>7, <1>8, <1>10
<1>11. QED
  BY <1>9, <1>10

LEMMA HandlerSpaceOwned ==
  ASSUME SInv, NEW to \in live, HandlerSpace(to)
  PROVE  SpaceTypeOK' /\ SpaceOwned'
<1>0. PICK n : n = nalloc + 1
  OBVIOUS
<1>1. n \in Node /\ n \notin live /\ live \subseteq Node /\ live' = live \cup {n}
  BY <1>0, NewStruct DEF HandlerSpace, SpawnHandler, Up
<1>2. /\ parent[to] = NULL /\ free' \subseteq free /\ UNCHANGED stray
      /\ cr3' = [cr3 EXCEPT ![n] = cr3[to]] /\ parent' = [parent EXCEPT ![n] = to]
  BY <1>0 DEF HandlerSpace, Take
<1>3. SpaceTypeOK'
  BY <1>1, <1>2 DEF SInv, SpaceTypeOK
<1>4. /\ cr3'[n] = cr3[to] /\ parent'[n] = to
      /\ \A j \in live : j # n /\ cr3'[j] = cr3[j] /\ parent'[j] = parent[j]
  BY <1>1, <1>2 DEF SInv, SpaceTypeOK
<1>5. /\ Root(n)' = to /\ Root(to) = to
      /\ \A j \in live : Root(j)' = Root(j)
  <2>1. to \in live /\ to # NULL /\ to # n
    BY <1>1, NodeFacts
  <2>2. Root(to) = to
    BY <1>2 DEF Root
  <2>3. Root(n)' = to
    BY <1>4, <2>1 DEF Root
  <2>4. ASSUME NEW j \in live PROVE Root(j)' = Root(j)
    BY <1>4 DEF Root
  <2>5. QED
    BY <2>2, <2>3, <2>4
<1>6. ASSUME NEW j \in live, cr3[j] \notin stray
      PROVE  /\ cr3[j] \notin free
             /\ \A i \in live : cr3[i] = cr3[j] => Root(i) = Root(j)
  BY <1>6 DEF SInv, SpaceOwned
<1>7. SUFFICES ASSUME NEW j \in live', cr3'[j] \notin stray'
               PROVE  /\ cr3'[j] \notin free'
                      /\ \A i \in live' : cr3'[i] = cr3'[j] => Root(i)' = Root(j)'
  BY <1>3 DEF SpaceOwned
<1>8. CASE j = n
  <2>1. cr3[to] \notin stray /\ cr3'[j] = cr3[to] /\ Root(j)' = to
    BY <1>2, <1>4, <1>5, <1>7, <1>8
  <2>2. cr3[to] \notin free'
    BY <1>2, <1>6, <2>1
  <2>3. \A i \in live : cr3'[i] = cr3[to] => Root(i)' = to
    BY <1>4, <1>5, <1>6, <2>1
  <2>4. QED
    BY <1>1, <1>5, <2>1, <2>2, <2>3
<1>9. CASE j # n
  <2>1. j \in live /\ cr3'[j] = cr3[j] /\ cr3[j] \notin stray /\ Root(j)' = Root(j)
    BY <1>1, <1>2, <1>4, <1>5, <1>7, <1>9
  <2>2. cr3[j] \notin free'
    BY <1>2, <1>6, <2>1
  <2>3. \A i \in live : cr3'[i] = cr3[j] => Root(i)' = Root(j)
    BY <1>4, <1>5, <1>6, <2>1
  <2>4. cr3'[n] = cr3[j] => Root(n)' = Root(j)
    BY <1>4, <1>5, <1>6, <2>1
  <2>5. QED
    BY <1>1, <2>1, <2>2, <2>3, <2>4
<1>10. QED
  BY <1>8, <1>9

\* kill marks everybody else who has the frame it frees as astray.
LEMMA ExitSpaceOwned ==
  ASSUME SInv, ExitSpace
  PROVE  SpaceTypeOK' /\ SpaceOwned'
<1>1. PICK c :
        /\ live' = live \ {c} /\ free' = free \cup {cr3[c]}
        /\ stray' = stray \cup {cr3[k] : k \in {j \in live \ {c} : cr3[j] = cr3[c]}}
        /\ UNCHANGED <<cr3, parent>> /\ c \in Node
  <2> DEFINE c == locate_proc(pid, next, pid[current_task])
  <2>1. c # NULL /\ live' = live \ {c}
    BY DEF ExitSpace, Exit, Kill, KillRefused
  <2>2. c \in Node
    BY <2>1, LocateResult DEF Matches, Examined
  <2>3. QED
    BY <2>1, <2>2 DEF ExitSpace
<1>2. SpaceTypeOK'
  BY <1>1 DEF SInv, SpaceTypeOK
<1>3. SpaceOwned'
  BY <1>1 DEF SInv, SpaceOwned, Root
<1>4. QED
  BY <1>2, <1>3

LEMMA NextSInv ==
  ASSUME SInv, SpawnAssertHolds, [SpaceNext]_all
  PROVE  SInv' /\ SpawnAssertHolds'
<1>1. [Next]_vars
  BY DEF SpaceNext, Next, SpawnSpace, HandlerSpace, ExitSpace, TickSpace, all
<1>2. IInv' /\ SpawnAssertHolds'
  BY <1>1, NextIInv DEF SInv
<1>3. ASSUME live' = live, UNCHANGED frames
      PROVE  SpaceTypeOK' /\ SpaceOwned'
  <2>1. UNCHANGED <<live, free, cr3, parent, stray>>
    BY <1>3 DEF frames
  <2>2. QED
    BY <2>1 DEF SInv, SpaceTypeOK, SpaceOwned, Root
<1>4. (InitFault /\ UNCHANGED frames) \/ TickSpace \/ UNCHANGED all
        => live' = live /\ UNCHANGED frames
  BY DEF InitFault, TickSpace, Tick, all, vars
<1>6. SpaceTypeOK' /\ SpaceOwned'
  BY <1>3, <1>4, SpawnSpaceOwned, HandlerSpaceOwned, ExitSpaceOwned
     DEF SpaceNext, SInv
<1>7. QED
  BY <1>2, <1>6 DEF SInv

LEMMA SInvInit == SpaceInit => SInv /\ SpawnAssertHolds
<1> SUFFICES ASSUME SpaceInit PROVE SInv /\ SpawnAssertHolds
  OBVIOUS
<1>1. IInv /\ SpawnAssertHolds
  BY InitIInv DEF SpaceInit, Init, SpawnAssertHolds
<1>2. SpaceTypeOK
  BY AddressAssumption DEF SpaceInit, SpaceTypeOK
<1>3. SpaceOwned
  BY AddressAssumption, NodeFacts DEF SpaceInit, Init, SpaceOwned
<1>4. QED
  BY <1>1, <1>2, <1>3 DEF SInv

\* The top page table of a living program is not free and no other program's,
\* in every order of spawns, signals and exits, unless a handler and its
\* parent ended apart: _spawn, psignal_exec_callback, kill.
THEOREM SpacesOwned == SpaceSpec => []SpaceOwned
<1>1. SInv /\ SpawnAssertHolds /\ [SpaceNext]_all => (SInv /\ SpawnAssertHolds)'
  BY NextSInv
<1>2. SInv => SpaceOwned
  BY DEF SInv
<1>3. QED
  BY <1>1, <1>2, SInvInit, PTL DEF SpaceSpec

-----------------------------------------------------------------------------
(* The round robin.                                                        *)

\* The least of some numbers, the way RoundRobin names it.
LEMMA LeastOf ==
  ASSUME NEW S, NEW m \in S, \A k \in S : k \in Nat /\ m <= k
  PROVE  Abstract!Min(S) = m
<1>1. \A x \in S : (\A y \in S : x <= y) => x = m
  OBVIOUS
<1>2. QED
  BY <1>1 DEF Abstract!Min

\* A walk along an intact ring comes through every living process.
LEMMA RingIsLive ==
  ASSUME IInv, Up
  PROVE  Ring = live
<1>1. TypeOK /\ NextInOrder /\ PrevInverse /\ queue_base \in live /\ live \subseteq Node
  BY DEF IInv, RingInv, NextInOrder, TypeOK
<1>2. /\ \A k \in live : next[k] \in live
      /\ \A m \in live \ {queue_base} : \E q \in live : q < m /\ next[q] = m
  BY <1>1, RingReach
<1>3. Ring \subseteq live
  BY <1>1, <1>2 DEF Ring
<1>4. ASSUME NEW S \in SUBSET Node, queue_base \in S, \A k \in S : next[k] \in S
      PROVE  live \subseteq S
  <2> DEFINE missed == live \ S
  <2>1. SUFFICES ASSUME missed # {} PROVE FALSE
    OBVIOUS
  <2>2. missed \in SUBSET Nat
    BY <1>1, NodeFacts
  <2>3. PICK m \in missed : \A k \in missed : m <= k
    BY <2>1, <2>2, LeastElement
  <2>4. PICK q \in live : q < m /\ next[q] = m
    BY <1>2, <1>4, <2>3
  <2>5. q \in S
    <3>1. q \in Nat /\ m \in Nat
      BY <1>1, <2>2, <2>3, NodeFacts
    <3>2. QED
      BY <2>3, <2>4, <3>1
  <2>6. QED
    BY <1>4, <2>3, <2>4, <2>5
<1>5. QED
  BY <1>1, <1>3, <1>4 DEF Ring

\* `next' of a living process is its successor in the round.
LEMMA NextIsSuccessor ==
  ASSUME IInv, mode = "user"
  PROVE  Abstract!Successor = next[current_task]
<1> DEFINE c == current_task
           younger == {n \in live : n > c}
<1>1. /\ TypeOK /\ NextInOrder /\ c \in live /\ live \subseteq Nat /\ Up
      /\ queue_base \in live /\ live \subseteq Node
  BY NodeFacts DEF IInv, RingInv, CurrentInv, Up, TypeOK, NextInOrder
<1>2. Ring = live
  BY <1>1, RingIsLive
<1>3. Abstract!Successor = Abstract!Min(IF younger = {} THEN live ELSE younger)
  BY <1>1, <1>2 DEF Abstract!Successor, Abstract!Younger
<1>4. CASE c = queue_head
  <2>1. younger = {} /\ next[c] = queue_base
    <3>1. \A k \in live : k \in Nat /\ k <= c
      BY <1>1, <1>4 DEF NextInOrder
    <3>2. c \in Nat /\ next[c] = queue_base
      BY <1>1, <1>4 DEF NextInOrder
    <3>3. QED
      BY <3>1, <3>2
  <2>2. \A k \in live : k \in Nat /\ queue_base <= k
    BY <1>1 DEF Node, queue_base
  <2>3. Abstract!Min(live) = queue_base
    BY <1>1, <2>2, LeastOf
  <2>4. QED
    BY <1>3, <2>1, <2>3
<1>5. CASE c # queue_head
  <2>1. /\ next[c] \in younger
        /\ \A k \in younger : k \in Nat /\ next[c] <= k
    BY <1>1, <1>5 DEF NextInOrder
  <2>2. Abstract!Min(younger) = next[c]
    BY <2>1, LeastOf
  <2>3. QED
    BY <1>3, <2>1, <2>2
<1>6. QED
  BY <1>4, <1>5

\* A spawn, by a program or for a signal, creates a process.
LEMMA SpawnCreates ==
  ASSUME IInv, Up, NEW m \in SUBSET Perm, Spawn(m)
  PROVE  Abstract!Create
<1> DEFINE n == nalloc + 1
<1>1. IInv' /\ mode' = mode /\ Up'
  BY SpawnIInv DEF Up
<1>2. Ring = live /\ Ring' = live'
  <2>1. Ring = live
    BY RingIsLive
  <2>2. (IInv /\ Up => Ring = live)'
    BY RingIsLive, PTL
  <2>3. QED
    BY <1>1, <2>1, <2>2
<1>3. /\ nalloc < MaxProc /\ live' = live \cup {n} /\ current_task' = current_task
      /\ next' = [next EXCEPT ![queue_head] = n, ![n] = queue_base]
  BY DEF Spawn, LinkedNext
<1>4. /\ TypeOK /\ NextInOrder /\ current_task <= nalloc /\ nalloc \in Node
      /\ live \subseteq Node /\ current_task \in Node /\ MaxProc \in Nat
  BY BoundsAssumption DEF IInv, RingInv, TypeOK
<1>5. n \in Node /\ \A k \in live \cup {current_task} : k < n
  BY <1>3, <1>4 DEF Node, NextInOrder
<1>6. mode = "dying" => next'[current_task] = next[current_task]
  <2>1. mode = "dying" => current_task # queue_head
    BY <1>4 DEF IInv, CurrentInv, NextInOrder
  <2>2. current_task # n
    BY <1>5, <1>4 DEF Node
  <2>3. QED
    BY <1>3, <1>4, <2>1, <2>2 DEF TypeOK
<1>7. QED
  BY <1>1, <1>2, <1>3, <1>5, <1>6 DEF Abstract!Create

\* An exit ends the running process and leaves it an heir, or stops the
\* machine.
LEMMA ExitEnds ==
  ASSUME IInv, mode = "user", Exit
  PROVE  Abstract!End \/ Abstract!Stop
<1>1. IInv' /\ (Up' => Exited)
  BY KillIInv
<1>2. Up /\ mode' \in {"dying", "assert_kill"}
  BY DEF Up, Exit, Kill
<1>3. CASE mode' = "assert_kill"
  <2>1. ~ Up' /\ mode' # "dying"
    BY <1>3 DEF Up
  <2>2. QED
    BY <1>2, <2>1 DEF Abstract!Stop, NULL
<1>4. CASE mode' = "dying"
  <2>1. Up' /\ Exited
    BY <1>1, <1>4 DEF Up
  <2>2. Ring = live /\ Ring' = live'
    <3>1. Ring = live
      BY <1>2, RingIsLive
    <3>2. (IInv /\ Up => Ring = live)'
      BY RingIsLive, PTL
    <3>3. QED
      BY <1>1, <2>1, <3>1, <3>2
  <2>3. /\ TypeOK /\ NextInOrder /\ PrevInverse /\ live \subseteq Node
        /\ queue_base \in live
    BY <1>2 DEF IInv, RingInv, TypeOK, NextInOrder
  <2>4. Abstract!Min(live) = queue_base
    <3>1. \A k \in live : k \in Nat /\ queue_base <= k
      BY <2>3 DEF Node, queue_base
    <3>2. QED
      BY <2>3, <3>1, LeastOf
  <2>5. current_task' = current_task /\ next'[current_task] = next[current_task]
    <3> DEFINE c == locate_proc(pid, next, pid[current_task])
    <3>1. live' = live \ {c} /\ current_task' = c /\ next' = UnlinkedNext(c)
      BY <1>4 DEF Exit, Kill
    <3>2. c \in Node
      <4>1. c # NULL
        BY DEF Exit, Kill, KillRefused
      <4>2. QED
        BY <4>1, LocateResult DEF Matches, Examined
    <3> HIDE DEF c
    <3>3. c = current_task
      BY <2>1, <3>1 DEF Exited
    <3>4. prev[c] # c
      BY <2>1, <2>3, <3>3, NodeFacts DEF PrevInverse, Exited
    <3>5. QED
      BY <2>3, <3>1, <3>3, <3>4 DEF UnlinkedNext, TypeOK
  <2>6. Abstract!Successor = next[current_task]
    BY NextIsSuccessor
  <2>7. Abstract!End
    BY <1>2, <1>4, <2>1, <2>2, <2>4, <2>5, <2>6 DEF Abstract!End, Exited
  <2>8. QED
    BY <2>7
<1>5. QED
  BY <1>2, <1>3, <1>4

\* The timer passes the CPU on.
LEMMA TickRotates ==
  ASSUME IInv, Tick
  PROVE  Abstract!Rotate
<1>1. /\ Up /\ Up' /\ mode' = "user" /\ IInv' /\ live' = live
      /\ current_task' = next[current_task]
  BY TickIInv DEF Tick, proc_get_next
<1>2. Ring = live /\ Ring' = live'
  <2>1. Ring = live
    BY <1>1, RingIsLive
  <2>2. (IInv /\ Up => Ring = live)'
    BY RingIsLive, PTL
  <2>3. QED
    BY <1>1, <2>1, <2>2
<1>3. CASE mode = "user"
  BY <1>1, <1>2, <1>3, NextIsSuccessor DEF Abstract!Rotate, NULL
<1>4. CASE mode = "dying"
  <2>1. next[current_task] # 0
    BY <1>4, NodeFacts DEF IInv, CurrentInv, TypeOK, NULL
  <2>2. QED
    BY <1>1, <1>2, <1>4, <2>1 DEF Abstract!Rotate, NULL
<1>5. QED
  BY <1>1, <1>3, <1>4 DEF Up

LEMMA RoundRobinStep ==
  ASSUME IInv, [Next]_vars
  PROVE  [Abstract!Next]_Abstract!vars
<1>1. ASSUME NEW m \in Masks, SysSpawn(m) PROVE Abstract!Create
  <2>1. Up /\ m \in SUBSET Perm /\ Spawn(m)
    BY <1>1, MasksAssumption DEF SysSpawn, Up
  <2>2. QED
    BY <2>1, SpawnCreates
<1>2. ASSUME NEW to \in live, SpawnHandler(to) PROVE Abstract!Create
  <2>1. Up /\ perm[to] \in SUBSET Perm /\ Spawn(perm[to])
    BY <1>2 DEF SpawnHandler, Up, IInv, TypeOK
  <2>2. QED
    BY <2>1, SpawnCreates
<1>3. Exit => Abstract!End \/ Abstract!Stop
  BY ExitEnds DEF Exit
<1>4. InitFault => Abstract!Stop
  BY DEF InitFault, Up, Abstract!Stop, NULL
<1>5. UNCHANGED vars => UNCHANGED Abstract!vars
  <2> SUFFICES ASSUME UNCHANGED vars PROVE UNCHANGED Abstract!vars
    OBVIOUS
  <2>1. UNCHANGED <<next, current_task, mode>>
    BY DEF vars
  <2>2. UNCHANGED Ring /\ UNCHANGED Up
    BY <2>1 DEF Ring, Up
  <2>3. QED
    BY <2>1, <2>2 DEF Abstract!vars
<1>6. QED
  BY <1>1, <1>2, <1>3, <1>4, <1>5, TickRotates DEF Next, Abstract!Next

LEMMA RoundRobinInit == Init => Abstract!Init
<1> SUFFICES ASSUME Init PROVE Abstract!Init
  OBVIOUS
<1>1. Up /\ IInv /\ mode # "dying"
  BY InitIInv DEF Init, Up
<1>2. Ring = {1}
  BY <1>1, RingIsLive DEF Init, queue_base
<1>3. QED
  BY <1>1, <1>2 DEF Init, Abstract!Init, queue_base, NULL

\* The pointers, PIDs and counters of proc.c and tasking.asm implement the
\* round robin of RoundRobin, for every number of processes and width of PIDs:
\* a spawn or a signal creates the youngest process, an exit ends the running
\* one or stops the machine, a tick passes the CPU to the next or to the heir.
THEOREM QueueIsRoundRobin == Spec => Abstract!Steps
<1>1. IInv /\ [Next]_vars => [Abstract!Next]_Abstract!vars
  BY RoundRobinStep
<1>2. QED
  BY <1>1, RoundRobinInit, InvariantProof, PTL DEF Spec, Abstract!Steps

\* The same with the page tables, which add no step.
THEOREM SpacesAreRoundRobin == SpaceSpec => Abstract!Steps
<1>1. SpaceSpec => [](SInv /\ SpawnAssertHolds)
  BY SInvInit, NextSInv, PTL DEF SpaceSpec
<1>2. SpaceInit => Init
  BY DEF SpaceInit
<1>3. [SpaceNext]_all => [Next]_vars
  BY DEF SpaceNext, Next, SpawnSpace, HandlerSpace, ExitSpace, TickSpace, all
<1>4. SInv /\ [SpaceNext]_all => [Abstract!Next]_Abstract!vars
  BY <1>3, RoundRobinStep DEF SInv
<1>5. QED
  BY <1>1, <1>2, <1>4, RoundRobinInit, PTL DEF SpaceSpec, Abstract!Steps
=============================================================================
