--------------------------- MODULE SystemProofs ---------------------------
(* Proofs about signals and the programs that use them.                    *)
(*                                                                         *)
(* Psignal: its type invariant; that handlers get no signals and no        *)
(* handlers of their own and an accepted signal stays, whatever the        *)
(* programs do; and, for programs that keep the discipline of init.sys and *)
(* shell, that index and lock agree, every handler finds its signal, and   *)
(* each queue implements a mailbox.                                        *)
(*                                                                         *)
(* System: that init.sys and shell keep that discipline; and, for keys     *)
(* that come when the shell is up, that every buffered key has one handler *)
(* underway to it, the shell is the one addressed, and the command buffer  *)
(* holds the line.                                                         *)
EXTENDS System, MCPsignal, ProcQueueProofs

-----------------------------------------------------------------------------
(* The invariant.                                                          *)

SigTypes ==
  /\ rwlock \in [Node -> {0, 1}] /\ next_index \in [Node -> 0..255]
  /\ queue \in [Node -> [Slot -> Signal \cup {Nothing}]]
  /\ signal_callback \in [Node -> BOOLEAN] /\ handler \in [Node -> BOOLEAN]
  /\ parent \in [Node -> Node \cup {NULL}]
  /\ rax \in Signal \cup {Nothing} /\ fetched \subseteq Node
  /\ accepted \in 0..MaxSignals

\* A struct that is still to be allocated is unlocked; a handler, dead or
\* alive, is locked and has a parent that is none.
Family ==
  /\ \A n \in Node : nalloc < n => rwlock[n] = 0
  /\ \A h \in Node : handler[h] =>
       /\ h <= nalloc /\ rwlock[h] = 1
       /\ parent[h] \in Node /\ parent[h] <= nalloc /\ ~ handler[parent[h]]

PsInv == IInv /\ SigTypes /\ Family

\* A handler that has still to read its signal.
Unread(h) == h \in live /\ handler[h] /\ h \notin fetched

Finds ==
  \A h \in Node : Unread(h) =>
    /\ rwlock[parent[h]] = 1 /\ queue[parent[h]][0] = queue[h][0]
    /\ \A g \in Node : Unread(g) /\ parent[g] = parent[h] => g = h

\* What the discipline adds: index and lock agree for every struct that is no
\* handler, allocated or not, and a handler's own copy of them is 1 for ever.
OneSignal ==
  /\ \A n \in Node : ~ handler[n] => next_index[n] = rwlock[n]
  /\ \A h \in Node : handler[h] => next_index[h] = 1 /\ signal_callback[parent[h]]
  /\ Finds

LEMMA PsInitInv == PsInit => PsInv /\ OneSignal
<1> SUFFICES ASSUME PsInit PROVE PsInv /\ OneSignal
  OBVIOUS
<1>1. IInv
  BY InitIInv DEF PsInit
<1>2. SigTypes
  BY PsignalAssumption DEF PsInit, SigTypes
<1>3. Family
  BY DEF PsInit, Family
<1>4. OneSignal
  BY NodeFacts DEF PsInit, Init, OneSignal, Finds, Unread
<1>5. QED
  BY <1>1, <1>2, <1>3, <1>4 DEF PsInv

-----------------------------------------------------------------------------
(* Sends.                                                                  *)

\* On the ring, locate_proc finds living processes only.
LEMMA LocatedIsLive ==
  ASSUME IInv, Up, NEW p, locate_proc(pid, next, p) # NULL
  PROVE  locate_proc(pid, next, p) \in live
<1>1. TypeOK /\ NextInOrder /\ PrevInverse
  BY DEF IInv, RingInv
<1>2. live \in SUBSET Node /\ queue_base \in live /\ \A k \in live : next[k] \in live
  BY <1>1, RingReach DEF TypeOK, NextInOrder
<1>3. Examined(pid, next, p) \subseteq live
  BY <1>2, ExaminedStaysInside
<1>4. QED
  BY <1>3, LocateResult

\* What an accepted signal does to the queues, with or without a handler n.
Accepted(r, n, s) ==
  /\ r \in live /\ r \in Node /\ r <= nalloc
  /\ next_index[r] < PSIGNAL_QUEUE_SIZE /\ rwlock[r] = 0
  /\ s \in Signal /\ s[1] = SenderPid
  /\ accepted < MaxSignals /\ accepted' = accepted + 1
  /\ UNCHANGED <<rax, fetched>>

WithHandler(r, n, s) ==
  /\ n = nalloc + 1 /\ n \in Node /\ nalloc' = n /\ live' = live \cup {n}
  /\ SpawnHandler(r) /\ signal_callback[r]
  /\ handler' = [handler EXCEPT ![n] = TRUE]
  /\ parent' = [parent EXCEPT ![n] = r]
  /\ rwlock' = [rwlock EXCEPT ![r] = 1, ![n] = 1]
  /\ next_index' = [next_index EXCEPT ![r] = @ + 1, ![n] = next_index[r] + 1]
  /\ queue' = [queue EXCEPT ![r] = [@ EXCEPT ![next_index[r]] = s],
                            ![n] = [queue[r] EXCEPT ![next_index[r]] = s]]
  /\ signal_callback' = [signal_callback EXCEPT ![n] = signal_callback[r]]

WithoutHandler(r, s) ==
  /\ ~ signal_callback[r]
  /\ rwlock' = [rwlock EXCEPT ![r] = 1]
  /\ next_index' = [next_index EXCEPT ![r] = @ + 1]
  /\ queue' = [queue EXCEPT ![r] = [@ EXCEPT ![next_index[r]] = s]]
  /\ UNCHANGED <<vars, signal_callback, family>>

LEMMA SendStep ==
  ASSUME PsInv, Up, mode = "user" \/ mode = "dying",
         NEW to \in Int, NEW dword \in Dwords, psignal_send(to, dword)
  PROVE  \E r \in Node, s \in Signal :
           /\ r = locate_proc(pid, next, to) /\ s[2] = dword
           /\ Accepted(r, nalloc + 1, s)
           /\ WithHandler(r, nalloc + 1, s) \/ WithoutHandler(r, s)
<1> DEFINE r == locate_proc(pid, next, to)
           n == nalloc + 1
           s == <<SenderPid, dword>>
<1>1. TypeOK /\ SigTypes /\ Family /\ NextInOrder
  BY DEF PsInv, IInv, RingInv
<1>2. r \in live /\ r \in Node /\ r <= nalloc
  <2>1. r # NULL
    BY DEF psignal_send
  <2>2. r \in live
    BY <2>1, LocatedIsLive DEF PsInv
  <2>3. QED
    BY <2>2, <1>1 DEF TypeOK, NextInOrder
<1>3. s \in Signal
  <2>1. current_task \in Node /\ \A k \in Node : pid[k] \in PID_T
    BY <1>1 DEF TypeOK
  <2>2. handler[current_task] => parent[current_task] \in Node
    BY <2>1, <1>1 DEF Family
  <2>3. SenderPid \in PID_T
    BY <2>1, <2>2 DEF SenderPid
  <2>4. QED
    BY <2>3 DEF Signal
<1>4. Accepts(r) /\ accepted < MaxSignals /\ accepted' = accepted + 1 /\ UNCHANGED <<rax, fetched>>
  BY Zenon DEF psignal_send
<1>5. rwlock[r] = 0
  BY <1>1, <1>2, <1>4 DEF Accepts, SigTypes
<1>6. Accepted(r, n, s)
  BY <1>2, <1>3, <1>4, <1>5 DEF Accepted, Accepts
<1> DEFINE lock == [rwlock EXCEPT ![r] = 1]
           slots == [queue EXCEPT ![r][next_index[r]] = s]
           index == [next_index EXCEPT ![r] = @ + 1]
<1>7. \/ signal_callback[r] /\ ExecCallback(r, lock, index, slots)
      \/ /\ ~ signal_callback[r]
         /\ rwlock' = lock /\ next_index' = index /\ queue' = slots
         /\ UNCHANGED <<vars, signal_callback, family>>
  BY Zenon DEF psignal_send
<1>8. CASE signal_callback[r] /\ ExecCallback(r, lock, index, slots)
  <2>1. SpawnHandler(r) /\ nalloc < MaxProc /\ nalloc' = n /\ live' = live \cup {n}
    BY <1>8 DEF ExecCallback, SpawnHandler, Spawn
  <2>2. n \in Node /\ r # n
    BY <2>1, <1>1, <1>2, BoundsAssumption DEF TypeOK, Node
  <2>3. /\ lock[r] = 1 /\ index[r] = next_index[r] + 1
        /\ slots[r] = [queue[r] EXCEPT ![next_index[r]] = s]
    BY <1>1, <1>2 DEF SigTypes
  <2>4. /\ handler' = [handler EXCEPT ![n] = TRUE] /\ parent' = [parent EXCEPT ![n] = r]
        /\ rwlock' = [lock EXCEPT ![n] = lock[r]]
        /\ next_index' = [index EXCEPT ![n] = index[r]]
        /\ queue' = [slots EXCEPT ![n] = slots[r]]
        /\ signal_callback' = [signal_callback EXCEPT ![n] = signal_callback[r]]
    BY <1>8, Zenon DEF ExecCallback
  <2>5. WithHandler(r, n, s)
    BY <1>8, <2>1, <2>2, <2>3, <2>4 DEF WithHandler
  <2>6. QED
    BY <2>5, <1>2, <1>3, <1>6
<1>9. CASE /\ ~ signal_callback[r]
           /\ rwlock' = lock /\ next_index' = index /\ queue' = slots
           /\ UNCHANGED <<vars, signal_callback, family>>
  <2>1. WithoutHandler(r, s)
    BY <1>9 DEF WithoutHandler
  <2>2. QED
    BY <2>1, <1>2, <1>3, <1>6
<1>10. QED
  BY <1>7, <1>8, <1>9

\* A send is one of these whether a program or the keyboard makes it.
LEMMA SendersStep ==
  ASSUME PsInv,
         \/ \E to \in {pid[n] : n \in live}, dword \in Dwords : SysSend(to, dword)
         \/ KeyInterrupt
  PROVE  \E r \in Node, s \in Signal :
           /\ Accepted(r, nalloc + 1, s)
           /\ WithHandler(r, nalloc + 1, s) \/ WithoutHandler(r, s)
<1>1. TypeOK
  BY DEF PsInv, IInv
<1>2. ASSUME NEW to \in {pid[n] : n \in live}, NEW dword \in Dwords, SysSend(to, dword)
      PROVE  Up /\ to \in Int /\ psignal_send(to, dword)
  BY <1>1, <1>2, BoundsAssumption DEF SysSend, Up, TypeOK, PID_T
<1>3. CASE KeyInterrupt
  <2>1. Up /\ 1 \in Int /\ Key \in Dwords /\ psignal_send(1, Key)
    BY <1>3, PsignalAssumption DEF KeyInterrupt
  <2>2. QED
    BY <2>1, SendStep DEF Up
<1>4. QED
  BY <1>2, <1>3, SendStep DEF SysSend, Up

-----------------------------------------------------------------------------
(* The invariant is kept.                                                  *)

\* Every step is one of the process queue, or leaves it alone.
LEMMA PsNextIsNext ==
  ASSUME PsInv, [PsNext]_allvars
  PROVE  [Next]_vars
<1>1. CASE \/ \E to \in {pid[n] : n \in live}, dword \in Dwords : SysSend(to, dword)
           \/ KeyInterrupt
  BY <1>1, SendersStep DEF Accepted, WithHandler, WithoutHandler, Next
<1>2. CASE SysRead
  BY <1>2 DEF SysRead, psignal_read
<1>3. CASE \E cb \in BOOLEAN : SysHook(cb)
  BY <1>3 DEF SysHook
<1>4. CASE \E m \in Masks : SpawnWithQueue(m)
  BY <1>4 DEF SpawnWithQueue, Next
<1>5. CASE (Exit \/ InitFault \/ Tick) /\ UNCHANGED sigvars
  BY <1>5 DEF Next
<1>6. CASE UNCHANGED allvars
  BY <1>6 DEF allvars
<1>7. QED
  BY <1>1, <1>2, <1>3, <1>4, <1>5, <1>6 DEF PsNext

\* What a read does: it pops the queue of n, the reader or its parent, which
\* is no handler.
Popped(own, n) ==
  /\ own = current_task /\ own \in Node /\ own <= nalloc
  /\ n = IF handler[own] THEN parent[own] ELSE own
  /\ n \in Node /\ n <= nalloc /\ ~ handler[n]

LEMMA ReadStep ==
  ASSUME PsInv, psignal_read
  PROVE  \E n \in Node : Popped(current_task, n)
BY DEF PsInv, IInv, TypeOK, Family, Popped

LEMMA SigTypesStep ==
  ASSUME PsInv, PsNext
  PROVE  SigTypes'
<1>1. TypeOK /\ SigTypes /\ Family
  BY DEF PsInv, IInv
<1>2. CASE \/ \E to \in {pid[n] : n \in live}, dword \in Dwords : SysSend(to, dword)
           \/ KeyInterrupt
  <2>1. PICK r \in Node, s \in Signal :
          /\ Accepted(r, nalloc + 1, s)
          /\ WithHandler(r, nalloc + 1, s) \/ WithoutHandler(r, s)
    BY <1>2, SendersStep
  <2>2. /\ next_index[r] \in Slot /\ next_index[r] + 1 \in 0..255
        /\ accepted + 1 \in 0..MaxSignals /\ queue[r] \in [Slot -> Signal \cup {Nothing}]
    <3>1. next_index[r] < 3 /\ accepted < MaxSignals
      BY <2>1, Zenon DEF Accepted, PSIGNAL_QUEUE_SIZE
    <3>2. next_index[r] \in 0..255 /\ queue[r] \in [Slot -> Signal \cup {Nothing}]
      BY <1>1 DEF SigTypes
    <3>3. next_index[r] \in Slot /\ next_index[r] + 1 \in 0..255
      BY <3>1, <3>2 DEF Slot, PSIGNAL_QUEUE_SIZE
    <3>4. accepted + 1 \in 0..MaxSignals
      BY <1>1, <3>1, PsignalAssumption DEF SigTypes
    <3>5. QED
      BY <3>2, <3>3, <3>4
  <2>3. [queue[r] EXCEPT ![next_index[r]] = s] \in [Slot -> Signal \cup {Nothing}]
    BY <2>2
  <2>4. rax' = rax /\ fetched' = fetched /\ accepted' = accepted + 1
    BY <2>1 DEF Accepted
  <2>5. CASE WithHandler(r, nalloc + 1, s)
    <3>1. signal_callback[r] \in BOOLEAN
      BY <1>1 DEF SigTypes
    <3>2. QED
      BY <1>1, <2>2, <2>3, <2>4, <2>5, <3>1 DEF SigTypes, WithHandler
  <2>6. CASE WithoutHandler(r, s)
    BY <1>1, <2>2, <2>3, <2>4, <2>6 DEF SigTypes, WithoutHandler, family
  <2>7. QED
    BY <2>1, <2>5, <2>6
<1>3. CASE SysRead
  <2>1. psignal_read
    BY <1>3 DEF SysRead
  <2>2. PICK n \in Node : Popped(current_task, n)
    BY <2>1, ReadStep
  <2>3. rwlock' = [rwlock EXCEPT ![n] = 0]
    BY <2>1, <2>2 DEF psignal_read, Popped
  <2>4. next_index' = next_index \/ next_index' = [next_index EXCEPT ![n] = Decrement(next_index[n])]
    BY <2>1, <2>2 DEF psignal_read, Popped
  <2>5. Decrement(next_index[n]) \in 0..255
    <3>1. next_index[n] \in 0..255
      BY <1>1, <2>2 DEF SigTypes
    <3>2. \A i \in 0..255 : (i - 1) % 256 \in 0..255
      OBVIOUS
    <3>3. QED
      BY <3>1, <3>2 DEF Decrement
  <2>6. SlotValues(n, Decrement(next_index[n])) \subseteq Signal \cup {Nothing}
    BY <1>1, <2>2 DEF SlotValues, SigTypes
  <2>7. rax' \in Signal \cup {Nothing}
    BY <2>1, <2>2, <2>6 DEF psignal_read, Popped
  <2>8. fetched' \subseteq Node /\ UNCHANGED <<queue, signal_callback, family, accepted>>
    BY <1>1, <2>1 DEF psignal_read, SigTypes, TypeOK
  <2>9. QED
    BY <1>1, <2>3, <2>4, <2>5, <2>7, <2>8 DEF SigTypes, family
<1>4. CASE \E cb \in BOOLEAN : SysHook(cb)
  BY <1>1, <1>4 DEF SysHook, SigTypes, family
<1>5. CASE \E m \in Masks : SpawnWithQueue(m)
  <2>1. /\ rwlock' = [rwlock EXCEPT ![nalloc + 1] = 0]
        /\ next_index' = [next_index EXCEPT ![nalloc + 1] = 0]
        /\ signal_callback' = [signal_callback EXCEPT ![nalloc + 1] = FALSE]
        /\ handler' = [handler EXCEPT ![nalloc + 1] = FALSE]
        /\ parent' = [parent EXCEPT ![nalloc + 1] = NULL]
        /\ UNCHANGED <<queue, rax, fetched, accepted>>
    BY <1>5, Zenon DEF SpawnWithQueue
  <2>2. rwlock' \in [Node -> {0, 1}]
    BY <1>1, <2>1, Zenon DEF SigTypes
  <2>2a. next_index' \in [Node -> 0..255]
    <3>1. 0 \in 0..255
      OBVIOUS
    <3>2. QED
      BY <1>1, <2>1, <3>1, Zenon DEF SigTypes
  <2>3. signal_callback' \in [Node -> BOOLEAN] /\ handler' \in [Node -> BOOLEAN]
    BY <1>1, <2>1, Zenon DEF SigTypes
  <2>4. parent' \in [Node -> Node \cup {NULL}]
    BY <1>1, <2>1 DEF SigTypes
  <2>5. QED
    BY <1>1, <2>1, <2>2, <2>2a, <2>3, <2>4 DEF SigTypes
<1>6. CASE (Exit \/ InitFault \/ Tick) /\ UNCHANGED sigvars
  BY <1>1, <1>6 DEF SigTypes, sigvars, sigq, family
<1>7. QED
  BY <1>2, <1>3, <1>4, <1>5, <1>6 DEF PsNext

\* nalloc moves in a spawn only, by one.
LEMMA NallocStep ==
  ASSUME Exit \/ InitFault \/ Tick
  PROVE  nalloc' = nalloc
BY DEF Exit, Kill, InitFault, Tick

LEMMA FamilyStep ==
  ASSUME PsInv, PsNext
  PROVE  Family'
<1>1. TypeOK /\ SigTypes /\ Family /\ nalloc \in Nat /\ Node \subseteq Nat
  BY NodeFacts DEF PsInv, IInv, TypeOK
<1>2. CASE \/ \E to \in {pid[n] : n \in live}, dword \in Dwords : SysSend(to, dword)
           \/ KeyInterrupt
  <2>1. PICK r \in Node, s \in Signal :
          /\ Accepted(r, nalloc + 1, s)
          /\ WithHandler(r, nalloc + 1, s) \/ WithoutHandler(r, s)
    BY <1>2, SendersStep
  <2>2. r <= nalloc /\ ~ handler[r]
    BY <1>1, <2>1 DEF Accepted, Family
  <2>3. CASE WithHandler(r, nalloc + 1, s)
    <3> DEFINE n == nalloc + 1
    <3>1. n \in Node /\ r # n /\ nalloc' = n
      BY <1>1, <2>2, <2>3 DEF WithHandler
    <3>2. /\ \A k \in Node : rwlock'[k] = IF k = n \/ k = r THEN 1 ELSE rwlock[k]
          /\ parent'[n] = r /\ \A k \in Node : k # n => parent'[k] = parent[k]
      BY <1>1, <2>3, <3>1 DEF SigTypes, WithHandler
    <3>2a. handler'[n] /\ \A k \in Node : k # n => (handler'[k] <=> handler[k])
      BY <1>1, <2>3, <3>1, Zenon DEF SigTypes, WithHandler
    <3>3. \A k \in Node : n < k => rwlock'[k] = 0
      BY <1>1, <2>2, <3>1, <3>2 DEF Family
    <3>4. ASSUME NEW h \in Node, handler'[h]
          PROVE  /\ h <= n /\ rwlock'[h] = 1
                 /\ parent'[h] \in Node /\ parent'[h] <= n /\ ~ handler'[parent'[h]]
      <4> HIDE DEF n
      <4>0. n \in Nat /\ n <= n /\ \A k \in Node : k <= nalloc => k <= n /\ k # n
        BY <1>1 DEF n
      <4>1. CASE h = n
        <5>1. ~ handler'[r]
          BY <2>2, <3>1, <3>2a, Zenon
        <5>2. QED
          BY <2>2, <3>1, <3>2, <4>0, <4>1, <5>1
      <4>2. CASE h # n
        <5>1. /\ handler[h] /\ h <= nalloc /\ rwlock[h] = 1 /\ parent'[h] = parent[h]
              /\ parent[h] \in Node /\ parent[h] <= nalloc /\ ~ handler[parent[h]]
          BY <1>1, <3>2, <3>2a, <3>4, <4>2, Zenon DEF Family
        <5>2. parent[h] # n
          BY <4>0, <5>1
        <5>3. ~ handler'[parent[h]]
          BY <3>2a, <5>1, <5>2, Zenon
        <5>4. QED
          BY <3>2, <4>0, <5>1, <5>3
      <4>3. QED
        BY <4>1, <4>2
    <3>5. QED
      BY <3>1, <3>3, <3>4 DEF Family
  <2>4. CASE WithoutHandler(r, s)
    BY <1>1, <2>2, <2>4 DEF SigTypes, Family, WithoutHandler, family, vars
  <2>5. QED
    BY <2>1, <2>3, <2>4
<1>3. CASE SysRead
  <2>1. psignal_read
    BY <1>3 DEF SysRead
  <2>2. PICK n \in Node : Popped(current_task, n)
    BY <2>1, ReadStep
  <2>3. rwlock' = [rwlock EXCEPT ![n] = 0] /\ UNCHANGED <<vars, family>>
    BY <2>1, <2>2 DEF psignal_read, Popped
  <2>4. QED
    BY <1>1, <2>2, <2>3 DEF SigTypes, Family, Popped, family, vars
<1>4. CASE \E cb \in BOOLEAN : SysHook(cb)
  BY <1>1, <1>4 DEF SysHook, Family, family, vars
<1>5. CASE \E m \in Masks : SpawnWithQueue(m)
  <2>1. nalloc' = nalloc + 1
    BY <1>5 DEF SpawnWithQueue, SysSpawn, Spawn
  <2>2. /\ rwlock' = [rwlock EXCEPT ![nalloc + 1] = 0]
        /\ handler' = [handler EXCEPT ![nalloc + 1] = FALSE]
        /\ parent' = [parent EXCEPT ![nalloc + 1] = NULL]
    BY <1>5 DEF SpawnWithQueue
  <2>3. /\ \A k \in Node : rwlock'[k] = IF k = nalloc + 1 THEN 0 ELSE rwlock[k]
        /\ \A k \in Node : parent'[k] = IF k = nalloc + 1 THEN NULL ELSE parent[k]
    BY <1>1, <2>2 DEF SigTypes
  <2>3a. \A k \in Node : handler'[k] => k # nalloc + 1 /\ handler[k]
    BY <1>1, <2>2, Zenon DEF SigTypes
  <2>4. \A k \in Node : nalloc' < k => rwlock'[k] = 0
    BY <1>1, <2>1, <2>3 DEF Family
  <2>5. ASSUME NEW h \in Node, handler'[h]
        PROVE  /\ h <= nalloc' /\ rwlock'[h] = 1
               /\ parent'[h] \in Node /\ parent'[h] <= nalloc' /\ ~ handler'[parent'[h]]
    <3>0. h # nalloc + 1 /\ handler[h]
      BY <2>3a, <2>5, Zenon
    <3>1. handler[h] /\ parent'[h] = parent[h] /\ rwlock'[h] = rwlock[h]
      BY <2>3, <3>0
    <3>2. /\ h <= nalloc /\ rwlock[h] = 1 /\ parent[h] \in Node
          /\ parent[h] <= nalloc /\ ~ handler[parent[h]]
      BY <1>1, <3>1 DEF Family
    <3>3. ~ handler'[parent[h]]
      BY <2>3a, <3>2, Zenon
    <3>4. h <= nalloc' /\ parent[h] <= nalloc'
      <4>1. h \in Nat /\ parent[h] \in Nat /\ h <= nalloc /\ parent[h] <= nalloc
        BY <1>1, <3>2
      <4>2. QED
        BY <1>1, <2>1, <4>1
    <3>5. QED
      BY <3>1, <3>2, <3>3, <3>4
  <2>6. QED
    BY <2>4, <2>5 DEF Family
<1>6. CASE (Exit \/ InitFault \/ Tick) /\ UNCHANGED sigvars
  BY <1>1, <1>6, NallocStep DEF Family, sigvars, sigq, family
<1>7. QED
  BY <1>2, <1>3, <1>4, <1>5, <1>6 DEF PsNext

LEMMA PsInvStep ==
  ASSUME PsInv, SpawnAssertHolds, [PsNext]_allvars
  PROVE  PsInv' /\ SpawnAssertHolds'
<1>1. IInv' /\ SpawnAssertHolds'
  BY PsNextIsNext, NextIInv DEF PsInv
<1>2. CASE PsNext
  BY <1>1, <1>2, SigTypesStep, FamilyStep DEF PsInv
<1>3. CASE UNCHANGED allvars
  <2>1. SigTypes'
    BY <1>3 DEF PsInv, SigTypes, allvars, sigvars, sigq, family
  <2>2. Family'
    BY <1>3 DEF PsInv, Family, allvars, vars, sigvars, sigq, family
  <2>3. QED
    BY <1>1, <2>1, <2>2 DEF PsInv
<1>4. QED
  BY <1>2, <1>3

-----------------------------------------------------------------------------
(* Programs that keep the discipline.                                      *)

\* A send finds the receiver's index at 0.  No unread handler has it as its
\* parent, for it would hold the lock.
LEMMA OneSignalSend ==
  ASSUME PsInv, OneSignal, NEW r \in Node, NEW s \in Signal,
         Accepted(r, nalloc + 1, s),
         WithHandler(r, nalloc + 1, s) \/ WithoutHandler(r, s)
  PROVE  OneSignal'
<1> DEFINE n == nalloc + 1
<1>1. TypeOK /\ SigTypes /\ Family /\ nalloc \in Nat /\ Node \subseteq Nat /\ live \subseteq Node
  BY NodeFacts DEF PsInv, IInv, TypeOK
<1>2. rwlock[r] = 0 /\ ~ handler[r] /\ next_index[r] = 0 /\ fetched' = fetched
  BY <1>1 DEF Accepted, Family, OneSignal
<1>3. \A h \in Node : handler[h] =>
        /\ h # r /\ h # n /\ parent[h] \in Node /\ parent[h] # n
  BY <1>1, <1>2 DEF Family
<1>4. \A h \in Node : Unread(h) => handler[h] /\ parent[h] # r
  BY <1>2 DEF OneSignal, Finds, Unread
<1>5. queue[r] \in [Slot -> Signal \cup {Nothing}] /\ 0 \in Slot
  BY <1>1 DEF SigTypes, Slot, PSIGNAL_QUEUE_SIZE
<1>6. CASE WithHandler(r, n, s)
  <2>1. n \in Node /\ r # n /\ live' = live \cup {n}
    BY <1>1, <1>6 DEF Accepted, WithHandler
  <2> HIDE DEF n
  <2>2. handler'[n] /\ \A k \in Node : k # n => (handler'[k] <=> handler[k])
    BY <1>1, <1>6, <2>1, Zenon DEF SigTypes, WithHandler
  <2>3. parent'[n] = r /\ \A k \in Node : k # n => parent'[k] = parent[k]
    BY <1>1, <1>6, <2>1, Zenon DEF SigTypes, WithHandler
  <2>4. /\ rwlock'[n] = 1 /\ rwlock'[r] = 1
        /\ \A k \in Node : k # n /\ k # r => rwlock'[k] = rwlock[k]
    BY <1>1, <1>6, <2>1 DEF SigTypes, WithHandler
  <2>5. /\ next_index'[n] = 1 /\ next_index'[r] = 1
        /\ \A k \in Node : k # n /\ k # r => next_index'[k] = next_index[k]
    BY <1>1, <1>2, <1>6, <2>1 DEF SigTypes, WithHandler
  <2>6. /\ queue'[n][0] = s /\ queue'[r][0] = s
        /\ \A k \in Node : k # n /\ k # r => queue'[k] = queue[k]
    BY <1>1, <1>2, <1>5, <1>6, <2>1 DEF SigTypes, WithHandler
  <2>7. /\ signal_callback'[r]
        /\ \A k \in Node : k # n => (signal_callback'[k] <=> signal_callback[k])
    BY <1>1, <1>6, <2>1, Zenon DEF SigTypes, WithHandler
  <2>8. \A k \in Node : ~ handler'[k] => next_index'[k] = rwlock'[k]
    BY <2>2, <2>4, <2>5, Zenon DEF OneSignal
  <2>9. \A h \in Node : handler'[h] => next_index'[h] = 1 /\ signal_callback'[parent'[h]]
    BY <1>3, <2>1, <2>2, <2>3, <2>5, <2>7, Zenon DEF OneSignal
  <2>10. \A h \in Node : Unread(h)' => h = n \/ Unread(h)
    BY <1>2, <2>1, <2>2, Zenon DEF Unread
  <2>11. ASSUME NEW h \in Node, Unread(h)'
         PROVE  /\ rwlock'[parent'[h]] = 1 /\ queue'[parent'[h]][0] = queue'[h][0]
                /\ \A g \in Node : Unread(g)' /\ parent'[g] = parent'[h] => g = h
    <3>1. CASE h = n
      BY <1>3, <1>4, <2>3, <2>4, <2>6, <2>10, <3>1, Zenon
    <3>2. CASE h # n
      <4>1. /\ Unread(h) /\ handler[h] /\ parent'[h] = parent[h]
            /\ parent[h] \in Node /\ parent[h] # n /\ parent[h] # r /\ h # r
        BY <1>3, <1>4, <2>3, <2>10, <2>11, <3>2, Zenon
      <4>2. rwlock'[parent[h]] = 1 /\ queue'[parent[h]][0] = queue'[h][0]
        <5>1. rwlock[parent[h]] = 1 /\ queue[parent[h]][0] = queue[h][0]
          BY <4>1, Zenon DEF OneSignal, Finds
        <5>2. rwlock'[parent[h]] = rwlock[parent[h]] /\ queue'[parent[h]] = queue[parent[h]]
          BY <2>4, <2>6, <4>1, Zenon
        <5>3. queue'[h] = queue[h]
          BY <2>6, <3>2, <4>1, Zenon
        <5>4. QED
          BY <5>1, <5>2, <5>3
      <4>3. \A g \in Node : Unread(g)' /\ parent'[g] = parent[h] => g = h
        BY <2>3, <2>10, <4>1, Zenon DEF OneSignal, Finds
      <4>4. QED
        BY <4>1, <4>2, <4>3, Zenon
    <3>3. QED
      BY <3>1, <3>2
  <2>12. QED
    BY <2>8, <2>9, <2>11, Zenon DEF OneSignal, Finds
<1>7. CASE WithoutHandler(r, s)
  <2>1. UNCHANGED <<handler, parent, signal_callback, live>>
    BY <1>7 DEF WithoutHandler, family, vars
  <2>2. rwlock'[r] = 1 /\ \A k \in Node : k # r => rwlock'[k] = rwlock[k]
    BY <1>1, <1>7 DEF SigTypes, WithoutHandler
  <2>3. next_index'[r] = 1 /\ \A k \in Node : k # r => next_index'[k] = next_index[k]
    BY <1>1, <1>2, <1>7 DEF SigTypes, WithoutHandler
  <2>4. \A k \in Node : k # r => queue'[k] = queue[k]
    BY <1>1, <1>7 DEF SigTypes, WithoutHandler
  <2>5. \A k \in Node : ~ handler'[k] => next_index'[k] = rwlock'[k]
    BY <2>1, <2>2, <2>3, Zenon DEF OneSignal
  <2>6. \A h \in Node : handler'[h] => next_index'[h] = 1 /\ signal_callback'[parent'[h]]
    BY <1>3, <2>1, <2>3, Zenon DEF OneSignal
  <2>7. \A h \in Node : Unread(h)' <=> Unread(h)
    BY <1>2, <2>1, Zenon DEF Unread
  <2>8. Finds'
    <3> SUFFICES ASSUME NEW h \in Node, Unread(h)'
                 PROVE  /\ rwlock'[parent'[h]] = 1
                        /\ queue'[parent'[h]][0] = queue'[h][0]
                        /\ \A g \in Node : Unread(g)' /\ parent'[g] = parent'[h] => g = h
      BY DEF Finds
    <3>1. Unread(h) /\ parent[h] \in Node /\ parent[h] # r /\ h # r
      BY <1>3, <1>4, <2>7, Zenon
    <3>2. rwlock'[parent[h]] = 1 /\ queue'[parent[h]][0] = queue'[h][0]
      BY <2>2, <2>4, <3>1, Zenon DEF OneSignal, Finds
    <3>3. \A g \in Node : Unread(g)' /\ parent[g] = parent[h] => g = h
      BY <2>7, <3>1, Zenon DEF OneSignal, Finds
    <3>4. QED
      BY <2>1, <3>2, <3>3, Zenon
  <2>9. QED
    BY <2>5, <2>6, <2>8, Zenon DEF OneSignal
<1>8. QED
  BY <1>6, <1>7

\* A read leaves lock and index of the queue it pops at 0, and no unread
\* handler waits for that queue any more.
LEMMA OneSignalRead ==
  ASSUME PsInv, OneSignal, Disciplined, SysRead
  PROVE  OneSignal'
<1> DEFINE own == current_task
<1>1. /\ TypeOK /\ SigTypes /\ Family /\ psignal_read /\ ReadsAsPrograms
      /\ Node \subseteq Nat /\ own \in live /\ own \in Node
  BY NodeFacts DEF PsInv, IInv, CurrentInv, TypeOK, SysRead
<1>2. PICK n \in Node : Popped(own, n)
  BY <1>1, ReadStep
<1>3. rwlock' = [rwlock EXCEPT ![n] = 0] /\ UNCHANGED <<live, queue, signal_callback, handler, parent>>
  BY <1>1, <1>2 DEF psignal_read, Popped, family, vars
<1>4. ~ handler[n] /\ next_index[n] = rwlock[n] /\ rwlock[n] \in {0, 1}
  BY <1>1, <1>2 DEF Popped, OneSignal, SigTypes
<1>5. next_index'[n] = 0 /\ \A k \in Node : k # n => next_index'[k] = next_index[k]
  <2>1. \/ next_index[own] = 0 /\ UNCHANGED next_index
        \/ /\ next_index[own] # 0
           /\ next_index' = [next_index EXCEPT ![n] = Decrement(next_index[n])]
    BY <1>1, <1>2, Zenon DEF psignal_read, Popped
  <2>2. CASE next_index[own] = 0 /\ UNCHANGED next_index
    <3>1. ~ handler[own]
      BY <1>1, <2>2 DEF OneSignal
    <3>2. n = own
      BY <1>2, <3>1 DEF Popped
    <3>3. QED
      BY <2>2, <3>2
  <2>3. CASE /\ next_index[own] # 0
             /\ next_index' = [next_index EXCEPT ![n] = Decrement(next_index[n])]
    <3>1. next_index[n] = 1
      <4>1. CASE handler[own]
        <5>1. Unread(own) /\ n = parent[own]
          BY <1>1, <1>2, <4>1 DEF Unread, ReadsAsPrograms, Popped
        <5>2. QED
          BY <1>1, <1>4, <5>1 DEF OneSignal, Finds
      <4>2. CASE ~ handler[own]
        BY <1>2, <1>4, <2>3, <4>2 DEF Popped
      <4>3. QED
        BY <4>1, <4>2
    <3>2. Decrement(next_index[n]) = 0
      BY <3>1 DEF Decrement
    <3>3. QED
      BY <1>1, <2>3, <3>2 DEF SigTypes
  <2>4. QED
    BY <2>1, <2>2, <2>3
<1>6. \A h \in Node : Unread(h)' => Unread(h) /\ parent[h] # n
  <2>1. fetched' = IF handler[own] THEN fetched \cup {own} ELSE fetched
    BY <1>1 DEF psignal_read
  <2>2. CASE handler[own]
    <3>1. Unread(own) /\ n = parent[own] /\ fetched' = fetched \cup {own}
      BY <1>1, <1>2, <2>1, <2>2 DEF Unread, ReadsAsPrograms, Popped
    <3>2. QED
      BY <1>1, <1>3, <3>1, Zenon DEF Unread, OneSignal, Finds
  <2>3. CASE ~ handler[own]
    <3>1. n = own /\ ~ signal_callback[own] /\ fetched' = fetched
      BY <1>1, <1>2, <2>1, <2>3 DEF ReadsAsPrograms, Popped
    <3>2. QED
      BY <1>1, <1>3, <3>1, Zenon DEF Unread, OneSignal
  <2>4. QED
    BY <2>2, <2>3
<1>7. rwlock'[n] = 0 /\ \A k \in Node : k # n => rwlock'[k] = rwlock[k]
  BY <1>1, <1>3 DEF SigTypes
<1>8. ASSUME NEW k \in Node, ~ handler'[k]
      PROVE  next_index'[k] = rwlock'[k]
  <2>1. CASE k = n
    BY <1>5, <1>7, <2>1
  <2>2. CASE k # n
    <3>1. next_index'[k] = next_index[k] /\ rwlock'[k] = rwlock[k]
      BY <1>5, <1>7, <2>2, Zenon
    <3>2. next_index[k] = rwlock[k]
      BY <1>1, <1>3, <1>8, Zenon DEF OneSignal
    <3>3. QED
      BY <3>1, <3>2
  <2>3. QED
    BY <2>1, <2>2
<1>9. \A h \in Node : handler'[h] => next_index'[h] = 1 /\ signal_callback'[parent'[h]]
  BY <1>3, <1>4, <1>5, Zenon DEF OneSignal
<1>10. \A h \in Node : Unread(h) => parent[h] \in Node
  BY <1>1 DEF Unread, Family
<1>11. Finds'
  BY <1>3, <1>6, <1>7, <1>10, Zenon DEF OneSignal, Finds
<1>12. QED
  BY <1>8, <1>9, <1>11, Zenon DEF OneSignal

LEMMA OneSignalSpawn ==
  ASSUME PsInv, OneSignal, NEW m \in Masks, SpawnWithQueue(m)
  PROVE  OneSignal'
<1> DEFINE n == nalloc + 1
<1>1. TypeOK /\ SigTypes /\ Family /\ nalloc \in Nat /\ Node \subseteq Nat
  BY NodeFacts DEF PsInv, IInv, TypeOK
<1>2. live' = live \cup {n} /\ UNCHANGED <<queue, fetched>>
  BY DEF SpawnWithQueue, SysSpawn, Spawn
<1>3. \A h \in Node : handler[h] => h # n /\ parent[h] \in Node /\ parent[h] # n
  BY <1>1 DEF Family
<1>4. /\ rwlock' = [rwlock EXCEPT ![n] = 0] /\ next_index' = [next_index EXCEPT ![n] = 0]
      /\ signal_callback' = [signal_callback EXCEPT ![n] = FALSE]
      /\ handler' = [handler EXCEPT ![n] = FALSE] /\ parent' = [parent EXCEPT ![n] = NULL]
  BY Zenon DEF SpawnWithQueue
<1> HIDE DEF n
<1>5. \A k \in Node : IF k = n THEN rwlock'[k] = 0 /\ next_index'[k] = 0
                      ELSE rwlock'[k] = rwlock[k] /\ next_index'[k] = next_index[k]
  BY <1>1, <1>4 DEF SigTypes
<1>6. \A k \in Node : k # n => /\ parent'[k] = parent[k]
                               /\ signal_callback'[k] <=> signal_callback[k]
  BY <1>1, <1>4, Zenon DEF SigTypes
<1>7. \A k \in Node : handler'[k] <=> k # n /\ handler[k]
  BY <1>1, <1>4, Zenon DEF SigTypes
<1>8. \A k \in Node : ~ handler'[k] => next_index'[k] = rwlock'[k]
  BY <1>5, <1>7, Zenon DEF OneSignal
<1>9. \A h \in Node : handler'[h] => next_index'[h] = 1 /\ signal_callback'[parent'[h]]
  BY <1>3, <1>5, <1>6, <1>7, Zenon DEF OneSignal
<1>10. \A h \in Node : Unread(h)' <=> h # n /\ Unread(h)
  BY <1>2, <1>3, <1>7, Zenon DEF Unread
<1>11. \A h \in Node : Unread(h) => parent[h] \in Node /\ parent[h] # n
  BY <1>3 DEF Unread
<1>12. Finds'
  <2> SUFFICES ASSUME NEW h \in Node, Unread(h)'
               PROVE  /\ rwlock'[parent'[h]] = 1 /\ queue'[parent'[h]][0] = queue'[h][0]
                      /\ \A g \in Node : Unread(g)' /\ parent'[g] = parent'[h] => g = h
    BY DEF Finds
  <2>1. h # n /\ Unread(h) /\ parent'[h] = parent[h] /\ parent[h] \in Node /\ parent[h] # n
    BY <1>6, <1>10, <1>11, Zenon
  <2>2. rwlock'[parent[h]] = rwlock[parent[h]]
    BY <1>5, <2>1, Zenon
  <2>3. rwlock[parent[h]] = 1 /\ queue'[parent[h]][0] = queue'[h][0]
    BY <1>2, <2>1, Zenon DEF OneSignal, Finds
  <2>4. \A g \in Node : Unread(g)' /\ parent'[g] = parent[h] => g = h
    BY <1>6, <1>10, <2>1, Zenon DEF OneSignal, Finds
  <2>5. QED
    BY <2>1, <2>2, <2>3, <2>4, Zenon
<1>13. QED
  BY <1>8, <1>9, <1>12, Zenon DEF OneSignal

LEMMA OneSignalStep ==
  ASSUME PsInv, OneSignal, Disciplined, [PsNext]_allvars
  PROVE  OneSignal'
<1>1. CASE \/ \E to \in {pid[n] : n \in live}, dword \in Dwords : SysSend(to, dword)
           \/ KeyInterrupt
  BY <1>1, SendersStep, OneSignalSend
<1>2. CASE SysRead
  BY <1>2, OneSignalRead
<1>3. ASSUME NEW cb \in BOOLEAN, SysHook(cb)
      PROVE  OneSignal'
  <2>1. /\ cb /\ signal_callback' = [signal_callback EXCEPT ![current_task] = cb]
        /\ UNCHANGED <<live, rwlock, next_index, queue, handler, parent, fetched>>
    BY <1>3 DEF SysHook, family, vars
  <2>2. \A k \in Node : signal_callback[k] => signal_callback'[k]
    BY <2>1, Zenon DEF PsInv, SigTypes
  <2>3. \A h \in Node : handler[h] => parent[h] \in Node
    BY DEF PsInv, Family
  <2>4. QED
    BY <2>1, <2>2, <2>3, Zenon DEF OneSignal, Finds, Unread
<1>4. CASE \E m \in Masks : SpawnWithQueue(m)
  BY <1>4, OneSignalSpawn
<1>5. CASE (Exit \/ InitFault \/ Tick) /\ UNCHANGED sigvars
  <2>1. live' \subseteq live
    BY <1>5 DEF Exit, Kill, InitFault, Tick
  <2>2. UNCHANGED <<rwlock, next_index, queue, signal_callback, handler, parent, fetched>>
    BY <1>5 DEF sigvars, sigq, family
  <2>3. QED
    BY <2>1, <2>2, Zenon DEF OneSignal, Finds, Unread
<1>6. CASE UNCHANGED allvars
  <2>1. UNCHANGED <<live, rwlock, next_index, queue, signal_callback, handler, parent, fetched>>
    BY <1>6 DEF allvars, vars, sigvars, sigq, family
  <2>2. QED
    BY <2>1, Zenon DEF OneSignal, Finds, Unread
<1>7. QED
  BY <1>1, <1>2, <1>3, <1>4, <1>5, <1>6 DEF PsNext

-----------------------------------------------------------------------------
(* The theorems.                                                           *)

LEMMA PsInvariantProof == PsSpec => [](PsInv /\ SpawnAssertHolds)
<1>1. PsInit => PsInv /\ SpawnAssertHolds
  BY PsInitInv DEF PsInit, Init, SpawnAssertHolds
<1>2. PsInv /\ SpawnAssertHolds /\ [PsNext]_allvars => (PsInv /\ SpawnAssertHolds)'
  BY PsInvStep
<1>3. QED
  BY <1>1, <1>2, PTL DEF PsSpec

LEMMA OneSignalProof ==
  ASSUME Disciplined
  PROVE  PsSpec => []OneSignal
<1>1. PsInit => OneSignal
  BY PsInitInv
<1>2. PsInv /\ OneSignal /\ [PsNext]_allvars => OneSignal'
  BY OneSignalStep
<1>3. QED
  BY <1>1, <1>2, PsInvariantProof, PTL DEF PsSpec

\* Whatever processes send, read, hook, spawn and end, the signal queues keep
\* their types: the index stays a byte (it may wrap), the lock a flag.
THEOREM SignalTypeCorrect == PsSpec => []PsTypeOK
<1>1. PsInv => PsTypeOK
  BY DEF PsInv, IInv, SigTypes, PsTypeOK
<1>2. QED
  BY <1>1, PsInvariantProof, PTL

\* A handler never gets a signal and so never a handler of its own, since the
\* copy of the queue psignal_exec_callback gives it is locked for ever; the
\* programs need no discipline for that.
THEOREM NoNestedHandlers == PsSpec => []HandlersDoNotNest
<1>1. PsInv => HandlersDoNotNest
  BY DEF PsInv, IInv, TypeOK, Family, HandlersDoNotNest
<1>2. QED
  BY <1>1, PsInvariantProof, PTL

\* While the lock of a queue is held, psignal_send pushes nothing into it and
\* its index stands still: the accepted signal is there until a read.
THEOREM AcceptedStays == PsSpec => AcceptedSignalStays
<1> DEFINE Stays == \A n \in Node : rwlock[n] = 1 /\ rwlock'[n] = 1 =>
                      queue'[n] = queue[n] /\ next_index'[n] = next_index[n]
<1>1. ASSUME PsInv, [PsNext]_allvars
      PROVE  Stays
  <2>1. TypeOK /\ SigTypes /\ Family /\ nalloc \in Nat /\ Node \subseteq Nat
    BY <1>1, NodeFacts DEF PsInv, IInv, TypeOK
  <2>2. CASE \/ \E to \in {pid[n] : n \in live}, dword \in Dwords : SysSend(to, dword)
             \/ KeyInterrupt
    <3>1. PICK r \in Node, s \in Signal :
            /\ Accepted(r, nalloc + 1, s)
            /\ WithHandler(r, nalloc + 1, s) \/ WithoutHandler(r, s)
      BY <1>1, <2>2, SendersStep
    <3>2. rwlock[r] = 0 /\ \A k \in Node : rwlock[k] = 1 => k # r /\ k # nalloc + 1
      BY <2>1, <3>1 DEF Accepted, Family
    <3>3. CASE WithHandler(r, nalloc + 1, s)
      BY <2>1, <3>2, <3>3, Zenon DEF SigTypes, WithHandler
    <3>4. CASE WithoutHandler(r, s)
      BY <2>1, <3>2, <3>4, Zenon DEF SigTypes, WithoutHandler
    <3>5. QED
      BY <3>1, <3>3, <3>4
  <2>3. CASE SysRead
    <3>1. psignal_read
      BY <2>3 DEF SysRead
    <3>2. PICK n \in Node : Popped(current_task, n)
      BY <1>1, <3>1, ReadStep
    <3>3. /\ rwlock' = [rwlock EXCEPT ![n] = 0] /\ queue' = queue
          /\ \/ next_index' = next_index
             \/ next_index' = [next_index EXCEPT ![n] = Decrement(next_index[n])]
      BY <3>1, <3>2 DEF psignal_read, Popped
    <3>4. QED
      BY <2>1, <3>3 DEF SigTypes
  <2>4. CASE \E cb \in BOOLEAN : SysHook(cb)
    BY <2>4 DEF SysHook
  <2>5. CASE \E m \in Masks : SpawnWithQueue(m)
    <3>1. PICK m \in Masks : SpawnWithQueue(m)
      BY <2>5
    <3>2. /\ rwlock' = [rwlock EXCEPT ![nalloc + 1] = 0] /\ queue' = queue
          /\ next_index' = [next_index EXCEPT ![nalloc + 1] = 0]
      BY <3>1, Zenon DEF SpawnWithQueue
    <3>3. QED
      BY <2>1, <3>2 DEF SigTypes
  <2>6. CASE ((Exit \/ InitFault \/ Tick) /\ UNCHANGED sigvars) \/ UNCHANGED allvars
    BY <2>6 DEF allvars, sigvars, sigq
  <2>7. QED
    BY <1>1, <2>2, <2>3, <2>4, <2>5, <2>6 DEF PsNext
<1>2. PsInv /\ [PsNext]_allvars => Stays
  BY <1>1
<1> HIDE DEF Stays
<1>3. PsSpec => [][Stays]_allvars
  BY <1>2, PsInvariantProof, PTL DEF PsSpec
<1>4. QED
  BY <1>3 DEF Stays, AcceptedSignalStays

\* Under the discipline of init.sys and shell no queue holds more than one
\* signal, and its index agrees with its lock: psignal_send, psignal_read.
THEOREM IndexFollowsLock ==
  ASSUME Disciplined
  PROVE  PsSpec => []LockMatchesIndex
<1>1. PsInv /\ OneSignal => LockMatchesIndex
  BY DEF PsInv, IInv, TypeOK, OneSignal, LockMatchesIndex
<1>2. QED
  BY <1>1, PsInvariantProof, OneSignalProof, PTL

\* Under that discipline a handler that has not read yet finds the signal it
\* was spawned for in its parent's queue, and no other handler looks for it.
THEOREM HandlerFindsItsSignal ==
  ASSUME Disciplined
  PROVE  PsSpec => []UnreadHandlerHasSignal
<1>1. PsInv /\ OneSignal => UnreadHandlerHasSignal
  BY DEF PsInv, IInv, TypeOK, OneSignal, Finds, Unread, UnreadHandlerHasSignal
<1>2. QED
  BY <1>1, PsInvariantProof, OneSignalProof, PTL

-----------------------------------------------------------------------------
(* Queues are mailboxes.                                                   *)

\* A PID that fits its 16 bits without a sign is not lost in a signal, and
\* what lies in the slot of a locked queue is such a signal.
NoNegativePid == \A n \in Node : pid[n] >= 0

LetterInBox ==
  \A n \in Node : ~ handler[n] /\ rwlock[n] = 1 => TopBitsUntouched(queue[n][0])

MailInv == PsInv /\ OneSignal /\ PidInv /\ NoNegativePid /\ LetterInBox

LEMMA PidStep ==
  ASSUME IInv, PidInv, NoNegativePid, [Next]_vars
  PROVE  NoNegativePid'
<1>1. TypeOK
  BY DEF IInv
<1>2. ASSUME NEW m, Spawn(m), Up PROVE NoNegativePid'
  <2>1. next_pid >= 0
    <3>1. /\ queue_base \in live /\ queue_head \in live /\ queue_base <= queue_head
          /\ pid[queue_base] = 1 /\ pid[queue_head] \in Int /\ next_pid \in Int
      BY <1>1, <1>2, BoundsAssumption DEF IInv, RingInv, NextInOrder, TypeOK, PID_T
    <3>2. 1 <= pid[queue_head] /\ pid[queue_head] <= next_pid
      BY <1>2, <3>1 DEF PidInv
    <3>3. QED
      BY <3>1, <3>2
  <2>2. pid' = [pid EXCEPT ![nalloc + 1] = next_pid]
    BY <1>2 DEF Spawn
  <2>3. QED
    BY <1>1, <2>1, <2>2 DEF TypeOK, NoNegativePid
<1>3. CASE \/ \E m \in Masks : SysSpawn(m)
           \/ \E to \in live : SpawnHandler(to)
  BY <1>2, <1>3 DEF SysSpawn, SpawnHandler, Up
<1>4. CASE Exit \/ InitFault \/ Tick \/ UNCHANGED vars
  <2>1. pid' = pid
    BY <1>4 DEF Exit, Kill, InitFault, Tick, vars
  <2>2. QED
    BY <2>1 DEF NoNegativePid
<1>5. QED
  BY <1>3, <1>4 DEF Next

\* A send puts its signal into the receiver's box, which was empty.
LEMMA SendPuts ==
  ASSUME MailInv, NEW r \in Node, NEW s \in Signal,
         Accepted(r, nalloc + 1, s),
         WithHandler(r, nalloc + 1, s) \/ WithoutHandler(r, s)
  PROVE  LetterInBox' /\ Abstract!Put
<1> DEFINE n == nalloc + 1
<1>1. /\ TypeOK /\ SigTypes /\ Family /\ LetterInBox /\ nalloc \in Nat /\ Node \subseteq Nat
      /\ rwlock[r] = 0 /\ ~ handler[r] /\ next_index[r] = 0 /\ rax' = rax
  BY NodeFacts DEF MailInv, PsInv, IInv, TypeOK, Accepted, Family, OneSignal
<1>2. TopBitsUntouched(s)
  <2>1. SenderPid >= 0
    <3>1. current_task \in Node /\ (handler[current_task] => parent[current_task] \in Node)
      BY <1>1 DEF TypeOK, Family
    <3>2. QED
      BY <3>1 DEF SenderPid, MailInv, NoNegativePid
  <2>2. s # Nothing
    BY DEF Signal, Nothing
  <2>3. QED
    BY <2>1, <2>2 DEF Accepted, TopBitsUntouched
<1>3. queue[r] \in [Slot -> Signal \cup {Nothing}] /\ 0 \in Slot
  BY <1>1 DEF SigTypes, Slot, PSIGNAL_QUEUE_SIZE
<1>4. /\ ~ handler'[r] /\ rwlock'[r] = 1 /\ queue'[r][0] = s
      /\ \A k \in Node : k # r =>
           \/ handler'[k] /\ (handler[k] \/ rwlock[k] = 0)
           \/ /\ handler'[k] <=> handler[k]
              /\ rwlock'[k] = rwlock[k] /\ queue'[k] = queue[k]
  <2>1. CASE WithHandler(r, n, s)
    <3>1. n \in Node /\ r # n /\ rwlock[n] = 0
      BY <1>1, <2>1 DEF Accepted, WithHandler, Family
    <3> HIDE DEF n
    <3>2. handler'[n] /\ \A k \in Node : k # n => (handler'[k] <=> handler[k])
      BY <1>1, <2>1, <3>1, Zenon DEF SigTypes, WithHandler
    <3>3. /\ rwlock'[r] = 1
          /\ \A k \in Node : k # n /\ k # r => rwlock'[k] = rwlock[k]
      BY <1>1, <2>1, <3>1 DEF SigTypes, WithHandler
    <3>4. /\ queue'[r][0] = s
          /\ \A k \in Node : k # n /\ k # r => queue'[k] = queue[k]
      BY <1>1, <1>3, <2>1, <3>1 DEF SigTypes, WithHandler
    <3>5. QED
      BY <1>1, <3>1, <3>2, <3>3, <3>4, Zenon
  <2>2. CASE WithoutHandler(r, s)
    <3>1. handler' = handler
      BY <2>2 DEF WithoutHandler, family
    <3>2. rwlock'[r] = 1 /\ \A k \in Node : k # r => rwlock'[k] = rwlock[k]
      BY <1>1, <2>2 DEF SigTypes, WithoutHandler
    <3>3. queue'[r][0] = s /\ \A k \in Node : k # r => queue'[k] = queue[k]
      BY <1>1, <1>3, <2>2 DEF SigTypes, WithoutHandler
    <3>4. QED
      BY <1>1, <3>1, <3>2, <3>3, Zenon
  <2>3. QED
    BY <2>1, <2>2
<1>5. LetterInBox'
  <2>1. ASSUME NEW k \in Node, ~ handler'[k], rwlock'[k] = 1
        PROVE  TopBitsUntouched(queue'[k][0])
    <3>1. CASE k = r
      BY <1>2, <1>4, <3>1
    <3>2. CASE k # r
      <4>1. ~ handler[k] /\ rwlock[k] = 1 /\ queue'[k] = queue[k]
        BY <1>4, <2>1, <3>2, Zenon
      <4>2. TopBitsUntouched(queue[k][0])
        BY <1>1, <4>1, Zenon DEF LetterInBox
      <4>3. QED
        BY <4>1, <4>2, Zenon
    <3>3. QED
      BY <3>1, <3>2
  <2>2. QED
    BY <2>1 DEF LetterInBox, TopBitsUntouched
<1>6. Box(r) = Nothing /\ Box(r)' = s /\ \A k \in Node : k # r => Box(k)' = Box(k)
  <2>1. Box(r) = Nothing /\ Box(r)' = s
    BY <1>1, <1>4 DEF Box
  <2>2. ASSUME NEW k \in Node, k # r PROVE Box(k)' = Box(k)
    <3>1. CASE handler'[k] /\ (handler[k] \/ rwlock[k] = 0)
      BY <3>1 DEF Box
    <3>2. CASE /\ handler'[k] <=> handler[k]
               /\ rwlock'[k] = rwlock[k] /\ queue'[k] = queue[k]
      BY <3>2 DEF Box
    <3>3. QED
      BY <1>4, <2>2, <3>1, <3>2
  <2>3. QED
    BY <2>1, <2>2
<1> HIDE DEF n
<1>7. Abstract!Put
  BY <1>1, <1>6 DEF Abstract!Put
<1>8. QED
  BY <1>5, <1>7

\* A read empties the queue of n, the reader or its parent, and returns what
\* was in its box.
LEMMA ReadValue ==
  ASSUME MailInv, Disciplined, SysRead
  PROVE  \E n \in Node :
           /\ Popped(current_task, n) /\ rax' = Box(n)
           /\ UNCHANGED <<queue, handler>>
           /\ rwlock'[n] = 0 /\ \A k \in Node : k # n => rwlock'[k] = rwlock[k]
<1> DEFINE own == current_task
<1>1. /\ TypeOK /\ SigTypes /\ Family /\ OneSignal /\ LetterInBox
      /\ psignal_read /\ ReadsAsPrograms /\ own \in live /\ own \in Node
  BY DEF MailInv, PsInv, IInv, CurrentInv, TypeOK, SysRead
<1>2. PICK n \in Node : Popped(own, n)
  BY <1>1, ReadStep DEF MailInv
<1>3. rwlock' = [rwlock EXCEPT ![n] = 0] /\ UNCHANGED <<queue, handler>>
  BY <1>1, <1>2 DEF psignal_read, Popped, family
<1>4. rwlock'[n] = 0 /\ \A k \in Node : k # n => rwlock'[k] = rwlock[k]
  BY <1>1, <1>3 DEF SigTypes
<1>5. ~ handler[n] /\ next_index[n] = rwlock[n] /\ rwlock[n] \in {0, 1}
  BY <1>1, <1>2 DEF Popped, OneSignal, SigTypes
<1>6. next_index[own] # 0 <=> rwlock[n] = 1
  <2>1. CASE handler[own]
    <3>1. Unread(own) /\ n = parent[own]
      BY <1>1, <1>2, <2>1 DEF Unread, ReadsAsPrograms, Popped
    <3>2. QED
      BY <1>1, <2>1, <3>1 DEF OneSignal, Finds
  <2>2. CASE ~ handler[own]
    BY <1>2, <1>5, <2>2 DEF Popped
  <2>3. QED
    BY <2>1, <2>2
<1>7. rax' = Box(n)
  <2>1. CASE next_index[own] = 0
    BY <1>1, <1>6, <2>1 DEF psignal_read, Box
  <2>2. CASE next_index[own] # 0
    <3>1. rwlock[n] = 1 /\ next_index[n] = 1
      BY <1>5, <1>6, <2>2
    <3>2. Decrement(next_index[n]) = 0 /\ 0 \in Slot
      BY <3>1 DEF Decrement, Slot, PSIGNAL_QUEUE_SIZE
    <3>3. SlotValues(n, Decrement(next_index[n])) = {queue[n][0]}
      BY <3>2 DEF SlotValues
    <3>4. TopBitsUntouched(queue[n][0])
      BY <1>1, <1>5, <3>1 DEF LetterInBox
    <3>5. \E s \in SlotValues(n, Decrement(next_index[n])) :
            rax' = IF TopBitsUntouched(s) THEN s ELSE Nothing
      BY <1>1, <1>2, <2>2, Zenon DEF psignal_read, Popped
    <3>6. rax' = queue[n][0]
      BY <3>3, <3>4, <3>5, Zenon
    <3>7. QED
      BY <1>5, <3>1, <3>6 DEF Box
  <2>3. QED
    BY <2>1, <2>2
<1>8. QED
  BY <1>2, <1>3, <1>4, <1>7

LEMMA ReadTakes ==
  ASSUME MailInv, Disciplined, SysRead
  PROVE  LetterInBox' /\ Abstract!Take
<1>1. PICK n \in Node :
        /\ rax' = Box(n) /\ UNCHANGED <<queue, handler>>
        /\ rwlock'[n] = 0 /\ \A k \in Node : k # n => rwlock'[k] = rwlock[k]
  BY ReadValue, Zenon
<1>2. LetterInBox'
  BY <1>1 DEF MailInv, LetterInBox, TopBitsUntouched
<1>3. Box(n)' = Nothing /\ \A k \in Node : k # n => Box(k)' = Box(k)
  BY <1>1 DEF Box
<1>4. Abstract!Take
  BY <1>1, <1>3 DEF Abstract!Take
<1>5. QED
  BY <1>2, <1>4

\* Every step keeps the letters, and puts one, takes one or touches no box.
LEMMA MailStep ==
  ASSUME MailInv, Disciplined, [PsNext]_allvars
  PROVE  LetterInBox' /\ [Abstract!Next]_(Abstract!vars)
<1>1. SigTypes /\ Family /\ LetterInBox
  BY DEF MailInv, PsInv
<1>2. CASE \/ \E to \in {pid[n] : n \in live}, dword \in Dwords : SysSend(to, dword)
           \/ KeyInterrupt
  BY <1>2, SendersStep, SendPuts DEF MailInv, Abstract!Next
<1>3. CASE SysRead
  BY <1>3, ReadTakes DEF Abstract!Next
<1>4. ASSUME UNCHANGED rax,
             \A k \in Node : \/ /\ handler'[k] <=> handler[k]
                                /\ rwlock'[k] = rwlock[k] /\ queue'[k] = queue[k]
                             \/ rwlock[k] = 0 /\ rwlock'[k] = 0
      PROVE  LetterInBox' /\ UNCHANGED Abstract!vars
  <2>1. \A k \in Node : Box(k)' = Box(k)
    BY <1>4 DEF Box
  <2>2. LetterInBox'
    BY <1>1, <1>4 DEF LetterInBox, TopBitsUntouched
  <2>3. QED
    BY <1>4, <2>1, <2>2 DEF Abstract!vars
<1>5. CASE (\E cb \in BOOLEAN : SysHook(cb)) \/ UNCHANGED allvars
           \/ ((Exit \/ InitFault \/ Tick) /\ UNCHANGED sigvars)
  <2>1. UNCHANGED <<rax, handler, rwlock, queue>>
    BY <1>5 DEF SysHook, allvars, sigvars, sigq, family
  <2>2. QED
    BY <1>4, <2>1
<1>6. CASE \E m \in Masks : SpawnWithQueue(m)
  <2> DEFINE n == nalloc + 1
  <2>1. /\ rwlock' = [rwlock EXCEPT ![n] = 0] /\ handler' = [handler EXCEPT ![n] = FALSE]
        /\ UNCHANGED <<queue, rax>>
    BY <1>6, Zenon DEF SpawnWithQueue
  <2>2. n \in Node => rwlock[n] = 0
    <3>1. nalloc \in Nat /\ nalloc < n
      BY NodeFacts DEF MailInv, PsInv, IInv, TypeOK
    <3>2. QED
      BY <1>1, <3>1 DEF Family
  <2> HIDE DEF n
  <2>3. \A k \in Node : IF k = n THEN rwlock'[k] = 0 ELSE rwlock'[k] = rwlock[k]
    BY <1>1, <2>1 DEF SigTypes
  <2>4. \A k \in Node : k # n => (handler'[k] <=> handler[k])
    BY <1>1, <2>1, Zenon DEF SigTypes
  <2>5. QED
    BY <1>4, <2>1, <2>2, <2>3, <2>4, Zenon
<1>7. QED
  BY <1>2, <1>3, <1>5, <1>6 DEF PsNext

LEMMA MailInit == PsInit => MailInv
<1> SUFFICES ASSUME PsInit PROVE MailInv
  OBVIOUS
<1>1. PidInv /\ NoNegativePid
  BY NodeFacts DEF PsInit, Init, PidInv, NoNegativePid, queue_base
<1>2. LetterInBox
  BY DEF PsInit, LetterInBox
<1>3. QED
  BY <1>1, <1>2, PsInitInv DEF MailInv

LEMMA MailInvStep ==
  ASSUME MaxProc < PidMax, Disciplined, MailInv, SpawnAssertHolds, [PsNext]_allvars
  PROVE  MailInv'
<1>1. IInv /\ PsInv /\ [Next]_vars
  BY PsNextIsNext DEF MailInv, PsInv
<1>2. PidInv' /\ NoNegativePid'
  BY <1>1, NextPidInv, PidStep DEF MailInv
<1>3. PsInv' /\ OneSignal' /\ LetterInBox'
  BY <1>1, PsInvStep, OneSignalStep, MailStep DEF MailInv
<1>4. QED
  BY <1>2, <1>3 DEF MailInv

\* The slots, index, lock and callback of a struct SignalQueue make one
\* mailbox for programs that keep the discipline, while PIDs are positive:
\* psignal_send puts into an empty box only, and psignal_read, by the process
\* or its handler, takes what is in it and leaves it empty.
THEOREM QueuesAreMailboxes ==
  ASSUME Disciplined, MaxProc < PidMax
  PROVE  PsSpec => ImplementsMailbox
<1>1. PsInit => MailInv
  BY MailInit
<1>2. PsInit => Abstract!Init
  BY DEF PsInit, Abstract!Init, Box
<1>3. MailInv /\ SpawnAssertHolds /\ [PsNext]_allvars => MailInv'
  BY MailInvStep
<1>4. MailInv /\ [PsNext]_allvars => [Abstract!Next]_(Abstract!vars)
  BY MailStep
<1>5. QED
  BY <1>1, <1>2, <1>3, <1>4, PsInvariantProof, PTL
  DEF PsSpec, ImplementsMailbox, Abstract!Spec

-----------------------------------------------------------------------------
(* The programs of System keep the discipline.                             *)

\* Whoever fetches is a handler that has not fetched.
Readers ==
  /\ \A h \in fetched : h <= nalloc
  /\ \A n \in Node : pc[n] \in {"lock", "fetch"} => handler[n] /\ n \notin fetched

ProgInv == PsInv /\ SpawnAssertHolds /\ OneSignal /\ Readers

\* Where a process starts that the step spawns.
StartPlace(k) ==
  IF ~ handler'[k] THEN "hook" ELSE IF parent'[k] = queue_base THEN "lock" ELSE "fetch"

LEMMA GoesPlaces ==
  ASSUME NEW n, NEW from, NEW to, Goes(n, from, to), nalloc' # nalloc => n # nalloc'
  PROVE  \A k \in Node : pc'[k] = IF k = n THEN to
                                  ELSE IF k = nalloc' /\ nalloc' # nalloc THEN StartPlace(k)
                                  ELSE pc[k]
<1> SUFFICES ASSUME NEW k \in Node
             PROVE  pc'[k] = IF k = n THEN to
                             ELSE IF k = nalloc' /\ nalloc' # nalloc THEN StartPlace(k)
                             ELSE pc[k]
  OBVIOUS
<1>1. pc'[k] = CASE k = n -> to
                 [] k = nalloc' /\ nalloc' # nalloc ->
                      IF ~ handler'[k] THEN "hook"
                      ELSE IF parent'[k] = queue_base THEN "lock" ELSE "fetch"
                 [] OTHER -> pc[k]
  BY DEF Goes
<1>2. QED
  BY <1>1 DEF StartPlace

\* The running process is none of the structs still to be allocated.
LEMMA RunnerAllocated ==
  ASSUME IInv
  PROVE  /\ current_task \in Node /\ nalloc \in Nat /\ Node \subseteq Nat
         /\ current_task <= nalloc /\ current_task # nalloc + 1
BY NodeFacts DEF IInv, TypeOK

\* A handler's psignal_send to a process that takes the signal is a send of
\* Psignal, and any other one changes nothing.
LEMMA SendIsStep ==
  ASSUME IInv, NEW n, mode = "user", HandlerSend(n)
  PROVE  \/ UNCHANGED allvars
         \/ \E to \in {pid[k] : k \in live} : SysSend(to, Key)
<1> DEFINE r == locate_proc(pid, next, shell_pid)
<1>1. UNCHANGED allvars \/ (r # NULL /\ SysSend(shell_pid, Key))
  BY DEF HandlerSend, Quiet
<1>2. CASE r # NULL /\ SysSend(shell_pid, Key)
  <2>1. r \in live
    BY <1>2, LocatedIsLive DEF Up
  <2>2. pid[r] = shell_pid
    BY <1>2, LocateResult
  <2>3. QED
    BY <1>2, <2>1, <2>2
<1>3. QED
  BY <1>1, <1>2

\* A fetch is a read as programs read.
LEMMA FetchIsRead ==
  ASSUME ProgInv, NEW n \in Node, mode = "user", current_task = n, Fetch(n)
  PROVE  SysRead
<1>1. psignal_read /\ pc[n] = "fetch"
  BY DEF Fetch
<1>2. ReadsAsPrograms
  BY <1>1 DEF ProgInv, Readers, ReadsAsPrograms
<1>3. \A k \in Node : next_index[k] # ReadFloor
  <2>1. \A k \in Node : next_index[k] \in {0, 1}
    BY DEF ProgInv, PsInv, SigTypes, OneSignal
  <2>2. ReadFloor \notin {0, 1}
    BY PsignalAssumption
  <2>3. QED
    BY <2>1, <2>2
<1>4. QED
  BY <1>1, <1>2, <1>3 DEF SysRead

LEMMA SysStepIsPsStep ==
  ASSUME ProgInv, [SysNext]_sysvars
  PROVE  [PsNext]_allvars
<1>1. ASSUME NEW n \in Node, ProcStep(n)
      PROVE  [PsNext]_allvars
  <2>1. mode = "user" /\ current_task = n /\ IInv
    BY <1>1 DEF ProcStep, ProgInv, PsInv
  <2>2. CASE InitHook \/ ShellHook(n)
    <3>1. SysHook(TRUE)
      BY <2>2 DEF InitHook, ShellHook
    <3>2. QED
      BY <3>1 DEF PsNext
  <2>3. CASE InitSpawn
    BY <2>3 DEF InitSpawn, PsNext
  <2>4. CASE Fetch(n)
    BY <2>1, <2>4, FetchIsRead DEF PsNext
  <2>5. CASE HandlerSend(n)
    BY <2>1, <2>5, SendIsStep, PsignalAssumption DEF PsNext
  <2>6. CASE HandlerExit(n)
    BY <2>6 DEF HandlerExit, PsNext
  <2>7. CASE \/ InitStore \/ HandlerLock(n) \/ HandlerUnlock(n) \/ ShellReset(n)
             \/ FetchKeystroke(n) \/ Enter(n) \/ Check(n) \/ Store(n)
    BY <2>7 DEF InitStore, HandlerLock, HandlerUnlock, ShellReset, FetchKeystroke, Enter,
                Check, Store, Quiet
  <2>8. QED
    BY <1>1, <2>2, <2>3, <2>4, <2>5, <2>6, <2>7, Zenon DEF ProcStep
<1>2. ASSUME NEW k \in Keystroke, Press(k)
      PROVE  [PsNext]_allvars
  BY <1>2 DEF Press, Quiet, PsNext
<1>3. CASE SysTick
  BY <1>3 DEF SysTick, PsNext
<1>4. CASE UNCHANGED sysvars
  BY <1>4 DEF sysvars
<1>5. QED
  BY <1>1, <1>2, <1>3, <1>4 DEF SysNext

\* A step that spawns nobody, ends no fetch and starts none leaves Readers.
LEMMA ReadersKept ==
  ASSUME PsInv, Readers, NEW n \in Node, UNCHANGED <<nalloc, handler, fetched>>,
         \A k \in Node : k # n => pc'[k] = pc[k],
         pc'[n] \in {"lock", "fetch"} => pc[n] \in {"lock", "fetch"}
  PROVE  Readers'
<1>1. \A k \in Node : pc'[k] \in {"lock", "fetch"} => pc[k] \in {"lock", "fetch"}
  OBVIOUS
<1>2. QED
  BY <1>1, Zenon DEF Readers

\* A send, by a handler or by the keyboard, in which n goes somewhere else
\* than to a fetch.
LEMMA ReadersSend ==
  ASSUME PsInv, Readers, NEW n \in Node, NEW from, NEW to, n <= nalloc, Goes(n, from, to),
         to = pc[n] \/ to \notin {"lock", "fetch"},
         NEW r \in Node, NEW s \in Signal, Accepted(r, nalloc + 1, s),
         WithHandler(r, nalloc + 1, s) \/ WithoutHandler(r, s)
  PROVE  Readers'
<1>1. SigTypes /\ nalloc \in Nat /\ Node \subseteq Nat /\ fetched' = fetched
  BY NodeFacts DEF PsInv, IInv, TypeOK, Accepted
<1>2. CASE WithHandler(r, nalloc + 1, s)
  <2> DEFINE h == nalloc + 1
  <2>1. h \in Node /\ nalloc' = h /\ h # nalloc /\ h # n /\ \A k \in Node : k <= nalloc => k <= h /\ k # h
    BY <1>1, <1>2 DEF WithHandler
  <2>2. \A k \in Node : k # n /\ k # h => pc'[k] = pc[k]
    BY <2>1, GoesPlaces
  <2>3. pc'[n] = to
    BY <2>1, GoesPlaces
  <2> HIDE DEF h
  <2>4. handler'[h] /\ \A k \in Node : k # h => (handler'[k] <=> handler[k])
    BY <1>1, <1>2, <2>1, Zenon DEF SigTypes, WithHandler, h
  <2>5. h \notin fetched /\ \A k \in fetched : k <= h
    BY <1>1, <2>1 DEF Readers, SigTypes
  <2>6. \A k \in Node : pc'[k] \in {"lock", "fetch"} => handler'[k] /\ k \notin fetched
    BY <2>2, <2>3, <2>4, <2>5, Zenon DEF Readers
  <2>7. QED
    BY <1>1, <2>1, <2>5, <2>6, Zenon DEF Readers
<1>3. CASE WithoutHandler(r, s)
  <2>1. UNCHANGED <<nalloc, handler>>
    BY <1>3 DEF WithoutHandler, vars, family
  <2>2. \A k \in Node : k # n => pc'[k] = pc[k]
    BY <2>1, GoesPlaces
  <2>3. pc'[n] = to
    BY <2>1, GoesPlaces
  <2>4. QED
    BY <1>1, <2>1, <2>2, <2>3, ReadersKept
<1>4. QED
  BY <1>2, <1>3

LEMMA ReadersStep ==
  ASSUME ProgInv, [SysNext]_sysvars
  PROVE  Readers'
<1>1. /\ PsInv /\ Readers /\ SigTypes /\ current_task \in Node /\ current_task <= nalloc
      /\ current_task # nalloc + 1 /\ nalloc \in Nat /\ Node \subseteq Nat
  BY RunnerAllocated DEF ProgInv, PsInv
<1>2. ASSUME NEW n \in Node, ProcStep(n)
      PROVE  Readers'
  <2>1. n = current_task /\ mode = "user" /\ n <= nalloc /\ n # nalloc + 1
    BY <1>1, <1>2 DEF ProcStep
  <2>2. ASSUME NEW from, NEW to, Goes(n, from, to), UNCHANGED <<nalloc, handler, fetched>>,
               to \in {"lock", "fetch"} => from \in {"lock", "fetch"}
        PROVE  Readers'
    <3>1. \A k \in Node : k # n => pc'[k] = pc[k]
      BY <2>2, GoesPlaces
    <3>2. pc'[n] = to /\ pc[n] = from
      BY <2>2, GoesPlaces DEF Goes
    <3>3. QED
      BY <1>1, <2>2, <3>1, <3>2, ReadersKept
  <2>3. CASE (n = queue_base /\ InitHook) \/ ShellHook(n)
    <3>1. UNCHANGED <<nalloc, handler, fetched>>
      BY <2>3 DEF InitHook, ShellHook, SysHook, vars, family
    <3>2. (Goes(queue_base, "hook", "spawn") /\ n = queue_base) \/ Goes(n, "hook", "reset")
      BY <2>3 DEF InitHook, ShellHook
    <3>3. QED
      BY <2>2, <3>1, <3>2
  <2>4. CASE n = queue_base /\ InitSpawn
    <3>1. PICK m \in Masks : SpawnWithQueue(m)
      BY <2>4 DEF InitSpawn
    <3>2. Goes(n, "spawn", "assign")
      BY <2>4 DEF InitSpawn
    <3>3. nalloc' = nalloc + 1 /\ nalloc' # nalloc /\ n # nalloc'
      BY <1>1, <2>1, <3>1 DEF SpawnWithQueue, SysSpawn, Spawn
    <3>4. handler' = [handler EXCEPT ![nalloc'] = FALSE] /\ fetched' = fetched
      BY <3>1, <3>3, Zenon DEF SpawnWithQueue
    <3>5. nalloc' \in Node => ~ handler'[nalloc']
      BY <1>1, <3>4, Zenon DEF SigTypes
    <3>6. \A k \in Node : k # nalloc' => (handler'[k] <=> handler[k])
      BY <1>1, <3>4, Zenon DEF SigTypes
    <3>7. \A k \in Node : pc'[k] \in {"lock", "fetch"} => k # nalloc' /\ pc[k] \in {"lock", "fetch"}
      <4>1. ASSUME NEW k \in Node, pc'[k] \in {"lock", "fetch"}
            PROVE  k # nalloc' /\ pc[k] \in {"lock", "fetch"}
        <5>1. pc'[k] = IF k = n THEN "assign" ELSE IF k = nalloc' THEN StartPlace(k) ELSE pc[k]
          BY <3>2, <3>3, GoesPlaces
        <5>2. k = nalloc' => StartPlace(k) = "hook"
          BY <3>5 DEF StartPlace
        <5>3. QED
          BY <4>1, <5>1, <5>2
      <4>2. QED
        BY <4>1
    <3>8. \A h \in fetched' : h <= nalloc'
      BY <1>1, <3>3, <3>4 DEF Readers, SigTypes
    <3>9. QED
      BY <1>1, <3>4, <3>6, <3>7, <3>8, Zenon DEF Readers
  <2>5. CASE Fetch(n)
    <3>1. psignal_read /\ pc[n] = "fetch" /\ UNCHANGED <<nalloc, handler>>
      BY <2>5 DEF Fetch, psignal_read, vars, family
    <3>2. PICK to \in {"send", "sysreq", "unlock"} : Goes(n, "fetch", to)
      BY <2>5 DEF Fetch
    <3>3. \A k \in Node : k # n => pc'[k] = pc[k]
      BY <3>1, <3>2, GoesPlaces
    <3>4. pc'[n] \notin {"lock", "fetch"}
      BY <3>1, <3>2, GoesPlaces
    <3>5. fetched' \subseteq fetched \cup {n}
      BY <2>1, <3>1 DEF psignal_read
    <3>6. \A h \in fetched' : h <= nalloc'
      BY <1>1, <2>1, <3>1, <3>5 DEF Readers
    <3>7. QED
      BY <1>1, <3>1, <3>3, <3>4, <3>5, <3>6, Zenon DEF Readers
  <2>6. CASE HandlerSend(n)
    <3>1. Goes(n, "send", "unlock")
      BY <2>6 DEF HandlerSend
    <3>2. CASE UNCHANGED allvars
      BY <2>2, <3>1, <3>2 DEF allvars, vars, sigvars, family
    <3>3. CASE \E to \in {pid[k] : k \in live} : SysSend(to, Key)
      <4>1. PICK r \in Node, s \in Signal :
              /\ Accepted(r, nalloc + 1, s)
              /\ WithHandler(r, nalloc + 1, s) \/ WithoutHandler(r, s)
        BY <1>1, <3>3, SendersStep, PsignalAssumption
      <4>2. QED
        BY <1>1, <2>1, <3>1, <4>1, ReadersSend
    <3>4. QED
      BY <1>1, <2>1, <2>6, <3>2, <3>3, SendIsStep DEF PsInv
  <2>7. CASE HandlerExit(n)
    <3>1. UNCHANGED <<nalloc, handler, fetched>>
      BY <2>7, NallocStep DEF HandlerExit, sigvars, family
    <3>2. Goes(n, "exit", "none")
      BY <2>7 DEF HandlerExit
    <3>3. QED
      BY <2>2, <3>1, <3>2
  <2>8. CASE \/ n = queue_base /\ InitStore
             \/ HandlerLock(n) \/ HandlerUnlock(n) \/ ShellReset(n)
             \/ FetchKeystroke(n) \/ Enter(n) \/ Check(n) \/ Store(n)
    <3>1. UNCHANGED <<nalloc, handler, fetched>>
      BY <2>8 DEF InitStore, HandlerLock, HandlerUnlock, ShellReset, FetchKeystroke, Enter,
                  Check, Store, Quiet, allvars, vars, sigvars, family
    <3>2. \/ \E from \in {"assign", "unlock", "reset", "sysreq", "check", "store"},
                to \in {"loop", "exit", "check", "store"} : Goes(n, from, to)
          \/ Goes(n, "lock", "fetch")
      BY <2>8 DEF InitStore, HandlerLock, HandlerUnlock, ShellReset, FetchKeystroke, Enter,
                  Check, Store
    <3>3. QED
      BY <2>2, <3>1, <3>2
  <2>9. QED
    BY <1>2, <2>3, <2>4, <2>5, <2>6, <2>7, <2>8, Zenon DEF ProcStep
<1>3. ASSUME NEW c \in Keystroke, Press(c)
      PROVE  Readers'
  <2>1. Goes(current_task, pc[current_task], pc[current_task])
    BY <1>3 DEF Press
  <2>2. CASE KeyInterrupt
    <3>1. PICK r \in Node, s \in Signal :
            /\ Accepted(r, nalloc + 1, s)
            /\ WithHandler(r, nalloc + 1, s) \/ WithoutHandler(r, s)
      BY <1>1, <2>2, SendersStep
    <3>2. QED
      BY <1>1, <2>1, <3>1, ReadersSend
  <2>3. CASE UNCHANGED allvars
    <3>1. UNCHANGED <<nalloc, handler, fetched>>
      BY <2>3 DEF allvars, vars, sigvars, family
    <3>2. \A k \in Node : pc'[k] = pc[k]
      BY <1>1, <2>1, <3>1, GoesPlaces
    <3>3. QED
      BY <1>1, <3>1, <3>2, ReadersKept
  <2>4. QED
    BY <1>3, <2>2, <2>3 DEF Press, Quiet
<1>4. CASE SysTick \/ UNCHANGED sysvars
  <2>1. UNCHANGED <<nalloc, handler, fetched, pc>>
    BY <1>4, NallocStep DEF SysTick, sysvars, programs, allvars, vars, sigvars, family
  <2>2. QED
    BY <1>1, <2>1, Zenon DEF Readers
<1>5. QED
  BY <1>2, <1>3, <1>4 DEF SysNext

LEMMA ProgInvInit == SysInit => ProgInv
<1> SUFFICES ASSUME SysInit PROVE ProgInv
  OBVIOUS
<1>1. PsInv /\ OneSignal /\ SpawnAssertHolds
  BY PsInitInv DEF SysInit, PsInit, Init, SpawnAssertHolds
<1>2. Readers
  BY DEF SysInit, PsInit, Readers
<1>3. QED
  BY <1>1, <1>2 DEF ProgInv

LEMMA ProgInvStep ==
  ASSUME Disciplined, ProgInv, [SysNext]_sysvars
  PROVE  ProgInv'
<1>1. [PsNext]_allvars
  BY SysStepIsPsStep
<1>2. PsInv' /\ SpawnAssertHolds' /\ OneSignal'
  BY <1>1, PsInvStep, OneSignalStep DEF ProgInv
<1>3. QED
  BY <1>2, ReadersStep DEF ProgInv

\* init.sys and shell.sys make the system calls of Psignal and no others, and
\* keep the discipline under which its theorems hold: their handlers call
\* psignal_fetch once, and no process reads that hooked a callback.
THEOREM DisciplineKept ==
  ASSUME Disciplined
  PROVE  SysSpec => ProgramsKeepDiscipline
<1>1. SysInit => PsInit /\ ProgInv
  BY ProgInvInit DEF SysInit
<1>2. ProgInv /\ [SysNext]_sysvars => ProgInv'
  BY ProgInvStep
<1>3. ProgInv /\ [SysNext]_sysvars => [PsNext]_allvars
  BY SysStepIsPsStep
<1>4. QED
  BY <1>1, <1>2, <1>3, PTL DEF SysSpec, PsSpec, ProgramsKeepDiscipline

-----------------------------------------------------------------------------
(* A keystroke on its way: the invariant, for keys that come when the shell *)
(* is up, and positive PIDs.                                                *)

\* The first process that init.sys spawns.
shell == 2

\* While nalloc is 1 init.sys is alone, while it is 2 the shell is starting;
\* handlers, the structs above 2, exist only when both are in their loops.
Startup ==
  /\ nalloc = 1 => pc[queue_base] \in {"hook", "spawn"} /\ next_pid = 2
  /\ nalloc > 1 =>
       /\ pc[queue_base] \in {"assign", "loop"} /\ pc[shell] \in {"hook", "reset", "loop"}
       /\ shell \in live /\ pid[shell] = 2
       /\ pc[shell] # "hook" => signal_callback[shell]
  /\ nalloc > 2 => pc[queue_base] = "loop" /\ pc[shell] = "loop"
  /\ pc[queue_base] # "hook" => signal_callback[queue_base]
  /\ pc[queue_base] = "assign" => reg[queue_base] = 2
  /\ shell_pid = IF pc[queue_base] = "loop" THEN 2 ELSE 0

HandlerPlaces(p) ==
  IF p = queue_base THEN {"lock", "fetch", "send", "unlock", "exit", "none"}
  ELSE {"fetch", "sysreq", "check", "store", "exit", "none"}

Roles ==
  \A h \in Node :
    /\ nalloc < h => pc[h] = "none"
    /\ h <= nalloc => (handler[h] <=> 2 < h)
    /\ 2 < h /\ h <= nalloc =>
         /\ parent[h] \in {queue_base, shell} /\ pc[h] \in HandlerPlaces(parent[h])
         /\ pc[h] # "none" => h \in live

Keys == \A k \in Node : ~ handler[k] /\ rwlock[k] = 1 => queue[k][0][2] = Key

\* Handlers that have still to pass the buffered key on, or to take it.
InFlight(h) ==
  \/ parent[h] = queue_base /\ pc[h] \in {"lock", "fetch", "send"}
  \/ parent[h] = shell /\ pc[h] \in {"fetch", "sysreq"}

Flight ==
  IF last_keystroke = NoKey THEN \A h \in Node : ~ InFlight(h)
  ELSE \E h \in Node : InFlight(h) /\ \A g \in Node : InFlight(g) => g = h

\* The signal in the queue of the shell has a handler that is about to read it.
ShellReads ==
  nalloc > 1 /\ rwlock[shell] = 1 =>
    \E h \in Node : parent[h] = shell /\ pc[h] = "fetch"

Kept == IF typed < COMMAND_BUF_SIZE THEN typed ELSE COMMAND_BUF_SIZE

\* The one handler that is about to store has counted its character already.
Line ==
  ~ overlapped =>
    /\ (\A h \in Node : pc[h] # "store") => cmdbuf_idx = Kept
    /\ \A h \in Node : pc[h] = "store" =>
         /\ reg[h] = cmdbuf_idx /\ cmdbuf_idx < COMMAND_BUF_SIZE /\ typed = cmdbuf_idx + 1
         /\ \A g \in Node : pc[g] = "store" => g = h

SysTypes ==
  /\ cmdbuf_idx \in Nat /\ typed \in Nat /\ DOMAIN reg = Node
  /\ \A h \in Node : pc[h] = "store" => reg[h] \in Nat

KeyInv == Startup /\ Roles /\ Keys /\ Flight /\ ShellReads

SysInv ==
  /\ MailInv /\ SpawnAssertHolds /\ Readers /\ SysTypes
  /\ Up => KeyInv /\ Line

\* What of it the steps need, once and for all.
LEMMA SysFacts ==
  ASSUME SysInv
  PROVE  /\ TypeOK /\ IInv /\ SigTypes /\ Family /\ PsInv /\ ProgInv
         /\ Node \subseteq Nat /\ nalloc \in Node /\ queue_base \in Node
         /\ current_task \in Node /\ current_task <= nalloc
         /\ \A k \in live : k \in Node /\ (Up => k <= nalloc)
<1>1. PsInv /\ ProgInv /\ IInv /\ SigTypes /\ Family /\ TypeOK
  BY DEF SysInv, MailInv, ProgInv, PsInv, IInv
<1>2. \A k \in live : k \in Node /\ (Up => k <= nalloc)
  BY <1>1 DEF IInv, RingInv, NextInOrder, TypeOK
<1>3. QED
  BY <1>1, <1>2, NodeFacts DEF TypeOK, IInv

\* Where only handlers are.
Work == {"lock", "fetch", "send", "unlock", "sysreq", "check", "store", "exit"}

LEMMA Handlers ==
  ASSUME SysInv, Up, NEW h \in Node, pc[h] \in Work
  PROVE  /\ 2 < h /\ h <= nalloc /\ 2 < nalloc /\ handler[h] /\ h \in live
         /\ parent[h] \in {queue_base, shell} /\ pc[h] \in HandlerPlaces(parent[h])
         /\ pc[queue_base] = "loop" /\ pc[shell] = "loop" /\ shell_pid = 2
         /\ signal_callback[queue_base] /\ signal_callback[shell]
         /\ shell \in live /\ shell \in Node /\ pid[shell] = 2
<1>1. Startup /\ Roles /\ Node \subseteq Nat /\ nalloc \in Node /\ h \in Nat /\ 1 <= h
  BY SysFacts DEF SysInv, KeyInv, Node
<1>2. h <= nalloc
  BY <1>1 DEF Roles, Work
<1>3. h # queue_base
  BY <1>1 DEF Startup, Work, Node
<1>4. h # shell
  BY <1>1, <1>2 DEF Startup, Work, shell
<1>5. 2 < h /\ 2 < nalloc
  BY <1>1, <1>2, <1>3, <1>4 DEF queue_base, shell
<1>6. pc[queue_base] = "loop" /\ pc[shell] = "loop" /\ nalloc > 1
  BY <1>1, <1>5 DEF Startup
<1>7. shell \in live /\ shell \in Node
  BY <1>1, <1>6, SysFacts DEF Startup
<1>8. QED
  BY <1>1, <1>2, <1>5, <1>6, <1>7 DEF Startup, Roles, Work

-----------------------------------------------------------------------------
(* Parts of the invariant that steps leave alone.                          *)

LEMMA KeysKept ==
  ASSUME Keys,
         \A k \in Node : ~ handler'[k] /\ rwlock'[k] = 1 =>
           ~ handler[k] /\ rwlock[k] = 1 /\ queue'[k] = queue[k]
  PROVE  Keys'
BY Zenon DEF Keys

LEMMA FlightKept ==
  ASSUME Flight, last_keystroke' = last_keystroke,
         \A h \in Node : InFlight(h)' <=> InFlight(h)
  PROVE  Flight'
BY Zenon DEF Flight

LEMMA ShellReadsKept ==
  ASSUME ShellReads, nalloc' > 1 => nalloc > 1, rwlock'[shell] = 1 => rwlock[shell] = 1,
         \A h \in Node : parent[h] = shell /\ pc[h] = "fetch" =>
                           parent'[h] = shell /\ pc'[h] = "fetch"
  PROVE  ShellReads'
BY Zenon DEF ShellReads, shell

LEMMA LineKept ==
  ASSUME SysTypes, UNCHANGED <<cmdbuf_idx, typed, overlapped>>, DOMAIN reg' = Node,
         \A h \in Node : pc'[h] = "store" <=> pc[h] = "store",
         \A h \in Node : pc[h] = "store" => reg'[h] = reg[h]
  PROVE  SysTypes' /\ (Line => Line')
<1>1. SysTypes'
  BY DEF SysTypes
<1>2. ASSUME Line PROVE Line'
  <2>1. Kept' = Kept
    BY DEF Kept
  <2> SUFFICES ASSUME ~ overlapped PROVE Line'
    BY DEF Line
  <2>2. (\A h \in Node : pc'[h] # "store") => cmdbuf_idx' = Kept'
    BY <1>2, <2>1 DEF Line
  <2>3. ASSUME NEW h \in Node, pc'[h] = "store"
        PROVE  /\ reg'[h] = cmdbuf_idx' /\ cmdbuf_idx' < COMMAND_BUF_SIZE
               /\ typed' = cmdbuf_idx' + 1 /\ \A g \in Node : pc'[g] = "store" => g = h
    BY <1>2, <2>3 DEF Line
  <2>4. QED
    BY <2>2, <2>3, Zenon DEF Line
<1>3. QED
  BY <1>1, <1>2

-----------------------------------------------------------------------------
(* Steps of handlers.                                                      *)

\* A handler that goes on inside its callback, or ends.
MovesOn(n, to) ==
  /\ pc[n] \in Work /\ to \in HandlerPlaces(parent[n])
  /\ \A k \in Node : pc'[k] = IF k = n THEN to ELSE pc[k]
  /\ UNCHANGED <<nalloc, pid, handler, parent, signal_callback, shell_pid>>
  /\ \A k \in live : k # n \/ to # "none" => k \in live'

LEMMA MoveStep ==
  ASSUME SysInv, Up, NEW n \in Node, NEW to, MovesOn(n, to)
  PROVE  Startup' /\ Roles'
<1>1. /\ Startup /\ Roles /\ pc[n] \in Work /\ to \in HandlerPlaces(parent[n])
      /\ \A k \in Node : pc'[k] = IF k = n THEN to ELSE pc[k]
      /\ UNCHANGED <<nalloc, pid, handler, parent, signal_callback, shell_pid>>
      /\ \A k \in live : k # n \/ to # "none" => k \in live'
  BY DEF SysInv, KeyInv, MovesOn
<1>2. /\ 2 < n /\ n <= nalloc /\ 2 < nalloc /\ n \in live
      /\ pc[queue_base] = "loop" /\ pc[shell] = "loop" /\ shell_pid = 2
      /\ signal_callback[queue_base] /\ signal_callback[shell]
      /\ shell \in live /\ shell \in Node /\ pid[shell] = 2
  BY <1>1, Handlers
<1>3. nalloc \in Nat /\ Node \subseteq Nat /\ queue_base \in Node /\ queue_base # n /\ shell # n
  BY <1>2, SysFacts DEF queue_base, shell
<1>4. pc'[queue_base] = "loop" /\ pc'[shell] = "loop" /\ shell \in live'
  BY <1>1, <1>2, <1>3
<1>5. Startup'
  BY <1>1, <1>2, <1>3, <1>4 DEF Startup, shell
<1>6. ASSUME NEW h \in Node
      PROVE  /\ nalloc' < h => pc'[h] = "none"
             /\ h <= nalloc' => (handler'[h] <=> 2 < h)
             /\ 2 < h /\ h <= nalloc' =>
                  /\ parent'[h] \in {queue_base, shell} /\ pc'[h] \in HandlerPlaces(parent'[h])
                  /\ pc'[h] # "none" => h \in live'
  <2>1. CASE h = n
    BY <1>1, <1>2, <1>3, <2>1 DEF Roles
  <2>2. CASE h # n
    BY <1>1, <2>2 DEF Roles
  <2>3. QED
    BY <2>1, <2>2
<1>7. Roles'
  BY <1>6 DEF Roles, HandlerPlaces
<1>8. QED
  BY <1>5, <1>7

\* Such a step that reads no signal: HandlerLock, HandlerUnlock, HandlerExit,
\* FetchKeystroke, Enter, Check, Store.
LEMMA QuietMove ==
  ASSUME SysInv, Up, NEW n \in Node, NEW to, MovesOn(n, to), pc[n] # "fetch", UNCHANGED sigvars
  PROVE  Startup' /\ Roles' /\ Keys' /\ ShellReads'
<1>1. Keys /\ ShellReads /\ UNCHANGED <<rwlock, queue, handler, parent, nalloc>>
  BY DEF SysInv, KeyInv, sigvars, sigq, family, MovesOn
<1>2. Keys'
  BY <1>1, KeysKept
<1>3. \A h \in Node : pc[h] = "fetch" => pc'[h] = "fetch"
  BY DEF MovesOn
<1>4. ShellReads'
  BY <1>1, <1>3, ShellReadsKept
<1>5. QED
  BY <1>2, <1>4, MoveStep

\* A step inside a chain, or of a handler that is in none, leaves Flight.
LEMMA MoveInFlight ==
  ASSUME SysInv, Up, NEW n \in Node, NEW to, MovesOn(n, to), last_keystroke' = last_keystroke,
         \/ parent[n] = queue_base /\ {pc[n], to} \subseteq {"lock", "fetch", "send"}
         \/ parent[n] = queue_base /\ {pc[n], to} \cap {"lock", "fetch", "send"} = {}
         \/ parent[n] = shell /\ {pc[n], to} \subseteq {"fetch", "sysreq"}
         \/ parent[n] = shell /\ {pc[n], to} \cap {"fetch", "sysreq"} = {}
  PROVE  Flight'
<1>1. queue_base # shell /\ parent' = parent
  BY DEF queue_base, shell, MovesOn
<1>2. ASSUME NEW h \in Node PROVE InFlight(h)' <=> InFlight(h)
  <2>1. CASE h = n
    <3>1. pc'[n] = to
      BY DEF MovesOn
    <3>2. QED
      BY <1>1, <2>1, <3>1 DEF InFlight
  <2>2. CASE h # n
    <3>1. pc'[h] = pc[h]
      BY <2>2 DEF MovesOn
    <3>2. QED
      BY <1>1, <3>1 DEF InFlight
  <2>3. QED
    BY <2>1, <2>2
<1>3. Flight
  BY DEF SysInv, KeyInv
<1>4. QED
  BY <1>2, <1>3, FlightKept

\* A handler that neither stores nor is about to store leaves the line.
LEMMA MoveLine ==
  ASSUME SysInv, Up, NEW n \in Node, NEW to, MovesOn(n, to), pc[n] # "store", to # "store",
         UNCHANGED <<cmdbuf_idx, typed, overlapped>>,
         reg' = reg \/ \E v : reg' = [reg EXCEPT ![n] = v]
  PROVE  SysTypes' /\ Line'
<1>1. SysTypes /\ Line /\ DOMAIN reg = Node
  BY DEF SysInv, SysTypes
<1>2. \A h \in Node : pc'[h] = "store" <=> pc[h] = "store"
  BY DEF MovesOn
<1>3. DOMAIN reg' = Node /\ \A h \in Node : pc[h] = "store" => reg'[h] = reg[h]
  BY <1>1
<1>4. QED
  BY <1>1, <1>2, <1>3, LineKept

LEMMA GoesAlone ==
  ASSUME NEW n, NEW from, NEW to, Goes(n, from, to), nalloc' = nalloc
  PROVE  pc[n] = from /\ \A k \in Node : pc'[k] = IF k = n THEN to ELSE pc[k]
BY GoesPlaces DEF Goes

\* A handler's step of the programs alone is such a move.
LEMMA ProgramMove ==
  ASSUME NEW n \in Node, NEW from \in Work, NEW to \in Work, Goes(n, from, to), Quiet,
         shell_pid' = shell_pid, to \in HandlerPlaces(parent[n])
  PROVE  MovesOn(n, to) /\ UNCHANGED sigvars
<1>1. UNCHANGED <<nalloc, live, pid, handler, parent, signal_callback>> /\ UNCHANGED sigvars
  BY DEF Quiet, allvars, vars, sigvars, sigq, family
<1>2. QED
  BY <1>1, GoesAlone DEF MovesOn

LEMMA LockStep ==
  ASSUME SysInv, Up, NEW n \in Node, HandlerLock(n)
  PROVE  KeyInv' /\ SysTypes' /\ Line'
<1>1. /\ Quiet /\ Goes(n, "lock", "fetch") /\ pc[n] = "lock"
      /\ UNCHANGED <<last_keystroke, shell_pid, cmdbuf_idx, reg, typed, overlapped>>
  BY DEF HandlerLock, Goes, history
<1>2. parent[n] = queue_base
  <2>1. parent[n] \in {queue_base, shell} /\ pc[n] \in HandlerPlaces(parent[n])
    BY <1>1, Handlers DEF Work
  <2>2. QED
    BY <1>1, <2>1 DEF HandlerPlaces
<1>3. MovesOn(n, "fetch") /\ UNCHANGED sigvars
  BY <1>1, <1>2, ProgramMove DEF HandlerPlaces, Work
<1>4. Startup' /\ Roles' /\ Keys' /\ ShellReads'
  BY <1>1, <1>3, QuietMove
<1>5. Flight'
  BY <1>1, <1>2, <1>3, MoveInFlight
<1>6. SysTypes' /\ Line'
  BY <1>1, <1>3, MoveLine
<1>7. QED
  BY <1>4, <1>5, <1>6 DEF KeyInv

LEMMA UnlockStep ==
  ASSUME SysInv, Up, NEW n \in Node, HandlerUnlock(n)
  PROVE  KeyInv' /\ SysTypes' /\ Line'
<1>1. /\ Quiet /\ Goes(n, "unlock", "exit") /\ pc[n] = "unlock"
      /\ UNCHANGED <<last_keystroke, shell_pid, cmdbuf_idx, reg, typed, overlapped>>
  BY DEF HandlerUnlock, Goes, history
<1>2. parent[n] \in {queue_base, shell}
  BY <1>1, Handlers DEF Work
<1>3. MovesOn(n, "exit") /\ UNCHANGED sigvars
  BY <1>1, <1>2, ProgramMove DEF HandlerPlaces, Work
<1>4. Startup' /\ Roles' /\ Keys' /\ ShellReads'
  BY <1>1, <1>3, QuietMove
<1>5. Flight'
  BY <1>1, <1>2, <1>3, MoveInFlight
<1>6. SysTypes' /\ Line'
  BY <1>1, <1>3, MoveLine
<1>7. QED
  BY <1>4, <1>5, <1>6 DEF KeyInv

\* A handler that exits ends itself and nobody else, though kill looks up a
\* PID: or the machine stops.
LEMMA ExitStep ==
  ASSUME SysInv, NEW n \in Node, mode = "user", current_task = n, HandlerExit(n)
  PROVE  SysTypes' /\ (Up' => KeyInv' /\ Line')
<1>1. /\ Exit /\ UNCHANGED sigvars /\ Goes(n, "exit", "none") /\ pc[n] = "exit" /\ Up
      /\ UNCHANGED <<last_keystroke, shell_pid, cmdbuf_idx, reg, typed, overlapped>>
  BY DEF HandlerExit, Goes, history, Up
<1>2. nalloc' = nalloc /\ pid' = pid /\ UNCHANGED <<handler, parent, signal_callback>>
  BY <1>1 DEF Exit, Kill, sigvars, sigq, family
<1>3. SysTypes'
  <2>1. \A h \in Node : pc'[h] = "store" <=> pc[h] = "store"
    BY <1>1, <1>2, GoesAlone
  <2>2. SysTypes /\ DOMAIN reg = Node
    BY DEF SysInv, SysTypes
  <2>3. QED
    BY <1>1, <2>1, <2>2, LineKept
<1>4. ASSUME Up' PROVE KeyInv' /\ Line'
  <2>1. live' = live \ {n}
    BY <1>1, <1>4, SysFacts, KillIInv DEF Exited
  <2>2. parent[n] \in {queue_base, shell}
    BY <1>1, Handlers DEF Work
  <2>3. MovesOn(n, "none")
    BY <1>1, <1>2, <2>1, <2>2, GoesAlone DEF MovesOn, HandlerPlaces, Work
  <2>4. Startup' /\ Roles' /\ Keys' /\ ShellReads'
    BY <1>1, <2>3, QuietMove
  <2>5. Flight'
    BY <1>1, <2>2, <2>3, MoveInFlight
  <2>6. Line'
    BY <1>1, <2>3, MoveLine
  <2>7. QED
    BY <2>4, <2>5, <2>6 DEF KeyInv
<1>5. QED
  BY <1>3, <1>4

\* Where the handlers of the shell are.
LEMMA ShellHandlerAt ==
  ASSUME SysInv, Up, NEW n \in Node, pc[n] \in {"sysreq", "check", "store"}
  PROVE  parent[n] = shell /\ n \in ShellHandlers
<1>1. /\ parent[n] \in {queue_base, shell} /\ pc[n] \in HandlerPlaces(parent[n])
      /\ n \in live /\ handler[n]
  BY Handlers DEF Work
<1>2. parent[n] # queue_base
  BY <1>1 DEF HandlerPlaces
<1>3. QED
  BY <1>1, <1>2 DEF ShellHandlers

\* The one handler in flight takes the key, and with it the flight ends.
LEMMA TakeStep ==
  ASSUME SysInv, Up, NEW n \in Node, FetchKeystroke(n)
  PROVE  KeyInv' /\ SysTypes' /\ Line'
<1>1. /\ Quiet /\ Goes(n, "sysreq", "check") /\ pc[n] = "sysreq" /\ last_keystroke' = NoKey
      /\ reg' = [reg EXCEPT ![n] = last_keystroke]
      /\ UNCHANGED <<shell_pid, cmdbuf_idx, typed, overlapped>>
  BY DEF FetchKeystroke, Goes, history
<1>2. parent[n] = shell /\ shell # queue_base
  BY <1>1, ShellHandlerAt DEF shell, queue_base
<1>3. MovesOn(n, "check") /\ UNCHANGED sigvars
  BY <1>1, <1>2, ProgramMove DEF HandlerPlaces, Work
<1>4. Startup' /\ Roles' /\ Keys' /\ ShellReads'
  BY <1>1, <1>3, QuietMove
<1>5. Flight'
  <2>1. Flight /\ InFlight(n)
    BY <1>1, <1>2 DEF SysInv, KeyInv, InFlight
  <2>2. \A h \in Node : InFlight(h) => h = n
    BY <2>1, Zenon DEF Flight
  <2>3. ASSUME NEW h \in Node, InFlight(h)' PROVE FALSE
    <3>1. parent'[h] = parent[h] /\ pc'[h] = IF h = n THEN "check" ELSE pc[h]
      BY <1>3 DEF MovesOn
    <3>2. h # n
      BY <2>3, <3>1 DEF InFlight
    <3>3. InFlight(h)
      BY <2>3, <3>1, <3>2 DEF InFlight
    <3>4. QED
      BY <2>2, <3>2, <3>3
  <2>4. QED
    BY <1>1, <2>3 DEF Flight
<1>6. SysTypes' /\ Line'
  BY <1>1, <1>3, MoveLine
<1>7. QED
  BY <1>4, <1>5, <1>6 DEF KeyInv

\* What the three steps at the command line have in common.
LEMMA LineMove ==
  ASSUME SysInv, Up, NEW n \in Node, NEW from \in {"check", "store"}, NEW to \in {"store", "exit"},
         Quiet, Goes(n, from, to), UNCHANGED <<last_keystroke, shell_pid>>
  PROVE  KeyInv' /\ pc[n] = from /\ \A k \in Node : pc'[k] = IF k = n THEN to ELSE pc[k]
<1>1. pc[n] = from
  BY DEF Goes
<1>2. parent[n] = shell /\ shell # queue_base
  BY <1>1, ShellHandlerAt DEF shell, queue_base
<1>3. MovesOn(n, to) /\ UNCHANGED sigvars
  BY <1>2, ProgramMove DEF HandlerPlaces, Work
<1>4. Startup' /\ Roles' /\ Keys' /\ ShellReads'
  BY <1>1, <1>3, QuietMove
<1>5. Flight'
  BY <1>1, <1>2, <1>3, MoveInFlight
<1>6. QED
  BY <1>1, <1>3, <1>4, <1>5 DEF KeyInv, MovesOn

\* If n meets nobody there, then nobody else stores.
LEMMA NobodyStores ==
  ASSUME SysInv, Up, NEW n \in Node, ~ InMiddle(n)
  PROVE  \A k \in Node : k # n => pc[k] # "store"
BY ShellHandlerAt DEF InMiddle

LEMMA EnterStep ==
  ASSUME SysInv, Up, NEW n \in Node, Enter(n)
  PROVE  KeyInv' /\ SysTypes' /\ Line'
<1>1. /\ Quiet /\ Goes(n, "check", "exit") /\ cmdbuf_idx' = 0 /\ typed' = 0
      /\ overlapped' = (overlapped \/ InMiddle(n))
      /\ UNCHANGED <<last_keystroke, shell_pid, reg>>
  BY DEF Enter
<1>2. KeyInv' /\ \A k \in Node : pc'[k] = IF k = n THEN "exit" ELSE pc[k]
  BY <1>1, LineMove
<1>3. SysTypes'
  BY <1>1, <1>2 DEF SysInv, SysTypes
<1>4. ASSUME ~ overlapped'
      PROVE  \A k \in Node : pc'[k] # "store"
  <2>1. ~ InMiddle(n)
    BY <1>1, <1>4
  <2>2. QED
    BY <1>2, <2>1, NobodyStores
<1>5. Kept' = 0
  BY <1>1, SystemAssumption DEF Kept
<1>6. Line'
  BY <1>1, <1>4, <1>5, Zenon DEF Line
<1>7. QED
  BY <1>2, <1>3, <1>6

LEMMA CheckStep ==
  ASSUME SysInv, Up, NEW n \in Node, Check(n)
  PROVE  KeyInv' /\ SysTypes' /\ Line'
<1> DEFINE to == IF cmdbuf_idx < COMMAND_BUF_SIZE THEN "store" ELSE "exit"
<1>1. /\ Quiet /\ Goes(n, "check", to) /\ UNCHANGED <<last_keystroke, shell_pid, cmdbuf_idx>>
      /\ reg' = [reg EXCEPT ![n] = cmdbuf_idx] /\ typed' = typed + 1
      /\ overlapped' = (overlapped \/ InMiddle(n))
  BY DEF Check
<1>2. KeyInv' /\ pc[n] = "check" /\ \A k \in Node : pc'[k] = IF k = n THEN to ELSE pc[k]
  BY <1>1, LineMove
<1>3. SysTypes /\ DOMAIN reg = Node
  BY DEF SysInv, SysTypes
<1>4. /\ DOMAIN reg' = Node /\ reg'[n] = cmdbuf_idx
      /\ \A k \in Node : k # n => reg'[k] = reg[k]
  BY <1>1, <1>3
<1>5. SysTypes'
  BY <1>1, <1>2, <1>3, <1>4 DEF SysTypes
<1>6. ASSUME ~ overlapped'
      PROVE  /\ (\A h \in Node : pc'[h] # "store") => cmdbuf_idx' = Kept'
             /\ \A h \in Node : pc'[h] = "store" =>
                  /\ reg'[h] = cmdbuf_idx' /\ cmdbuf_idx' < COMMAND_BUF_SIZE
                  /\ typed' = cmdbuf_idx' + 1 /\ \A g \in Node : pc'[g] = "store" => g = h
  <2>1. ~ overlapped /\ ~ InMiddle(n)
    BY <1>1, <1>6
  <2>2. \A k \in Node : pc[k] # "store"
    BY <1>2, <2>1, NobodyStores
  <2>3. cmdbuf_idx = Kept
    BY <2>1, <2>2 DEF SysInv, Line
  <2>4. cmdbuf_idx \in Nat /\ typed \in Nat /\ COMMAND_BUF_SIZE \in Nat
    BY <1>3, SystemAssumption DEF SysTypes
  <2>5. CASE cmdbuf_idx < COMMAND_BUF_SIZE
    <3>1. typed = cmdbuf_idx
      BY <2>3, <2>4, <2>5 DEF Kept
    <3>2. pc'[n] = "store" /\ \A h \in Node : pc'[h] = "store" => h = n
      BY <1>2, <2>2, <2>5
    <3>3. QED
      BY <1>1, <1>4, <2>5, <3>1, <3>2
  <2>6. CASE ~ cmdbuf_idx < COMMAND_BUF_SIZE
    <3>1. Kept' = cmdbuf_idx
      BY <1>1, <2>3, <2>4, <2>6 DEF Kept
    <3>2. \A h \in Node : pc'[h] # "store"
      BY <1>2, <2>2, <2>6
    <3>3. QED
      BY <1>1, <3>1, <3>2
  <2>7. QED
    BY <2>5, <2>6
<1>7. Line'
  BY <1>6, Zenon DEF Line
<1>8. QED
  BY <1>2, <1>5, <1>7

LEMMA StoreStep ==
  ASSUME SysInv, Up, NEW n \in Node, Store(n)
  PROVE  KeyInv' /\ SysTypes' /\ Line'
<1>1. /\ Quiet /\ Goes(n, "store", "exit")
      /\ UNCHANGED <<last_keystroke, shell_pid, reg, typed, overlapped>>
  BY DEF Store, history
<1>2. PICK i \in {reg[n], cmdbuf_idx} : cmdbuf_idx' = i + 1
  BY DEF Store
<1>3. KeyInv' /\ pc[n] = "store" /\ \A k \in Node : pc'[k] = IF k = n THEN "exit" ELSE pc[k]
  BY <1>1, LineMove
<1>4. SysTypes /\ cmdbuf_idx \in Nat /\ typed \in Nat /\ reg[n] \in Nat /\ COMMAND_BUF_SIZE \in Nat
  BY <1>3, SystemAssumption DEF SysInv, SysTypes
<1>5. SysTypes'
  BY <1>1, <1>2, <1>3, <1>4 DEF SysTypes
<1>6. ASSUME ~ overlapped'
      PROVE  cmdbuf_idx' = Kept' /\ \A h \in Node : pc'[h] # "store"
  <2>1. Line /\ ~ overlapped
    BY <1>1, <1>6 DEF SysInv
  <2>2. /\ reg[n] = cmdbuf_idx /\ cmdbuf_idx < COMMAND_BUF_SIZE /\ typed = cmdbuf_idx + 1
        /\ \A g \in Node : pc[g] = "store" => g = n
    BY <1>3, <2>1, Zenon DEF Line
  <2>3. cmdbuf_idx' = typed
    BY <1>2, <2>2
  <2>4. Kept' = typed
    BY <1>1, <1>4, <2>2 DEF Kept
  <2>5. QED
    BY <1>3, <2>2, <2>3, <2>4
<1>7. Line'
  BY <1>6, Zenon DEF Line
<1>8. QED
  BY <1>3, <1>5, <1>7

\* psignal_fetch: a handler of init.sys finds the key that it was spawned
\* for, and goes on to pass it on; a handler of the shell goes on to take it.
LEMMA FetchStep ==
  ASSUME Disciplined, SysInv, NEW n \in Node, mode = "user", current_task = n, Fetch(n)
  PROVE  KeyInv' /\ SysTypes' /\ Line'
<1>1. /\ pc[n] = "fetch" /\ psignal_read /\ Up /\ reg' = [reg EXCEPT ![n] = rax']
      /\ UNCHANGED <<last_keystroke, shell_pid, cmdbuf_idx, typed, overlapped>>
  BY DEF Fetch, history, Up
<1>2. /\ handler[n] /\ parent[n] \in {queue_base, shell} /\ n \in live /\ n \notin fetched
      /\ queue_base # shell
  BY <1>1, Handlers DEF Work, SysInv, Readers, queue_base, shell
<1>3. SysRead
  BY SysFacts, FetchIsRead
<1>4. PICK m \in Node : /\ Popped(current_task, m) /\ rax' = Box(m)
                        /\ UNCHANGED <<queue, handler>>
                        /\ rwlock'[m] = 0 /\ \A k \in Node : k # m => rwlock'[k] = rwlock[k]
  BY <1>3, ReadValue, Zenon DEF SysInv
<1>5. m = parent[n] /\ ~ handler[m]
  BY <1>2, <1>4 DEF Popped
<1>6. UNCHANGED <<nalloc, live, pid, handler, parent, signal_callback>>
  BY <1>1 DEF psignal_read, vars, family
<1>7. Keys /\ ShellReads
  BY <1>1 DEF SysInv, KeyInv
<1>8. Keys'
  BY <1>4, <1>6, <1>7, KeysKept
<1>9. CASE parent[n] = queue_base
  <2>1. rwlock[m] = 1 /\ queue[m][0][2] = Key /\ queue[m][0] # Nothing
    <3>1. OneSignal /\ LetterInBox
      BY DEF SysInv, MailInv
    <3>2. Unread(n)
      BY <1>2 DEF Unread
    <3>3. rwlock[m] = 1
      BY <1>5, <3>1, <3>2 DEF OneSignal, Finds
    <3>4. TopBitsUntouched(queue[m][0])
      BY <1>5, <3>1, <3>3 DEF LetterInBox
    <3>5. QED
      BY <1>5, <1>7, <3>3, <3>4 DEF Keys, TopBitsUntouched
  <2>2. rax' # Nothing /\ rax'[2] = Key
    BY <1>4, <1>5, <2>1 DEF Box
  <2>3. Goes(n, "fetch", "send")
    BY <1>9, <2>2 DEF Fetch
  <2>4. MovesOn(n, "send")
    BY <1>1, <1>6, <1>9, <2>3, GoesAlone DEF MovesOn, HandlerPlaces, Work
  <2>5. Startup' /\ Roles'
    BY <1>1, <2>4, MoveStep
  <2>6. Flight'
    BY <1>1, <1>9, <2>4, MoveInFlight
  <2>7. ShellReads'
    <3>1. \A h \in Node : parent[h] = shell /\ pc[h] = "fetch" =>
            parent'[h] = shell /\ pc'[h] = "fetch"
      BY <1>2, <1>6, <1>9, <2>4 DEF MovesOn
    <3>2. rwlock'[shell] = 1 => rwlock[shell] = 1 \/ shell \notin Node
      BY <1>2, <1>4, <1>5, <1>9
    <3>3. shell \in Node
      BY <1>1, Handlers DEF Work
    <3>4. QED
      BY <1>6, <1>7, <3>1, <3>2, <3>3, ShellReadsKept
  <2>8. SysTypes' /\ Line'
    BY <1>1, <2>4, MoveLine
  <2>9. QED
    BY <1>8, <2>5, <2>6, <2>7, <2>8 DEF KeyInv
<1>10. CASE parent[n] = shell
  <2>1. Goes(n, "fetch", "sysreq")
    BY <1>2, <1>10 DEF Fetch
  <2>2. MovesOn(n, "sysreq")
    BY <1>1, <1>2, <1>6, <1>10, <2>1, GoesAlone DEF MovesOn, HandlerPlaces, Work
  <2>3. Startup' /\ Roles'
    BY <1>1, <2>2, MoveStep
  <2>4. Flight'
    BY <1>1, <1>10, <2>2, MoveInFlight
  <2>5. ShellReads'
    BY <1>4, <1>5, <1>10 DEF ShellReads, shell
  <2>6. SysTypes' /\ Line'
    BY <1>1, <2>2, MoveLine
  <2>7. QED
    BY <1>8, <2>3, <2>4, <2>5, <2>6 DEF KeyInv
<1>11. QED
  BY <1>2, <1>9, <1>10

-----------------------------------------------------------------------------
(* Whom signals reach.                                                     *)

\* The loop of locate_proc ends at a struct with the PID.
LEMMA ExaminedEndsAtHit ==
  ASSUME NEW L \in SUBSET Node, NEW pd, NEW nx, NEW p, queue_base \in L,
         \A k \in L : pd[k] # p => nx[k] \in L
  PROVE  Examined(pd, nx, p) \subseteq L
BY Zenon DEF Examined

\* The keyboard's psignal_send(1, ...) finds init.sys.
LEMMA LocatesInit ==
  ASSUME SysInv
  PROVE  locate_proc(pid, next, 1) = queue_base
<1>1. pid[queue_base] = 1 /\ queue_base \in Node
  BY SysFacts DEF IInv
<1>2. Examined(pid, next, 1) \subseteq {queue_base}
  <2> DEFINE L == {queue_base}
  <2>1. L \in SUBSET Node /\ queue_base \in L /\ \A k \in L : pid[k] # 1 => next[k] \in L
    BY <1>1
  <2> HIDE DEF L
  <2>2. Examined(pid, next, 1) \subseteq L
    BY <2>1, ExaminedEndsAtHit
  <2>3. QED
    BY <2>2 DEF L
<1>3. queue_base \in Matches(pid, next, 1)
  BY <1>1, ExaminedStarts DEF Matches
<1>4. QED
  BY <1>2, <1>3, LocateResult

\* PID 2 finds the shell: it is the struct behind queue_base.
LEMMA LocatesShell ==
  ASSUME SysInv, Up, nalloc > 1
  PROVE  locate_proc(pid, next, 2) = shell
<1>1. pid[queue_base] = 1 /\ pid[shell] = 2 /\ shell \in live /\ shell \in Node /\ queue_base \in Node
  BY SysFacts DEF IInv, SysInv, KeyInv, Startup
<1>2. next[queue_base] = shell
  <2>1. NextInOrder /\ live \subseteq Node /\ Node \subseteq Nat
    BY SysFacts DEF IInv, RingInv
  <2>2. queue_base # queue_head /\ queue_base \in live
    BY <1>1, <2>1 DEF NextInOrder, queue_base, shell
  <2>3. next[queue_base] \in live /\ queue_base < next[queue_base] /\ next[queue_base] <= shell
    BY <1>1, <2>1, <2>2 DEF NextInOrder, queue_base, shell
  <2>4. next[queue_base] \in Nat
    BY <2>1, <2>3
  <2>5. QED
    BY <2>3, <2>4 DEF queue_base, shell
<1>3. Examined(pid, next, 2) \subseteq {queue_base, shell}
  <2> DEFINE L == {queue_base, shell}
  <2>1. L \in SUBSET Node /\ queue_base \in L /\ \A k \in L : pid[k] # 2 => next[k] \in L
    BY <1>1, <1>2
  <2> HIDE DEF L
  <2>2. Examined(pid, next, 2) \subseteq L
    BY <2>1, ExaminedEndsAtHit
  <2>3. QED
    BY <2>2 DEF L
<1>4. shell \in Matches(pid, next, 2)
  <2>1. pid[queue_base] # 2 /\ next[queue_base] # queue_base /\ next[queue_base] \in Node
    BY <1>1, <1>2 DEF queue_base, shell
  <2>2. shell \in Examined(pid, next, 2)
    BY <1>2, <2>1, ExaminedStarts, ExaminedGoesOn
  <2>3. QED
    BY <1>1, <2>2 DEF Matches
<1>5. locate_proc(pid, next, 2) \in {queue_base, shell} /\ pid[locate_proc(pid, next, 2)] = 2
  BY <1>3, <1>4, LocateResult
<1>6. QED
  BY <1>1, <1>5

-----------------------------------------------------------------------------
(* Steps that spawn a handler.                                             *)

\* A signal s to r, whose handler h starts; n, if it moves, is a handler.
Spawns(n, to, r, s, h) ==
  /\ h = nalloc + 1 /\ h \in Node /\ r \in {queue_base, shell} /\ h # n
  /\ Accepted(r, h, s) /\ WithHandler(r, h, s) /\ s[2] = Key
  /\ pc[queue_base] = "loop" /\ pc[shell] = "loop" /\ shell_pid' = shell_pid
  /\ to = pc[n] \/ (pc[n] \in Work /\ to \in HandlerPlaces(parent[n]) \ {"none"})
  /\ \A k \in Node : pc'[k] = IF k = n THEN to ELSE IF k = h THEN StartPlace(k) ELSE pc[k]

\* The fields after it, one by one.
Spawned(n, to, r, s, h) ==
  /\ nalloc' = h /\ live' = live \cup {h} /\ nalloc > 1
  /\ shell \in live /\ shell \in Node /\ shell # h /\ queue_base # h /\ r # h
  /\ \A k \in Node : handler'[k] <=> k = h \/ handler[k]
  /\ \A k \in Node : parent'[k] = IF k = h THEN r ELSE parent[k]
  /\ \A k \in Node : rwlock'[k] = IF k = h \/ k = r THEN 1 ELSE rwlock[k]
  /\ \A k \in Node : k # h /\ k # r => queue'[k] = queue[k]
  /\ queue'[r][0] = s
  /\ \A k \in Node : k # h => (signal_callback'[k] <=> signal_callback[k])
  /\ \A k \in Node : k # h => pid'[k] = pid[k]
  /\ \A k \in Node : k # n /\ k # h => pc'[k] = pc[k]
  /\ pc'[n] = to /\ pc'[h] = IF r = queue_base THEN "lock" ELSE "fetch"

LEMMA SpawnFields ==
  ASSUME SysInv, Up, NEW n \in Node, NEW to, NEW r \in Node, NEW s \in Signal, NEW h,
         Spawns(n, to, r, s, h)
  PROVE  Spawned(n, to, r, s, h)
<1>1. /\ SigTypes /\ TypeOK /\ Family /\ OneSignal /\ Startup /\ Node \subseteq Nat /\ nalloc \in Nat
      /\ h = nalloc + 1 /\ h \in Node /\ h # n /\ r \in {queue_base, shell}
      /\ Accepted(r, h, s) /\ WithHandler(r, h, s)
      /\ \A k \in Node : pc'[k] = IF k = n THEN to ELSE IF k = h THEN StartPlace(k) ELSE pc[k]
  BY SysFacts DEF SysInv, KeyInv, MailInv, Spawns
<1>2. nalloc > 1
  BY <1>1, SysFacts DEF Startup, Spawns, Node
<1>3. shell \in live /\ shell \in Node /\ shell <= nalloc /\ queue_base <= nalloc
  BY <1>1, <1>2, SysFacts DEF Startup, queue_base, shell
<1>4. shell # h /\ queue_base # h /\ r # h
  BY <1>1, <1>2, <1>3 DEF queue_base, shell
<1>5. nalloc' = h /\ live' = live \cup {h}
  BY <1>1 DEF WithHandler
<1>6. \A k \in Node : handler'[k] <=> k = h \/ handler[k]
  BY <1>1, Zenon DEF SigTypes, WithHandler
<1>7. \A k \in Node : parent'[k] = IF k = h THEN r ELSE parent[k]
  BY <1>1, Zenon DEF SigTypes, WithHandler
<1>8. \A k \in Node : rwlock'[k] = IF k = h \/ k = r THEN 1 ELSE rwlock[k]
  BY <1>1 DEF SigTypes, WithHandler
<1>9. queue'[r][0] = s /\ \A k \in Node : k # h /\ k # r => queue'[k] = queue[k]
  <2>1. rwlock[r] = 0 /\ ~ handler[r]
    BY <1>1 DEF Accepted, Family
  <2>2. next_index[r] = 0
    BY <1>1, <2>1 DEF OneSignal
  <2>3. queue[r] \in [Slot -> Signal \cup {Nothing}] /\ 0 \in Slot
    <3>1. queue \in [Node -> [Slot -> Signal \cup {Nothing}]]
      BY <1>1 DEF SigTypes
    <3>2. 0 \in Slot
      BY DEF Slot, PSIGNAL_QUEUE_SIZE
    <3>3. QED
      BY <3>1, <3>2
  <2>4. queue' = [queue EXCEPT ![r] = [@ EXCEPT ![0] = s], ![h] = [queue[r] EXCEPT ![0] = s]]
    BY <1>1, <2>2, Zenon DEF WithHandler
  <2>5. QED
    BY <1>1, <1>4, <2>3, <2>4 DEF SigTypes
<1>10. \A k \in Node : k # h => (signal_callback'[k] <=> signal_callback[k])
  BY <1>1, Zenon DEF SigTypes, WithHandler
<1>11. \A k \in Node : k # h => pid'[k] = pid[k]
  BY <1>1, Zenon DEF TypeOK, WithHandler, SpawnHandler, Spawn
<1>12. StartPlace(h) = IF r = queue_base THEN "lock" ELSE "fetch"
  BY <1>1, <1>6, <1>7 DEF StartPlace
<1>13. QED
  BY <1>1, <1>2, <1>3, <1>4, <1>5, <1>6, <1>7, <1>8, <1>9, <1>10, <1>11, <1>12 DEF Spawned

LEMMA SpawnStep ==
  ASSUME SysInv, Up, NEW n \in Node, NEW to, NEW r \in Node, NEW s \in Signal, NEW h,
         Spawns(n, to, r, s, h)
  PROVE  Startup' /\ Roles' /\ Keys'
<1>1. Spawned(n, to, r, s, h)
  BY SpawnFields
<1>2. /\ h = nalloc + 1 /\ h \in Node /\ r \in {queue_base, shell} /\ h # n /\ s[2] = Key
      /\ pc[queue_base] = "loop" /\ pc[shell] = "loop" /\ shell_pid' = shell_pid
      /\ to = pc[n] \/ (pc[n] \in Work /\ to \in HandlerPlaces(parent[n]) \ {"none"})
  BY DEF Spawns
<1>3. Startup /\ Roles /\ Keys /\ Node \subseteq Nat /\ nalloc \in Nat /\ queue_base \in Node
  BY SysFacts DEF SysInv, KeyInv
<1>4. pc'[queue_base] = "loop" /\ pc'[shell] = "loop"
  BY <1>1, <1>2, <1>3 DEF Spawned, Work
<1>5. /\ pid[shell] = 2 /\ shell_pid = 2
      /\ signal_callback[queue_base] /\ signal_callback[shell]
  BY <1>1, <1>2 DEF Spawned, SysInv, KeyInv, Startup
<1>6. pid'[shell] = 2 /\ signal_callback'[queue_base] /\ signal_callback'[shell]
  BY <1>1, <1>3, <1>5 DEF Spawned
<1>7. Startup'
  BY <1>1, <1>2, <1>3, <1>4, <1>5, <1>6 DEF Spawned, Startup, shell
<1>8. ASSUME NEW k \in Node
      PROVE  /\ nalloc' < k => pc'[k] = "none"
             /\ k <= nalloc' => (handler'[k] <=> 2 < k)
             /\ 2 < k /\ k <= nalloc' =>
                  /\ parent'[k] \in {queue_base, shell} /\ pc'[k] \in HandlerPlaces(parent'[k])
                  /\ pc'[k] # "none" => k \in live'
  <2>1. CASE k = h
    <3>1. 2 < h /\ ~ (nalloc' < h)
      BY <1>1, <1>2, <1>3 DEF Spawned
    <3>2. parent'[k] = r /\ k \in live' /\ handler'[k]
      BY <1>1, <2>1 DEF Spawned
    <3>3. pc'[k] = IF r = queue_base THEN "lock" ELSE "fetch"
      BY <1>1, <2>1 DEF Spawned
    <3>4. pc'[k] \in HandlerPlaces(r)
      BY <3>3 DEF HandlerPlaces
    <3>5. QED
      BY <1>2, <2>1, <3>1, <3>2, <3>4
  <2>2. CASE k # h
    <3>1. (nalloc' < k => nalloc < k) /\ (k <= nalloc' => k <= nalloc)
      BY <1>1, <1>2, <1>3, <2>2 DEF Spawned
    <3>2. /\ parent'[k] = parent[k] /\ (handler'[k] <=> handler[k]) /\ (k \in live => k \in live')
          /\ pc'[k] = IF k = n THEN to ELSE pc[k]
      BY <1>1, <2>2 DEF Spawned
    <3>3. k # n \/ to = pc[n] =>
            /\ nalloc < k => pc'[k] = "none"
            /\ 2 < k /\ k <= nalloc =>
                 /\ parent[k] \in {queue_base, shell} /\ pc'[k] \in HandlerPlaces(parent[k])
                 /\ pc'[k] # "none" => k \in live
      BY <1>3, <3>2 DEF Roles
    <3>4. k = n /\ to # pc[n] =>
            /\ k <= nalloc /\ k \in live
            /\ parent[k] \in {queue_base, shell} /\ pc'[k] \in HandlerPlaces(parent[k])
      BY <1>2, <3>2, Handlers
    <3>5. k <= nalloc => (handler[k] <=> 2 < k)
      BY <1>3 DEF Roles
    <3>6. k <= nalloc => ~ (nalloc < k)
      BY <1>3
    <3>7. QED
      BY <3>1, <3>2, <3>3, <3>4, <3>5, <3>6
  <2>3. QED
    BY <2>1, <2>2
<1>9. Roles'
  BY <1>8 DEF Roles, HandlerPlaces
<1>10. Keys'
  <2>1. ASSUME NEW k \in Node, ~ handler'[k], rwlock'[k] = 1
        PROVE  queue'[k][0][2] = Key
    <3>1. k # h /\ ~ handler[k]
      BY <1>1, <2>1 DEF Spawned
    <3>2. CASE k = r
      BY <1>1, <1>2, <3>2 DEF Spawned
    <3>3. CASE k # r
      <4>1. rwlock[k] = 1 /\ queue'[k] = queue[k]
        BY <1>1, <2>1, <3>1, <3>3 DEF Spawned
      <4>2. QED
        BY <1>3, <3>1, <4>1 DEF Keys
    <3>4. QED
      BY <3>2, <3>3
  <2>2. QED
    BY <2>1 DEF Keys
<1>11. QED
  BY <1>7, <1>9, <1>10

\* A step that spawns a handler leaves the command line alone.
LEMMA SpawnLine ==
  ASSUME SysInv, Up, NEW n \in Node, NEW to, NEW r \in Node, NEW s \in Signal, NEW h,
         Spawns(n, to, r, s, h), to # "store", pc[n] # "store",
         UNCHANGED <<cmdbuf_idx, typed, overlapped, reg>>
  PROVE  SysTypes' /\ Line'
<1>1. Spawned(n, to, r, s, h) /\ h = nalloc + 1 /\ h \in Node
  BY SpawnFields DEF Spawns
<1>2. pc[h] # "store"
  <2>1. Roles /\ nalloc < h
    <3>1. Roles /\ nalloc \in Nat
      BY SysFacts DEF SysInv, KeyInv
    <3>2. QED
      BY <1>1, <3>1
  <2>2. QED
    BY <1>1, <2>1 DEF Roles
<1>3. pc'[h] # "store"
  BY <1>1 DEF Spawned
<1>4. \A k \in Node : pc'[k] = "store" <=> pc[k] = "store"
  BY <1>1, <1>2, <1>3 DEF Spawned
<1>5. SysTypes /\ Line /\ DOMAIN reg' = Node
  BY DEF SysInv, SysTypes
<1>6. QED
  BY <1>4, <1>5, LineKept

\* The handler of init.sys in flight passes the key on to the shell, whose
\* queue is empty: the shell's handler is in flight instead.  So nothing is
\* lost where the status of psignal_send is not looked at.
LEMMA SendOnStep ==
  ASSUME SysInv, NEW n \in Node, mode = "user", current_task = n, HandlerSend(n)
  PROVE  KeyInv' /\ SysTypes' /\ Line'
<1>1. /\ pc[n] = "send" /\ Goes(n, "send", "unlock") /\ Up
      /\ UNCHANGED <<last_keystroke, shell_pid, cmdbuf_idx, reg, typed, overlapped>>
  BY DEF HandlerSend, Goes, history, Up
<1>2. /\ 2 < nalloc /\ n <= nalloc /\ pc[queue_base] = "loop" /\ pc[shell] = "loop"
      /\ shell_pid = 2 /\ signal_callback[shell] /\ shell \in Node
      /\ parent[n] \in {queue_base, shell} /\ pc[n] \in HandlerPlaces(parent[n])
  BY <1>1, Handlers DEF Work
<1>3. /\ nalloc \in Nat /\ Node \subseteq Nat /\ SigTypes /\ Roles /\ OneSignal /\ Flight /\ ShellReads
  BY <1>1, SysFacts DEF SysInv, KeyInv, MailInv
<1>4. parent[n] = queue_base /\ shell # queue_base
  BY <1>1, <1>2 DEF HandlerPlaces, shell, queue_base
<1>5. InFlight(n) /\ \A g \in Node : InFlight(g) => g = n
  <2>1. InFlight(n)
    BY <1>1, <1>4 DEF InFlight
  <2>2. QED
    BY <1>3, <2>1, Zenon DEF Flight
<1>6. locate_proc(pid, next, shell_pid) = shell
  BY <1>1, <1>2, <1>3, LocatesShell
<1>7. rwlock[shell] = 0 /\ next_index[shell] = 0
  <2>1. ASSUME rwlock[shell] = 1 PROVE FALSE
    <3>1. PICK h \in Node : parent[h] = shell /\ pc[h] = "fetch"
      BY <1>2, <1>3, <2>1 DEF ShellReads
    <3>2. InFlight(h)
      BY <3>1 DEF InFlight
    <3>3. QED
      BY <1>4, <1>5, <3>1, <3>2
  <2>2. rwlock[shell] \in {0, 1}
    BY <1>2, <1>3 DEF SigTypes
  <2>3. ~ handler[shell]
    BY <1>2, <1>3 DEF Roles, shell
  <2>4. QED
    BY <1>2, <1>3, <2>1, <2>2, <2>3 DEF OneSignal
<1>8. psignal_send(2, Key)
  <2>1. Accepts(shell) /\ shell # NULL
    BY <1>7 DEF Accepts, PSIGNAL_QUEUE_SIZE, NULL, shell
  <2>2. QED
    BY <1>2, <1>6, <2>1 DEF HandlerSend, SysSend
<1>9. PICK s \in Signal :
        s[2] = Key /\ Accepted(shell, nalloc + 1, s) /\ WithHandler(shell, nalloc + 1, s)
  <2> DEFINE h == nalloc + 1
  <2>1. PICK r \in Node, s \in Signal :
          /\ r = locate_proc(pid, next, 2) /\ s[2] = Key
          /\ Accepted(r, h, s)
          /\ WithHandler(r, h, s) \/ WithoutHandler(r, s)
    BY <1>1, <1>8, SysFacts, SendStep, PsignalAssumption DEF Up
  <2>2. r = shell /\ ~ WithoutHandler(r, s)
    BY <1>2, <1>6, <2>1 DEF WithoutHandler
  <2>3. QED
    BY <2>1, <2>2
<1>10. PICK h \in Node : Spawns(n, "unlock", shell, s, h)
  <2> DEFINE h == nalloc + 1
  <2>1. h \in Node /\ nalloc' = h /\ h # n /\ h # nalloc
    BY <1>2, <1>3, <1>9 DEF WithHandler
  <2>2. \A k \in Node : pc'[k] = IF k = n THEN "unlock" ELSE IF k = h THEN StartPlace(k) ELSE pc[k]
    BY <1>1, <2>1, GoesPlaces
  <2>3. pc[n] \in Work /\ "unlock" \in HandlerPlaces(parent[n]) \ {"none"}
    BY <1>1, <1>4 DEF Work, HandlerPlaces
  <2> HIDE DEF h
  <2>4. QED
    BY <1>1, <1>2, <1>9, <2>1, <2>2, <2>3 DEF Spawns, h
<1>11. Startup' /\ Roles' /\ Keys' /\ Spawned(n, "unlock", shell, s, h)
  BY <1>1, <1>2, <1>10, SpawnStep, SpawnFields
<1>12. h \in Node /\ h # n
  BY <1>10 DEF Spawns
<1>13. parent'[h] = shell /\ pc'[h] = "fetch"
  BY <1>4, <1>11, <1>12 DEF Spawned
<1>14. Flight'
  <2>1. InFlight(h)'
    BY <1>13 DEF InFlight
  <2>2. ASSUME NEW g \in Node, InFlight(g)', g # h PROVE FALSE
    <3>1. parent'[g] = parent[g] /\ pc'[g] = IF g = n THEN "unlock" ELSE pc[g]
      BY <1>11, <2>2 DEF Spawned
    <3>2. CASE g = n
      BY <1>4, <2>2, <3>1, <3>2 DEF InFlight
    <3>3. CASE g # n
      BY <1>5, <2>2, <3>1, <3>3 DEF InFlight
    <3>4. QED
      BY <3>2, <3>3
  <2>3. last_keystroke' # NoKey
    BY <1>1, <1>3, <1>5 DEF Flight
  <2>4. QED
    BY <1>12, <2>1, <2>2, <2>3, Zenon DEF Flight
<1>15. ShellReads'
  BY <1>12, <1>13 DEF ShellReads, shell
<1>16. SysTypes' /\ Line'
  BY <1>1, <1>2, <1>10, SpawnLine
<1>17. QED
  BY <1>11, <1>14, <1>15, <1>16 DEF KeyInv

\* Nothing that the invariant speaks of changes.
LEMMA KeyInvKept ==
  ASSUME SysInv, Up, UNCHANGED <<live, nalloc, pid, next_pid, rwlock, queue, signal_callback,
                                 handler, parent, last_keystroke, shell_pid, reg,
                                 cmdbuf_idx, typed, overlapped>>,
         \A k \in Node : pc'[k] = pc[k]
  PROVE  KeyInv' /\ SysTypes' /\ Line'
<1>1. Startup /\ Roles /\ Keys /\ Flight /\ ShellReads /\ Line /\ SysTypes /\ DOMAIN reg = Node
  BY DEF SysInv, KeyInv, SysTypes
<1>2. Startup'
  <2>1. pc'[queue_base] = pc[queue_base]
    BY SysFacts
  <2>2. nalloc > 1 => shell \in Node
    BY <1>1, SysFacts DEF Startup
  <2>3. nalloc > 1 => pc'[shell] = pc[shell]
    BY <2>2
  <2>4. nalloc > 2 => nalloc > 1
    BY SysFacts
  <2>5. QED
    BY <1>1, <2>1, <2>3, <2>4 DEF Startup
<1>3. Roles'
  BY <1>1 DEF Roles, HandlerPlaces
<1>4. Keys'
  BY <1>1 DEF Keys
<1>5. \A h \in Node : InFlight(h)' <=> InFlight(h)
  BY DEF InFlight
<1>6. Flight'
  BY <1>1, <1>5, FlightKept
<1>7. ShellReads'
  BY <1>1 DEF ShellReads, shell
<1>8. SysTypes' /\ Line'
  BY <1>1, LineKept
<1>9. QED
  BY <1>2, <1>3, <1>4, <1>6, <1>7, <1>8 DEF KeyInv

\* The keyboard interrupt, while the shell is up: it spawns the handler of
\* init.sys that is now in flight, or drops the key.
LEMMA PressStep ==
  ASSUME ~ EarlyKeys, SysInv, NEW c \in Keystroke, Press(c)
  PROVE  KeyInv' /\ SysTypes' /\ Line'
<1>1. /\ Up /\ last_keystroke = NoKey /\ ShellIsUp
      /\ IF Accepts(queue_base) THEN KeyInterrupt ELSE Quiet
      /\ last_keystroke' =
           IF rwlock[queue_base] = 1 /\ next_index[queue_base] < PSIGNAL_QUEUE_SIZE
           THEN NoKey ELSE c
      /\ Goes(current_task, pc[current_task], pc[current_task])
      /\ UNCHANGED <<shell_pid, cmdbuf_idx, reg, typed, overlapped>>
  BY DEF Press, history
<1>2. /\ Startup /\ Roles /\ Keys /\ Flight /\ ShellReads /\ OneSignal /\ SigTypes
      /\ nalloc \in Nat /\ Node \subseteq Nat /\ queue_base \in Node
      /\ current_task \in Node /\ current_task <= nalloc
  BY <1>1, SysFacts DEF SysInv, KeyInv, MailInv
<1>3. pc[queue_base] = "loop" /\ pc[shell] = "loop" /\ nalloc > 1
  <2>1. PICK m \in Shells : pc[m] = "loop"
    BY <1>1 DEF ShellIsUp
  <2>2. m \in Node /\ m <= nalloc /\ ~ handler[m] /\ m # queue_base
    BY <1>1, SysFacts DEF Shells
  <2>3. m = shell
    BY <1>2, <2>2 DEF Roles, shell, queue_base, Node
  <2>4. QED
    BY <1>1, <1>2, <2>1, <2>2, <2>3 DEF ShellIsUp, shell
<1>4. shell \in live /\ shell \in Node /\ signal_callback[queue_base]
  BY <1>2, <1>3, SysFacts DEF Startup
<1>5. next_index[queue_base] = rwlock[queue_base] /\ rwlock[queue_base] \in {0, 1}
  <2>1. ~ handler[queue_base]
    BY <1>2, <1>3 DEF Roles, queue_base
  <2>2. QED
    BY <1>2, <2>1 DEF OneSignal, SigTypes
<1>6. CASE rwlock[queue_base] = 1
  <2>1. Quiet /\ last_keystroke' = last_keystroke
    BY <1>1, <1>5, <1>6 DEF Accepts, PSIGNAL_QUEUE_SIZE
  <2>2. UNCHANGED <<live, nalloc, pid, next_pid, rwlock, queue, signal_callback, handler, parent>>
    BY <2>1 DEF Quiet, allvars, vars, sigvars, sigq, family
  <2>3. \A k \in Node : pc'[k] = pc[k]
    BY <1>1, <2>2, GoesAlone
  <2>4. QED
    BY <1>1, <2>1, <2>2, <2>3, KeyInvKept
<1>7. CASE rwlock[queue_base] = 0
  <2> DEFINE n == current_task
  <2>1. psignal_send(1, Key) /\ last_keystroke' = c
    BY <1>1, <1>5, <1>7 DEF Accepts, PSIGNAL_QUEUE_SIZE, KeyInterrupt
  <2>2. PICK s \in Signal : /\ s[2] = Key /\ Accepted(queue_base, nalloc + 1, s)
                            /\ WithHandler(queue_base, nalloc + 1, s)
    <3> DEFINE h == nalloc + 1
    <3>1. PICK r \in Node, s \in Signal :
            /\ r = locate_proc(pid, next, 1) /\ s[2] = Key
            /\ Accepted(r, h, s)
            /\ WithHandler(r, h, s) \/ WithoutHandler(r, s)
      BY <1>1, <2>1, SysFacts, SendStep, PsignalAssumption DEF Up
    <3>2. r = queue_base /\ ~ WithoutHandler(r, s)
      BY <1>4, <3>1, LocatesInit DEF WithoutHandler
    <3>3. QED
      BY <3>1, <3>2
  <2>3. PICK h \in Node : Spawns(n, pc[n], queue_base, s, h)
    <3> DEFINE h == nalloc + 1
    <3>1. h \in Node /\ nalloc' = h /\ h # n /\ h # nalloc
      BY <1>2, <2>2 DEF WithHandler
    <3>2. \A k \in Node : pc'[k] = IF k = n THEN pc[n] ELSE IF k = h THEN StartPlace(k) ELSE pc[k]
      BY <1>1, <3>1, GoesPlaces
    <3> HIDE DEF h, n
    <3>3. QED
      BY <1>1, <1>3, <2>2, <3>1, <3>2 DEF Spawns, h
  <2>4. Startup' /\ Roles' /\ Keys' /\ Spawned(n, pc[n], queue_base, s, h) /\ h \in Node
    BY <1>1, <1>2, <2>3, SpawnStep, SpawnFields DEF Spawns
  <2>5. parent'[h] = queue_base /\ pc'[h] = "lock"
    BY <2>4 DEF Spawned
  <2>6. \A k \in Node : k # h => parent'[k] = parent[k] /\ pc'[k] = pc[k]
    BY <2>4 DEF Spawned
  <2>7. Flight'
    <3>1. InFlight(h)'
      BY <2>5 DEF InFlight
    <3>2. ASSUME NEW g \in Node, InFlight(g)', g # h PROVE FALSE
      <4>1. InFlight(g)
        BY <2>6, <3>2 DEF InFlight
      <4>2. QED
        BY <1>1, <1>2, <4>1 DEF Flight
    <3>3. last_keystroke' # NoKey
      BY <2>1, SystemAssumption DEF Keystroke, NoKey
    <3>4. QED
      BY <2>4, <3>1, <3>2, <3>3, Zenon DEF Flight
  <2>8. ShellReads'
    <3>1. rwlock'[shell] = rwlock[shell] /\ queue_base # shell
      BY <1>4, <2>4 DEF Spawned, queue_base, shell
    <3>2. pc[h] # "fetch"
      BY <1>2, <2>3 DEF Roles, Spawns
    <3>3. \A k \in Node : parent[k] = shell /\ pc[k] = "fetch" =>
                            parent'[k] = shell /\ pc'[k] = "fetch"
      BY <2>6, <3>2
    <3>4. QED
      BY <1>2, <1>3, <3>1, <3>3, ShellReadsKept
  <2>9. SysTypes' /\ Line'
    <3>1. SysTypes /\ Line /\ DOMAIN reg' = Node
      BY <1>1 DEF SysInv, SysTypes
    <3>2. pc[h] # "store" /\ pc'[h] # "store"
      BY <1>2, <2>3, <2>5 DEF Roles, Spawns
    <3>3. \A k \in Node : pc'[k] = "store" <=> pc[k] = "store"
      BY <2>6, <3>2
    <3>4. QED
      BY <1>1, <3>1, <3>3, LineKept
  <2>10. QED
    BY <2>4, <2>7, <2>8, <2>9 DEF KeyInv
<1>8. QED
  BY <1>5, <1>6, <1>7

-----------------------------------------------------------------------------
(* The two main programs start.                                            *)

\* While init.sys or the shell starts, no handler exists, nothing is in
\* flight and nobody stores.
LEMMA NobodyWorks ==
  ASSUME SysInv, Up, ~ (2 < nalloc)
  PROVE  \A h \in Node : pc[h] \notin Work
BY Handlers

\* Neither does a step that moves n, which is no handler, change that.
LEMMA StartKept ==
  ASSUME SysInv, Up, ~ (2 < nalloc), NEW n \in Node, NEW to, to \notin Work,
         \A k \in Node : k # n => pc'[k] = pc[k] \/ pc'[k] = "hook",
         pc'[n] = to, UNCHANGED <<last_keystroke, rwlock>>,
         UNCHANGED <<cmdbuf_idx, typed, overlapped>> \/ (cmdbuf_idx' = 0 /\ typed' = 0),
         DOMAIN reg' = Node, nalloc' > 1 => rwlock[shell] = 0 \/ nalloc > 1
  PROVE  Flight' /\ ShellReads' /\ SysTypes' /\ (overlapped' = overlapped => Line')
<1>1. \A h \in Node : pc[h] \notin Work /\ pc'[h] \notin Work
  <2>1. \A h \in Node : pc[h] \notin Work
    BY NobodyWorks
  <2>2. "hook" \notin Work
    BY DEF Work
  <2>3. QED
    BY <2>1, <2>2
<1>2. \A h \in Node : ~ InFlight(h) /\ ~ InFlight(h)' /\ pc[h] # "store" /\ pc'[h] # "store"
  BY <1>1 DEF InFlight, Work
<1>3. Flight /\ ShellReads /\ SysTypes /\ Line
  BY DEF SysInv, KeyInv
<1>4. Flight'
  BY <1>2, <1>3 DEF Flight
<1>5. ShellReads'
  <2>1. nalloc > 1 => rwlock[shell] # 1
    BY <1>1, <1>3 DEF ShellReads, Work
  <2>2. QED
    BY <2>1 DEF ShellReads, shell
<1>6. SysTypes'
  BY <1>2, <1>3 DEF SysTypes
<1>7. ASSUME overlapped' = overlapped PROVE Line'
  <2>1. ~ overlapped => cmdbuf_idx = Kept
    BY <1>2, <1>3 DEF Line
  <2>2. ~ overlapped => cmdbuf_idx' = Kept'
    BY <2>1, SystemAssumption DEF Kept
  <2>3. QED
    BY <1>2, <1>7, <2>2 DEF Line
<1>8. QED
  BY <1>4, <1>5, <1>6, <1>7

LEMMA InitHookStep ==
  ASSUME SysInv, mode = "user", current_task = queue_base, InitHook
  PROVE  KeyInv' /\ SysTypes' /\ Line'
<1>1. /\ pc[queue_base] = "hook" /\ Goes(queue_base, "hook", "spawn") /\ Up
      /\ signal_callback' = [signal_callback EXCEPT ![queue_base] = TRUE]
      /\ UNCHANGED <<live, nalloc, pid, next_pid, rwlock, queue, handler, parent>>
      /\ UNCHANGED <<last_keystroke, shell_pid, cmdbuf_idx, reg, typed, overlapped>>
  BY DEF InitHook, SysHook, Goes, history, Up, vars, family
<1>2. /\ Startup /\ Roles /\ Keys /\ SigTypes /\ nalloc \in Nat /\ Node \subseteq Nat
      /\ queue_base \in Node /\ DOMAIN reg = Node
  BY <1>1, SysFacts DEF SysInv, KeyInv, SysTypes
<1>3. nalloc = 1
  <2>1. ~ (nalloc > 1)
    BY <1>1, <1>2 DEF Startup
  <2>2. nalloc >= 1
    BY SysFacts DEF Node
  <2>3. QED
    BY <1>2, <2>1, <2>2
<1>4. /\ pc'[queue_base] = "spawn" /\ signal_callback'[queue_base]
      /\ \A k \in Node : k # queue_base => pc'[k] = pc[k]
  BY <1>1, <1>2, GoesAlone DEF SigTypes
<1>5. Startup'
  BY <1>1, <1>2, <1>3, <1>4 DEF Startup
<1>6. Roles'
  BY <1>1, <1>2, <1>3, <1>4 DEF Roles, HandlerPlaces, queue_base
<1>7. Keys'
  BY <1>1, <1>2, KeysKept
<1>8. Flight' /\ ShellReads' /\ SysTypes' /\ Line'
  <2>1. ~ (2 < nalloc) /\ ~ (nalloc' > 1) /\ "spawn" \notin Work
    BY <1>1, <1>3 DEF Work
  <2>2. QED
    BY <1>1, <1>2, <1>4, <2>1, StartKept
<1>9. QED
  BY <1>5, <1>6, <1>7, <1>8 DEF KeyInv

\* init.sys spawns the shell: the second struct, with PID 2.
LEMMA InitSpawnStep ==
  ASSUME SysInv, mode = "user", InitSpawn
  PROVE  KeyInv' /\ SysTypes' /\ Line'
<1>1. PICK m \in Masks : SpawnWithQueue(m)
  BY DEF InitSpawn
<1>2. /\ pc[queue_base] = "spawn" /\ Goes(queue_base, "spawn", "assign") /\ Up
      /\ reg' = [reg EXCEPT ![queue_base] = pid'[queue_head']]
      /\ UNCHANGED <<last_keystroke, shell_pid, cmdbuf_idx, typed, overlapped>>
  BY DEF InitSpawn, Goes, history, Up
<1>3. /\ Startup /\ Roles /\ Keys /\ SigTypes /\ TypeOK /\ Family /\ nalloc \in Nat
      /\ Node \subseteq Nat /\ queue_base \in Node /\ DOMAIN reg = Node
  BY <1>2, SysFacts DEF SysInv, KeyInv, SysTypes
<1>4. nalloc = 1 /\ next_pid = 2 /\ queue_base # shell
  <2>1. ~ (nalloc > 1)
    BY <1>2, <1>3 DEF Startup
  <2>2. nalloc >= 1
    BY SysFacts DEF Node
  <2>3. QED
    BY <1>3, <2>1, <2>2 DEF Startup, queue_base, shell
<1>5. /\ nalloc < MaxProc /\ nalloc' = shell /\ live' = live \cup {shell} /\ queue_head' = shell
      /\ pid' = [pid EXCEPT ![shell] = 2]
  <2>1. nalloc + 1 = shell
    BY <1>4 DEF shell
  <2>2. QED
    BY <1>1, <1>4, <2>1 DEF SpawnWithQueue, SysSpawn, Spawn
<1>6. shell \in Node
  BY <1>3, <1>4, <1>5, BoundsAssumption DEF Node, shell
<1>7. /\ rwlock' = [rwlock EXCEPT ![shell] = 0] /\ queue' = queue
      /\ signal_callback' = [signal_callback EXCEPT ![shell] = FALSE]
      /\ handler' = [handler EXCEPT ![shell] = FALSE]
  <2>1. nalloc + 1 = shell
    BY <1>4 DEF shell
  <2>2. QED
    BY <1>1, <2>1, Zenon DEF SpawnWithQueue
<1>8. rwlock[shell] = 0
  BY <1>3, <1>4, <1>6 DEF Family, shell
<1>9. rwlock' = rwlock
  BY <1>3, <1>6, <1>7, <1>8 DEF SigTypes
<1>10. ~ handler'[shell] /\ \A k \in Node : k # shell => (handler'[k] <=> handler[k])
  BY <1>3, <1>6, <1>7, Zenon DEF SigTypes
<1>11. signal_callback'[queue_base] <=> signal_callback[queue_base]
  BY <1>3, <1>4, <1>7, Zenon DEF SigTypes
<1>12. /\ pc'[queue_base] = "assign" /\ pc'[shell] = "hook"
       /\ \A k \in Node : k # queue_base /\ k # shell => pc'[k] = pc[k]
  <2>1. nalloc' # nalloc /\ queue_base # nalloc' /\ nalloc' = shell
    BY <1>4, <1>5 DEF shell
  <2>2. StartPlace(shell) = "hook"
    BY <1>10 DEF StartPlace
  <2>3. \A k \in Node : pc'[k] = IF k = queue_base THEN "assign"
                                 ELSE IF k = shell THEN StartPlace(k) ELSE pc[k]
    BY <1>2, <2>1, GoesPlaces
  <2>4. QED
    BY <1>3, <1>4, <1>6, <2>2, <2>3
<1>13. pid'[shell] = 2 /\ reg'[queue_base] = 2 /\ DOMAIN reg' = Node
  BY <1>2, <1>3, <1>5, <1>6 DEF TypeOK
<1>14. Startup'
  BY <1>2, <1>3, <1>5, <1>11, <1>12, <1>13 DEF Startup, shell
<1>15. Roles'
  <2>1. ASSUME NEW k \in Node
        PROVE  /\ nalloc' < k => pc'[k] = "none"
               /\ k <= nalloc' => (handler'[k] <=> 2 < k)
               /\ ~ (2 < k /\ k <= nalloc')
    <3>1. k \in Nat /\ 1 <= k
      BY DEF Node
    <3>2. CASE k = shell \/ k = queue_base
      BY <1>3, <1>4, <1>5, <1>10, <3>1, <3>2 DEF Roles, shell, queue_base
    <3>3. CASE k # shell /\ k # queue_base
      BY <1>3, <1>4, <1>5, <1>12, <3>1, <3>3 DEF Roles, shell, queue_base
    <3>4. QED
      BY <3>2, <3>3
  <2>2. QED
    BY <2>1, Zenon DEF Roles
<1>16. Keys'
  BY <1>3, <1>7, <1>8, <1>9, <1>10, KeysKept
<1>17. Flight' /\ ShellReads' /\ SysTypes' /\ Line'
  <2>1. ~ (2 < nalloc) /\ "assign" \notin Work
    BY <1>4 DEF Work
  <2>2. QED
    BY <1>2, <1>3, <1>8, <1>9, <1>12, <1>13, <2>1, StartKept
<1>18. QED
  BY <1>14, <1>15, <1>16, <1>17 DEF KeyInv

\* The shell has been spawned and no handler has.
LEMMA TwoProcesses ==
  ASSUME SysInv, Up, NEW n \in Node, n <= nalloc, ~ handler[n],
         \/ n = queue_base /\ pc[n] = "assign"
         \/ n # queue_base /\ pc[n] \in {"hook", "reset"}
  PROVE  nalloc = 2 /\ shell \in Node /\ shell # queue_base /\ (n # queue_base => n = shell)
<1>1. Startup /\ Roles /\ nalloc \in Nat /\ n \in Nat /\ 1 <= n
  BY SysFacts DEF SysInv, KeyInv, Node
<1>2. n # queue_base => n = shell
  BY <1>1 DEF Roles, queue_base, shell
<1>3. nalloc # 1 /\ ~ (2 < nalloc)
  BY <1>1, <1>2 DEF Startup, queue_base, shell
<1>4. nalloc = 2
  BY <1>1, <1>3
<1>5. shell \in Node
  BY <1>1, <1>4, SysFacts DEF Startup
<1>6. QED
  BY <1>2, <1>4, <1>5 DEF shell, queue_base

\* What the steps of the two between the spawn of the shell and its loop do.
LEMMA MainMoves ==
  ASSUME SysInv, Up, NEW n \in {queue_base, shell}, nalloc = 2, shell \in Node,
         NEW to \in {"loop", "reset"}, n = queue_base => to = "loop",
         \A k \in Node : pc'[k] = IF k = n THEN to ELSE pc[k],
         UNCHANGED <<live, nalloc, pid, rwlock, queue, handler, parent>>,
         \A k \in {queue_base, shell} : signal_callback[k] => signal_callback'[k],
         n = shell => signal_callback'[shell],
         shell_pid' = IF pc'[queue_base] = "loop" THEN 2 ELSE 0,
         UNCHANGED <<last_keystroke, reg, overlapped>>,
         UNCHANGED <<cmdbuf_idx, typed>> \/ (cmdbuf_idx' = 0 /\ typed' = 0)
  PROVE  KeyInv' /\ SysTypes' /\ Line'
<1>1. /\ Startup /\ Roles /\ Keys /\ Node \subseteq Nat /\ queue_base \in Node /\ DOMAIN reg = Node
      /\ queue_base # shell /\ n \in Node
  BY SysFacts DEF SysInv, KeyInv, SysTypes, queue_base, shell
<1>2. /\ pc'[n] = to /\ \A k \in Node : k # n => pc'[k] = pc[k]
  BY <1>1
<1>3. Startup'
  BY <1>1, <1>2 DEF Startup
<1>4. Roles'
  <2>1. ASSUME NEW k \in Node
        PROVE  /\ nalloc' < k => pc'[k] = "none"
               /\ k <= nalloc' => (handler'[k] <=> 2 < k)
               /\ ~ (2 < k /\ k <= nalloc')
    BY <1>1, <1>2 DEF Roles, queue_base, shell
  <2>2. QED
    BY <2>1, Zenon DEF Roles
<1>5. Keys'
  BY <1>1, KeysKept
<1>6. Flight' /\ ShellReads' /\ SysTypes' /\ Line'
  <2>1. ~ (2 < nalloc) /\ to \notin Work /\ nalloc > 1
    BY DEF Work
  <2>2. QED
    BY <1>1, <1>2, <2>1, StartKept
<1>7. QED
  BY <1>3, <1>4, <1>5, <1>6 DEF KeyInv

\* init.sys stores the PID of the shell.
LEMMA InitStoreStep ==
  ASSUME SysInv, Up, InitStore
  PROVE  KeyInv' /\ SysTypes' /\ Line'
<1>1. /\ Quiet /\ pc[queue_base] = "assign" /\ Goes(queue_base, "assign", "loop")
      /\ shell_pid' = reg[queue_base]
      /\ UNCHANGED <<last_keystroke, cmdbuf_idx, reg, typed, overlapped>>
  BY DEF InitStore, Goes, history
<1>2. UNCHANGED <<live, nalloc, pid, rwlock, queue, handler, parent, signal_callback>>
  BY <1>1 DEF Quiet, allvars, vars, sigvars, sigq, family
<1>3. Startup /\ Roles /\ nalloc \in Nat /\ queue_base \in Node /\ queue_base <= nalloc
  BY SysFacts DEF SysInv, KeyInv, Node, queue_base
<1>4. nalloc = 2 /\ shell \in Node /\ shell # queue_base
  BY <1>1, <1>3, TwoProcesses DEF Roles, queue_base
<1>5. shell_pid' = 2 /\ pc'[queue_base] = "loop"
  BY <1>1, <1>2, <1>3, GoesAlone DEF Startup
<1>6. \A k \in Node : pc'[k] = IF k = queue_base THEN "loop" ELSE pc[k]
  BY <1>1, <1>2, GoesAlone
<1>7. QED
  BY <1>1, <1>2, <1>4, <1>5, <1>6, MainMoves

\* shell.sys hooks its callback, and resets its index.
LEMMA ShellStartStep ==
  ASSUME SysInv, NEW n \in Node, mode = "user", current_task = n, ShellHook(n) \/ ShellReset(n)
  PROVE  KeyInv' /\ SysTypes' /\ Line'
<1>1. /\ Up /\ Startup /\ Roles /\ SigTypes /\ nalloc \in Nat /\ Node \subseteq Nat
      /\ queue_base \in Node /\ n <= nalloc /\ n \in live
  BY SysFacts DEF SysInv, KeyInv, Up, IInv, CurrentInv
<1>2. pc[n] \in {"hook", "reset"} /\ n # queue_base /\ ~ handler[n]
  <2>1. CASE ShellHook(n)
    BY <2>1 DEF ShellHook, Shells, Goes
  <2>2. CASE ShellReset(n)
    <3>1. pc[n] = "reset"
      BY <2>2 DEF ShellReset, Goes
    <3>2. n # queue_base
      BY <1>1, <3>1, SysFacts DEF Startup, Node
    <3>3. ~ handler[n]
      <4>1. HandlerPlaces(parent[n]) \cap {"reset"} = {}
        BY DEF HandlerPlaces
      <4>2. QED
        BY <1>1, <3>1, <4>1 DEF Roles
    <3>4. QED
      BY <3>1, <3>2, <3>3
  <2>3. QED
    BY <2>1, <2>2
<1>3. nalloc = 2 /\ shell \in Node /\ shell # queue_base /\ n = shell
  BY <1>1, <1>2, TwoProcesses
<1>4. /\ UNCHANGED <<live, nalloc, pid, rwlock, queue, handler, parent>>
      /\ UNCHANGED <<last_keystroke, shell_pid, reg, overlapped>>
      /\ UNCHANGED <<cmdbuf_idx, typed>> \/ (cmdbuf_idx' = 0 /\ typed' = 0)
  BY DEF ShellHook, SysHook, ShellReset, Quiet, history, allvars, vars, sigvars, sigq, family
<1>5. /\ \A k \in {queue_base, shell} : signal_callback[k] => signal_callback'[k]
      /\ signal_callback'[shell]
  <2>1. CASE ShellHook(n)
    <3>1. signal_callback' = [signal_callback EXCEPT ![shell] = TRUE]
      BY <1>3, <2>1 DEF ShellHook, SysHook
    <3>2. QED
      BY <1>1, <1>3, <3>1, Zenon DEF SigTypes
  <2>2. CASE ShellReset(n)
    <3>1. UNCHANGED signal_callback
      BY <2>2 DEF ShellReset, Quiet, allvars, sigvars, sigq
    <3>2. pc[shell] = "reset"
      BY <1>3, <2>2 DEF ShellReset, Goes
    <3>3. QED
      BY <1>1, <1>3, <3>1, <3>2 DEF Startup
  <2>3. QED
    BY <2>1, <2>2
<1>6. PICK to \in {"reset", "loop"} : \A k \in Node : pc'[k] = IF k = shell THEN to ELSE pc[k]
  <2>1. Goes(shell, "hook", "reset") \/ Goes(shell, "reset", "loop")
    BY <1>3 DEF ShellHook, ShellReset
  <2>2. CASE Goes(shell, "hook", "reset")
    BY <1>4, <2>2, GoesAlone
  <2>3. CASE Goes(shell, "reset", "loop")
    BY <1>4, <2>3, GoesAlone
  <2>4. QED
    BY <2>1, <2>2, <2>3
<1>7. shell_pid' = IF pc'[queue_base] = "loop" THEN 2 ELSE 0
  BY <1>1, <1>3, <1>4, <1>6 DEF Startup
<1>8. QED
  BY <1>1, <1>3, <1>4, <1>5, <1>6, <1>7, MainMoves

-----------------------------------------------------------------------------
(* The invariant is kept, and what follows from it.                        *)

LEMMA SysInitInv == SysInit => SysInv
<1> SUFFICES ASSUME SysInit PROVE SysInv
  OBVIOUS
<1>1. MailInv /\ ProgInv /\ queue_base \in Node
  BY MailInit, ProgInvInit, NodeFacts DEF SysInit
<1>2. /\ nalloc = 1 /\ next_pid = 2 /\ last_keystroke = NoKey /\ shell_pid = 0
      /\ cmdbuf_idx = 0 /\ typed = 0 /\ pc = [n \in Node |-> IF n = queue_base THEN "hook" ELSE "none"]
      /\ reg = [n \in Node |-> Nothing]
      /\ rwlock = [n \in Node |-> 0] /\ handler = [n \in Node |-> FALSE]
  BY DEF SysInit, PsInit, Init
<1>3. Startup
  BY <1>1, <1>2 DEF Startup
<1>4. Roles
  BY <1>2 DEF Roles, queue_base, Node
<1>5. Keys /\ Flight /\ ShellReads
  BY <1>2 DEF Keys, Flight, InFlight, ShellReads
<1>6. SysTypes /\ Line
  BY <1>2, SystemAssumption DEF SysTypes, Line, Kept
<1>7. QED
  BY <1>1, <1>3, <1>4, <1>5, <1>6 DEF SysInv, ProgInv, KeyInv

LEMMA SysInvStep ==
  ASSUME Disciplined, ~ EarlyKeys, MaxProc < PidMax, SysInv, [SysNext]_sysvars
  PROVE  SysInv'
<1>1. ProgInv /\ [PsNext]_allvars
  BY SysFacts, SysStepIsPsStep
<1>2. MailInv' /\ SpawnAssertHolds' /\ Readers'
  BY <1>1, MailInvStep, ProgInvStep DEF SysInv, ProgInv
<1>3. SysTypes' /\ (Up' => KeyInv' /\ Line')
  <2>1. ASSUME NEW n \in Node, ProcStep(n)
        PROVE  SysTypes' /\ (Up' => KeyInv' /\ Line')
    <3>1. mode = "user" /\ current_task = n /\ Up
      BY <2>1 DEF ProcStep, Up
    <3>2. CASE n = queue_base /\ (InitHook \/ InitSpawn \/ InitStore)
      BY <3>1, <3>2, InitHookStep, InitSpawnStep, InitStoreStep
    <3>3. CASE HandlerLock(n) \/ HandlerUnlock(n)
      BY <3>1, <3>3, LockStep, UnlockStep
    <3>4. CASE Fetch(n)
      BY <3>1, <3>4, FetchStep
    <3>5. CASE HandlerSend(n)
      BY <3>1, <3>5, SendOnStep
    <3>6. CASE HandlerExit(n)
      BY <3>1, <3>6, ExitStep
    <3>7. CASE ShellHook(n) \/ ShellReset(n)
      BY <3>1, <3>7, ShellStartStep
    <3>8. CASE FetchKeystroke(n)
      BY <3>1, <3>8, TakeStep
    <3>9. CASE Enter(n)
      BY <3>1, <3>9, EnterStep
    <3>10. CASE Check(n)
      BY <3>1, <3>10, CheckStep
    <3>11. CASE Store(n)
      BY <3>1, <3>11, StoreStep
    <3>12. QED
      BY <2>1, <3>2, <3>3, <3>4, <3>5, <3>6, <3>7, <3>8, <3>9, <3>10, <3>11, Zenon DEF ProcStep
  <2>2. ASSUME NEW c \in Keystroke, Press(c)
        PROVE  SysTypes' /\ (Up' => KeyInv' /\ Line')
    BY <2>2, PressStep
  <2>3. CASE SysTick
    <3>1. /\ Up /\ UNCHANGED <<live, nalloc, pid, next_pid>> /\ UNCHANGED <<sigvars, programs, history>>
          /\ UNCHANGED last_keystroke
      BY <2>3 DEF SysTick, Tick
    <3>2. UNCHANGED <<live, nalloc, pid, next_pid, rwlock, queue, signal_callback, handler, parent,
                      last_keystroke, shell_pid, reg, cmdbuf_idx, typed, overlapped, pc>>
      BY <3>1 DEF sigvars, sigq, family, programs, history
    <3>3. QED
      BY <3>1, <3>2, KeyInvKept
  <2>4. CASE UNCHANGED sysvars
    <3>1. UNCHANGED <<live, nalloc, pid, next_pid, mode, rwlock, queue, signal_callback, handler,
                      parent, last_keystroke, shell_pid, reg, cmdbuf_idx, typed, overlapped, pc>>
      BY <2>4 DEF sysvars, allvars, vars, sigvars, sigq, family, programs, history
    <3>2. SysTypes'
      BY <3>1 DEF SysInv, SysTypes
    <3>3. Up' => Up
      BY <3>1 DEF Up
    <3>4. QED
      BY <3>1, <3>2, <3>3, KeyInvKept
  <2>5. QED
    BY <2>1, <2>2, <2>3, <2>4 DEF SysNext
<1>4. QED
  BY <1>2, <1>3 DEF SysInv

LEMMA SysInvariantProof ==
  ASSUME Disciplined, ~ EarlyKeys, MaxProc < PidMax
  PROVE  SysSpec => []SysInv
<1>1. SysInit => SysInv
  BY SysInitInv
<1>2. SysInv /\ [SysNext]_sysvars => SysInv'
  BY SysInvStep
<1>3. QED
  BY <1>1, <1>2, PTL DEF SysSpec

\* Every key that irq1_isr buffers while the shell is up has exactly one
\* handler underway to it, of init.sys or then of the shell, and no handler
\* looks for a key that is not there: whatever ticks and other keys come
\* between the steps of the callbacks, and though psignal_send is not asked
\* for its status.
THEOREM OneHandlerPerKey ==
  ASSUME Disciplined, ~ EarlyKeys, MaxProc < PidMax
  PROVE  SysSpec => []OneInFlight
<1>1. ASSUME SysInv, Up
      PROVE  OneInFlight
  <2> DEFINE toSend == {n \in InitHandlers : pc[n] \in {"lock", "fetch", "send"}}
             toFetch == {n \in ShellHandlers : pc[n] \in {"fetch", "sysreq"}}
             F == {n \in Node : InFlight(n)}
  <2>1. Flight
    BY <1>1 DEF SysInv, KeyInv
  <2>2. toSend \cup toFetch = F
    <3>1. ASSUME NEW h \in Node, InFlight(h)
          PROVE  h \in toSend \cup toFetch
      <4>1. pc[h] \in Work
        BY <3>1 DEF InFlight, Work
      <4>2. h \in live /\ handler[h] /\ queue_base # shell
        BY <1>1, <4>1, Handlers DEF queue_base, shell
      <4>3. QED
        BY <3>1, <4>2 DEF InFlight, InitHandlers, ShellHandlers
    <3>2. ASSUME NEW h \in toSend \cup toFetch
          PROVE  h \in Node /\ InFlight(h)
      <4>1. h \in live /\ pc[h] \in Work /\ (parent[h] = queue_base <=> h \in toSend)
        BY DEF InitHandlers, ShellHandlers, Work
      <4>2. h \in Node
        BY <1>1, <4>1, SysFacts
      <4>3. parent[h] \in {queue_base, shell}
        BY <1>1, <4>1, <4>2, Handlers
      <4>4. QED
        BY <4>1, <4>2, <4>3 DEF InFlight
    <3>3. QED
      BY <3>1, <3>2
  <2>3. last_keystroke = NoKey => F = {}
    BY <2>1 DEF Flight
  <2>4. ASSUME last_keystroke # NoKey PROVE Cardinality(F) = 1
    <3>1. PICK h \in Node : InFlight(h) /\ \A g \in Node : InFlight(g) => g = h
      BY <2>1, <2>4 DEF Flight
    <3>2. F = {h}
      BY <3>1
    <3>3. QED
      BY <3>2, FS_Singleton
  <2> HIDE DEF F, toSend, toFetch
  <2>5. /\ last_keystroke = NoKey => toSend \cup toFetch = {}
        /\ last_keystroke # NoKey => Cardinality(toSend \cup toFetch) = 1
    BY <2>2, <2>3, <2>4
  <2>6. QED
    BY <2>5 DEF OneInFlight, toSend, toFetch
<1>2. SysInv => OneInFlight
  BY <1>1 DEF OneInFlight
<1>3. QED
  BY <1>2, SysInvariantProof, PTL

\* init.sys's psignal_send(shell_pid, ...) reaches the shell: locate_proc
\* never finds a handler with the same number first.
THEOREM ShellGetsTheKeys ==
  ASSUME Disciplined, ~ EarlyKeys, MaxProc < PidMax
  PROVE  SysSpec => []ShellAddressed
<1>1. ASSUME SysInv, Up, shell_pid # 0
      PROVE  locate_proc(pid, next, shell_pid) \in Shells
  <2>1. Startup /\ Roles /\ nalloc \in Nat /\ nalloc >= 1
    BY <1>1, SysFacts DEF SysInv, KeyInv, Node
  <2>2. pc[queue_base] = "loop" /\ shell_pid = 2
    BY <1>1, <2>1 DEF Startup
  <2>3. nalloc > 1
    BY <2>1, <2>2 DEF Startup
  <2>4. locate_proc(pid, next, shell_pid) = shell
    BY <1>1, <2>2, <2>3, LocatesShell
  <2>5. shell \in live /\ shell \in Node /\ ~ handler[shell] /\ shell # queue_base
    <3>1. shell \in live /\ shell \in Node
      BY <1>1, <2>1, <2>3, SysFacts DEF Startup
    <3>2. shell <= nalloc /\ ~ (2 < shell) /\ shell # queue_base
      BY <2>1, <2>3 DEF shell, queue_base
    <3>3. QED
      BY <2>1, <3>1, <3>2 DEF Roles
  <2>6. QED
    BY <2>4, <2>5 DEF Shells
<1>2. SysInv => ShellAddressed
  BY <1>1 DEF ShellAddressed
<1>3. QED
  BY <1>2, SysInvariantProof, PTL

\* As long as no two handlers of the shell met between their look at
\* cmdbuf_idx and the store, no character since the last Enter is missing
\* from the command buffer, and none lies beyond its end.
THEOREM LineIsComplete ==
  ASSUME Disciplined, ~ EarlyKeys, MaxProc < PidMax
  PROVE  SysSpec => []LineComplete
<1>1. ASSUME SysInv, Up, ~ overlapped, \A n \in ShellHandlers : pc[n] # "store"
      PROVE  cmdbuf_idx = Kept
  <2>1. \A h \in Node : pc[h] # "store"
    BY <1>1, ShellHandlerAt
  <2>2. QED
    BY <1>1, <2>1 DEF SysInv, Line
<1>2. SysInv => LineComplete
  BY <1>1 DEF LineComplete, Kept
<1>3. QED
  BY <1>2, SysInvariantProof, PTL
=============================================================================
