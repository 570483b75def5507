------------------------------ MODULE Psignal ------------------------------
(***************************************************************************)
(* Process signals (psignal_send, psignal_read, psignal_exec_callback in   *)
(* kernel/src/proc/proc.c), on top of the process queue.                   *)
(*                                                                         *)
(* Every process has a struct SignalQueue: three slots, a push/pop index   *)
(* and a lock that psignal_send takes and psignal_read releases.  If the   *)
(* receiver hooked a callback, psignal_send also spawns a handler process  *)
(* that runs it; the handler works on its parent's queue, but carries a    *)
(* copy of it made when it was spawned.                                    *)
(***************************************************************************)
EXTENDS ProcQueue

CONSTANTS
  Dwords,        \* the payloads programs send
  Key,           \* the payload of the keyboard interrupt
  ReadFloor,     \* bound: how far below 256 repeated reads take next_index
  MaxSignals,    \* bound: signals accepted in one behaviour
  Disciplined    \* TRUE: programs read and hook as init.sys and shell do

ASSUME PsignalAssumption ==
  /\ Key \in Dwords /\ Disciplined \in BOOLEAN
  /\ ReadFloor \in 4..255 /\ MaxSignals \in Nat

PSIGNAL_QUEUE_SIZE == 3
Slot == 0..(PSIGNAL_QUEUE_SIZE - 1)

\* A signal: bits 47-32 the sender's PID, bits 31-0 the payload.
Signal == PID_T \X Dwords
Nothing == <<>>          \* an empty slot; the 0 of a read that finds none

VARIABLES
  rwlock, next_index, queue, signal_callback,   \* struct SignalQueue
  handler, parent,                              \* flags and parent of Process
  rax,           \* what the last psignal_read returned
  fetched,       \* history: the handlers that called psignal_read
  accepted       \* history: how many signals were accepted

sigq == <<rwlock, next_index, queue, signal_callback>>
family == <<handler, parent>>
sigvars == <<sigq, family, rax, fetched, accepted>>
allvars == <<vars, sigvars>>

PsInit ==
  /\ Init
  /\ rwlock = [n \in Node |-> 0] /\ next_index = [n \in Node |-> 0]
  /\ queue = [n \in Node |-> [i \in Slot |-> Nothing]]
  /\ signal_callback = [n \in Node |-> FALSE]
  /\ handler = [n \in Node |-> FALSE] /\ parent = [n \in Node |-> NULL]
  /\ rax = Nothing /\ fetched = {} /\ accepted = 0

-----------------------------------------------------------------------------
(* Sending.                                                                *)

\* A handler sends in the name of its parent.
SenderPid == IF handler[current_task] THEN pid[parent[current_task]] ELSE pid[current_task]

\* Mutant: the test of the lock is missing.
AcceptsLocked(r) == next_index[r] < PSIGNAL_QUEUE_SIZE

\* -EREJECTED, then -EBUSY.
Accepts(r) == next_index[r] < PSIGNAL_QUEUE_SIZE /\ rwlock[r] # 1

\* psignal_exec_callback for receiver r: a handler n with r's permissions and
\* a copy of r's queue, as the three functions leave it.
ExecCallback(r, lock, index, slots) ==
  LET n == nalloc + 1
  IN /\ SpawnHandler(r)
     /\ handler' = [handler EXCEPT ![n] = TRUE]
     /\ parent' = [parent EXCEPT ![n] = r]
     /\ rwlock' = [lock EXCEPT ![n] = lock[r]]
     /\ next_index' = [index EXCEPT ![n] = index[r]]
     /\ queue' = [slots EXCEPT ![n] = slots[r]]
     /\ signal_callback' = [signal_callback EXCEPT ![n] = signal_callback[r]]

\* psignal_send(to, dword).  A refused call changes nothing.
psignal_send(to, dword) ==
  LET r == locate_proc(pid, next, to)
      lock == [rwlock EXCEPT ![r] = 1]
      slots == [queue EXCEPT ![r][next_index[r]] = <<SenderPid, dword>>]
      index == [next_index EXCEPT ![r] = @ + 1]
  IN /\ accepted < MaxSignals /\ accepted' = accepted + 1
     /\ r # NULL
     /\ Accepts(r)
     /\ \/ /\ signal_callback[r]
           /\ ExecCallback(r, lock, index, slots)
        \/ /\ ~ signal_callback[r]
           /\ rwlock' = lock /\ next_index' = index /\ queue' = slots
           /\ UNCHANGED <<vars, signal_callback, family>>
     /\ UNCHANGED <<rax, fetched>>

\* System call 4.
SysSend(to, dword) == mode = "user" /\ psignal_send(to, dword)

\* irq1_isr: the keyboard signals PID 1 in the name of the interrupted task,
\* also while kill waits for the next tick.
KeyInterrupt == Up /\ psignal_send(1, Key)

-----------------------------------------------------------------------------
(* Reading and hooking.                                                    *)

\* Mutant: the index is read but not decremented.
DecrementNot(i) == i

\* uint8_t arithmetic of --next_index.
Decrement(i) == (i - 1) % 256

\* A slot outside the array holds whatever the memory there does.
SlotValues(n, i) == IF i \in Slot THEN {queue[n][i]} ELSE Signal \cup {Nothing}

\* Mutant: the mask reaches into the bits of the PID.
TopBitsOfPid(s) == s # Nothing /\ s[1] > 1

\* PSIGNAL_TOP_BITS_UNTOUCHED: a negative PID is sign-extended into them.
TopBitsUntouched(s) == s # Nothing /\ s[1] >= 0

\* psignal_read.  The lock released and the slot popped are the parent's if a
\* handler reads; the test for an empty queue looks at the caller's own.
psignal_read ==
  LET own == current_task
      n == IF handler[own] THEN parent[own] ELSE own
      i == Decrement(next_index[n])
  IN /\ rwlock' = [rwlock EXCEPT ![n] = 0]
     /\ \/ /\ next_index[own] = 0
           /\ rax' = Nothing /\ UNCHANGED next_index
        \/ /\ next_index[own] # 0
           /\ next_index' = [next_index EXCEPT ![n] = i]
           /\ \E s \in SlotValues(n, i) :
                rax' = IF TopBitsUntouched(s) THEN s ELSE Nothing
     /\ fetched' = IF handler[own] THEN fetched \cup {own} ELSE fetched
     /\ UNCHANGED <<vars, queue, signal_callback, family, accepted>>

\* How init.sys and shell use the call: a handler reads once, and a process
\* with a callback leaves the reading to its handlers.
ReadsAsPrograms ==
  IF handler[current_task] THEN current_task \notin fetched
  ELSE ~ signal_callback[current_task]

\* System call 5.  next_index stays at most 3 or at least ReadFloor.
SysRead ==
  /\ mode = "user"
  /\ Disciplined => ReadsAsPrograms
  /\ \A n \in Node : next_index[n] # ReadFloor
  /\ psignal_read

\* System call 8.  Programs hook in main, not in a handler, and do not unhook.
SysHook(cb) ==
  /\ mode = "user"
  /\ Disciplined => cb /\ ~ handler[current_task]
  /\ signal_callback' = [signal_callback EXCEPT ![current_task] = cb]
  /\ UNCHANGED <<vars, rwlock, next_index, queue, family, rax, fetched, accepted>>

-----------------------------------------------------------------------------
(* The rest of the process queue.                                          *)

\* psignal_queue_init is part of _spawn.
SpawnWithQueue(m) ==
  LET n == nalloc + 1
  IN /\ SysSpawn(m)
     /\ rwlock' = [rwlock EXCEPT ![n] = 0]
     /\ next_index' = [next_index EXCEPT ![n] = 0]
     /\ signal_callback' = [signal_callback EXCEPT ![n] = FALSE]
     /\ handler' = [handler EXCEPT ![n] = FALSE]
     /\ parent' = [parent EXCEPT ![n] = NULL]
     /\ UNCHANGED <<queue, rax, fetched, accepted>>

PsNext ==
  \/ \E to \in {pid[n] : n \in live}, dword \in Dwords : SysSend(to, dword)
  \/ KeyInterrupt
  \/ SysRead
  \/ \E cb \in BOOLEAN : SysHook(cb)
  \/ \E m \in Masks : SpawnWithQueue(m)
  \/ (Exit \/ InitFault \/ Tick) /\ UNCHANGED sigvars

PsSpec == PsInit /\ [][PsNext]_allvars

-----------------------------------------------------------------------------
(* Properties.                                                             *)

PsTypeOK ==
  /\ TypeOK
  /\ rwlock \in [Node -> {0, 1}] /\ next_index \in [Node -> 0..255]
  /\ queue \in [Node -> [Slot -> Signal \cup {Nothing}]]
  /\ signal_callback \in [Node -> BOOLEAN] /\ handler \in [Node -> BOOLEAN]
  /\ parent \in [Node -> Node \cup {NULL}]
  /\ rax \in Signal \cup {Nothing} /\ fetched \subseteq Node
  /\ accepted \in 0..MaxSignals

\* A handler never gets signals, so handlers do not get handlers: the copy of
\* the queue made at its spawn is locked and nobody can unlock it.
\* psignal_exec_callback, psignal_read.
HandlersDoNotNest ==
  \A h \in live : handler[h] => rwlock[h] = 1 /\ ~ handler[parent[h]]

\* An accepted signal stays in its slot until a read; no second signal pushes
\* over or above it.  psignal_send.
AcceptedSignalStays ==
  [][\A n \in Node : rwlock[n] = 1 /\ rwlock'[n] = 1 =>
       queue'[n] = queue[n] /\ next_index'[n] = next_index[n]]_allvars

\* Under the programs' discipline the three slots hold one signal at most:
\* next_index is 1 while the lock is held and 0 otherwise.
LockMatchesIndex ==
  \A n \in live : ~ handler[n] => next_index[n] = rwlock[n]

\* A handler that has not read yet will find the very signal it was spawned
\* for, and is the only one to look for it.
UnreadHandlerHasSignal ==
  LET unread == {h \in live : handler[h] /\ h \notin fetched}
  IN \A h \in unread :
       /\ rwlock[parent[h]] = 1
       /\ queue[parent[h]][0] = queue[h][0]
       /\ \A g \in unread : parent[g] = parent[h] => g = h

\* proc.c:481, "No more signals to read.": a read of an empty queue returns 0
\* and leaves the index alone.  The code violates it for a handler: it tests
\* its own copy, pops the parent's queue, and the index wraps to 255.
NoReadBelowEmpty == \A n \in Node : next_index[n] <= PSIGNAL_QUEUE_SIZE
=============================================================================
