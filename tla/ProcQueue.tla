----------------------------- MODULE ProcQueue -----------------------------
(***************************************************************************)
(* The process queue of the kernel (kernel/src/proc/proc.c) and the task   *)
(* switch that walks it (kernel/src/asm/proc/tasking.asm).                 *)
(*                                                                         *)
(* Every process is a struct Process on one circular list that starts at   *)
(* queue_base (init.sys) and ends at queue_head (the newest process).      *)
(* _spawn links a process behind queue_head, kill unlinks one, the timer   *)
(* interrupt moves current_task along `next'.                              *)
(*                                                                         *)
(* There is one CPU, and system calls and interrupt handlers run with      *)
(* interrupts off, so a handler is one step.  The one place where the      *)
(* kernel itself waits with interrupts on is the end of kill (STI; while   *)
(* (1)): between it and the next timer tick an interrupt may still run, so *)
(* it is a mode of its own, "dying".                                       *)
(*                                                                         *)
(* A struct is named by the number of its allocation.  kfree never hands   *)
(* memory back (see README), so a struct is not reused and a pointer to a  *)
(* dead process still reads what kill left in it.                          *)
(***************************************************************************)
EXTENDS Integers, FiniteSets

CONSTANTS
  MaxProc,   \* bound: structs that kmalloc hands out in one behaviour
  PidMax,    \* largest PID_T: 32767 for int16_t
  Masks      \* the permission masks that programs pass to the spawn call

Perm == {"PERM", "DRVCLAIM", "CONSOLE", "INITRD"}

ASSUME BoundsAssumption == MaxProc \in Nat \ {0} /\ PidMax \in Nat \ {0, 1}
ASSUME MasksAssumption == Masks \subseteq SUBSET Perm

VARIABLES
  live,          \* the structs allocated by kmalloc and not passed to kfree
  nalloc,        \* how many structs were allocated
  pid, next, prev, perm, state,    \* fields of struct Process
  queue_head, current_task, next_pid,
  mode           \* what the CPU is doing, see Mode

vars == <<live, nalloc, pid, next, prev, perm, state,
          queue_head, current_task, next_pid, mode>>

NULL == 0
Node == 1..MaxProc
queue_base == 1          \* assigned once, by proc_init

PID_T == (-PidMax - 1)..PidMax

\* "user": a process runs; "dying": kill's final loop; "halted": the fault
\* of PID 1 stopped the machine; the last two: a failed ASSERT did.
Mode == {"user", "dying", "halted", "assert_spawn", "assert_kill"}

\* Interrupts are on and the machine works.
Up == mode \in {"user", "dying"}

\* One step of the counter next_pid, as wide as PID_T.
Wrap(x) == IF x > PidMax THEN -PidMax - 1
           ELSE IF x < -PidMax - 1 THEN PidMax ELSE x

-----------------------------------------------------------------------------
(* locate_proc: the loop over the ring.                                    *)

\* The structs the loop looks at: from queue_base, along nx, until one has
\* the PID p or the walk is back at queue_base.
Examined(pd, nx, p) ==
  {n \in Node : \A S \in SUBSET Node :
     (/\ queue_base \in S
      /\ \A k \in S : (pd[k] # p /\ nx[k] # queue_base) => nx[k] \in S)
     => n \in S}

Matches(pd, nx, p) == {n \in Examined(pd, nx, p) : pd[n] = p}

locate_proc(pd, nx, p) ==
  LET found == Matches(pd, nx, p)
  IN IF found = {} THEN NULL ELSE CHOOSE n \in found : TRUE

-----------------------------------------------------------------------------
(* Boot and spawn.                                                         *)

\* proc_init: init.sys alone on the ring, with every permission.
Init ==
  /\ live = {queue_base} /\ nalloc = 1
  /\ pid  = [n \in Node |-> IF n = queue_base THEN 1 ELSE 0]
  /\ next = [n \in Node |-> IF n = queue_base THEN queue_base ELSE NULL]
  /\ prev = next
  /\ perm = [n \in Node |-> IF n = queue_base THEN Perm ELSE {}]
  /\ state = [n \in Node |-> "READY"]
  /\ queue_head = queue_base /\ current_task = queue_base
  /\ next_pid = 2 /\ mode = "user"

\* Mutant: the new process is put behind queue_base.
LinkedNextAtBase(n) == [next EXCEPT ![queue_base] = n, ![n] = next[queue_base]]

\* queue_head->next = new; new->next = queue_base.
LinkedNext(n) == [next EXCEPT ![queue_head] = n, ![n] = queue_base]

\* The part of _spawn behind its permission check: a new struct n behind
\* queue_head.  m is the mask it ends up with.
Spawn(m) ==
  LET n == nalloc + 1
      nx == LinkedNext(n)
      pd == [pid EXCEPT ![n] = next_pid]
  IN /\ nalloc < MaxProc
     /\ nalloc' = n /\ live' = live \cup {n}
     /\ next' = nx /\ prev' = [prev EXCEPT ![n] = queue_head]
     /\ pid' = pd /\ next_pid' = Wrap(next_pid + 1)
     /\ perm' = [perm EXCEPT ![n] = m]
     /\ state' = [state EXCEPT ![n] = "READY"]
     /\ queue_head' = n
     /\ mode' = IF locate_proc(pd, nx, pd[n]) = NULL THEN "assert_spawn" ELSE mode
     /\ UNCHANGED current_task

\* _spawn's test: a task without PPERM_PERM can only ask for an empty mask.
MayAsk(m) == m = {} \/ "PERM" \in perm[current_task]

\* System call 3.  A refused call changes nothing.
SysSpawn(m) ==
  /\ mode = "user"
  /\ "INITRD" \in perm[current_task]
  /\ MayAsk(m)
  /\ Spawn(m)

\* psignal_exec_callback: a signal to process `to' spawns its handler, with
\* the receiver's permissions.  The sender is the running process, or the
\* keyboard interrupt, which signals PID 1 whatever runs.
SpawnHandler(to) ==
  /\ mode = "user" \/ (mode = "dying" /\ to = queue_base)
  /\ Spawn(perm[to])

-----------------------------------------------------------------------------
(* kill and exit.                                                          *)

\* The early returns of kill.
KillRefused(p) ==
  \/ p = 1
  \/ p < 0 \/ p > pid[queue_head]
  \/ locate_proc(pid, next, p) = NULL

\* Mutant: the dead struct's own link is cleared as well.
UnlinkedNextCleared(c) == [next EXCEPT ![prev[c]] = next[c], ![c] = NULL]

\* current->prev->next = current->next
UnlinkedNext(c) == [next EXCEPT ![prev[c]] = next[c]]

\* Mutant: the back link is forgotten.
UnlinkedPrevKept(c) == prev

\* current->next->prev = current->prev
UnlinkedPrev(c) == [prev EXCEPT ![UnlinkedNext(c)[c]] = prev[c]]

\* Mutant: queue_head steps back whoever ends.
HeadStepsBack(p, c) == UnlinkedPrev(c)[queue_head]

\* queue_head steps back when the PID killed is the newest one.
HeadAfterKill(p, c) ==
  IF p = pid[queue_head] THEN UnlinkedPrev(c)[queue_head] ELSE queue_head

\* Mutant: the counter steps back whoever ends.
NextPidAlwaysBack(p, head) == Wrap(next_pid - 1)

\* --next_pid when the running task is the head, and once more when the
\* counter is still above the PID of the new head.
NextPidAfterKill(p, head) ==
  LET np == IF pid[current_task] = pid[queue_head] THEN Wrap(next_pid - 1) ELSE next_pid
  IN IF p = pid[queue_head] /\ np > pid[head] THEN Wrap(np - 1) ELSE np

\* Mutant: the assertion is compiled out.
DestroyedUnchecked(p, nx) == TRUE

\* ASSERT(locate_proc(pid) == NULL): no other process has the PID.
Destroyed(p, nx) == locate_proc(pid, nx, p) = NULL

\* kill(p).  A refused call resumes the caller and changes no queue state.
Kill(p) ==
  LET c == locate_proc(pid, next, p)
      nx == UnlinkedNext(c)
      head == HeadAfterKill(p, c)
  IN /\ ~ KillRefused(p)
     /\ live' = live \ {c}
     /\ next' = nx /\ prev' = UnlinkedPrev(c)
     /\ queue_head' = head
     /\ next_pid' = NextPidAfterKill(p, head)
     /\ \/ Destroyed(p, nx) /\ mode' = "dying" /\ current_task' = c
        \/ ~ Destroyed(p, nx) /\ mode' = "assert_kill" /\ UNCHANGED current_task
     /\ UNCHANGED <<nalloc, pid, perm, state>>

\* exit: system call 7, and the fault of any process but PID 1.
Exit == mode = "user" /\ Kill(pid[current_task])

\* handle_exception for PID 1: CLI; HLT.
InitFault ==
  /\ mode = "user" /\ pid[current_task] = 1
  /\ mode' = "halted"
  /\ UNCHANGED <<live, nalloc, pid, next, prev, perm, state,
                 queue_head, current_task, next_pid>>

-----------------------------------------------------------------------------
(* The timer interrupt.                                                    *)

\* Mutant: every switch starts the round again.
proc_get_next_base(root) == queue_base

proc_get_next(root) == next[root]

\* Mutant: the task that is left is not set READY.
TickStillRunning ==
  /\ Up
  /\ current_task' = proc_get_next(current_task)
  /\ state' = [state EXCEPT ![current_task'] = "RUNNING"]
  /\ mode' = "user"
  /\ UNCHANGED <<live, nalloc, pid, next, prev, perm, queue_head, next_pid>>

\* irq0 -> switch_task.
Tick ==
  /\ Up
  /\ current_task' = proc_get_next(current_task)
  /\ state' = [state EXCEPT ![current_task] = "READY", ![current_task'] = "RUNNING"]
  /\ mode' = "user"
  /\ UNCHANGED <<live, nalloc, pid, next, prev, perm, queue_head, next_pid>>

Next ==
  \/ \E m \in Masks : SysSpawn(m)
  \/ \E to \in live : SpawnHandler(to)
  \/ Exit
  \/ InitFault
  \/ Tick

\* The PIT fires for ever, and interrupts are on in user code and at the end
\* of kill.  Nothing obliges a process to spawn, exit or fault.
Fairness == WF_vars(Tick)

Spec == Init /\ [][Next]_vars /\ Fairness

-----------------------------------------------------------------------------
(* Properties.                                                             *)

TypeOK ==
  /\ live \subseteq Node /\ nalloc \in Node
  /\ pid \in [Node -> PID_T] /\ next_pid \in PID_T
  /\ next \in [Node -> Node \cup {NULL}] /\ prev \in [Node -> Node \cup {NULL}]
  /\ perm \in [Node -> SUBSET Perm]
  /\ state \in [Node -> {"READY", "RUNNING"}]
  /\ queue_head \in Node /\ current_task \in Node
  /\ mode \in Mode

\* Following `next' from queue_base visits exactly the living processes, in
\* the order they were created, and returns from queue_head to queue_base.
NextInOrder ==
  /\ queue_base \in live /\ queue_head \in live
  /\ \A n \in live : n <= queue_head /\ n <= nalloc
  /\ next[queue_head] = queue_base
  /\ \A n \in live \ {queue_head} :
       /\ next[n] \in live /\ n < next[n]
       /\ \A k \in live : k <= n \/ next[n] <= k

\* `prev' undoes `next' for all but queue_base, whose `prev' no code reads
\* (_spawn does not maintain it).
PrevInverse ==
  \A n \in live \ {queue_base} :
    prev[n] \in live /\ prev[n] < n /\ next[prev[n]] = n

\* The queue survives every order of spawns, signals, exits and ticks, also
\* a signal that arrives after kill freed the running process: _spawn, kill.
RingInv == Up => NextInOrder /\ PrevInverse

\* A process runs from a living struct; in the window after kill the struct
\* is dead and its stale `next' still leads back to the ring.  Nobody but
\* current_task is marked running.  switch_task, kill.
CurrentInv ==
  /\ mode = "user" => current_task \in live
  /\ mode = "dying" => current_task \notin live /\ next[current_task] \in live
  /\ Up => \A n \in live : state[n] = "RUNNING" => n = current_task

\* ASSERT(locate_proc(queue_head->pid)) at the end of _spawn holds: the new
\* process, or one with its PID, is found on the ring.
SpawnAssertHolds == mode # "assert_spawn"

\* PIDs follow the order of creation, none below init's, and next_pid is not
\* below the newest, whatever ended before.  (Needs PidMax out of reach of
\* the counter.)  _spawn, kill.
PidOrder ==
  Up => /\ pid[queue_base] = 1
        /\ \A n, k \in live : n <= k => pid[n] <= pid[k]
        /\ pid[queue_head] <= next_pid

\* kill turns away no running process but one with PID 1: the PID is in the
\* range it tests and on the ring it walks, whatever ended before.  A process
\* that was turned away would run on behind its exit.  (PidMax as above.)
ExitAccepted ==
  mode = "user" /\ pid[current_task] # 1 => ~ KillRefused(pid[current_task])

\* exit ends the process that called it and no other, even where PIDs are
\* not unique: kill looks the PID up, and its ASSERT catches the wrong hit.
OnlyCurrentDies ==
  [][Up' => live \ live' \subseteq {current_task}]_vars

\* Round robin: every living process gets the CPU again, or ends, or the
\* machine stops.  switch_task, kill.
EveryLiveScheduled ==
  \A n \in Node :
    n \in live ~> (n \notin live \/ ~ Up \/ (current_task = n /\ mode = "user"))

\* proc.c:345-346, "Ensure the it is indeed destroyed": after kill no process
\* has the PID.  The code violates it: kill lowers next_pid twice when the
\* newest process exits, the next process gets a PID in use.
KillAssertHolds == mode # "assert_kill"
=============================================================================
