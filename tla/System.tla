------------------------------- MODULE System -------------------------------
(***************************************************************************)
(* A keystroke on its way from the keyboard interrupt to the command line: *)
(* the one-key buffer of drivers/ps2/ps2keyboard.c, init.sys and its       *)
(* signal handlers (programs/sys/init), shell.sys and its signal handlers  *)
(* (programs/sys/shell), on top of the signals of Psignal.                 *)
(*                                                                         *)
(* A program is a program counter per process.  One step of it is one      *)
(* system call, or one access to a variable that its process shares with   *)
(* its handlers.  Output to the console is left out, and so is the command *)
(* "reboot", which ends the machine (Context).  Every process is taken to  *)
(* keep its own stack, which Context shows it does not.                    *)
(***************************************************************************)
EXTENDS Psignal

CONSTANTS
  Chars,             \* the characters that are typed besides Enter
  COMMAND_BUF_SIZE,  \* 7 in the code
  EarlyKeys          \* bound: FALSE, nobody types before the shell is up

NoKey == "none"

ASSUME SystemAssumption ==
  /\ COMMAND_BUF_SIZE \in Nat /\ EarlyKeys \in BOOLEAN
  /\ Chars \cap {"enter", NoKey} = {}

Keystroke == Chars \cup {"enter"}

VARIABLES
  last_keystroke,            \* ps2keyboard.c
  psignal_lock, shell_pid,   \* init.sys
  cmdbuf_idx,                \* shell.sys
  pc,                        \* where each process is
  reg,                       \* what its last system call or read returned
  typed,                     \* history: characters since the last Enter
  overlapped                 \* history: two handlers met at cmdbuf_idx

programs == <<psignal_lock, shell_pid, cmdbuf_idx, pc, reg>>
history == <<typed, overlapped>>
sysvars == <<allvars, last_keystroke, programs, history>>

SysInit ==
  /\ PsInit
  /\ last_keystroke = NoKey
  /\ psignal_lock = 0 /\ shell_pid = 0 /\ cmdbuf_idx = 0
  /\ pc = [n \in Node |-> IF n = queue_base THEN "hook" ELSE "none"]
  /\ reg = [n \in Node |-> Nothing]
  /\ typed = 0 /\ overlapped = FALSE

\* The roles of processes.
Shells == {n \in live \ {queue_base} : ~ handler[n]}
InitHandlers == {n \in live : handler[n] /\ parent[n] = queue_base}
ShellHandlers == {n \in live : handler[n] /\ parent[n] # queue_base}

-----------------------------------------------------------------------------
(* Steps of a process.                                                     *)

\* The running process n goes from one place to another.  A handler that the
\* step spawns starts at its callback.
Goes(n, from, to) ==
  /\ pc[n] = from
  /\ pc' = [k \in Node |->
              CASE k = n -> to
                [] k = nalloc' /\ nalloc' # nalloc ->
                     IF ~ handler'[k] THEN "hook"
                     ELSE IF parent'[k] = queue_base THEN "lock" ELSE "fetch"
                [] OTHER -> pc[k]]

Quiet == UNCHANGED allvars

\* init.sys, main: psignal_hook; _service_create, whose result is stored in a
\* step of its own; while (1).
InitHook ==
  /\ SysHook(TRUE) /\ Goes(queue_base, "hook", "spawn")
  /\ UNCHANGED <<last_keystroke, psignal_lock, shell_pid, cmdbuf_idx, reg, history>>

\* Mutant: the result is the next PID, and not the one given.
InitSpawnNext ==
  /\ \E m \in Masks : SpawnWithQueue(m)
  /\ Goes(queue_base, "spawn", "assign")
  /\ reg' = [reg EXCEPT ![queue_base] = next_pid']
  /\ UNCHANGED <<last_keystroke, psignal_lock, shell_pid, cmdbuf_idx, history>>

InitSpawn ==
  /\ \E m \in Masks : SpawnWithQueue(m)
  /\ Goes(queue_base, "spawn", "assign")
  /\ reg' = [reg EXCEPT ![queue_base] = pid'[queue_head']]
  /\ UNCHANGED <<last_keystroke, psignal_lock, shell_pid, cmdbuf_idx, history>>

InitStore ==
  /\ Quiet /\ Goes(queue_base, "assign", "loop")
  /\ shell_pid' = reg[queue_base]
  /\ UNCHANGED <<last_keystroke, psignal_lock, cmdbuf_idx, reg, history>>

\* init.sys, psignal_callback: mutex_acquire spins while the lock is set.
HandlerLock(n) ==
  /\ Quiet /\ Goes(n, "lock", "fetch")
  /\ psignal_lock = 0 /\ psignal_lock' = 1
  /\ UNCHANGED <<last_keystroke, shell_pid, cmdbuf_idx, reg, history>>

\* Mutant: the callbacks read until no signal is left.
FetchAll(n) ==
  /\ pc[n] = "fetch" /\ psignal_read
  /\ Goes(n, "fetch", IF rax' # Nothing THEN "fetch"
                      ELSE IF parent[n] # queue_base THEN "sysreq" ELSE "unlock")
  /\ reg' = [reg EXCEPT ![n] = rax']
  /\ UNCHANGED <<last_keystroke, psignal_lock, shell_pid, cmdbuf_idx, history>>

\* psignal_fetch, of either callback.
Fetch(n) ==
  /\ pc[n] = "fetch" /\ psignal_read
  /\ Goes(n, "fetch", IF parent[n] # queue_base THEN "sysreq"
                      ELSE IF rax' = Nothing \/ rax'[2] # Key THEN "unlock" ELSE "send")
  /\ reg' = [reg EXCEPT ![n] = rax']
  /\ UNCHANGED <<last_keystroke, psignal_lock, shell_pid, cmdbuf_idx, history>>

\* psignal_send(shell_pid, ...).  Nobody looks at its status.
HandlerSend(n) ==
  /\ LET r == locate_proc(pid, next, shell_pid)
     IN IF r # NULL /\ Accepts(r) THEN SysSend(shell_pid, Key) ELSE Quiet
  /\ Goes(n, "send", "unlock")
  /\ UNCHANGED <<last_keystroke, psignal_lock, shell_pid, cmdbuf_idx, reg, history>>

\* Mutant: the callback ends with the lock held.
HandlerUnlockForgotten(n) ==
  /\ Quiet /\ Goes(n, "unlock", "exit")
  /\ UNCHANGED <<last_keystroke, psignal_lock, shell_pid, cmdbuf_idx, reg, history>>

HandlerUnlock(n) ==
  /\ Quiet /\ Goes(n, "unlock", "exit")
  /\ psignal_lock' = 0
  /\ UNCHANGED <<last_keystroke, shell_pid, cmdbuf_idx, reg, history>>

HandlerExit(n) ==
  /\ Exit /\ UNCHANGED sigvars
  /\ Goes(n, "exit", "none")
  /\ UNCHANGED <<last_keystroke, psignal_lock, shell_pid, cmdbuf_idx, reg, history>>

\* shell.sys, main: psignal_hook; cmdbuf_idx = 0; while (1).
ShellHook(n) ==
  /\ n \in Shells
  /\ SysHook(TRUE) /\ Goes(n, "hook", "reset")
  /\ UNCHANGED <<last_keystroke, psignal_lock, shell_pid, cmdbuf_idx, reg, history>>

ShellReset(n) ==
  /\ Quiet /\ Goes(n, "reset", "loop")
  /\ cmdbuf_idx' = 0 /\ typed' = 0
  /\ UNCHANGED <<last_keystroke, psignal_lock, shell_pid, reg, overlapped>>

\* Mutant: the keystroke stays in the buffer.
FetchKeystrokeKept(n) ==
  /\ Quiet /\ Goes(n, "sysreq", "check")
  /\ reg' = [reg EXCEPT ![n] = last_keystroke]
  /\ UNCHANGED <<last_keystroke, psignal_lock, shell_pid, cmdbuf_idx, history>>

\* shell.sys, psignal_callback: sysreq(UAPI_KEYB_SERVICE, 0) takes the key.
FetchKeystroke(n) ==
  /\ Quiet /\ Goes(n, "sysreq", "check")
  /\ reg' = [reg EXCEPT ![n] = last_keystroke] /\ last_keystroke' = NoKey
  /\ UNCHANGED <<psignal_lock, shell_pid, cmdbuf_idx, history>>

\* Another handler of the shell is between its look at cmdbuf_idx and its
\* store.
InMiddle(n) == \E k \in ShellHandlers \ {n} : pc[k] \in {"check", "store"}

\* Mutant: the index is not reset behind a command.
EnterKept(n) ==
  /\ Quiet /\ Goes(n, "check", "exit") /\ reg[n] = "enter"
  /\ typed' = 0 /\ overlapped' = (overlapped \/ InMiddle(n))
  /\ UNCHANGED <<last_keystroke, psignal_lock, shell_pid, cmdbuf_idx, reg>>

\* Enter: the built-in commands, then cmdbuf_idx = 0.
Enter(n) ==
  /\ Quiet /\ Goes(n, "check", "exit") /\ reg[n] = "enter"
  /\ cmdbuf_idx' = 0
  /\ typed' = 0 /\ overlapped' = (overlapped \/ InMiddle(n))
  /\ UNCHANGED <<last_keystroke, psignal_lock, shell_pid, reg>>

\* Any other key: dropped if the buffer is full, ...
Check(n) ==
  /\ pc[n] = "check" /\ reg[n] # "enter"
  /\ Quiet
  /\ Goes(n, "check", IF cmdbuf_idx < COMMAND_BUF_SIZE THEN "store" ELSE "exit")
  /\ reg' = [reg EXCEPT ![n] = cmdbuf_idx]
  /\ typed' = typed + 1 /\ overlapped' = (overlapped \/ InMiddle(n))
  /\ UNCHANGED <<last_keystroke, psignal_lock, shell_pid, cmdbuf_idx>>

\* ... else cmdbuf[cmdbuf_idx++] = ..., with the index of the test or a new one.
Store(n) ==
  /\ Quiet /\ Goes(n, "store", "exit")
  /\ \E i \in {reg[n], cmdbuf_idx} : cmdbuf_idx' = i + 1
  /\ UNCHANGED <<last_keystroke, psignal_lock, shell_pid, reg, history>>

\* What process n does when it runs.
ProcStep(n) ==
  /\ mode = "user" /\ current_task = n
  /\ \/ n = queue_base /\ (InitHook \/ InitSpawn \/ InitStore)
     \/ HandlerLock(n) \/ Fetch(n) \/ HandlerSend(n) \/ HandlerUnlock(n)
     \/ HandlerExit(n)
     \/ ShellHook(n) \/ ShellReset(n)
     \/ FetchKeystroke(n) \/ Enter(n) \/ Check(n) \/ Store(n)

-----------------------------------------------------------------------------
(* The keyboard and the timer.                                             *)

ShellIsUp == pc[queue_base] = "loop" /\ \E n \in Shells : pc[n] = "loop"

\* irq1_isr, for a key while the buffer is empty.  The key stays buffered when
\* the signal was accepted or rejected, and is dropped on -EBUSY.
Press(k) ==
  /\ Up /\ last_keystroke = NoKey
  /\ EarlyKeys \/ ShellIsUp
  /\ nalloc + 2 <= MaxProc     \* bound: both handlers can be spawned
  /\ IF Accepts(queue_base) THEN KeyInterrupt ELSE Quiet
  /\ last_keystroke' =
       IF rwlock[queue_base] = 1 /\ next_index[queue_base] < PSIGNAL_QUEUE_SIZE
       THEN NoKey ELSE k
  /\ Goes(current_task, pc[current_task], pc[current_task])
  /\ UNCHANGED <<psignal_lock, shell_pid, cmdbuf_idx, reg, history>>

SysTick == Tick /\ UNCHANGED <<sigvars, last_keystroke, programs, history>>

SysNext ==
  \/ \E n \in Node : ProcStep(n)
  \/ \E k \in Keystroke : Press(k)
  \/ SysTick

\* Where ProcStep(n) is enabled, and that it is taken.
CanMove(n) ==
  /\ mode = "user" /\ current_task = n
  /\ pc[n] \notin {"none", "loop"}
  /\ pc[n] = "lock" => psignal_lock = 0

Moves(n) == current_task = n /\ pc'[n] # pc[n]

\* The timer fires for ever; and a process that is given the CPU again and
\* again gets through its instructions, although a tick may come between any
\* two: strong fairness of ProcStep(n), spelled out.  Nobody has to type.
SysFairness ==
  /\ WF_sysvars(SysTick)
  /\ \A n \in Node : []<>CanMove(n) => []<><<Moves(n)>>_sysvars

SysSpec == SysInit /\ [][SysNext]_sysvars /\ SysFairness

-----------------------------------------------------------------------------
(* Properties.                                                             *)

\* A buffered key belongs to exactly one chain of handlers, which has not
\* fetched it yet; when no key is buffered, nobody is going to look for one.
\* So no key is fetched twice and none is taken for another's.  irq1_isr,
\* ps2_fetch_keystroke, both callbacks.
OneInFlight ==
  Up => LET toSend == {n \in InitHandlers : pc[n] \in {"lock", "fetch", "send"}}
            toFetch == {n \in ShellHandlers : pc[n] \in {"fetch", "sysreq"}}
        IN /\ last_keystroke = NoKey => toSend \cup toFetch = {}
           /\ last_keystroke # NoKey => Cardinality(toSend \cup toFetch) = 1

\* init.sys sends keystrokes to the shell and to nobody else, also where PIDs
\* are handed out twice: the stored PID finds the shell, never a handler that
\* was given the same number.
ShellAddressed ==
  Up /\ shell_pid # 0 => locate_proc(pid, next, shell_pid) \in Shells

\* As long as no two handlers of the shell met, the command buffer holds every
\* character since the last Enter, and at most COMMAND_BUF_SIZE of them.
LineComplete ==
  Up /\ ~ overlapped /\ (\A n \in ShellHandlers : pc[n] # "store")
    => cmdbuf_idx = IF typed < COMMAND_BUF_SIZE THEN typed ELSE COMMAND_BUF_SIZE

\* init.sys and shell.sys read and hook with the discipline under which their
\* signals are sound (Psignal): no handler reads twice, and no process reads
\* that has a callback, though Fetch does not ask.
ProgramsKeepDiscipline == PsSpec

\* programs/sys/init/src/main.c:18, "Tell shell.sys about keystroke.": a
\* buffered key reaches the shell, or the machine stops.  It needs the bound
\* EarlyKeys: a key that comes before init.sys hooked its callback or stored
\* the PID of the shell, or before the shell hooked its own, stays in the
\* buffer for ever.
KeyReachesShell == last_keystroke # NoKey ~> (last_keystroke = NoKey \/ ~ Up)
=============================================================================
