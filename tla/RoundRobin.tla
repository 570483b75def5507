----------------------------- MODULE RoundRobin -----------------------------
(***************************************************************************)
(* What the process queue promises, without pointers and PIDs: processes   *)
(* numbered by creation, and a CPU that passes to the next number, back to *)
(* the first after the last.  Only the running process may end, never the  *)
(* first one; the process after it at that moment is its heir, and gets    *)
(* the CPU even if younger ones appear.                                    *)
(***************************************************************************)
EXTENDS Integers, FiniteSetsExt

CONSTANTS
  Ids        \* the numbers processes may get

VARIABLES
  procs,     \* the living processes
  running,   \* the process that has the CPU, perhaps one that just ended
  heir,      \* 0, or the process to run next if the running one ended
  up         \* FALSE once the machine stopped

vars == <<procs, running, heir, up>>

Init == procs = {1} /\ running = 1 /\ heir = 0 /\ up = TRUE

Younger == {n \in procs : n > running}

\* The oldest of the processes younger than the running one, or the first.
Successor == Min(IF Younger = {} THEN procs ELSE Younger)

Create ==
  /\ up
  /\ \E n \in Ids : /\ \A k \in procs \cup {running} : k < n
                    /\ procs' = procs \cup {n}
  /\ UNCHANGED <<running, heir, up>>

End ==
  /\ up
  /\ running \in procs \ {Min(procs)}
  /\ procs' = procs \ {running}
  /\ heir' = Successor
  /\ UNCHANGED <<running, up>>

Rotate ==
  /\ up
  /\ running' = IF heir = 0 THEN Successor ELSE heir
  /\ heir' = 0
  /\ UNCHANGED <<procs, up>>

Stop ==
  /\ up /\ up' = FALSE
  /\ procs' = {} /\ running' = 0 /\ heir' = 0

Next == Create \/ End \/ Rotate \/ Stop

\* The safety part of Spec.
Steps == Init /\ [][Next]_vars

Spec == Steps /\ WF_vars(Rotate)
=============================================================================
