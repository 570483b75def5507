------------------------------ MODULE Mailbox ------------------------------
(***************************************************************************)
(* What process signals promise a program that keeps to the discipline: a  *)
(* mailbox of one signal per process.  A signal is put into an empty       *)
(* mailbox only, stays until it is taken, is taken by one read, and a read *)
(* of an empty mailbox returns nothing.  A mailbox outlives its owner, as a *)
(* handler may still read it.                                              *)
(***************************************************************************)
CONSTANTS
  Owners,    \* the processes
  Letters,   \* the signals
  Nothing    \* no signal

VARIABLES
  box,       \* the signal in each mailbox, or Nothing
  taken      \* what the last read returned

vars == <<box, taken>>

Init == box = [n \in Owners |-> Nothing] /\ taken = Nothing

Put ==
  \E n \in Owners :
    /\ box[n] = Nothing /\ box'[n] \in Letters
    /\ box' = [box EXCEPT ![n] = box'[n]]
    /\ UNCHANGED taken

Take ==
  \E n \in Owners :
    /\ box' = [box EXCEPT ![n] = Nothing]
    /\ taken' = box[n]

Next == Put \/ Take

Spec == Init /\ [][Next]_vars
=============================================================================
