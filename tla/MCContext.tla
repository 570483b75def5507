----------------------------- MODULE MCContext -----------------------------
(* Instances of Context for TLC: init.sys, a program and a handler.  RBX    *)
(* stands for the registers a C function keeps, RDX for those it does not;  *)
(* registers do not depend on each other.                                   *)
EXTENDS Context

MCOwn == [p \in Proc |-> IF p = 2 THEN {20, 21} ELSE {p * 10}]
MCValue == {0} \cup UNION {MCOwn[p] : p \in Proc}
=============================================================================
