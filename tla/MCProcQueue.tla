---------------------------- MODULE MCProcQueue ----------------------------
(* Instance of AddressSpace, and of ProcQueue in it, for TLC: init.sys asks *)
(* for an empty mask, for one that lets a child spawn, and for one that     *)
(* lets it hand out permissions.                                            *)
EXTENDS AddressSpace

MCMasks == {{}, {"INITRD"}, {"PERM", "INITRD"}}

\* The structs that a walk along `next' from queue_base comes through.
Ring ==
  {n \in Node : \A S \in SUBSET Node :
     (queue_base \in S /\ \A k \in S : next[k] \in S) => n \in S}

Abstract == INSTANCE RoundRobin WITH
  Ids <- Node,
  procs <- IF Up THEN Ring ELSE {},
  running <- IF Up THEN current_task ELSE 0,
  heir <- IF mode = "dying" THEN next[current_task] ELSE NULL,
  up <- Up

\* The pointers, PIDs and counters of proc.c and tasking.asm implement the
\* round robin of RoundRobin.
ImplementsRoundRobin == Abstract!Spec
=============================================================================
