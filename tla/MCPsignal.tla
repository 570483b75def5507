----------------------------- MODULE MCPsignal -----------------------------
(* Instances of Psignal for TLC.  Children are spawned without permissions, *)
(* so only init.sys and its handlers spawn.                                 *)
EXTENDS Psignal

MCMasks == {{}}
MCDwords == {"key"}

\* The mailbox of a process is full while its queue is locked.  A handler has
\* none of its own.
Box(n) == IF ~ handler[n] /\ rwlock[n] = 1 THEN queue[n][0] ELSE Nothing

Abstract == INSTANCE Mailbox WITH
  Owners <- Node,
  Letters <- Signal,
  Nothing <- Nothing,
  box <- [n \in Node |-> Box(n)],
  taken <- rax

\* The queue, index, lock and callback of proc.c implement one mailbox per
\* process for programs that keep to the discipline.
ImplementsMailbox == Abstract!Spec
=============================================================================
