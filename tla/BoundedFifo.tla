---------------------------- MODULE BoundedFifo ----------------------------
(***************************************************************************)
(* What the command ring and its worker promise: a queue of at most Cap    *)
(* commands.  Commands are submitted in the order Succ gives; a push that  *)
(* is accepted appends the next one, a batch takes the oldest n in order,  *)
(* and the batch is applied in order before the next is taken.             *)
(***************************************************************************)
EXTENDS Naturals, Sequences

CONSTANTS Cap, First, Succ

VARIABLES
  q,         \* accepted, not yet taken
  out,       \* the rest of the batch being applied
  next,      \* the command submitted next
  applied    \* the last command applied

Init ==
  /\ q = <<>> /\ out = <<>>
  /\ next = First /\ Succ[applied] = First

Push ==
  /\ Len(q) < Cap
  /\ q' = Append(q, next)
  /\ next' = Succ[next]
  /\ UNCHANGED <<out, applied>>

Take ==
  /\ out = <<>>
  /\ \E n \in 1..Len(q) :
       /\ out' = SubSeq(q, 1, n)
       /\ q' = SubSeq(q, n + 1, Len(q))
  /\ UNCHANGED <<next, applied>>

Apply ==
  /\ out # <<>>
  /\ applied' = Head(out)
  /\ out' = Tail(out)
  /\ UNCHANGED <<q, next>>

Next == Push \/ Take \/ Apply

Spec == Init /\ [][Next]_<<q, out, next, applied>>
=============================================================================
