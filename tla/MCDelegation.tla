---------------------------- MODULE MCDelegation ----------------------------
(* Values for Delegation: a small plan. *)
EXTENDS Delegation

CONSTANTS t1, t2, w1

None == [t \in Tasks |-> "none"]

\* Two tasks, one after the other.
Pair == [t \in Tasks |-> IF t = t2 THEN <<t1>> ELSE <<>>]
OnFirst == [w \in Waits |-> t1]
=============================================================================
