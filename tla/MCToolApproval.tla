--------------------------- MODULE MCToolApproval ---------------------------
(* Values for ToolApproval. *)
EXTENDS ToolApproval

CONSTANTS q1, q2, q3, k1, k2
ThreeRequests == {q1, q2, q3}
TwoCalls == {k1, k2}
=============================================================================
