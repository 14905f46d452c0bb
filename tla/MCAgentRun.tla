----------------------------- MODULE MCAgentRun -----------------------------
(* Values for AgentRun. *)
EXTENDS AgentRun

CONSTANTS c1, c2
TwoCalls == {c1, c2}
=============================================================================
