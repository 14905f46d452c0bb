------------------------------ MODULE MCMcpServers ------------------------------
(* Model values for McpServers. *)
EXTENDS McpServers, TLC

MCAttempts == 1 .. 3
MCClosers == {"chain", "person", "end"}
Symmetry == Permutations(Configs)
=============================================================================
