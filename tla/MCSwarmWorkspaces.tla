------------------------ MODULE MCSwarmWorkspaces ------------------------
(* Values for SwarmWorkspaces: two instances over two files. *)
EXTENDS SwarmWorkspaces

CONSTANTS i1, i2, tracked, loose
=============================================================================
