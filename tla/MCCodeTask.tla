----------------------------- MODULE MCCodeTask -----------------------------
(* Two tasks, one of which writes in a worktree of its own; a harness that fails throws. *)
EXTENDS CodeTask

CONSTANTS t1, t2

MCTasks == {t1, t2}
MCMutating == {t1}
MCEnds == {"completed", "cancelled", "paused"}
MCUpsets == UpsetKinds
=============================================================================
