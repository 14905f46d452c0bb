----------------------------- MODULE MCCronJobs -----------------------------
(* A job of either kind that may run twice, three starts, three operations. *)
EXTENDS CronJobs

CONSTANTS r1, r2, o1, o2

MCRuns == {r1, r2}
MCOps == {o1, o2}
MCKinds == {"recurring", "one_shot"}
=============================================================================
