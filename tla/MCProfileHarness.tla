-------------------------- MODULE MCProfileHarness --------------------------
(* Values for ProfileHarness. *)
EXTENDS ProfileHarness

CONSTANTS r1, r2, t1
TwoRuns == {r1, r2}
OneTask == {t1}
AllPolicies == Policy
AllKinds == Kind
=============================================================================
