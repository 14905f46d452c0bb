-------------------------- MODULE MCExecutionSlots --------------------------
(* Values for ExecutionSlots. *)
EXTENDS ExecutionSlots

\* A workspace and a file in it.
MCNestedPaths == {<<"w">>, <<"w", "a">>}
=============================================================================
