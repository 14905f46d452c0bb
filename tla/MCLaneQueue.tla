------------------------------ MODULE MCLaneQueue ------------------------------
(* Model values for LaneQueue: a lane with two tasks of the web chat and one of the chat route,
   and a lane with one task. *)
EXTENDS LaneQueue

CONSTANTS t1, t2, t3, t4, s1, s2

MCTasks == {t1, t2, t3, t4}
MCSessions == {s1, s2}
MCSession == [t \in MCTasks |-> IF t = t4 THEN s2 ELSE s1]
MCPriority == [t \in MCTasks |-> IF t = t2 THEN 1 ELSE 0]
=============================================================================
