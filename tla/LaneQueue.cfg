SPECIFICATION LaneSpec
CONSTANTS
  t1 = t1
  t2 = t2
  t3 = t3
  t4 = t4
  s1 = s1
  s2 = s2
  Tasks <- MCTasks
  Sessions <- MCSessions
  Session <- MCSession
  Priority <- MCPriority
  Chat = {t3}
  NoTask = NoTask
CHECK_DEADLOCK FALSE
INVARIANTS LaneKept FirstComeFirstServed
PROPERTIES TaskEnds
