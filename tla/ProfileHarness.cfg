SPECIFICATION FairSpec
CONSTANTS
  r1 = r1
  r2 = r2
  t1 = t1
  Runs <- TwoRuns
  Tasks <- OneTask
  Policies <- AllPolicies
  Kinds <- AllKinds
  MaxCycles = 1
  MaxFaults = 1
CHECK_DEADLOCK FALSE
INVARIANTS RowIsTrue GateHolds
PROPERTIES RunEnds
