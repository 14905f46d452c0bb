SPECIFICATION Spec
CONSTANTS
  r1 = r1
  r2 = r2
  t1 = t1
  Runs <- TwoRuns
  Tasks <- OneTask
  Policies <- AllPolicies
  Kinds <- AllKinds
  MaxCycles = 2
  MaxFaults = 2
CHECK_DEADLOCK FALSE
INVARIANTS SpecificationApproved
