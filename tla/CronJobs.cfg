SPECIFICATION Spec
CONSTANTS
  r1 = r1
  r2 = r2
  o1 = o1
  o2 = o2
  Runs <- MCRuns
  Ops <- MCOps
  Kinds <- MCKinds
  MaxRuns = 2
  MaxStarted = 3
  MaxOps = 3
  MaxUpsets = 2
  Upsets <- UpsetKinds
CHECK_DEADLOCK FALSE
INVARIANTS RunsAreCounted 
PROPERTIES PausedStays RowIsRecord
