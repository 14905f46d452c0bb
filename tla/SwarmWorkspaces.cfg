SPECIFICATION FairSpec
CONSTANTS
  i1 = i1
  i2 = i2
  tracked = tracked
  loose = loose
  Instances = {i1, i2}
  Tracked = {tracked}
  Untracked = {loose}
  MaxRuns = 3
  MaxUpsets = 1
CHECK_DEADLOCK FALSE
INVARIANTS SharedIsKept
PROPERTIES  MergesEnd
