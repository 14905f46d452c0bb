SPECIFICATION FairSpec
CONSTANTS
  Jobs = {j1, j2, j3}
  Sessions = {s1, s2}
  Paths <- MCNestedPaths
  Signals = {g1}
  NoWriter = NoWriter
  NoSignal = NoSignal
  NoQueue = NoQueue
  NoCall = NoCall
  Limit = 1
CHECK_DEADLOCK FALSE
INVARIANTS AdmissionsFit WaitersServed
PROPERTIES NoOvertaking EveryCallEnds
