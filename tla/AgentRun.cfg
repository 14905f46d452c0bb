SPECIFICATION FairSpec
CONSTANTS
  c1 = c1
  c2 = c2
  Calls <- TwoCalls
  MaxSteps = 3
  CheckpointEvery = 2
  MaxRetries = 1
  Denials = TRUE
  MaxTurns = 4
  MaxCrashes = 1
  MaxRenewals = 1
INVARIANTS TranscriptTells StepsBounded RowFollowsRun
PROPERTIES RowMovesForward RunEnds
