SPECIFICATION Spec
CONSTANTS
  t1 = t1
  t2 = t2
  Tasks <- MCTasks
  Mutating <- MCMutating
  Ends <- MCEnds
  MaxStops = 1
  MaxStarts = 1
  MaxUpsets = 2
  Upsets <- MCUpsets
INVARIANT OldRunStaysOut
CHECK_DEADLOCK FALSE
