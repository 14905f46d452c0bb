SPECIFICATION Spec
CONSTANTS
  t1 = t1
  t2 = t2
  Tasks <- MCTasks
  Mutating <- MCMutating
  Ends <- MCEnds
  MaxStops = 1
  MaxStarts = 2
  MaxUpsets = 1
  Upsets <- MCUpsets
CHECK_DEADLOCK FALSE
INVARIANTS RecordIsTrue
PROPERTIES  CancelledStays StoppedIsNotApplied
