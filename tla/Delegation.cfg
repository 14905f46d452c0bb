SPECIFICATION FairSpec
CONSTANTS
  t1 = t1
  t2 = t2
  w1 = w1
  Tasks = {t1, t2}
  Waits = {w1}
  After <- Pair
  Target <- OnFirst
  Earlier <- None
  MaxRevisions = 1
  MaxAsked = 1
  MaxUpsets = 1
  Faults = {"abort", "references", "prepare", "storage", "reset"}
INVARIANTS NoOrphanWaiter StartsAfterDependencies StoriesAgree
PROPERTIES OutcomeIsFinal ParkedIsAnswered
