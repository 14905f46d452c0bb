SPECIFICATION Spec
CONSTANTS
  Attempts <- MCAttempts
  Closers <- MCClosers
  c1 = c1
  c2 = c2
  Configs = {c1, c2}
  MaxChanges = 2
SYMMETRY Symmetry
  
PROPERTIES LatePublishesNothing PersonsDecide
