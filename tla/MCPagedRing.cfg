SPECIFICATION Spec
CONSTANTS
  Suppliers = {s1}
  Consumers = {c1, c2}
  PageSize = 2
  NumPages = 2
  Policies = {TRUE, FALSE}
  Word = 64
  MaxBatch = 2
  MaxPointer = 5
  Blank = Blank
SYMMETRY ConsumerSymmetry
INVARIANT RingIsSound
PROPERTY ImplementsFifo
CHECK_DEADLOCK FALSE
