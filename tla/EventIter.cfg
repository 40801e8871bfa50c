SPECIFICATION FairSpec
CONSTANTS
  MaxNode = 4
  Iter = {i1, i2}
INVARIANTS Linked IterSafe PassComplete
PROPERTIES ForwardOnly PassEnds
