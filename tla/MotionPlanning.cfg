SPECIFICATION Spec
CONSTANTS
  Hcells = 3
  Vcells = 2
  Costs = {1, 2, 3}
  Threshold = 3
INVARIANTS TypeOK  PathRight StatusRight
PROPERTY Ends
CHECK_DEADLOCK FALSE
