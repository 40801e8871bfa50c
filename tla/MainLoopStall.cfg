SPECIFICATION Spec
CONSTANTS
  Second = 12
  Catchup = 2
  Speeds = {4}
  MaxStall = 48
  MaxPassed = 60
INVARIANT NotTooFast
