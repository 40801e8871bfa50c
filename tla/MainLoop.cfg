SPECIFICATION FairSpec
CONSTANTS
  Second = 12
  Catchup = 2
  Speeds = {0, 3, 4}
  MaxStall = 12
  MaxPassed = 24
INVARIANTS TypeOK NotTooFast EdgeSeen
PROPERTY StepsGoOn
