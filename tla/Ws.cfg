SPECIFICATION FairSpec
CONSTANTS
  Request = {r1, r2, r3}
  Correlation = {i1, i2}
  None = None
CHECK_DEADLOCK FALSE
INVARIANTS
  TypeOK
  NoOrphan
  OwnAnswer
PROPERTY EveryRequestSettles
