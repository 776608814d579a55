SPECIFICATION Spec
CONSTANTS
  Request = {r1, r2, r3, r4}
  Execution = {e1, e2}
  Exclusive = TRUE
CHECK_DEADLOCK FALSE
INVARIANTS
  TypeOK
  OwnResponse
PROPERTY KeepsPromises
