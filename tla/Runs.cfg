SPECIFICATION Spec
CONSTANTS
  Caller = {p, q}
  Earlier = Earlier
  Attempts = 2
  None = None
INVARIANTS
  TypeOK
  ReportsOwnEnd
PROPERTIES
  NothingAfterAbort
  EveryWaitEnds
CHECK_DEADLOCK FALSE
