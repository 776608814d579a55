SPECIFICATION Spec
CONSTANTS
  Caller = {c1, c2}
  Obj = {o1}
  Handle = {h1, h2}
  NoHandle = NoHandle
  Catalogue <- SharedObjects
  Offered = {"body", "cleanup"}
  Protected = {o1}
  UnlocksAll = TRUE
  OneAtATime = FALSE
  LeavesStateful <- EndingStateful
  IgnoresVerdict <- IgnoringVerdict
SYMMETRY CallerAndHandleSymmetry
INVARIANTS
  CriticalSections
  NoAbandonedLock
  UpdateDelivered
  NoLostUpdate
  CleanupOnlyOwn
