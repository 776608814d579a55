SPECIFICATION FairSpec
CONSTANTS
  Caller = {c1}
  Obj = {o1}
  Handle = {h1, h2}
  NoHandle = NoHandle
  Catalogue <- AllHandlers
  Offered = {"body", "activate", "cleanup"}
  Protected = {o1}
  UnlocksAll = TRUE
  OneAtATime = TRUE
  LeavesStateful <- EndingStateful
  IgnoresVerdict <- IgnoringVerdict
INVARIANTS
  TypeOK
  CriticalSections
  NoAbandonedLock
  SessionReset
  OwnLockStateful
  UpdateDelivered
  DeleteDelivered
  CleanupOnlyOwn
PROPERTY EveryCallSettles
