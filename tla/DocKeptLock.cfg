SPECIFICATION Spec
CONSTANTS
  Caller = {c1}
  Obj = {o1, o2}
  Handle = {h1, h2}
  NoHandle = NoHandle
  Catalogue <- DomainWithLock
  Offered = {"body", "activate", "cleanup"}
  Protected = {}
  UnlocksAll = FALSE
  OneAtATime = TRUE
  LeavesStateful <- EndingStateful
  IgnoresVerdict <- IgnoringVerdict
INVARIANT KeptLockStateful
