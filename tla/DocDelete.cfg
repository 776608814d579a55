SPECIFICATION Spec
CONSTANTS
  Caller = {c1}
  Obj = {o1}
  Handle = {h1, h2}
  NoHandle = NoHandle
  Catalogue <- ClassWithDelete
  Offered = {"body", "activate", "cleanup"}
  Protected = {o1}
  UnlocksAll = FALSE
  OneAtATime = TRUE
  LeavesStateful <- EndingStateful
  IgnoresVerdict <- IgnoringVerdict
INVARIANT DeleteAlwaysDelivered
