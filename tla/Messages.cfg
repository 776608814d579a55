SPECIFICATION Spec
CONSTANTS
  Caller = {p, q}
  Message = {m1, m2}
  Text = {a}
  None = None
INVARIANTS
  TypeOK
  NoLockLeft
  Preserved
