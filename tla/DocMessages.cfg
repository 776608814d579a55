SPECIFICATION Spec
CONSTANTS
  Caller = {p, q}
  Message = {m1, m2}
  Text = {a, b}
  None = None
INVARIANT OthersPreserved
