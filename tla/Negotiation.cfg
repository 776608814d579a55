SPECIFICATION Spec
CONSTANTS
  Call = {p1, p2}
  Connection = {c1, c2}
  Method = {get, post}
  Url = {u}
  Type = {a, b}
  None = None
  c1 = c1
  c2 = c2
  get = get
  post = post
  a = a
  b = b
  Environment = TRUE
  Asks <- MCAsks
  Serves <- MCServes
  Takes <- MCTakes
  Names <- MCNames
  Suggests <- MCSuggests
INVARIANTS
  TypeOK
  OneEffect
  ClearForgets
  OffIsVerbatim
  RetrySuffices
