CONSTANTS
  o1 = o1
  o2 = o2
  h1 = h1
  h2 = h2
  c1 = c1
  c2 = c2
  a1 = a1
  a2 = a2
  x1 = x1
  x2 = x2
  v1 = v1
  v2 = v2
  Request = {c1, c2}
  Owner = {o1, o2}
  Host = {h1, h2}
  None = None
  MaxSize = 1
  MaxNumScore = 2
  MaxCalls = 3
  User = {a1, a2}
  Object = {x1, x2}
  Value = {v1, v2}
  Kept = {v2}
  Place <- MCPlace
  Plans <- MCPlans
  HalfRange = 3
  Free = Free
  Absent = Absent
  AnyVersion = AnyVersion
  NewOnly = NewOnly
  MaxOpened = 3
SYMMETRY Sym
SPECIFICATION Spec
INVARIANTS BoardTypeOK CountWithinMaxSize CachesFollow EconomyTypeOK LedgerExplains BatchesDoNotDeadlock IndexFollows
PROPERTIES ReplacesWhatItNames
