CONSTANTS
  s1 = s1
  s2 = s2
  c1 = c1
  c2 = c2
  Session = {s1, s2}
  Call = {c1, c2}
  Caller <- MCCaller
  QueueSize = 2
  DeferredSize = 1
CHECK_DEADLOCK FALSE
SPECIFICATION Spec
INVARIANTS DisconnectLeavesMatch
