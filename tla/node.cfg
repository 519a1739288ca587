CONSTANTS
  m1 = m1
  m2 = m2
  Match = {m1, m2}
  GoMatch = {m1}
  Lister = {l1}
  Visitor = {v1}
  Router = Router
  Nobody = Nobody
  MaxMatches = 1
  n1 = n1
  n2 = n2
  w1 = w1
  w2 = w2
  Node = {n1, n2}
  Worker = {w1, w2}
  NoNode = NoNode
  Idle = Idle
  Deployments <- DeploymentsOf
  MaxBoards = 2
  KeyTTL = 2
  Window = 1
  QueueCap = 2
  MaxTime = 3
  MaxCrash = 1
  Scenes = {"router", "schedule"}
SPECIFICATION Spec
CHECK_DEADLOCK FALSE
INVARIANTS LimitUpToOverlap RunsOncePerKey
PROPERTIES EndedIsUnregistered DueIsRun
