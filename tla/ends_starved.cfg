CONSTANTS
  n1 = n1
  n2 = n2
  w1 = w1
  w2 = w2
  Node = {n1,n2}
  Worker = {w1,w2}
  NoNode = NoNode
  Idle = Idle
  Deployments <- Crowded
  MaxBoards = 2
  KeyTTL = 2
  Window = 1
  QueueCap = 2
  MaxTime = 3
  MaxCrash = 0
SPECIFICATION ScheduleSpec
PROPERTIES EndsRewarded
