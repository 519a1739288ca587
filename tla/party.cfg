CONSTANTS
  u1 = u1
  u2 = u2
  u3 = u3
  s1 = s1
  s2 = s2
  s3 = s3
  s4 = s4
  c1 = c1
  c2 = c2
  c3 = c3
  User <- MCUser
  Session <- MCSession
  Owner <- MCOwner
  PartyID = {p1, p2, p3}
  AskedSizes = {0, 2, 4}
  DefaultMaxSize = 3
  AbsoluteMaxSize = 3
  SingleParty = TRUE
  NoUser = NoUser
  NoSession = NoSession
  NoParty = NoParty
  MaxTickets = 1
  Conn = {c1, c2, c3}
  SessionID = {s1, s2}
  UserID = {u1, u2}
  SidOf <- MCSidOf
  UserOf <- MCUserOf
  NoConn = NoConn
  QueueSize = 1
  MaxFollows = 2
SPECIFICATION MCSpec
SYMMETRY Symmetry
CONSTRAINT OneLate
CHECK_DEADLOCK FALSE
INVARIANTS TypeOK LeaderIsMember IndexesAgree WithinMaxSize NoMemberPending TicketsListTheParty NoTicketOfGoneSession LiveIsRegistered StatusSettles
PROPERTIES HookOnMembershipChange Succession
