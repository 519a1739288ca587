CONSTANTS
  u1 = u1
  u2 = u2
  s1 = s1
  s2 = s2
  s3 = s3
  User <- MCUser
  Session <- MCSession
  Owner <- MCOwner
  PartyID = {p1, p2}
  AskedSizes = {2}
  DefaultMaxSize = 2
  AbsoluteMaxSize = 2
  SingleParty = TRUE
  NoUser = NoUser
  NoSession = NoSession
  NoParty = NoParty
MaxTickets = 2
SPECIFICATION GatewaySpec
SYMMETRY Symmetry
INVARIANTS NoRequestOfGoneSession
