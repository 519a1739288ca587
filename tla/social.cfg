CONSTANTS
  u1 = u1
  u2 = u2
  u3 = u3
  p1 = p1
  p2 = p2
  Server = Server
  User = {u1, u2, u3}
  Request = {p1, p2}
  MaxCounts = {1, 2}
  MaxAdd = 2
  MaxBan = 1
  MaxFriends = 1
  MaxPending = 1
SYMMETRY Sym
CONSTRAINT NothingBroken

SPECIFICATION Spec
INVARIANTS SocialTypeOK CountMatchesMembers EdgesPaired ActiveHasSuperadmin EdgesFitTogether
PROPERTIES CountGrowsWithinMax BlockStands
