CONSTANTS
  Users = {u1}
  Requests = {r1, r2}
  NoUser = NoUser
  MaxTokens = 3
  MaxPasswords = 1
  MaxLapses = 1
  MaxDeaths = 1
  Tabs = {b1, b2}
  Calls = {k1, k2}
  MaxCalls = 2
  Visitor = u1
  NoRequest = NoRequest
  MaxStale = 1
  MaxLosses = 0
  Spare = 1
  Members = {m1}
  Callers = {c1, c2}
  NoMember = NoMember
  MaxCodes = 2
  OtpLimit = 1
  MaxAsked = 2
  MaxProfiles = 3
SPECIFICATION Spec
SYMMETRY Symmetry
INVARIANTS
  RevocationHolds
  RotatedOnce
  SignedOutForAReason
  LogoutStays
  CodeUsedOnce
  ProfilesMatchRole
CHECK_DEADLOCK FALSE
