CONSTANTS
  b1 = b1  b2 = b2  b3 = b3
  Users = {u1}
  Requests = {r1, r2}
  NoUser = NoUser
  MaxTokens = 4
  MaxPasswords = 0
  MaxLapses = 0
  MaxDeaths = 0
  Tabs = {t1}
  Calls = {c1}
  MaxCalls = 1
  Visitor = u1
  NoRequest = NoRequest
  MaxStale = 1
  MaxLosses = 1
  Spare = 2
  Organisers = {o1}
  Processes = {p1, p2}
  Keys = {k1}
  MaxVersions = 2
  MaxListed = 1
  MaxOthers = 1
  MaxCacheFaults = 1
  Bookers = {b1, b2, b3}
  Stall <- MCStall
  Pool = 2
  MaxInner = 2
SPECIFICATION Spec
PROPERTIES
  HydrationSettles
  ListingsCatchUp
  EveryBookingEnds
CHECK_DEADLOCK FALSE
