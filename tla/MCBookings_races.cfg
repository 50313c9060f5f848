CONSTANTS
  v1 = v1  v2 = v2  org = org  biz = biz  s1 = s1  s2 = s2  e1 = e1
  b1 = b1  b2 = b2  b3 = b3  h1 = h1  h2 = h2
  Users = {v1, v2, org}
  Businesses = {biz}
  House = House
  Stalls = {s1, s2}
  Events = {e1}
  BookingIds = {b1, b2}
  BookHandlers = {h1, h2}
  CancelHandlers = {h1, h2}
  Workers = {w1}
  None = None
  EventOf <- MCEventOf
  Organiser <- MCOrganiser
  Business <- MCBusiness
  Price <- MCPrice
  Available <- MCAvailable
  Funds <- MCFunds
  Start = 0
  End = 0
  Dates = {0, 2}
  MaxTime = 2
  MaxEdits = 1
  MaxSettles = 2
  MaxFaults = 1
CONSTRAINT OneMishap
SYMMETRY Symmetry
SPECIFICATION Spec
INVARIANTS
  OneConfirmedPerVendor
  NoOversell
  WalletsMatchLedger
  StatusIsPaidFor
  EscrowCovered
  RefundedOrReleased
CHECK_DEADLOCK FALSE
