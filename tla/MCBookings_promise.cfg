CONSTANTS
  v1 = v1  v2 = v2  org = org  biz = biz  s1 = s1  s2 = s2  s3 = s3  e1 = e1
  b1 = b1  b2 = b2  h1 = h1  h2 = h2  w1 = w1  w2 = w2
  Users = {v1, v2, org}
  Businesses = {biz}
  House = House
  Stalls = {s1, s2, s3}
  Events = {e1}
  BookingIds = {b1, b2}
  BookHandlers = {h1, h2}
  CancelHandlers = {h1, h2}
  Workers = {w1, w2}
  None = None
  EventOf <- MCEventOf
  Organiser <- MCOrganiser
  Business <- MCBusiness
  Price <- MCPrice
  Available <- MCAvailable
  Funds <- MCFunds
  Start = 0
  End = 0
  Dates = {0, 2}
  MaxTime = 2
  MaxEdits = 0
  MaxSettles = 2
  MaxFaults = 0
SPECIFICATION Spec
CONSTRAINT Orderly
PROPERTIES
  ImplementsPromise
CHECK_DEADLOCK FALSE
