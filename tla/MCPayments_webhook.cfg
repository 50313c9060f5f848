CONSTANTS
  u1 = u1  p1 = p1  p2 = p2  d1 = d1  d2 = d2
  Users = {u1}
  Businesses = {biz}
  House = House
  Topups = {p1, p2}
  Receivers = {d1, d2}
  Payer <- MCPayer
  Amount <- MCAmount
  NoTopup = NoTopup
  MaxCredits = 2
  MaxPayFaults = 0
SPECIFICATION PaySpec
INVARIANTS
  CreditedOnce
CHECK_DEADLOCK FALSE
