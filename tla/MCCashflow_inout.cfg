CONSTANTS
  u1 = u1  biz = biz  p1 = p1  d1 = d1  d2 = d2
  a1 = a1  a2 = a2  r1 = r1  r2 = r2
  Users = {u1}
  Businesses = {biz}
  House = House
  Topups = {p1}
  Receivers = {d1, d2}
  Payer <- MCPayer
  Amount <- MCAmount
  NoTopup = NoTopup
  MaxCredits = 2
  MaxPayFaults = 1
  RequestIds = {r1, r2}
  q1 = q1 q2 = q2
  Requesters = {q1, q2}
  Deciders = {a1, a2}
  RequestAmounts = {10000}
  Nobody = Nobody
  MaxDecisions = 2
  MaxCashFaults = 1
SYMMETRY Symmetry
SPECIFICATION Spec
INVARIANTS
  SuccessIsCredited
  CreditIsMarked
  CreditedOnceInTurn
  HoldsAccounted
  DecisionIsPaid
  UserMoneyAccounted
CHECK_DEADLOCK FALSE
