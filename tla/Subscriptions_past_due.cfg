CONSTANTS
  Users = {u1}
  Businesses = {}
  House = House
  Subs = {s1}
  Clerks = {c1}
  Billers = {w1}
  NoSub = NoSub
  PlanPrice = 1
  MaxMonths = 1
  MaxPlusTopups = 2
  MaxPlusFaults = 0
SPECIFICATION PlusFairSpec
PROPERTY PastDueResumes
CHECK_DEADLOCK FALSE
