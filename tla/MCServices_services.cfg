CONSTANTS
  u1 = u1  f3 = f3
  Users = {u1}
  Businesses = {}
  House = House
  Subs = {s1, s2}
  Clerks = {c1, c2}
  Billers = {w1, w2}
  NoSub = NoSub
  PlanPrice = 1
  MaxMonths = 2
  MaxPlusTopups = 3
  MaxPlusFaults = 1
  Fairs = {f1, f2, f3}
  Host <- MCHost
  City <- MCCity
  Society <- MCSociety
  Boosters = {b1, b2}
  NoFair = NoFair
  TierPrice <- MCPrice
  TierDays <- MCDays
  SocietyCap = 1
  MaxDays = 2
  MaxPurse = 2
  MaxBoostFaults = 1
  Organisers = {o1, o2}
  Processes = {p1, p2}
  Keys = {k1}
  MaxVersions = 2
  MaxListed = 1
  MaxOthers = 0
  MaxCacheFaults = 1
  Fans = {n1, n2}
  Viewer = n1
  Posts = {t1}
  Handlers = {h1, h2}
  NoFan = NoFan
  NoPost = NoPost
  MaxComments = 1
  MaxSocialFaults = 1
  MaxLostReplies = 1
  Authors = {a1, a2}
  Gatherings = {q1, q2}
  Reviewers = {r1, r2}
  NoReview = NoReview
  MaxReviewFaults = 1
  Vendors = {v1, v2}
  Deciders = {d1, d2}
  MaxDecisions = 3
  MaxApplicationFaults = 1
  Applicants = {g1, g2}
  Admins = {m1, m2}
  MaxSubmissions = 2
  MaxAudits = 3
  MaxKycFaults = 1
  Enquiries = {e1, e2}
  Buyers = {y1, y2}
  Sellers = {x1, x2}
  NoEnquiry = NoEnquiry
  MaxEdits = 1
SPECIFICATION Spec
SYMMETRY Symmetry
INVARIANTS
  TypesOK
  PlusAccounted
  ListedIffPaid
  CapsHold
  EditsAreListed
  BookedEventStays
  CountersMatch
  ButtonsShowStored
  RatingMatches
  StatusIsAudited
  ReplyShown
PROPERTIES
  CancelledIsFinal
  DecisionStands
CHECK_DEADLOCK FALSE
