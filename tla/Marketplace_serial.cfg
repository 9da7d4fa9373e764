SPECIFICATION PageSpec
CONSTANTS
  shipper = shipper
  carrier1 = carrier1
  carrier2 = carrier2
  o1 = o1
  o2 = o2
  o3 = o3
  t1 = t1
  t2 = t2
  None = None
  Null = Null
  Empty = ""
  Unreadable = Unreadable
  Cut <- MCCut
  Contains <- MCContains
  Principals <- MCPrincipals
  Loads = {l1}
  Offers <- MCOffers
  Trips <- MCTrips
  Requests = {r1}
  MaxTime = 2
  Deadlines = {1, 2}
SYMMETRY MCSymmetry
INVARIANTS
  AwardedOnce
  LoadPageIsSwept
PROPERTY ImplementsAuction
