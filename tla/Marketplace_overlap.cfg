SPECIFICATION Spec
CONSTANTS
  shipper = shipper
  carrier1 = carrier1
  carrier2 = carrier2
  l1 = l1
  o1 = o1
  o2 = o2
  o3 = o3
  t1 = t1
  t2 = t2
  r1 = r1
  r2 = r2
  None = None
  Principals <- MCPrincipals
  Loads <- MCLoads
  Offers <- MCOffers
  Trips <- MCTrips
  MaxTime = 1
  Deadlines = {1}
  Requests = {r1, r2}
SYMMETRY MCSymmetry
INVARIANTS
  TypeOK
  AcceptedOfferHasItsTrip
  AwardRowIsOneAward
  NegotiationChain
  ExpiredOnlyAfterDeadline
PROPERTY ClosedOffersStayClosed
