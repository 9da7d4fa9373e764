SPECIFICATION Spec
CONSTANTS
  org1 = org1
  cust1 = cust1
  cust2 = cust2
  a1 = a1
  a2 = a2
  a3 = a3
  a4 = a4
  Participants = {org1, cust1, cust2}
  Actions <- MCActions
  Rater <- MCRater
  HasLogin = {cust1}
  Ratings = {1, 5}
  Requests = {r1, r2}
  Recorders = {r1}
  REVIEW_MIN_ACTIONS = 1
  Window = 1
  MaxTime = 1
  MaxCrashes = 1
SYMMETRY MCSymmetry
CHECK_DEADLOCK FALSE
INVARIANT TypeOK
PROPERTIES
  AskedRarelyUncrashed
  NoRetaliation
  ReviewIsFinal
