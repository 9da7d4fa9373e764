SPECIFICATION Spec
CONSTANTS
  ann = ann
  bob = bob
  new = new
  k1 = k1
  h1 = h1
  r1 = r1
  r2 = r2
  None = None
  Users <- MCUsers
  Members <- MCMembers
  Owners <- MCOwners
  OrgOf <- MCOrgOf
  AddressOf <- MCAddressOf
  Creds = {k1}
  Challenges = {h1}
  Requests = {r1, r2}
  MAX_FAILED_LOGINS = 2
  OTP_MAX_ATTEMPTS = 1
  MaxCodes = 2
  MaxRequests = 4
SYMMETRY MCSymmetry
CHECK_DEADLOCK FALSE
INVARIANTS
  TypeOK
  OneSessionEach
  
  OwnersLeaveTogether
  LockAtTheLimit
