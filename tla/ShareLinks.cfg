SPECIFICATION Spec
CONSTANTS
  t1 = t1
  pod = pod
  Trips = {t1}
  Documents = {pod}
  DocTrip <- MCDocTrip
  DocType <- MCDocType
  Columns <- MCColumns
  Contacts = {"email", "sms"}
  Ttl = 2
  MaxTime = 3
  MaxRevokes = 2
  MaxMints = 2
  MaxSpool = 1
  None = None
INVARIANT RevokedUntilAsked
