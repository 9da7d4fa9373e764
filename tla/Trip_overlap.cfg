SPECIFICATION Spec
CONSTANTS
  boss = boss
  ann = ann
  ben = ben
  t1 = t1
  t2 = t2
  r1 = r1
  r2 = r2
  None = None
  Drivers <- MCDrivers
  Carriers = {boss, ben}
  Trips = {t1}
  PodDocs = {d1}
  Points = {}
  Requests = {r1, r2}
SYMMETRY MCSymmetry
INVARIANTS
  TypeOK
  BilledTripWasDelivered
  UploadedIsOnDisk
 
