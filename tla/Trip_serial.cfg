SPECIFICATION Spec
CONSTANTS
  boss = boss
  ann = ann
  ben = ben
  t1 = t1
  t2 = t2
  r1 = r1
  r2 = r2
  None = None
  Drivers <- MCDrivers
  Carriers = {boss, ben}
  Trips = {t1, t2}
  PodDocs = {d1}
  Points = {g1}
  Requests = {r1}
SYMMETRY MCSymmetry
INVARIANTS
  OneActiveTripPerDriver
  TrackingOnlyOnTheRoad
  TimelineAgrees
