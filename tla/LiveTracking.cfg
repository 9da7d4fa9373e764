SPECIFICATION FairSpec
CONSTANTS
  MaxTrips = 2
  Viewers = {guest}
  Guests = {guest}
  Follows <- FollowsFirst
  MAX_BATCH_SIZE = 1
  MaxPoints = 2
  None = None
INVARIANTS TypeOK EveryPointOnce
PROPERTIES MapNeverJumpsBack PointsArrive
