SPECIFICATION TabSpec
CONSTANTS
  boss = boss
  ben = ben
  i1 = i1
  i2 = i2
  Users <- MCUsers
  Role <- MCRole
  Items = {i1, i2}
  TripId = TripId
  MaxFlight <- MCMaxFlight
  None = None
INVARIANTS
  OwnRowsOnly
  LoadingIsAwaited
  ActsOnWhatIsShown
