SPECIFICATION Spec
CONSTANTS
  Distances = {1, 4, 6}
  MaxPlausible = 5
  MaxJump = 2
  AltitudeStale = 1
  TargetStale = 0
  LinkStale = 0
  Cycle = 1
  AltitudePeriod = 1
  MaxHttp = 2
  MaxPass = 1
  MaxUnread = 2
  LossyAltitude = TRUE
INVARIANTS TypeOK DetectionIsRecent
PROPERTIES AltitudeLagBounded NoJumpGetsThrough
