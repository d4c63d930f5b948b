SPECIFICATION FairSpec
CONSTANTS
  StopDistance = 2
  MaxForward = 3
  MaxYawRate = 2
  YawAlign = 2
  HardLimit = 5
  RecoveryMargin = 2
  MinDescent = 1
  MaxDescent = 2
  Packets <- LivenessPackets
  LinkStale = 1
  InitialLinkAge = 4
  MaxGap = 1
  LandGap = 2
  LostLand = 3
  LoiterMin = 2
  Durations = {0, 2}
  MaxDelay = 2
  RequirePrearm = FALSE
  RequireNormal = FALSE
CHECK_DEADLOCK FALSE
PROPERTIES LostTargetLands SilentVehicleLands FlightEnds
