SPECIFICATION Spec
CONSTANTS
  StopDistance = 2
  MaxForward = 3
  MaxYawRate = 2
  YawAlign = 2
  HardLimit = 5
  RecoveryMargin = 2
  MinDescent = 1
  MaxDescent = 2
  Packets <- SafetyPackets
  LinkStale = 1
  InitialLinkAge = 4
  MaxGap = 1
  LandGap = 2
  LostLand = 3
  LoiterMin = 2
  Durations = {0}
  MaxDelay = 2
  RequirePrearm = TRUE
  RequireNormal = TRUE
CHECK_DEADLOCK FALSE
INVARIANTS TypeOK MotionNeedsFreshTarget LoiterIsSilent ResumeAfterQuiet
PROPERTIES CeilingHysteresis ImplementsHandoff
