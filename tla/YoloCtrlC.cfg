SPECIFICATION FairSpec
CONSTANTS
  ClassNames = {"bin", "tent"}
  ConfirmFrames = 2
  WarmupFrames = 2
CHECK_DEADLOCK FALSE
PROPERTY CtrlCQuits
