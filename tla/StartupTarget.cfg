SPECIFICATION Spec
CONSTANTS
  Others = {"station"}
  ConnectTimeout = 1
  AckTimeout = 3
  ClimbTime = 3
  MaxGap = 1
  MaxDatagrams = 1
CHECK_DEADLOCK FALSE
INVARIANT CommandsGoToVehicle
