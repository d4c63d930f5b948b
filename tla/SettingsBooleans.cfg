SPECIFICATION Spec
CONSTANTS
  Files <- ShippedFile
  Builds = {"kept", "cleared"}
  Number <- Values
  Messages <- Reports
  PollInterval = 1
  MaxGap = 6
CHECK_DEADLOCK FALSE
PROPERTY RequiredChecksAreOn
