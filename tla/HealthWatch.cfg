SPECIFICATION FairSpec
CONSTANTS
  Files <- ManyFiles
  Builds = {"kept", "cleared"}
  Number <- Values
  Messages <- Reports
  PollInterval = 1
  MaxGap = 6
CHECK_DEADLOCK FALSE
INVARIANTS TreeKeepsPlaces SameVerdict
PROPERTY SilenceIsReported
