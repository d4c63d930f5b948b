SPECIFICATION FilesSpec
CONSTANTS
  Durations = {1, 3}
  Interval = 1
  MaxLag = 2
  InputW = 8
  InputH = 8
  ConfThreshold = 25
  IouThreshold = 45
  Models = {"fit", "next", "unfit", "unreadable"}
  Unreadable = {"unreadable"}
  Unfit = {"unfit"}
  Frames <- SomeFrames
  RowSets <- SomeRows
  MaxClock = 2
CHECK_DEADLOCK FALSE
INVARIANTS
  RowsBelongToRecording WrittenOnce LastRecordingSaved
  KeptApart FillsTheInput
PROPERTIES RecordingEnds StartFollowsModel BuiltOnce
