SPECIFICATION BoardSpec
CONSTANTS
  Capacity = 2
  HighWatermark = 1
  BlockFrames = 1
  Failures = TRUE
  MaxTracks = 2
  MaxFrames = 3
  MaxPauses = 3
  MaxSets = 4
INVARIANTS GraphExclusive PauseIsKept TrackIntact NothingForgotten
PROPERTIES StopReturns PauseAnswers PlaysOut NeverStale LastApplied
CHECK_DEADLOCK FALSE
