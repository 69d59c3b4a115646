SPECIFICATION Spec
CONSTANTS
  Total = 4
  DecodeFrames = 2
  BlockFrames = 2
  Capacity = 3
  HighWatermark = 2
  BackpressureLow = 1
  BackpressureHigh = 3
  CommandCapacity = 1
  SeekTargets = {1, 4}
  Failures = TRUE
  MaxCommands = 2
  MaxStarts = 2
INVARIANTS PlayedContiguous CompletedIsComplete ResetQuiescent NoOrphan
