SPECIFICATION PlaySpec
CONSTANTS
  Total = 7
  DecodeFrames = 2
  BlockFrames = 2
  Capacity = 4
  HighWatermark = 2
  BackpressureLow = 2
  BackpressureHigh = 3
  CommandCapacity = 1
  SeekTargets = {}
  Failures = FALSE
  MaxCommands = 0
  MaxStarts = 2
PROPERTIES PlaysToEnd StopReturns
