SPECIFICATION Spec
CONSTANTS
  Capacity = 4
  HighWatermark = 2
  CursorTurns = 2
  MaxPull = 3
  MaxFrames = 12
  MaxUnderruns = 2
INVARIANTS BlockInOrder EosIsComplete
PROPERTY ImplementsFifo
