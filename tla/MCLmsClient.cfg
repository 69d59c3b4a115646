SPECIFICATION Spec
CONSTANTS
  FrameBytes = 2
  PcmFrames = 2
  IngressBytes = 4
  RxBytes = 3
  Capacity = 2
  Preferred = 1
  Thresholds = {0, 7}
  TxMessages = 2
  MaxStreams = 2
  MaxBody = 4
INVARIANTS BytesConserved OutputContract StatusHonest
PROPERTIES EndIsTold
