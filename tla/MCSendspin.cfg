SPECIFICATION Spec
CONSTANTS
  MessageUnits = 2
  ControlUnits = 1
  InputUnits = 3
  HeaderUnits = 3
  ScratchFrames = 2
  ChunkFrames = 1
  DecodeSteps = 3
  HasDecoder = TRUE
  RateControl = TRUE
  Formats <- MCFormats
  Fallback <- MCFallback
  WireUnits = 4
  HttpUnits = 2
  InboxUnits = 5
  MaxConnections = 2
  MaxMessages = 3
INVARIANTS HeardAsMeant WireIntact ReceiveFits StreamWasAdvertised AudioInFormat FramesAccounted
