SPECIFICATION Spec
CONSTANTS
  QueuePackets = 2
  CursorTurns = 2
  SequenceSpan = 3
  MaxPosition = 11
  PacketFrames = 2
  PcmFrames = 3
  ReservoirFrames = 4
  BlockFrames = 2
  Budgets <- MCBudgets
  Peers <- MCPeers
  p1 = p1
  p2 = p2
  NoPeer = none
  EventSlots = 1
  TextSlots = 2
INVARIANTS PacketsFollow HistoryContinuous PcmInOrder SlotsOwned ForgetIsSaved
PROPERTIES PacketsAreDecoded Reachable
