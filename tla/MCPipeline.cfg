SPECIFICATION Spec
CONSTANTS
  Slots = 3
  MaxFaults = 3
  Nodes = 2
INVARIANTS BlocksConserved StoppedIsQuiet ReleasedInOrder DriverInOrder
PROPERTIES Recovers
