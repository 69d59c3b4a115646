SPECIFICATION Spec
CONSTANTS
  Slots = 3
  MaxFaults = 3
  Nodes = 2
INVARIANTS DriverHasDevice
