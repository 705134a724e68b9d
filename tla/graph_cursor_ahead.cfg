SPECIFICATION Spec
CONSTANTS
  BufferSize = 6
  Subgraph <- MCSubgraph
  Since = 1
  PageSize = 2
  Stores = {"influx"}
  Modes = {"once"}
  Faults = {"query"}
  MaxFaults = 1
  LastBlock = 2
INVARIANTS
  DurablyStored
