SPECIFICATION FairSpec
CONSTANTS
  BufferSize = 6
  Subgraph <- MCSubgraph
  Since = 1
  PageSize = 2
  Stores = {"relational", "influx"}
  Modes = {"once", "loop"}
  Faults <- Everything
  MaxFaults = 2
  LastBlock = 2
INVARIANTS
  TypeOK
  CursorCovered
PROPERTIES
  ImplementsCopy
  CopiedInTheEnd
