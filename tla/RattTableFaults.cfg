\* Memory may run out in ratt_table_create and when the table grows.
SPECIFICATION Spec
CONSTANTS
  Unique = c1
  SlotBits = 8
  MaxSize = 3
  Chunks = {c1}
  Zero = Zero
  Junk = Junk
  Matches <- SameChunk
  Constrained = FALSE
  OnConstrains = "unset"
  AllocFaults = TRUE
  DirtyHeap = FALSE
  InitSizes = {1, 2}
  CreateFlags <- NoFlags
  PushesEmptied = FALSE
SYMMETRY ChunkSymmetry
PROPERTY DestroyFreesOnce
