\* realloc() gives memory that is not clear: the table grows 4, 6, 9.
SPECIFICATION Spec
CONSTANTS
  Unique = c1
  SlotBits = 2
  MaxSize = 9
  Chunks = {c1}
  Zero = Zero
  Junk = Junk
  Matches <- SameChunk
  Constrained = FALSE
  OnConstrains = "unset"
  AllocFaults = FALSE
  DirtyHeap = TRUE
  InitSizes = {4}
  CreateFlags <- NoFlags
  PushesEmptied = FALSE
SYMMETRY ChunkSymmetry
INVARIANT FragBitMeansFree
