\* The owner appends to a table that it has emptied.
SPECIFICATION Spec
CONSTANTS
  Unique = c1
  SlotBits = 8
  MaxSize = 3
  Chunks = {c1}
  Zero = Zero
  Junk = Junk
  Matches <- SameChunk
  Constrained = FALSE
  OnConstrains = "unset"
  AllocFaults = FALSE
  DirtyHeap = FALSE
  InitSizes = {3}
  CreateFlags <- NoFlags
  PushesEmptied = TRUE
SYMMETRY ChunkSymmetry
INVARIANT FragBitMeansFree
