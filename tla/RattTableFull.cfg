\* The table of table_frag.c: growth forbidden, fragments reused.
SPECIFICATION Spec
CONSTANTS
  Unique = c1
  SlotBits = 8
  MaxSize = 3
  Chunks = {c1}
  Zero = Zero
  Junk = Junk
  Matches <- SameChunk
  Constrained = FALSE
  OnConstrains = "unset"
  AllocFaults = FALSE
  DirtyHeap = FALSE
  InitSizes = {3}
  CreateFlags <- NoRealloc
  PushesEmptied = FALSE
SYMMETRY ChunkSymmetry
PROPERTY InsertFailsOnlyWhenFull
