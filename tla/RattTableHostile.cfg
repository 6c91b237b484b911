\* Nothing is assumed of the owner, of the allocator or of what it returns. With
\* one bit in a slot of the mask, growing from 2 slots already leaves dirty bits.
SPECIFICATION Spec
CONSTANTS
  Unique = c1
  SlotBits = 1
  MaxSize = 4
  Chunks = {c1}
  Zero = Zero
  Junk = Junk
  Matches <- SameChunk
  Constrained = FALSE
  OnConstrains = "unset"
  AllocFaults = TRUE
  DirtyHeap = TRUE
  InitSizes = {1, 2}
  CreateFlags <- NoFlags
  PushesEmptied = TRUE
INVARIANT InBounds
