\* A table created with 1 or 3 slots that may grow to 5 (8 bits a slot of the
\* mask become 2), whose owner never appends to it once it has emptied it. A
\* constraint lets one of the chunks in once; its callback settles every match.
SPECIFICATION Spec
CONSTANTS
  Unique = c1
  SlotBits = 2
  MaxSize = 5
  Chunks = {c1, c2}
  Zero = Zero
  Junk = Junk
  Matches <- UniqueChunk
  Constrained = TRUE
  OnConstrains = "OK"
  AllocFaults = FALSE
  DirtyHeap = FALSE
  InitSizes = {0, 1, 3}
  CreateFlags <- AllFlags
  PushesEmptied = FALSE
INVARIANTS TypeOK Consistent ForeachDrains SearchExact NoDuplicates
PROPERTIES InsertReusesFragment WriteAllOrNothing RefusedOnlyWhenFull CursorOnLive StoreSafe
