------------------------ MODULE ModuleRegistryProofs ------------------------
(***************************************************************************)
(* Proofs about the module manager and the two cores, for any modules and  *)
(* tables of any sizes.                                                    *)
(***************************************************************************)
EXTENDS ModuleRegistry, FiniteSetTheorems, TLAPS

MP == INSTANCE TableOpsProofs WITH
  SlotBits <- 8, MaxSize <- ModTabMax, Chunks <- Modules, Matches <- Same,
  Constrained <- TRUE, OnConstrains <- "unset", AllocFaults <- FALSE,
  DirtyHeap <- FALSE
CP == INSTANCE TableOpsProofs WITH
  SlotBits <- 8, MaxSize <- CorTabMax, Chunks <- Cores, Matches <- Same,
  Constrained <- TRUE, OnConstrains <- "unset", AllocFaults <- FALSE,
  DirtyHeap <- FALSE
HP == INSTANCE TableOpsProofs WITH
  SlotBits <- 8, MaxSize <- HookTabMax, Chunks <- Modules, Matches <- Same,
  Constrained <- FALSE, OnConstrains <- "unset", AllocFaults <- FALSE,
  DirtyHeap <- FALSE

----------------------------------------------------------------------------
(* The operations of the three kinds of table.                             *)

LEMMA MAgrees ==
  /\ M!Table = MP!Table /\ M!NoTable = MP!NoTable /\ M!Null = MP!Null
  /\ \A t : /\ M!Exists(t) = MP!Exists(t) /\ M!Live(t) = MP!Live(t)
            /\ M!Current(t) = MP!Current(t) /\ M!First(t) = MP!First(t)
            /\ M!DelCurrent(t) = MP!DelCurrent(t) /\ M!Destroy(t) = MP!Destroy(t)
  /\ \A t, d : M!Search(t, d) = MP!Search(t, d)
  /\ \A n, f : M!Created(n, f) = MP!Created(n, f)
  /\ \A t, S : M!Swept(t, S) = MP!Swept(t, S)
<1>1. M!Table = MP!Table /\ M!NoTable = MP!NoTable /\ M!Null = MP!Null
  BY Zenon DEF M!Flag, MP!Flag, M!Cell, MP!Cell, M!Contents, MP!Contents,
     M!Table, MP!Table, M!NoTable, MP!NoTable, M!Null, MP!Null
<1>2. ASSUME NEW t
      PROVE  /\ M!Exists(t) = MP!Exists(t) /\ M!Live(t) = MP!Live(t)
             /\ M!Current(t) = MP!Current(t) /\ M!First(t) = MP!First(t)
             /\ M!DelCurrent(t) = MP!DelCurrent(t) /\ M!Destroy(t) = MP!Destroy(t)
  BY Zenon DEF M!Exists, MP!Exists, M!IsEmpty, MP!IsEmpty, M!Live, MP!Live,
     M!Null, MP!Null, M!Current, MP!Current, M!At, MP!At, M!Nowhere,
     MP!Nowhere, M!First, MP!First, M!Failed, MP!Failed, M!Done, MP!Done,
     M!DelCurrent, MP!DelCurrent, M!NoTable, MP!NoTable, M!Destroy, MP!Destroy
<1>3. ASSUME NEW t, NEW d PROVE M!Search(t, d) = MP!Search(t, d)
  BY Zenon DEF M!Fragmented, MP!Fragmented, M!Exists, MP!Exists, M!IsEmpty,
     MP!IsEmpty, M!PosIsFrag, MP!PosIsFrag, M!Visible, MP!Visible, M!Null,
     MP!Null, M!Nowhere, MP!Nowhere, M!At, MP!At, M!Least, MP!Least, M!Search,
     MP!Search
<1>4. ASSUME NEW n, NEW f PROVE M!Created(n, f) = MP!Created(n, f)
  BY Zenon DEF M!Created, MP!Created
<1>5. ASSUME NEW t, NEW S PROVE M!Swept(t, S) = MP!Swept(t, S)
  BY Zenon DEF M!Exists, MP!Exists, M!IsEmpty, MP!IsEmpty, M!At, MP!At,
     M!Null, MP!Null, M!Nowhere, MP!Nowhere, M!First, MP!First, M!Fragmented,
     MP!Fragmented, M!PosIsFrag, MP!PosIsFrag, M!Visible, MP!Visible, M!Least,
     MP!Least, M!NextSlot, MP!NextSlot, M!FirstNext, MP!FirstNext, M!Current,
     MP!Current, M!Failed, MP!Failed, M!Done, MP!Done, M!DelCurrent,
     MP!DelCurrent, M!Swept, MP!Swept
<1> QED
  BY <1>1, <1>2, <1>3, <1>4, <1>5

LEMMA MInsertAgrees == \A t, d : M!Insert(t, d) = MP!Insert(t, d)
<1>1. \A t, p : /\ M!Nowhere(t) = MP!Nowhere(t) /\ M!Null = MP!Null
                /\ M!Done(p, t) = MP!Done(p, t) /\ M!Failed(t) = MP!Failed(t)
                /\ M!IsEmpty(t) = MP!IsEmpty(t) /\ M!Fragmented(t) = MP!Fragmented(t)
  BY Zenon DEF M!Null, MP!Null, M!Nowhere, MP!Nowhere, M!Done, MP!Done,
     M!Failed, MP!Failed, M!Exists, MP!Exists, M!IsEmpty, MP!IsEmpty,
     M!Fragmented, MP!Fragmented
<1>2. \A t : M!ReallocAndMove(t) = MP!ReallocAndMove(t)
  BY DEF M!ReallocAndMove, MP!ReallocAndMove, M!Done, MP!Done,
         M!Failed, MP!Failed, M!Null, MP!Null, M!GrownSize, MP!GrownSize,
         M!Grown, MP!Grown, M!ClearedBits, MP!ClearedBits,
         M!DirtyBits, MP!DirtyBits, M!Bits, MP!Bits, M!MaskSize, MP!MaskSize
<1>3. \A t : M!TakeTail(t) = MP!TakeTail(t)
  BY <1>1 DEF M!TakeTail, MP!TakeTail
<1>4. \A t : M!GetTailNext(t) = MP!GetTailNext(t)
  BY <1>1, <1>2, <1>3 DEF M!GetTailNext, MP!GetTailNext
<1>5. \A t : M!SetPosFragFirst(t) = MP!SetPosFragFirst(t)
  BY DEF M!SetPosFragFirst, MP!SetPosFragFirst, M!Bits, MP!Bits, M!Least, MP!Least
<1>6. \A t : M!GetFragFirst(t) = MP!GetFragFirst(t)
  BY <1>1, <1>4, <1>5, MAgrees DEF M!GetFragFirst, MP!GetFragFirst
<1>7. \A t, d : M!Match(t, d) = MP!Match(t, d)
  BY <1>1, MAgrees DEF M!Match, MP!Match
<1> QED
  BY <1>1, <1>6, <1>7 DEF M!Insert, MP!Insert, M!WriteChunk, MP!WriteChunk

LEMMA CAgrees ==
  /\ C!Table = CP!Table /\ C!NoTable = CP!NoTable /\ C!Null = CP!Null
  /\ \A t : /\ C!Exists(t) = CP!Exists(t) /\ C!Live(t) = CP!Live(t)
            /\ C!Current(t) = CP!Current(t) /\ C!First(t) = CP!First(t)
            /\ C!DelCurrent(t) = CP!DelCurrent(t) /\ C!Destroy(t) = CP!Destroy(t)
  /\ \A t, d : C!Search(t, d) = CP!Search(t, d)
  /\ \A n, f : C!Created(n, f) = CP!Created(n, f)
  /\ \A t, S : C!Swept(t, S) = CP!Swept(t, S)
<1>1. C!Table = CP!Table /\ C!NoTable = CP!NoTable /\ C!Null = CP!Null
  BY Zenon DEF C!Flag, CP!Flag, C!Cell, CP!Cell, C!Contents, CP!Contents,
     C!Table, CP!Table, C!NoTable, CP!NoTable, C!Null, CP!Null
<1>2. ASSUME NEW t
      PROVE  /\ C!Exists(t) = CP!Exists(t) /\ C!Live(t) = CP!Live(t)
             /\ C!Current(t) = CP!Current(t) /\ C!First(t) = CP!First(t)
             /\ C!DelCurrent(t) = CP!DelCurrent(t) /\ C!Destroy(t) = CP!Destroy(t)
  BY Zenon DEF C!Exists, CP!Exists, C!IsEmpty, CP!IsEmpty, C!Live, CP!Live,
     C!Null, CP!Null, C!Current, CP!Current, C!At, CP!At, C!Nowhere,
     CP!Nowhere, C!First, CP!First, C!Failed, CP!Failed, C!Done, CP!Done,
     C!DelCurrent, CP!DelCurrent, C!NoTable, CP!NoTable, C!Destroy, CP!Destroy
<1>3. ASSUME NEW t, NEW d PROVE C!Search(t, d) = CP!Search(t, d)
  BY Zenon DEF C!Fragmented, CP!Fragmented, C!Exists, CP!Exists, C!IsEmpty,
     CP!IsEmpty, C!PosIsFrag, CP!PosIsFrag, C!Visible, CP!Visible, C!Null,
     CP!Null, C!Nowhere, CP!Nowhere, C!At, CP!At, C!Least, CP!Least, C!Search,
     CP!Search
<1>4. ASSUME NEW n, NEW f PROVE C!Created(n, f) = CP!Created(n, f)
  BY Zenon DEF C!Created, CP!Created
<1>5. ASSUME NEW t, NEW S PROVE C!Swept(t, S) = CP!Swept(t, S)
  BY Zenon DEF C!Exists, CP!Exists, C!IsEmpty, CP!IsEmpty, C!At, CP!At,
     C!Null, CP!Null, C!Nowhere, CP!Nowhere, C!First, CP!First, C!Fragmented,
     CP!Fragmented, C!PosIsFrag, CP!PosIsFrag, C!Visible, CP!Visible, C!Least,
     CP!Least, C!NextSlot, CP!NextSlot, C!FirstNext, CP!FirstNext, C!Current,
     CP!Current, C!Failed, CP!Failed, C!Done, CP!Done, C!DelCurrent,
     CP!DelCurrent, C!Swept, CP!Swept
<1> QED
  BY <1>1, <1>2, <1>3, <1>4, <1>5

LEMMA CInsertAgrees == \A t, d : C!Insert(t, d) = CP!Insert(t, d)
<1>1. \A t, p : /\ C!Nowhere(t) = CP!Nowhere(t) /\ C!Null = CP!Null
                /\ C!Done(p, t) = CP!Done(p, t) /\ C!Failed(t) = CP!Failed(t)
                /\ C!IsEmpty(t) = CP!IsEmpty(t) /\ C!Fragmented(t) = CP!Fragmented(t)
  BY Zenon DEF C!Null, CP!Null, C!Nowhere, CP!Nowhere, C!Done, CP!Done,
     C!Failed, CP!Failed, C!Exists, CP!Exists, C!IsEmpty, CP!IsEmpty,
     C!Fragmented, CP!Fragmented
<1>2. \A t : C!ReallocAndMove(t) = CP!ReallocAndMove(t)
  BY DEF C!ReallocAndMove, CP!ReallocAndMove, C!Done, CP!Done,
         C!Failed, CP!Failed, C!Null, CP!Null, C!GrownSize, CP!GrownSize,
         C!Grown, CP!Grown, C!ClearedBits, CP!ClearedBits,
         C!DirtyBits, CP!DirtyBits, C!Bits, CP!Bits, C!MaskSize, CP!MaskSize
<1>3. \A t : C!TakeTail(t) = CP!TakeTail(t)
  BY <1>1 DEF C!TakeTail, CP!TakeTail
<1>4. \A t : C!GetTailNext(t) = CP!GetTailNext(t)
  BY <1>1, <1>2, <1>3 DEF C!GetTailNext, CP!GetTailNext
<1>5. \A t : C!SetPosFragFirst(t) = CP!SetPosFragFirst(t)
  BY DEF C!SetPosFragFirst, CP!SetPosFragFirst, C!Bits, CP!Bits, C!Least, CP!Least
<1>6. \A t : C!GetFragFirst(t) = CP!GetFragFirst(t)
  BY <1>1, <1>4, <1>5, CAgrees DEF C!GetFragFirst, CP!GetFragFirst
<1>7. \A t, d : C!Match(t, d) = CP!Match(t, d)
  BY <1>1, CAgrees DEF C!Match, CP!Match
<1> QED
  BY <1>1, <1>6, <1>7 DEF C!Insert, CP!Insert, C!WriteChunk, CP!WriteChunk

LEMMA HAgrees ==
  /\ H!Table = HP!Table /\ H!NoTable = HP!NoTable /\ H!Null = HP!Null
  /\ \A t : /\ H!Exists(t) = HP!Exists(t) /\ H!Live(t) = HP!Live(t)
            /\ H!Current(t) = HP!Current(t) /\ H!First(t) = HP!First(t)
            /\ H!DelCurrent(t) = HP!DelCurrent(t) /\ H!Destroy(t) = HP!Destroy(t)
  /\ \A t, d : H!Search(t, d) = HP!Search(t, d)
  /\ \A n, f : H!Created(n, f) = HP!Created(n, f)
  /\ \A t, S : H!Swept(t, S) = HP!Swept(t, S)
<1>1. H!Table = HP!Table /\ H!NoTable = HP!NoTable /\ H!Null = HP!Null
  BY Zenon DEF H!Flag, HP!Flag, H!Cell, HP!Cell, H!Contents, HP!Contents,
     H!Table, HP!Table, H!NoTable, HP!NoTable, H!Null, HP!Null
<1>2. ASSUME NEW t
      PROVE  /\ H!Exists(t) = HP!Exists(t) /\ H!Live(t) = HP!Live(t)
             /\ H!Current(t) = HP!Current(t) /\ H!First(t) = HP!First(t)
             /\ H!DelCurrent(t) = HP!DelCurrent(t) /\ H!Destroy(t) = HP!Destroy(t)
  BY Zenon DEF H!Exists, HP!Exists, H!IsEmpty, HP!IsEmpty, H!Live, HP!Live,
     H!Null, HP!Null, H!Current, HP!Current, H!At, HP!At, H!Nowhere,
     HP!Nowhere, H!First, HP!First, H!Failed, HP!Failed, H!Done, HP!Done,
     H!DelCurrent, HP!DelCurrent, H!NoTable, HP!NoTable, H!Destroy, HP!Destroy
<1>3. ASSUME NEW t, NEW d PROVE H!Search(t, d) = HP!Search(t, d)
  BY Zenon DEF H!Fragmented, HP!Fragmented, H!Exists, HP!Exists, H!IsEmpty,
     HP!IsEmpty, H!PosIsFrag, HP!PosIsFrag, H!Visible, HP!Visible, H!Null,
     HP!Null, H!Nowhere, HP!Nowhere, H!At, HP!At, H!Least, HP!Least, H!Search,
     HP!Search
<1>4. ASSUME NEW n, NEW f PROVE H!Created(n, f) = HP!Created(n, f)
  BY Zenon DEF H!Created, HP!Created
<1>5. ASSUME NEW t, NEW S PROVE H!Swept(t, S) = HP!Swept(t, S)
  BY Zenon DEF H!Exists, HP!Exists, H!IsEmpty, HP!IsEmpty, H!At, HP!At,
     H!Null, HP!Null, H!Nowhere, HP!Nowhere, H!First, HP!First, H!Fragmented,
     HP!Fragmented, H!PosIsFrag, HP!PosIsFrag, H!Visible, HP!Visible, H!Least,
     HP!Least, H!NextSlot, HP!NextSlot, H!FirstNext, HP!FirstNext, H!Current,
     HP!Current, H!Failed, HP!Failed, H!Done, HP!Done, H!DelCurrent,
     HP!DelCurrent, H!Swept, HP!Swept
<1> QED
  BY <1>1, <1>2, <1>3, <1>4, <1>5

LEMMA HInsertAgrees == \A t, d : H!Insert(t, d) = HP!Insert(t, d)
<1>1. \A t, p : /\ H!Nowhere(t) = HP!Nowhere(t) /\ H!Null = HP!Null
                /\ H!Done(p, t) = HP!Done(p, t) /\ H!Failed(t) = HP!Failed(t)
                /\ H!IsEmpty(t) = HP!IsEmpty(t) /\ H!Fragmented(t) = HP!Fragmented(t)
  BY Zenon DEF H!Null, HP!Null, H!Nowhere, HP!Nowhere, H!Done, HP!Done,
     H!Failed, HP!Failed, H!Exists, HP!Exists, H!IsEmpty, HP!IsEmpty,
     H!Fragmented, HP!Fragmented
<1>2. \A t : H!ReallocAndMove(t) = HP!ReallocAndMove(t)
  BY DEF H!ReallocAndMove, HP!ReallocAndMove, H!Done, HP!Done,
         H!Failed, HP!Failed, H!Null, HP!Null, H!GrownSize, HP!GrownSize,
         H!Grown, HP!Grown, H!ClearedBits, HP!ClearedBits,
         H!DirtyBits, HP!DirtyBits, H!Bits, HP!Bits, H!MaskSize, HP!MaskSize
<1>3. \A t : H!TakeTail(t) = HP!TakeTail(t)
  BY <1>1 DEF H!TakeTail, HP!TakeTail
<1>4. \A t : H!GetTailNext(t) = HP!GetTailNext(t)
  BY <1>1, <1>2, <1>3 DEF H!GetTailNext, HP!GetTailNext
<1>5. \A t : H!SetPosFragFirst(t) = HP!SetPosFragFirst(t)
  BY DEF H!SetPosFragFirst, HP!SetPosFragFirst, H!Bits, HP!Bits, H!Least, HP!Least
<1>6. \A t : H!GetFragFirst(t) = HP!GetFragFirst(t)
  BY <1>1, <1>4, <1>5, HAgrees DEF H!GetFragFirst, HP!GetFragFirst
<1>7. \A t, d : H!Match(t, d) = HP!Match(t, d)
  BY <1>1, HAgrees DEF H!Match, HP!Match
<1> QED
  BY <1>1, <1>6, <1>7 DEF H!Insert, HP!Insert, H!WriteChunk, HP!WriteChunk

\* l_modtab: what holds of it as long as it is sound.
ModSound(t) == MP!Sound(t) /\ "NRU" \notin t.flags
Single(t) == \A p, q \in M!Live(t) : t.cells[p] = t.cells[q] => p = q
In(t) == {t.cells[p] : p \in M!Live(t)}

LEMMA ModBlank == MP!BlankMatchesNone
BY RegistryAssumption DEF MP!BlankMatchesNone, Same

LEMMA ModFacts ==
  ASSUME NEW t, ModSound(t)
  PROVE  /\ t \in M!Table
         /\ M!Live(t) \subseteq DOMAIN t.cells /\ M!Live(t) \subseteq ModSlots
         /\ \A p \in M!Live(t) : t.cells[p] \in Modules
         /\ M!Exists(t) => \A p \in DOMAIN t.cells :
                             p \notin M!Live(t) => t.cells[p] = Zero
         /\ ~M!Exists(t) => M!Live(t) = {}
<1>1. ~M!Exists(t) => M!Live(t) = {}
  BY DEF M!Live, M!IsEmpty
<1> QED
  BY <1>1, RegistryAssumption, MP!HeldOrBlank, MAgrees DEF ModSound, ModSlots

LEMMA ModMade ==
  LET t == M!Created(ModTabSize, {}) IN
  /\ ModSound(M!NoTable) /\ ~M!Exists(M!NoTable) /\ M!Live(M!NoTable) = {}
  /\ ModSound(t) /\ M!Exists(t) /\ M!Live(t) = {}
<1>1. /\ ~M!Exists(M!NoTable) /\ M!Live(M!NoTable) = {}
      /\ "NRU" \notin M!NoTable.flags /\ "NRU" \notin M!Created(ModTabSize, {}).flags
  BY DEF M!Exists, M!Live, M!IsEmpty, M!NoTable, M!Created
<1>2. MP!Sound(M!NoTable)
  BY <1>1, RegistryAssumption, MP!ShapeNoTable, MAgrees DEF MP!Sound
<1> QED
  BY <1>1, <1>2, RegistryAssumption, MP!SoundCreated, MAgrees DEF ModSound

LEMMA ModSearch ==
  ASSUME NEW t, ModSound(t), NEW m, m \in Modules \/ m = Unknown,
         NEW f, f = M!Search(t, m)
  PROVE  /\ ModSound(f.t) /\ M!Exists(f.t) = M!Exists(t) /\ f.t.cells = t.cells
         /\ M!Live(f.t) = M!Live(t) /\ f.t.flags = t.flags
         /\ m = Unknown => f.at = M!Null
         /\ IF f.at = M!Null THEN m \notin In(t)
            ELSE /\ f.at \in M!Live(t) /\ t.cells[f.at] = m
                 /\ M!Current(f.t) = f.at
<1>1. MP!Sound(t) /\ MP!Alike(t, f.t)
  BY RegistryAssumption, MP!MovesAlike, MAgrees DEF ModSound
<1>2. /\ ModSound(f.t) /\ M!Exists(f.t) = M!Exists(t) /\ f.t.cells = t.cells
      /\ M!Live(f.t) = M!Live(t) /\ f.t.flags = t.flags
  BY <1>1, MAgrees DEF MP!Alike, ModSound
<1>3. CASE m \in Modules
  <2>1. IF \E p \in MP!Live(t) : Same(t.cells[p], m)
        THEN MP!OnLive(t, f) /\ Same(t.cells[f.at], m)
        ELSE f.at = MP!Null
    BY <1>1, <1>3, ModBlank, RegistryAssumption, MP!SearchFinds, MAgrees
  <2>2. MP!OnLive(t, f) => MP!Current(f.t) = f.at /\ f.at # MP!Null
    BY <1>1, RegistryAssumption, MP!OnLiveCurrent
  <2>3. m # Unknown
    BY <1>3, RegistryAssumption
  <2> QED
    BY <1>2, <2>1, <2>2, <2>3, MAgrees DEF MP!OnLive, Same, In
<1>4. CASE m = Unknown
  <2>1. f.at # MP!Null => f.at \in DOMAIN t.cells /\ Same(t.cells[f.at], m)
    BY <1>1, RegistryAssumption, MP!SearchHits, MAgrees
  <2>2. M!Exists(t) => \A p \in DOMAIN t.cells : t.cells[p] # m
    BY <1>4, ModFacts, RegistryAssumption
  <2>3. ~M!Exists(t) => f.at = M!Null
    BY DEF M!Search, M!IsEmpty, M!Nowhere
  <2>4. f.at = M!Null
    BY <2>1, <2>2, <2>3, MAgrees DEF Same
  <2>5. m \notin In(t)
    BY <1>4, ModFacts, RegistryAssumption DEF In
  <2> QED
    BY <1>2, <2>4, <2>5
<1> QED
  BY <1>3, <1>4

LEMMA ModInsert ==
  ASSUME NEW t, ModSound(t), M!Exists(t), NEW m \in Modules, NEW r \in M!Insert(t, m)
  PROVE  /\ ModSound(r.t) /\ M!Exists(r.t)
         /\ \A q \in M!Live(t) : r.t.cells[q] = t.cells[q]
         /\ IF r.ok THEN /\ m \notin In(t)
                         /\ r.at \notin M!Live(t) /\ r.at \in ModSlots
                         /\ M!Live(r.t) = M!Live(t) \cup {r.at} /\ r.t.cells[r.at] = m
            ELSE M!Live(r.t) = M!Live(t)
<1>1. r \in MP!Insert(t, m) /\ MP!Exists(t) /\ MP!Sound(t)
  BY MAgrees, MInsertAgrees DEF ModSound
<1>2. MP!Sound(r.t) /\ MP!Written(t, MP!Match(t, m), m, r)
  BY <1>1, RegistryAssumption, MP!InsertSound DEF ModSound
<1>3. r.t.flags = t.flags
  BY <1>1, RegistryAssumption, MP!InsertKeepsFlags
<1>4. PICK f : f = M!Search(t, m)
  OBVIOUS
<1>5. /\ MP!Match(t, m) = f
      /\ IF f.at = M!Null THEN m \notin In(t) ELSE m \in In(t)
      /\ M!Exists(f.t) /\ f.t.cells = t.cells /\ M!Live(f.t) = M!Live(t)
  BY <1>4, ModSearch, MAgrees DEF In, MP!Match
<1>6. ModSound(r.t)
  BY <1>2, <1>3 DEF ModSound
<1>7. CASE f.at = M!Null
  <2>1. /\ M!Exists(r.t) /\ \A q \in M!Live(t) : r.t.cells[q] = t.cells[q]
        /\ IF r.ok THEN /\ r.at \notin M!Live(t)
                        /\ M!Live(r.t) = M!Live(t) \cup {r.at} /\ r.t.cells[r.at] = m
           ELSE M!Live(r.t) = M!Live(t)
    BY <1>2, <1>5, <1>7, MAgrees DEF MP!Written, MP!Gained, MP!Kept
  <2> QED
    BY <1>5, <1>6, <1>7, <2>1, ModFacts
<1>8. CASE f.at # M!Null
  <2>1. r.ok = FALSE /\ r.t = f.t
    BY <1>2, <1>5, <1>8, MAgrees DEF MP!Written
  <2> QED
    BY <1>5, <1>6, <2>1
<1> QED
  BY <1>7, <1>8

LEMMA ModDeleted ==
  ASSUME NEW t, ModSound(t), M!Exists(t), Single(t),
         NEW m \in Modules, NEW p \in M!Live(t), t.cells[p] = m,
         NEW u, u = Deleted(m, t)
  PROVE  /\ ModSound(u) /\ M!Exists(u) /\ M!Live(u) = M!Live(t) \ {p}
         /\ \A q \in M!Live(u) : u.cells[q] = t.cells[q]
<1>1. PICK f : f = M!Search(t, m)
  OBVIOUS
<1>2. /\ ModSound(f.t) /\ M!Exists(f.t) /\ f.t.cells = t.cells
      /\ M!Live(f.t) = M!Live(t)
      /\ f.at = p /\ M!Current(f.t) = p
  BY <1>1, ModSearch DEF Single, In
<1>3. u = M!DelCurrent(f.t).t
  BY <1>1 DEF Deleted
<1>4. /\ MP!Sound(u)
      /\ IF MP!DelCurrent(f.t).ok THEN MP!Lost(f.t, u, MP!DelCurrent(f.t).at)
         ELSE u = f.t
  BY <1>2, <1>3, RegistryAssumption, MP!DelKeepsSound, MAgrees DEF ModSound
<1>5. MP!DelCurrent(f.t).ok /\ MP!DelCurrent(f.t).at = p
  <2>1. p \notin f.t.mask /\ p # MP!Null /\ MP!Current(f.t) = p
    <3>1. p \in ModSlots /\ p \in M!Live(f.t)
      BY <1>2, ModFacts
    <3> QED
      BY <1>2, <3>1, MAgrees DEF M!Live, MP!Null, ModSlots
  <2> QED
    BY <2>1 DEF MP!DelCurrent, MP!Done
<1>6. u.flags = f.t.flags
  <2>1. f.t \in MP!Table
    BY <1>2, ModFacts, MAgrees
  <2> QED
    BY <1>3, <2>1, RegistryAssumption, MP!DelKeepsSize, MAgrees
<1> QED
  BY <1>2, <1>4, <1>5, <1>6, MAgrees DEF ModSound, MP!Lost

\* unload_modules and the destruction that follows leave no table.
LEMMA ModUnloaded ==
  ASSUME NEW t, ModSound(t), M!Exists(t)
  PROVE  M!Destroy(Unloaded(t)).t = M!NoTable
<1>1. PICK l : l = MP!Swept(t, Modules)
  OBVIOUS
<1>2. Unloaded(t) = l.t
  BY <1>1, MAgrees DEF Unloaded
<1>3. MP!Sound(l.t) /\ MP!Exists(l.t)
  <2>1. /\ MP!Exists(t) /\ MP!Sound(t) /\ 8 \in Nat \ {0} /\ ModTabMax \in Nat \ {0}
        /\ Zero \notin Modules /\ Junk \notin Modules
        /\ TRUE \in BOOLEAN /\ FALSE \in BOOLEAN /\ "unset" \in {"unset", "OK", "FAIL"}
    BY RegistryAssumption, MAgrees DEF ModSound
  <2> QED
    BY <1>1, <2>1, MP!SweptExact, SMTT(40)
<1>4. l.t.head = "live"
  BY <1>3 DEF MP!Sound, MP!Good, MP!Bounds
<1> QED
  BY <1>2, <1>4 DEF M!Destroy, M!Done

\* l_cortab: only its shape is of interest.
CorSound(t) == CP!Sound(t) /\ "NRU" \notin t.flags

LEMMA CorFacts ==
  /\ CorSound(C!NoTable) /\ ~C!Exists(C!NoTable)
  /\ CorSound(C!Created(CorTabSize, {})) /\ C!Exists(C!Created(CorTabSize, {}))
  /\ \A t : CorSound(t) =>
       /\ t \in C!Table
       /\ \A c : /\ CorSound(C!Search(t, c).t)
                 /\ C!Exists(C!Search(t, c).t) = C!Exists(t)
       /\ C!Exists(t) => C!Destroy(t).t = C!NoTable
       /\ C!Exists(t) => \A c \in Cores : \A r \in C!Insert(t, c) :
                           CorSound(r.t) /\ C!Exists(r.t)
<1>1. /\ ~C!Exists(C!NoTable)
      /\ "NRU" \notin C!NoTable.flags /\ "NRU" \notin C!Created(CorTabSize, {}).flags
  BY DEF C!Exists, C!NoTable, C!Created
<1>2. CP!Sound(C!NoTable)
  BY <1>1, RegistryAssumption, CP!ShapeNoTable, CAgrees DEF CP!Sound
<1>3. CorSound(C!Created(CorTabSize, {})) /\ C!Exists(C!Created(CorTabSize, {}))
  BY <1>1, RegistryAssumption, CP!SoundCreated, CAgrees DEF CorSound
<1>4. ASSUME NEW t, CorSound(t)
      PROVE  /\ t \in C!Table
             /\ \A c : /\ CorSound(C!Search(t, c).t)
                       /\ C!Exists(C!Search(t, c).t) = C!Exists(t)
             /\ C!Exists(t) => C!Destroy(t).t = C!NoTable
             /\ C!Exists(t) => \A c \in Cores : \A r \in C!Insert(t, c) :
                                 CorSound(r.t) /\ C!Exists(r.t)
  <2>1. CP!Sound(t)
    BY <1>4 DEF CorSound
  <2>2. t \in C!Table
    BY <2>1, RegistryAssumption, CP!SoundFacts, CAgrees
  <2>3. ASSUME NEW c
        PROVE  /\ CorSound(C!Search(t, c).t)
               /\ C!Exists(C!Search(t, c).t) = C!Exists(t)
    <3>1. CP!Alike(t, CP!Search(t, c).t)
      BY <2>1, RegistryAssumption, CP!MovesAlike
    <3> QED
      BY <1>4, <3>1, CAgrees DEF CP!Alike, CorSound
  <2>4. ASSUME C!Exists(t) PROVE C!Destroy(t).t = C!NoTable
    <3>1. t.head = "live"
      BY <2>1, <2>4, CAgrees DEF CP!Sound, CP!Good, CP!Bounds
    <3> QED
      BY <3>1 DEF C!Destroy, C!Done
  <2>5. ASSUME C!Exists(t), NEW c \in Cores, NEW r \in C!Insert(t, c)
        PROVE  CorSound(r.t) /\ C!Exists(r.t)
    <3>1. r \in CP!Insert(t, c) /\ CP!Exists(t)
      BY <2>5, CAgrees, CInsertAgrees
    <3>2. CP!Sound(r.t)
      BY <1>4, <2>1, <3>1, RegistryAssumption, CP!InsertSound DEF CorSound
    <3>3. r.t.flags = t.flags
      BY <2>1, <3>1, RegistryAssumption, CP!InsertKeepsFlags
    <3> QED
      BY <1>4, <2>5, <3>2, <3>3 DEF CorSound, C!Exists
  <2> QED
    BY <2>2, <2>3, <2>4, <2>5
<1> QED
  BY <1>1, <1>2, <1>3, <1>4 DEF CorSound

\* The tables of the cores' modules.
HookSound(t) == HP!Sound(t) /\ "NRU" \notin t.flags

LEMMA HookFacts ==
  ASSUME NEW t, HookSound(t)
  PROVE  /\ t \in H!Table
         /\ H!Live(t) \subseteq 0..(HookTabMax - 1)
         /\ \A p \in H!Live(t) : t.cells[p] \in Modules
         /\ ~H!Exists(t) => H!Live(t) = {}
         /\ t.size = 1 => H!Live(t) \subseteq {0}
<1>1. ~H!Exists(t) => H!Live(t) = {}
  BY DEF H!Live, H!IsEmpty
<1>2. HP!Sound(t)
  BY DEF HookSound
<1>3. /\ t \in H!Table
      /\ H!Live(t) \subseteq 0..(HookTabMax - 1)
      /\ \A p \in H!Live(t) : t.cells[p] \in Modules
  BY <1>2, RegistryAssumption, HP!HeldOrBlank, HAgrees
<1>4. ASSUME t.size = 1, NEW p \in H!Live(t) PROVE p = 0
  <2>1. t.last \in Nat /\ t.last < t.size
    BY <1>1, <1>2, <1>4, RegistryAssumption, HP!SoundFacts, HAgrees
  <2>2. p \in 0..t.last
    BY <1>4 DEF H!Live
  <2> QED
    BY <1>4, <2>1, <2>2
<1> QED
  BY <1>1, <1>3, <1>4

\* The table of a core: a lone core's keeps its size.
HookFit(c, t) ==
  /\ HookSound(t)
  /\ c \in Lone /\ H!Exists(t) => "NRA" \in t.flags /\ t.size = 1

LEMMA HookMade ==
  /\ HookSound(H!NoTable) /\ ~H!Exists(H!NoTable) /\ H!Live(H!NoTable) = {}
  /\ \A c \in Cores : /\ HookSound(HookTable(c)) /\ H!Exists(HookTable(c))
                      /\ H!Live(HookTable(c)) = {}
                      /\ c \in Lone => /\ "NRA" \in HookTable(c).flags
                                       /\ HookTable(c).size = 1
<1>1. /\ ~H!Exists(H!NoTable) /\ H!Live(H!NoTable) = {}
      /\ "NRU" \notin H!NoTable.flags
  BY DEF H!Exists, H!Live, H!IsEmpty, H!NoTable
<1>2. HP!Sound(H!NoTable)
  BY <1>1, RegistryAssumption, HP!ShapeNoTable, HAgrees DEF HP!Sound
<1>3. /\ "NRU" \notin H!Created(HookTabSize, {}).flags
      /\ H!Created(1, {"NRA"}).flags = {"XIS", "NRA"} /\ H!Created(1, {"NRA"}).size = 1
  BY DEF H!Created
<1>4. /\ HP!Sound(H!Created(HookTabSize, {})) /\ H!Exists(H!Created(HookTabSize, {}))
      /\ H!Live(H!Created(HookTabSize, {})) = {}
  BY RegistryAssumption, HP!SoundCreated, HAgrees
<1>5. /\ HP!Sound(H!Created(1, {"NRA"})) /\ H!Exists(H!Created(1, {"NRA"}))
      /\ H!Live(H!Created(1, {"NRA"})) = {}
  <2>1. 1 \in 1..HookTabMax
    BY RegistryAssumption
  <2> QED
    BY <2>1, RegistryAssumption, HP!SoundCreated, HAgrees
<1> QED
  BY <1>1, <1>2, <1>3, <1>4, <1>5 DEF HookSound, HookTable

LEMMA HookFirst ==
  ASSUME NEW t, HookSound(t), NEW u, u = H!First(t).t
  PROVE  /\ HookSound(u) /\ H!Exists(u) = H!Exists(t) /\ H!Live(u) = H!Live(t)
         /\ u.cells = t.cells /\ u.flags = t.flags /\ u.size = t.size
<1>1. HP!Alike(t, u)
  BY RegistryAssumption, HP!MovesAlike, HAgrees DEF HookSound
<1> QED
  BY <1>1, HAgrees DEF HP!Alike, HookSound

LEMMA HookInsert ==
  ASSUME NEW t, HookSound(t), H!Exists(t), NEW m \in Modules, NEW r \in H!Insert(t, m)
  PROVE  /\ HookSound(r.t) /\ H!Exists(r.t) /\ r.t.flags = t.flags
         /\ "NRA" \in t.flags => r.t.size = t.size
         /\ \A q \in H!Live(t) : r.t.cells[q] = t.cells[q]
         /\ IF r.ok THEN /\ r.at \notin H!Live(t)
                         /\ H!Live(r.t) = H!Live(t) \cup {r.at} /\ r.t.cells[r.at] = m
            ELSE H!Live(r.t) = H!Live(t)
<1>1. r \in HP!Insert(t, m) /\ HP!Exists(t) /\ HP!Sound(t)
  BY HAgrees, HInsertAgrees DEF HookSound
<1>2. HP!Sound(r.t) /\ HP!Written(t, HP!Match(t, m), m, r)
  BY <1>1, RegistryAssumption, HP!InsertSound DEF HookSound
<1>3. r.t.flags = t.flags /\ ("NRA" \in t.flags => r.t.size = t.size)
  BY <1>1, RegistryAssumption, HP!InsertKeepsFlags
<1>4. HP!Match(t, m).at = HP!Null
  BY DEF HP!Match, HP!Nowhere
<1> QED
  BY <1>2, <1>3, <1>4, HAgrees DEF HookSound, HP!Written, HP!Gained, HP!Kept

----------------------------------------------------------------------------
(* What is registered.                                                     *)

Scalars ==
  /\ coreOf \in [ModSlots -> Cores \cup {NoCore}]
  /\ hooks \in [Cores -> H!Table]
  /\ holds \in [Modules -> SUBSET Resource]
  /\ built \subseteq Modules /\ sysargs \subseteq Modules
  /\ booting \in {"proc", "debug", NoCore}
  /\ procHook \in {"null", Junk}
  /\ ended \in {"no", "fini", "name", "detach"}

\* Each table is sound, and each module has one entry.  l_cortab comes and goes
\* with l_modtab; a core whose modules are attached has its table.
Tabled ==
  /\ ModSound(modtab) /\ Single(modtab)
  /\ CorSound(cortab) /\ C!Exists(cortab) = M!Exists(modtab)
  /\ \A c \in Cores : HookFit(c, hooks[c])
  /\ booting # NoCore => H!Exists(hooks[booting])

Constructed ==
  ended # "fini" =>
    /\ built \subseteq Registered
    /\ \A m \in CoreModules : H!Exists(hooks[m]) <=> m \in Registered

RegInv == Scalars /\ Tabled /\ Constructed

LEMMA RegisteredIn == Registered = In(modtab) /\ (Registered' = In(modtab'))
BY DEF Registered, In

LEMMA CoreNames ==
  /\ Cores \cap {NoCore} = {} /\ {"proc", "debug"} \subseteq Cores
  /\ \A c \in CoreModules : c \in Cores /\ c \notin {"proc", "debug"}
  /\ \A m \in Modules : m # Unknown /\ m # Zero
  /\ NoCore \notin {"proc", "debug"} /\ CoreModules \subseteq Modules
BY RegistryAssumption DEF Cores, Modules

LEMMA RegInit == Init => RegInv
<1> SUFFICES ASSUME Init PROVE RegInv
  OBVIOUS
<1>1. H!NoTable \in H!Table
  BY HookMade, HookFacts
<1>2. Scalars
  BY <1>1 DEF Init, Scalars
<1>3. Single(modtab) /\ Registered = {}
  BY ModMade DEF Init, Single, Registered
<1>4. C!Exists(cortab) = M!Exists(modtab)
  BY DEF Init, C!Exists, M!Exists, C!NoTable, M!NoTable
<1>5. Tabled
  BY <1>3, <1>4, ModMade, CorFacts, HookMade DEF Init, Tabled, HookFit
<1>6. \A m \in CoreModules : ~H!Exists(hooks[m])
  BY HookMade, CoreNames DEF Init
<1>7. Constructed
  BY <1>3, <1>6 DEF Init, Constructed
<1> QED
  BY <1>2, <1>5, <1>7 DEF RegInv

\* module_core_attach, of a core whose table of modules is not there.
LEMMA CoreAttachStep ==
  ASSUME Scalars, Tabled, M!Exists(modtab), NEW c \in Cores, NEW r \in CoreAttached(c)
  PROVE  /\ CorSound(r.cortab) /\ C!Exists(r.cortab)
         /\ r.hooks \in [Cores -> H!Table]
         /\ \A d \in Cores : HookFit(d, r.hooks[d])
         /\ \A d \in Cores \ {c} : r.hooks[d] = hooks[d]
         /\ H!Live(r.hooks[c]) = H!Live(hooks[c])
         /\ r.hooks[c] = hooks[c] \/ H!Live(hooks[c]) = {}
         /\ r.ok \in BOOLEAN
         /\ IF H!Exists(hooks[c]) THEN r.ok = FALSE /\ r.hooks = hooks
            ELSE r.hooks[c] = IF r.ok THEN HookTable(c) ELSE H!NoTable
<1>1. /\ CorSound(cortab) /\ C!Exists(cortab) /\ hooks \in [Cores -> H!Table]
      /\ \A d \in Cores : HookFit(d, hooks[d])
  BY DEF Scalars, Tabled
<1>2. PICK s \in C!Insert(cortab, c) :
        r = IF H!Exists(hooks[c]) THEN [ok |-> FALSE, cortab |-> cortab, hooks |-> hooks]
            ELSE IF s.ok
            THEN [ok |-> TRUE, cortab |-> s.t, hooks |-> [hooks EXCEPT ![c] = HookTable(c)]]
            ELSE [ok |-> FALSE, cortab |-> s.t, hooks |-> [hooks EXCEPT ![c] = H!NoTable]]
  BY DEF CoreAttached
<1>3. CorSound(s.t) /\ C!Exists(s.t)
  BY <1>1, CorFacts
<1>4. /\ HookFit(c, HookTable(c)) /\ HookFit(c, H!NoTable)
      /\ HookTable(c) \in H!Table /\ H!NoTable \in H!Table
      /\ H!Live(HookTable(c)) = {} /\ H!Live(H!NoTable) = {}
      /\ ~H!Exists(hooks[c]) => H!Live(hooks[c]) = {}
  BY <1>1, HookMade, HookFacts DEF HookFit
<1>5. CASE H!Exists(hooks[c])
  BY <1>1, <1>2, <1>5
<1>6. CASE ~H!Exists(hooks[c]) /\ s.ok
  <2>1. r.ok = TRUE /\ r.cortab = s.t /\ r.hooks = [hooks EXCEPT ![c] = HookTable(c)]
    BY <1>2, <1>6
  <2> QED
    BY <1>1, <1>3, <1>4, <1>6, <2>1
<1>7. CASE ~H!Exists(hooks[c]) /\ ~s.ok
  <2>1. r.ok = FALSE /\ r.cortab = s.t /\ r.hooks = [hooks EXCEPT ![c] = H!NoTable]
    BY <1>2, <1>7
  <2> QED
    BY <1>1, <1>3, <1>4, <1>7, <2>1
<1> QED
  BY <1>5, <1>6, <1>7

\* What is in a slot of l_modtab was there before, or is new and of no core
\* that hooks modules; only unregistration takes an entry away.
EntriesKept ==
  /\ ended' # "fini" => Registered \ Registered' \subseteq Unregisters
  /\ \A p \in M!Live(modtab') :
       \/ /\ p \in M!Live(modtab) /\ modtab'.cells[p] = modtab.cells[p]
          /\ coreOf'[p] = coreOf[p]
       \/ modtab'.cells[p] \notin Registered /\ coreOf'[p] \notin {"proc", "debug"}

\* No hook comes or goes.
HooksKept ==
  \A c \in Cores : /\ H!Live(hooks'[c]) = H!Live(hooks[c])
                   /\ \A q \in H!Live(hooks[c]) : hooks'[c].cells[q] = hooks[c].cells[q]

\* The table with a new entry in it.
LEMMA EntryAdded ==
  ASSUME NEW t, ModSound(t), M!Exists(t), Single(t), NEW m \in Modules,
         NEW r \in M!Insert(t, m), r.ok
  PROVE  /\ ModSound(r.t) /\ M!Exists(r.t) /\ Single(r.t)
         /\ m \notin In(t) /\ In(r.t) = In(t) \cup {m}
         /\ r.at \in ModSlots /\ r.at \in M!Live(r.t) /\ r.t.cells[r.at] = m
         /\ r.at \notin M!Live(t) /\ M!Live(r.t) = M!Live(t) \cup {r.at}
         /\ \A q \in M!Live(t) : r.t.cells[q] = t.cells[q]
<1>1. /\ ModSound(r.t) /\ M!Exists(r.t) /\ r.at \in ModSlots /\ m \notin In(t)
      /\ r.at \notin M!Live(t) /\ M!Live(r.t) = M!Live(t) \cup {r.at}
      /\ r.t.cells[r.at] = m
      /\ \A q \in M!Live(t) : r.t.cells[q] = t.cells[q]
  BY ModInsert
<1> QED
  BY <1>1 DEF Single, In

LEMMA RegisterCoreStep ==
  ASSUME RegInv, M!Exists(modtab), ended = "no", NEW m \in Modules,
         NEW r \in M!Insert(modtab, m), r.ok, RegisterCore(m, r.t, r.at),
         UNCHANGED <<holds, booting, procHook, ended>>
  PROVE  RegInv' /\ EntriesKept /\ HooksKept
<1>1. Scalars /\ Tabled /\ built \subseteq Registered
      /\ \A k \in CoreModules : H!Exists(hooks[k]) <=> k \in Registered
  BY DEF RegInv, Constructed
<1>2. PICK t : t = r.t
  OBVIOUS
<1>3. PICK p : p = r.at
  OBVIOUS
<1>4. Registered = In(modtab)
  BY DEF Registered, In
<1>5. /\ ModSound(t) /\ M!Exists(t) /\ Single(t) /\ In(t) = In(modtab) \cup {m}
      /\ m \notin Registered
      /\ p \in ModSlots /\ p \in M!Live(t) /\ t.cells[p] = m
      /\ p \notin M!Live(modtab) /\ M!Live(t) = M!Live(modtab) \cup {p}
      /\ \A q \in M!Live(modtab) : t.cells[q] = modtab.cells[q]
  BY <1>1, <1>2, <1>3, <1>4, EntryAdded DEF Tabled
<1>6. /\ ended' = "no" /\ booting' = booting /\ holds' = holds /\ procHook' = procHook
      /\ \A q \in M!Live(modtab) : q \in ModSlots
  BY <1>1, ModFacts DEF Tabled
<1>7. CASE m \notin CoreModules
  <2>1. /\ modtab' = t /\ coreOf' = [coreOf EXCEPT ![p] = NoCore]
        /\ built' = built \cup {m} /\ sysargs' = sysargs \cup {m}
        /\ cortab' = cortab /\ hooks' = hooks
    BY <1>2, <1>3, <1>7 DEF RegisterCore
  <2>2. Registered' = Registered \cup {m}
    BY <1>4, <1>5, <2>1, RegisteredIn
  <2>3. Scalars'
    BY <1>1, <1>6, <2>1 DEF Scalars
  <2>4. Tabled'
    BY <1>1, <1>5, <1>6, <2>1 DEF Tabled
  <2>5. Constructed'
    BY <1>1, <1>6, <1>7, <2>1, <2>2 DEF Constructed
  <2>6. EntriesKept
    BY <1>1, <1>5, <1>6, <2>1, <2>2, CoreNames DEF EntriesKept, Scalars
  <2> QED
    BY <2>1, <2>3, <2>4, <2>5, <2>6 DEF RegInv, HooksKept
<1>8. CASE m \in CoreModules
  <2>1. PICK s \in CoreRegistered(m) :
          /\ cortab' = s.cortab /\ hooks' = s.hooks
          /\ IF s.ok
             THEN /\ modtab' = t /\ coreOf' = [coreOf EXCEPT ![p] = m]
                  /\ built' = built \cup {m} /\ sysargs' = sysargs \cup {m}
             ELSE /\ modtab' = Deleted(m, t)
                  /\ coreOf' = [coreOf EXCEPT ![p] = NoCore]
                  /\ built' = built \ {m} /\ sysargs' = sysargs \ {m}
    BY <1>2, <1>3, <1>8 DEF RegisterCore
  <2>2. m \in Cores /\ ~H!Exists(hooks[m])
    BY <1>1, <1>5, <1>8, CoreNames
  <2>3. /\ CorSound(s.cortab) /\ C!Exists(s.cortab)
        /\ s.hooks \in [Cores -> H!Table]
        /\ \A d \in Cores : HookFit(d, s.hooks[d])
        /\ \A d \in Cores \ {m} : s.hooks[d] = hooks[d]
        /\ H!Live(s.hooks[m]) = H!Live(hooks[m])
        /\ s.hooks[m] = hooks[m] \/ H!Live(hooks[m]) = {}
        /\ H!Exists(s.hooks[m]) <=> s.ok
    <3>1. CASE s \in CoreAttached(m)
      <4>1. /\ CorSound(s.cortab) /\ C!Exists(s.cortab)
            /\ s.hooks \in [Cores -> H!Table]
            /\ \A d \in Cores : HookFit(d, s.hooks[d])
            /\ \A d \in Cores \ {m} : s.hooks[d] = hooks[d]
            /\ s.ok \in BOOLEAN /\ H!Live(s.hooks[m]) = H!Live(hooks[m])
            /\ s.hooks[m] = hooks[m] \/ H!Live(hooks[m]) = {}
            /\ s.hooks[m] = IF s.ok THEN HookTable(m) ELSE H!NoTable
        BY <1>1, <2>2, <3>1, CoreAttachStep
      <4>2. CASE s.ok
        BY <2>2, <4>1, <4>2, HookMade
      <4>3. CASE ~s.ok
        BY <2>2, <4>1, <4>3, HookMade
      <4> QED
        BY <4>2, <4>3
    <3>2. CASE s = [ok |-> FALSE, cortab |-> cortab, hooks |-> hooks]
      BY <1>1, <2>2, <3>2 DEF Scalars, Tabled
    <3> QED
      BY <3>1, <3>2 DEF CoreRegistered
  <2>4. HooksKept
    BY <2>1, <2>3 DEF HooksKept
  <2>5. booting # NoCore => booting \in Cores /\ booting # m
    BY <1>1, <1>8, CoreNames DEF Scalars
  <2>6. booting' # NoCore => H!Exists(hooks'[booting'])
    BY <1>1, <1>6, <2>1, <2>3, <2>5 DEF Tabled
  <2>7. CASE s.ok
    <3>1. Registered' = Registered \cup {m}
      BY <1>4, <1>5, <2>1, <2>7, RegisteredIn
    <3>2. Scalars'
      BY <1>1, <1>6, <1>8, <2>1, <2>2, <2>3, <2>7 DEF Scalars
    <3>3. Tabled'
      BY <1>1, <1>5, <2>1, <2>3, <2>6, <2>7 DEF Tabled
    <3>4. Constructed'
      <4>1. \A k \in CoreModules : H!Exists(hooks'[k]) <=> k \in Registered'
        BY <1>1, <2>1, <2>3, <2>7, <3>1, CoreNames
      <4> QED
        BY <1>1, <2>1, <2>7, <3>1, <4>1 DEF Constructed
    <3>5. EntriesKept
      BY <1>1, <1>5, <1>6, <1>8, <2>1, <2>7, <3>1, CoreNames DEF EntriesKept, Scalars
    <3> QED
      BY <2>4, <3>2, <3>3, <3>4, <3>5 DEF RegInv
  <2>9. m \notin Registered
    BY <1>5
  <2>8. CASE ~s.ok
    <3>1. PICK u : u = Deleted(m, t)
      OBVIOUS
    <3>2. /\ ModSound(u) /\ M!Exists(u) /\ M!Live(u) = M!Live(modtab)
          /\ \A q \in M!Live(u) : u.cells[q] = modtab.cells[q]
      <4>1. /\ ModSound(u) /\ M!Exists(u) /\ M!Live(u) = M!Live(t) \ {p}
            /\ \A q \in M!Live(u) : u.cells[q] = t.cells[q]
        BY <1>5, <3>1, ModDeleted
      <4> QED
        BY <1>5, <4>1
    <3>3. Single(u) /\ In(u) = In(modtab)
      BY <1>1, <3>2 DEF Single, In, Tabled
    <3>4. modtab' = u /\ built' = built \ {m} /\ sysargs' = sysargs \ {m}
      BY <1>1, <2>1, <2>8, <3>1
    <3>5. Registered' = Registered
      BY <1>4, <3>3, <3>4, RegisteredIn
    <3>6. Scalars'
      BY <1>1, <1>6, <2>1, <2>3, <2>8, <3>4 DEF Scalars
    <3>7. Tabled'
      BY <1>1, <2>1, <2>3, <2>6, <3>2, <3>3, <3>4 DEF Tabled
    <3>8. Constructed'
      <4>1. \A k \in CoreModules : H!Exists(hooks'[k]) <=> k \in Registered'
        BY <1>1, <2>1, <2>3, <2>8, <2>9, <3>5, CoreNames
      <4> QED
        BY <1>1, <3>4, <3>5, <4>1 DEF Constructed
    <3>9. EntriesKept
      BY <1>1, <1>5, <1>6, <2>1, <2>8, <3>2, <3>4, <3>5 DEF EntriesKept, Scalars
    <3> QED
      BY <2>4, <3>6, <3>7, <3>8, <3>9 DEF RegInv
  <2> QED
    BY <2>7, <2>8
<1> QED
  BY <1>7, <1>8

\* A step that changes neither table nor hook.
LEMMA StillStep ==
  ASSUME RegInv, ended # "fini", ended' \in {"no", "fini", "name", "detach"},
         UNCHANGED <<regVars, coreVars>>
  PROVE  RegInv' /\ EntriesKept /\ HooksKept /\ holds' = holds
<1>1. /\ modtab' = modtab /\ coreOf' = coreOf /\ built' = built /\ sysargs' = sysargs
      /\ cortab' = cortab /\ hooks' = hooks /\ holds' = holds /\ booting' = booting
      /\ procHook' = procHook /\ Registered' = Registered
  BY DEF regVars, coreVars, Registered
<1>2. RegInv'
  BY <1>1 DEF RegInv, Scalars, Tabled, Constructed
<1> QED
  BY <1>1, <1>2 DEF EntriesKept, HooksKept

LEMMA RegisterStep ==
  ASSUME RegInv, NEW m \in Modules, Register(m)
  PROVE  RegInv' /\ EntriesKept /\ HooksKept /\ holds' = holds
<1>1. /\ ended = "no" /\ M!Exists(modtab)
      /\ Scalars /\ Tabled /\ built \subseteq Registered
      /\ \A k \in CoreModules : H!Exists(hooks[k]) <=> k \in Registered
  BY DEF Register, Calm, RegInv, Constructed
<1>5. CASE UNCHANGED <<regVars, coreVars, ended>>
  BY <1>1, <1>5, StillStep
<1>2. CASE /\ sysargs' \in {sysargs, sysargs \cup {m}}
           /\ built' = built \ {m}
           /\ UNCHANGED <<modtab, coreOf, coreVars, ended>>
  <2>1. /\ modtab' = modtab /\ coreOf' = coreOf /\ built' = built \ {m}
        /\ cortab' = cortab /\ hooks' = hooks /\ holds' = holds /\ booting' = booting
        /\ procHook' = procHook /\ ended' = ended /\ Registered' = Registered
        /\ sysargs' \subseteq Modules
    BY <1>1, <1>2 DEF coreVars, Registered, Scalars
  <2>2. RegInv'
    BY <1>1, <2>1 DEF RegInv, Scalars, Tabled, Constructed
  <2> QED
    BY <2>1, <2>2 DEF EntriesKept, HooksKept
<1>3. CASE Crash("name")
  BY <1>1, <1>3, StillStep DEF Crash
<1>4. CASE /\ \E r \in M!Insert(modtab, m) :
                IF r.ok THEN RegisterCore(m, r.t, r.at) ELSE InsertFailed(m, r.t)
           /\ UNCHANGED <<holds, booting, procHook, ended>>
  <2>1. PICK r \in M!Insert(modtab, m) :
          IF r.ok THEN RegisterCore(m, r.t, r.at) ELSE InsertFailed(m, r.t)
    BY <1>4
  <2>2. CASE r.ok
    <3>1. RegInv' /\ EntriesKept /\ HooksKept
      BY <1>1, <1>4, <2>1, <2>2, RegisterCoreStep
    <3> QED
      BY <1>4, <3>1
  <2>3. CASE ~r.ok
    <3>1. /\ modtab' = r.t /\ built' = built \ {m} /\ sysargs' = sysargs \ {m}
          /\ coreOf' = coreOf /\ cortab' = cortab /\ hooks' = hooks
          /\ holds' = holds /\ booting' = booting /\ procHook' = procHook
          /\ ended' = ended
      BY <1>4, <2>1, <2>3 DEF InsertFailed
    <3>2. /\ ModSound(r.t) /\ M!Exists(r.t) /\ M!Live(r.t) = M!Live(modtab)
          /\ \A q \in M!Live(modtab) : r.t.cells[q] = modtab.cells[q]
      <4>1. ModSound(modtab)
        BY <1>1 DEF Tabled
      <4> QED
        BY <1>1, <2>3, <4>1, ModInsert
    <3>3. Single(r.t) /\ In(r.t) = In(modtab)
      BY <1>1, <3>2 DEF Single, In, Tabled
    <3>4. Registered' = Registered
      BY <3>1, <3>3, RegisteredIn
    <3>5. RegInv'
      BY <1>1, <3>1, <3>2, <3>3, <3>4 DEF RegInv, Scalars, Tabled, Constructed
    <3> QED
      BY <3>1, <3>2, <3>4, <3>5 DEF EntriesKept, HooksKept
  <2> QED
    BY <2>2, <2>3
<1> QED
  BY <1>2, <1>3, <1>4, <1>5 DEF Register

LEMMA UnregisterStep ==
  ASSUME RegInv, NEW m \in Modules, Unregister(m)
  PROVE  RegInv' /\ EntriesKept /\ HooksKept /\ holds' = holds
<1>1. /\ ended = "no" /\ M!Exists(modtab) /\ m \in Unregisters
      /\ Scalars /\ Tabled /\ built \subseteq Registered
      /\ \A k \in CoreModules : H!Exists(hooks[k]) <=> k \in Registered
  BY DEF Unregister, Calm, RegInv, Constructed
<1>2. CASE Crash("name") \/ Crash("detach")
  BY <1>1, <1>2, StillStep DEF Crash
<1>3. CASE /\ m \notin CoreModules
           /\ IF M!Search(modtab, m).at = M!Null
              THEN modtab' = M!Search(modtab, m).t /\ UNCHANGED <<coreOf, built, sysargs>>
              ELSE /\ modtab' = Deleted(m, modtab)
                   /\ coreOf' = [coreOf EXCEPT ![M!Search(modtab, m).at] = NoCore]
                   /\ built' = built \ {m} /\ sysargs' = sysargs \ {m}
           /\ UNCHANGED <<coreVars, ended>>
  <2>1. /\ cortab' = cortab /\ hooks' = hooks /\ holds' = holds /\ booting' = booting
        /\ procHook' = procHook /\ ended' = ended
    BY <1>3 DEF coreVars
  <2>2. PICK f : f = M!Search(modtab, m)
    OBVIOUS
  <2>3. /\ ModSound(f.t) /\ M!Exists(f.t) /\ f.t.cells = modtab.cells
        /\ M!Live(f.t) = M!Live(modtab)
        /\ f.at # M!Null => f.at \in M!Live(modtab) /\ modtab.cells[f.at] = m
    BY <1>1, <2>2, ModSearch DEF Tabled
  <2>4. CASE f.at = M!Null
    <3>1. /\ modtab' = f.t /\ coreOf' = coreOf /\ built' = built /\ sysargs' = sysargs
      BY <1>3, <2>2, <2>4
    <3>2. Single(f.t) /\ Registered' = Registered
      BY <1>1, <2>3, <3>1 DEF Single, Tabled, Registered
    <3>3. RegInv'
      BY <1>1, <2>1, <2>3, <3>1, <3>2 DEF RegInv, Scalars, Tabled, Constructed
    <3> QED
      BY <2>1, <2>3, <3>1, <3>2, <3>3 DEF EntriesKept, HooksKept
  <2>5. CASE f.at # M!Null
    <3>1. PICK p \in M!Live(modtab) : p = f.at /\ modtab.cells[p] = m
      BY <2>3, <2>5
    <3>2. PICK u : u = Deleted(m, modtab)
      OBVIOUS
    <3>3. /\ modtab' = u /\ coreOf' = [coreOf EXCEPT ![p] = NoCore]
          /\ built' = built \ {m} /\ sysargs' = sysargs \ {m}
      BY <1>3, <2>2, <2>5, <3>1, <3>2
    <3>4. /\ ModSound(u) /\ M!Exists(u) /\ M!Live(u) = M!Live(modtab) \ {p}
          /\ \A q \in M!Live(u) : u.cells[q] = modtab.cells[q]
      BY <1>1, <3>1, <3>2, ModDeleted DEF Tabled
    <3>5. Single(u) /\ In(u) = In(modtab) \ {m}
      BY <1>1, <3>1, <3>4 DEF Single, In, Tabled
    <3>6. Registered' = Registered \ {m}
      BY <3>3, <3>5, RegisteredIn
    <3>7. Scalars'
      BY <1>1, <2>1, <3>3 DEF Scalars
    <3>8. RegInv'
      BY <1>1, <1>3, <2>1, <3>3, <3>4, <3>5, <3>6, <3>7
         DEF RegInv, Tabled, Constructed
    <3>9. EntriesKept
      <4>1. \A q \in M!Live(u) : q # p /\ coreOf'[q] = coreOf[q]
        BY <1>1, <3>3, <3>4, ModFacts DEF Scalars, Tabled
      <4> QED
        BY <1>1, <3>3, <3>4, <3>6, <4>1 DEF EntriesKept
    <3> QED
      BY <2>1, <3>8, <3>9 DEF HooksKept
  <2> QED
    BY <2>4, <2>5
<1> QED
  BY <1>2, <1>3 DEF Unregister

LEMMA ModuleInitStep ==
  ASSUME RegInv, ModuleInit
  PROVE  RegInv' /\ EntriesKept /\ HooksKept /\ holds' = holds
<1>1. /\ ended = "no" /\ ~M!Exists(modtab) /\ Scalars /\ Tabled
      /\ built \subseteq Registered
      /\ \A k \in CoreModules : H!Exists(hooks[k]) <=> k \in Registered
      /\ coreOf' = coreOf /\ hooks' = hooks /\ holds' = holds /\ built' = built
      /\ sysargs' = sysargs /\ booting' = booting /\ procHook' = procHook
  BY DEF ModuleInit, RegInv, Constructed
<1>2. Registered = {}
  BY <1>1, ModFacts DEF Tabled, Registered
<1>3. CASE modtab' = M!Created(ModTabSize, {}) /\ cortab' = C!Created(CorTabSize, {})
           /\ ended' = ended
  <2>1. /\ ModSound(modtab') /\ M!Exists(modtab') /\ M!Live(modtab') = {}
        /\ CorSound(cortab') /\ C!Exists(cortab') /\ Registered' = {}
    BY <1>3, ModMade, CorFacts DEF Registered
  <2>2. RegInv'
    BY <1>1, <1>2, <1>3, <2>1 DEF RegInv, Scalars, Tabled, Constructed, Single
  <2> QED
    BY <1>1, <1>2, <2>1, <2>2 DEF EntriesKept, HooksKept
<1>4. CASE ended' = "fini" /\ UNCHANGED <<modtab, cortab>>
  BY <1>1, <1>4, StillStep DEF regVars, coreVars
<1> QED
  BY <1>3, <1>4 DEF ModuleInit

LEMMA ModuleFiniStep ==
  ASSUME RegInv, ModuleFini
  PROVE  RegInv' /\ EntriesKept /\ HooksKept /\ holds' = holds
<1>1. ended = "no" /\ M!Exists(modtab) /\ Scalars /\ Tabled
  BY DEF ModuleFini, Calm, RegInv
<1>2. CASE Registered \cap CoreModules # {}
  BY <1>1, <1>2, StillStep DEF ModuleFini, Crash
<1>3. CASE Registered \cap CoreModules = {}
  <2>1. /\ coreOf' = [p \in ModSlots |-> NoCore] /\ ended' = "fini"
        /\ hooks' = hooks /\ holds' = holds /\ built' = built /\ sysargs' = sysargs
        /\ booting' = booting /\ procHook' = procHook
        /\ modtab' = M!Destroy(Unloaded(modtab)).t /\ cortab' = C!Destroy(cortab).t
    BY <1>3 DEF ModuleFini
  <2>2. modtab' = M!NoTable /\ cortab' = C!NoTable
    BY <1>1, <2>1, ModUnloaded, CorFacts DEF Tabled
  <2>3. /\ ModSound(modtab') /\ ~M!Exists(modtab') /\ M!Live(modtab') = {}
        /\ CorSound(cortab') /\ ~C!Exists(cortab')
    BY <2>2, ModMade, CorFacts
  <2>4. Scalars'
    BY <1>1, <2>1, Zenon DEF Scalars
  <2>5. Tabled'
    <3>1. Single(modtab')
      BY <2>3 DEF Single
    <3>2. /\ \A c \in Cores : HookFit(c, hooks'[c])
          /\ booting' # NoCore => H!Exists(hooks'[booting'])
          /\ C!Exists(cortab') = M!Exists(modtab')
      <4>1. C!Exists(cortab') = FALSE /\ M!Exists(modtab') = FALSE
        BY <2>2 DEF C!Exists, M!Exists, C!NoTable, M!NoTable
      <4> QED
        BY <1>1, <2>1, <4>1 DEF Tabled
    <3> QED
      BY <2>3, <3>1, <3>2 DEF Tabled
  <2>6. RegInv'
    BY <2>1, <2>4, <2>5 DEF RegInv, Constructed
  <2> QED
    BY <2>1, <2>3, <2>6 DEF EntriesKept, HooksKept
<1> QED
  BY <1>2, <1>3

LEMMA CoreStep ==
  ASSUME RegInv, NEW c \in Cores, CoreBoot(c) \/ CoreBooted(c) \/ CoreDetach(c)
  PROVE  RegInv' /\ EntriesKept /\ HooksKept /\ holds' = holds
<1>1. ended = "no" /\ Scalars /\ Tabled
  BY DEF CoreBoot, CoreBooted, CoreDetach, Calm, RegInv
<1>2. ASSUME Crash("detach")
      PROVE  RegInv' /\ EntriesKept /\ HooksKept /\ holds' = holds
  BY <1>1, <1>2, StillStep DEF Crash
<1>3. ASSUME modtab' = modtab, coreOf' = coreOf, built' = built, sysargs' = sysargs,
             ended' = ended, HooksKept, holds' = holds, Scalars', Tabled',
             \A k \in CoreModules : hooks'[k] = hooks[k]
      PROVE  RegInv' /\ EntriesKept /\ HooksKept /\ holds' = holds
  <2>1. Registered' = Registered
    BY <1>3 DEF Registered
  <2> QED
    BY <1>3, <2>1 DEF RegInv, Constructed, EntriesKept
<1>4. CASE CoreBoot(c)
  <2>1. /\ M!Exists(modtab) /\ booting = NoCore /\ c \in {"proc", "debug"}
        /\ modtab' = modtab /\ coreOf' = coreOf /\ built' = built /\ sysargs' = sysargs
        /\ ended' = ended /\ holds' = holds /\ procHook' = procHook
    BY <1>4 DEF CoreBoot, Calm, regVars
  <2>2. PICK r \in CoreAttached(c) : /\ cortab' = r.cortab /\ hooks' = r.hooks
                                     /\ booting' = IF r.ok THEN c ELSE NoCore
    BY <1>4 DEF CoreBoot
  <2>3. /\ CorSound(cortab') /\ C!Exists(cortab') /\ hooks' \in [Cores -> H!Table]
        /\ \A d \in Cores : HookFit(d, hooks'[d])
        /\ \A d \in Cores \ {c} : hooks'[d] = hooks[d]
        /\ H!Live(hooks'[c]) = H!Live(hooks[c])
        /\ hooks'[c] = hooks[c] \/ H!Live(hooks[c]) = {}
        /\ r.ok \in BOOLEAN
        /\ r.ok => hooks'[c] = HookTable(c)
    BY <1>1, <2>1, <2>2, CoreAttachStep
  <2>4. booting' # NoCore => H!Exists(hooks'[booting'])
    BY <2>2, <2>3, HookMade
  <2>5. HooksKept
    BY <2>3 DEF HooksKept
  <2>6. Scalars' /\ Tabled'
    BY <1>1, <2>1, <2>2, <2>3, <2>4 DEF Scalars, Tabled
  <2> QED
    BY <1>3, <2>1, <2>3, <2>5, <2>6, CoreNames
<1>5. CASE CoreBooted(c)
  <2>1. CASE Crash("detach")
    BY <1>2, <2>1
  <2>2. CASE /\ booting' = NoCore
             /\ IF c = "proc"
                THEN /\ procHook' \in HookBeyond
                     /\ hooks' = [hooks EXCEPT ![c] = H!First(hooks[c]).t]
                ELSE UNCHANGED <<procHook, hooks>>
             /\ UNCHANGED <<regVars, cortab, holds, ended>>
    <3>1. /\ modtab' = modtab /\ coreOf' = coreOf /\ built' = built
          /\ sysargs' = sysargs /\ cortab' = cortab /\ ended' = ended /\ holds' = holds
      BY <2>2 DEF regVars
    <3>2. PICK u : u = H!First(hooks[c]).t
      OBVIOUS
    <3>3. /\ HookSound(u) /\ H!Exists(u) = H!Exists(hooks[c])
          /\ H!Live(u) = H!Live(hooks[c]) /\ u.cells = hooks[c].cells
          /\ u.flags = hooks[c].flags /\ u.size = hooks[c].size
          /\ u \in H!Table
      BY <1>1, <3>2, HookFirst, HookFacts DEF Tabled, HookFit
    <3>4. \/ hooks' = hooks /\ procHook' = procHook
          \/ /\ c = "proc" /\ hooks' = [hooks EXCEPT ![c] = u]
             /\ procHook' \in {"null", Junk}
      BY <2>2, <3>2 DEF HookBeyond
    <3>5. HooksKept
      BY <1>1, <3>3, <3>4 DEF HooksKept, Scalars
    <3>6. \A k \in CoreModules : hooks'[k] = hooks[k]
      BY <1>1, <3>4, CoreNames DEF Scalars
    <3>7. Scalars'
      BY <1>1, <2>2, <3>1, <3>3, <3>4 DEF Scalars
    <3>8. \A d \in Cores : HookFit(d, hooks'[d])
      BY <1>1, <3>3, <3>4 DEF Tabled, Scalars, HookFit
    <3>9. Tabled'
      BY <1>1, <2>2, <3>1, <3>8 DEF Tabled
    <3> QED
      BY <1>3, <3>1, <3>5, <3>6, <3>7, <3>9
  <2> QED
    BY <1>5, <2>1, <2>2 DEF CoreBooted
<1>6. CASE CoreDetach(c)
  <2>1. CASE Crash("detach")
    BY <1>2, <2>1
  <2>2. CASE /\ cortab' = C!Search(cortab, c).t
             /\ procHook' = IF c = "proc" THEN "null" ELSE procHook
             /\ UNCHANGED <<regVars, hooks, holds, booting, ended>>
    <3>1. /\ modtab' = modtab /\ coreOf' = coreOf /\ built' = built
          /\ sysargs' = sysargs /\ hooks' = hooks /\ ended' = ended /\ holds' = holds
          /\ booting' = booting
      BY <2>2 DEF regVars
    <3>2. CorSound(cortab') /\ C!Exists(cortab') = C!Exists(cortab)
      BY <1>1, <2>2, CorFacts DEF Tabled
    <3>3. Scalars' /\ Tabled' /\ HooksKept
      BY <1>1, <2>2, <3>1, <3>2 DEF Scalars, Tabled, HooksKept
    <3> QED
      BY <1>3, <3>1, <3>3
  <2> QED
    BY <1>6, <2>1, <2>2 DEF CoreDetach
<1> QED
  BY <1>4, <1>5, <1>6

\* attach_module finds the entry of the module it is given, or attaches none.
LEMMA AttachFinds ==
  ASSUME RegInv, NEW m \in Modules, NEW full \in BOOLEAN, booting # NoCore,
         NEW f, f = M!Search(modtab, Resolved(booting, m, full))
  PROVE  /\ ModSound(f.t) /\ Single(f.t) /\ M!Exists(f.t) = M!Exists(modtab)
         /\ f.t.cells = modtab.cells /\ M!Live(f.t) = M!Live(modtab)
         /\ Attachable(f.at) =>
              /\ f.at \in M!Live(modtab) /\ f.at \in ModSlots /\ modtab.cells[f.at] = m
              /\ m \notin Unhookable /\ coreOf[f.at] = NoCore
              /\ booting = "proc" => m \in ProcModules
              /\ booting = "debug" => m \in DebugModules
<1>1. ModSound(modtab) /\ Single(modtab) /\ booting \in {"proc", "debug"}
  BY DEF RegInv, Tabled, Scalars
<1>2. PICK d : d = Resolved(booting, m, full)
  OBVIOUS
<1>3. /\ d \in {m, Unknown}
      /\ d # Unknown => /\ booting = "proc" => m \in ProcModules
                        /\ booting = "debug" => m \in DebugModules
  BY <1>1, <1>2 DEF Resolved
<1>4. /\ ModSound(f.t) /\ M!Exists(f.t) = M!Exists(modtab)
      /\ f.t.cells = modtab.cells /\ M!Live(f.t) = M!Live(modtab)
      /\ d = Unknown => f.at = M!Null
      /\ f.at # M!Null => f.at \in M!Live(modtab) /\ modtab.cells[f.at] = d
  BY <1>1, <1>2, <1>3, ModSearch
<1>5. Single(f.t)
  BY <1>1, <1>4 DEF Single
<1> QED
  BY <1>1, <1>3, <1>4, <1>5, ModFacts DEF Attachable

LEMMA AttachRegStep ==
  ASSUME RegInv, NEW m \in Modules, NEW full \in BOOLEAN, Attach(m, full)
  PROVE  RegInv'
<1>1. /\ ended = "no" /\ booting # NoCore /\ Scalars /\ Tabled
      /\ built \subseteq Registered
      /\ \A k \in CoreModules : H!Exists(hooks[k]) <=> k \in Registered
      /\ booting \in {"proc", "debug"} /\ booting \in Cores
  BY CoreNames DEF Attach, RegInv, Constructed, Scalars
<1>2. CASE Crash("name")
  BY <1>1, <1>2, StillStep DEF Crash
<1>3. PICK f : f = M!Search(modtab, Resolved(booting, m, full))
  OBVIOUS
<1>4. CASE /\ modtab' = f.t
           /\ \/ UNCHANGED <<coreOf, hooks, holds>>
              \/ /\ Attachable(f.at)
                 /\ \/ \E stage \in Stages \ {"insert"} :
                         Stopped(m, stage) /\ UNCHANGED <<coreOf, hooks>>
                    \/ Hook(booting, m, f.at)
           /\ UNCHANGED <<built, sysargs, cortab, booting, procHook, ended>>
  <2>1. /\ ModSound(f.t) /\ Single(f.t) /\ M!Exists(f.t) = M!Exists(modtab)
        /\ f.t.cells = modtab.cells /\ M!Live(f.t) = M!Live(modtab)
        /\ Attachable(f.at) => f.at \in ModSlots
    BY <1>1, <1>3, AttachFinds
  <2>2. /\ modtab' = f.t /\ built' = built /\ sysargs' = sysargs /\ cortab' = cortab
        /\ booting' = booting /\ procHook' = procHook /\ ended' = ended
        /\ Registered' = Registered
    BY <1>4, <2>1 DEF Registered
  <2>3. ASSUME coreOf' \in [ModSlots -> Cores \cup {NoCore}],
               holds' \in [Modules -> SUBSET Resource],
               hooks' \in [Cores -> H!Table],
               \A c \in Cores : /\ HookFit(c, hooks'[c])
                                /\ H!Exists(hooks'[c]) = H!Exists(hooks[c])
        PROVE  RegInv'
    <3>1. \A k \in CoreModules : H!Exists(hooks'[k]) = H!Exists(hooks[k])
      BY <2>3, CoreNames
    <3> QED
      BY <1>1, <2>1, <2>2, <2>3, <3>1 DEF RegInv, Scalars, Tabled, Constructed
  <2>4. ASSUME NEW stage \in Stages \cup {"done"}, Stopped(m, stage)
        PROVE  holds' \in [Modules -> SUBSET Resource]
    <3>1. Given(stage) \subseteq Resource
      BY <2>4 DEF Given, Stages, Resource
    <3> QED
      BY <1>1, <2>4, <3>1 DEF Stopped, Scalars
  <2>5. CASE UNCHANGED <<coreOf, hooks, holds>>
    BY <1>1, <2>3, <2>5 DEF Scalars, Tabled
  <2>6. ASSUME NEW stage \in Stages, Stopped(m, stage), UNCHANGED <<coreOf, hooks>>
        PROVE  RegInv'
    <3>1. holds' \in [Modules -> SUBSET Resource]
      BY <2>4, <2>6
    <3> QED
      BY <1>1, <2>3, <2>6, <3>1 DEF Scalars, Tabled
  <2>7. CASE Attachable(f.at) /\ Hook(booting, m, f.at)
    <3>1. PICK r \in H!Insert(hooks[booting], m) :
            /\ hooks' = [hooks EXCEPT ![booting] = r.t]
            /\ IF r.ok THEN Stopped(m, "done") /\ coreOf' = [coreOf EXCEPT ![f.at] = booting]
               ELSE Stopped(m, "insert") /\ UNCHANGED coreOf
      BY <2>7 DEF Hook
    <3>2. HookFit(booting, hooks[booting]) /\ H!Exists(hooks[booting])
      BY <1>1 DEF Tabled
    <3>3. /\ HookSound(r.t) /\ H!Exists(r.t) /\ r.t.flags = hooks[booting].flags
          /\ "NRA" \in hooks[booting].flags => r.t.size = hooks[booting].size
      BY <3>2, HookInsert DEF HookFit
    <3>4. HookFit(booting, r.t) /\ r.t \in H!Table
      BY <3>2, <3>3, HookFacts DEF HookFit
    <3>5. /\ hooks' \in [Cores -> H!Table]
          /\ \A c \in Cores : /\ HookFit(c, hooks'[c])
                              /\ H!Exists(hooks'[c]) = H!Exists(hooks[c])
      BY <1>1, <3>1, <3>2, <3>3, <3>4 DEF Scalars, Tabled
    <3>6. holds' \in [Modules -> SUBSET Resource]
      BY <2>4, <3>1 DEF Stages
    <3>7. coreOf' \in [ModSlots -> Cores \cup {NoCore}]
      BY <1>1, <2>1, <2>7, <3>1 DEF Scalars
    <3> QED
      BY <2>3, <3>5, <3>6, <3>7
  <2> QED
    BY <1>4, <2>5, <2>6, <2>7
<1> QED
  BY <1>2, <1>3, <1>4 DEF Attach

LEMMA RegStutter == RegInv /\ UNCHANGED vars => RegInv'
<1> SUFFICES ASSUME RegInv, UNCHANGED vars PROVE RegInv'
  OBVIOUS
<1>1. /\ modtab' = modtab /\ coreOf' = coreOf /\ built' = built /\ sysargs' = sysargs
      /\ cortab' = cortab /\ hooks' = hooks /\ holds' = holds /\ booting' = booting
      /\ procHook' = procHook /\ ended' = ended /\ Registered' = Registered
  BY DEF vars, regVars, coreVars, Registered
<1> QED
  BY <1>1 DEF RegInv, Scalars, Tabled, Constructed

LEMMA RegStep == RegInv /\ [Next]_vars => RegInv'
<1> SUFFICES ASSUME RegInv, [Next]_vars PROVE RegInv'
  OBVIOUS
<1>1. CASE ModuleInit
  BY <1>1, ModuleInitStep
<1>2. CASE ModuleFini
  BY <1>2, ModuleFiniStep
<1>3. ASSUME NEW m \in Modules, Register(m) PROVE RegInv'
  BY <1>3, RegisterStep
<1>4. ASSUME NEW m \in Modules, Unregister(m) PROVE RegInv'
  BY <1>4, UnregisterStep
<1>5. ASSUME NEW m \in Modules, NEW full \in BOOLEAN, Attach(m, full) PROVE RegInv'
  BY <1>5, AttachRegStep
<1>6. ASSUME NEW c \in Cores, CoreBoot(c) \/ CoreBooted(c) \/ CoreDetach(c)
      PROVE  RegInv'
  BY <1>6, CoreStep
<1>7. CASE UNCHANGED vars
  BY <1>7, RegStutter
<1> QED
  BY <1>1, <1>2, <1>3, <1>4, <1>5, <1>6, <1>7 DEF Next

LEMMA RegInvariant == Spec => []RegInv
<1> QED
  BY RegInit, RegStep, PTL DEF Spec

\* The state of the module manager and of the cores is always of its type, for
\* tables of any sizes (module.c, proc.c, debug.c).
THEOREM RegistryTypeCorrect == Spec => []TypeOK
<1>1. RegInv => TypeOK
  BY ModFacts, CorFacts DEF RegInv, Scalars, Tabled, TypeOK
<1> QED
  BY <1>1, RegInvariant, PTL

\* Slots of a table whose cells differ are as many as their cells.
LEMMA AsManyCells ==
  ASSUME NEW L, NEW c, IsFiniteSet(L), \A p, q \in L : c[p] = c[q] => p = q
  PROVE  Cardinality({c[p] : p \in L}) = Cardinality(L)
<1>1. PICK S : S = {c[p] : p \in L}
  OBVIOUS
<1>2. PICK g : g = [p \in L |-> c[p]]
  OBVIOUS
<1>3. g \in Bijection(L, S)
  BY <1>1, <1>2 DEF Bijection, Injection, Surjection, IsInjective
<1>4. ExistsBijection(L, S)
  BY <1>3 DEF ExistsBijection
<1> QED
  BY <1>1, <1>4, FS_Bijection

\* Whatever fails, also of a module that is registered already, none is registered
\* twice, what is built is registered, and the core of a core module is there with
\* the module (ratt_module_register and its error paths).
THEOREM RegistryIsConsistent == Spec => []NothingLeftHalf
<1>1. RegInv => NothingLeftHalf
  <2> SUFFICES ASSUME RegInv PROVE NothingLeftHalf
    OBVIOUS
  <2>1. M!Live(modtab) \subseteq ModSlots /\ Single(modtab)
    BY ModFacts DEF RegInv, Tabled
  <2>2. IsFiniteSet(M!Live(modtab))
    <3>1. ModTabMax - 1 \in Int
      BY RegistryAssumption
    <3>2. IsFiniteSet(ModSlots)
      BY <3>1, FS_Interval DEF ModSlots
    <3> QED
      BY <2>1, <3>2, FS_Subset
  <2>3. Cardinality(Registered) = Cardinality(M!Live(modtab))
    BY <2>1, <2>2, AsManyCells DEF Single, Registered
  <2> QED
    BY <2>3 DEF RegInv, Constructed, NothingLeftHalf
<1> QED
  BY <1>1, RegInvariant, PTL

\* A lone core never has a second hook: its table has one slot and does not
\* grow (proc.c, RATTMODCORFLONE).
THEOREM LoneCoreHasOneHook == Spec => []LoneHasOne
<1>1. RegInv => LoneHasOne
  <2> SUFFICES ASSUME RegInv, NEW c \in Lone PROVE Cardinality(Hooked(c)) <= 1
    BY DEF LoneHasOne
  <2>1. HookFit(c, hooks[c])
    BY CoreNames DEF Lone, RegInv, Tabled
  <2>2. H!Live(hooks[c]) \subseteq {0}
    BY <2>1, HookFacts DEF HookFit
  <2>3. Hooked(c) \subseteq {hooks[c].cells[0]}
    BY <2>2 DEF Hooked
  <2>4. IsFiniteSet({hooks[c].cells[0]}) /\ Cardinality({hooks[c].cells[0]}) = 1
    BY FS_Singleton
  <2> QED
    BY <2>3, <2>4, FS_Subset
<1> QED
  BY <1>1, RegInvariant, PTL

----------------------------------------------------------------------------
(* What is attached.  A module that a core has hooked stays registered as  *)
(* long as only modules that no core hooks are unregistered.               *)

KeepsAttached == Unregisters \cap (ProcModules \cup DebugModules) \subseteq Unhookable

Fit(c) == (IF c = "proc" THEN ProcModules ELSE DebugModules) \ Unhookable

AttInv ==
  /\ \A c \in Cores : \A p, q \in H!Live(hooks[c]) :
       hooks[c].cells[p] = hooks[c].cells[q] => p = q
  /\ \A c \in CoreModules : Hooked(c) = {}
  /\ \A c \in {"proc", "debug"} : Hooked(c) \subseteq Fit(c)
  /\ ended # "fini" => \A c \in {"proc", "debug"} : Hooked(c) \subseteq Registered
  /\ \A m \in Modules :
       holds[m] = IF m \in Hooked("proc") \cup Hooked("debug") THEN Resource ELSE {}
  /\ \A p \in M!Live(modtab) : \A c \in {"proc", "debug"} :
       coreOf[p] = c <=> modtab.cells[p] \in Hooked(c)

LEMMA AttInit == Init => AttInv
<1> SUFFICES ASSUME Init PROVE AttInv
  OBVIOUS
<1>1. \A c \in Cores : H!Live(hooks[c]) = {} /\ Hooked(c) = {}
  BY HookMade DEF Init, Hooked
<1>2. M!Live(modtab) = {}
  BY ModMade DEF Init
<1>3. \A m \in Modules : holds[m] = {}
  BY DEF Init
<1> QED
  BY <1>1, <1>2, <1>3, CoreNames DEF AttInv

\* What no core has hooked may be unregistered.
LEMMA QuietStep ==
  ASSUME KeepsAttached, AttInv, EntriesKept, HooksKept, holds' = holds,
         ended = "no"
  PROVE  AttInv'
<1>1. \A c \in Cores : Hooked(c)' = Hooked(c)
  BY DEF HooksKept, Hooked
<1>2. \A c \in Cores : \A p, q \in H!Live(hooks'[c]) :
        hooks'[c].cells[p] = hooks'[c].cells[q] => p = q
  BY DEF HooksKept, AttInv
<1>3. \A c \in CoreModules : Hooked(c)' = {}
  BY <1>1, CoreNames DEF AttInv
<1>4. \A c \in {"proc", "debug"} : Hooked(c)' = Hooked(c) /\ Hooked(c) \subseteq Fit(c)
  BY <1>1, CoreNames DEF AttInv
<1>5. \A c \in {"proc", "debug"} : Hooked(c) \cap Unregisters = {}
  BY <1>4 DEF KeepsAttached, Fit
<1>6. ended' # "fini" => \A c \in {"proc", "debug"} : Hooked(c)' \subseteq Registered'
  BY <1>4, <1>5 DEF EntriesKept, AttInv
<1>7. \A m \in Modules :
        holds'[m] = IF m \in Hooked("proc")' \cup Hooked("debug")' THEN Resource ELSE {}
  BY <1>4 DEF AttInv
<1>8. ASSUME NEW p \in M!Live(modtab'), NEW c \in {"proc", "debug"}
      PROVE  coreOf'[p] = c <=> modtab'.cells[p] \in Hooked(c)'
  <2>1. CASE /\ p \in M!Live(modtab) /\ modtab'.cells[p] = modtab.cells[p]
             /\ coreOf'[p] = coreOf[p]
    BY <1>4, <2>1 DEF AttInv
  <2>2. CASE modtab'.cells[p] \notin Registered /\ coreOf'[p] \notin {"proc", "debug"}
    <3>1. ended # "fini"
      OBVIOUS
    <3> QED
      BY <1>4, <2>2, <3>1 DEF AttInv
  <2> QED
    BY <1>8, <2>1, <2>2 DEF EntriesKept
<1> QED
  BY <1>2, <1>3, <1>4, <1>6, <1>7, <1>8 DEF AttInv

\* The error path of each stage takes back all that was given.
LEMMA StoppedKeeps ==
  ASSUME NEW m \in Modules, NEW stage \in Stages, Stopped(m, stage),
         holds \in [Modules -> SUBSET Resource], holds[m] = {}
  PROVE  holds' = holds
<1>1. Given(stage) \subseteq TakenBack(stage)
  BY DEF Stages, Given, TakenBack, Resource
<1>2. (holds[m] \cup Given(stage)) \ TakenBack(stage) = {}
  BY <1>1
<1> QED
  BY <1>2 DEF Stopped

LEMMA AttachAttStep ==
  ASSUME KeepsAttached, RegInv, AttInv, NEW m \in Modules, NEW full \in BOOLEAN,
         Attach(m, full)
  PROVE  AttInv'
<1>1. /\ ended = "no" /\ booting # NoCore /\ Scalars /\ Tabled
      /\ booting \in {"proc", "debug"} /\ booting \in Cores
      /\ booting \notin CoreModules
  BY CoreNames DEF Attach, RegInv, Scalars
<1>2. CASE Crash("name")
  <2>1. EntriesKept /\ HooksKept /\ holds' = holds
    BY <1>1, <1>2, StillStep DEF Crash
  <2> QED
    BY <1>1, <2>1, QuietStep
<1>3. PICK f : f = M!Search(modtab, Resolved(booting, m, full))
  OBVIOUS
<1>4. CASE /\ modtab' = f.t
           /\ \/ UNCHANGED <<coreOf, hooks, holds>>
              \/ /\ Attachable(f.at)
                 /\ \/ \E stage \in Stages \ {"insert"} :
                         Stopped(m, stage) /\ UNCHANGED <<coreOf, hooks>>
                    \/ Hook(booting, m, f.at)
           /\ UNCHANGED <<built, sysargs, cortab, booting, procHook, ended>>
  <2>1. /\ f.t.cells = modtab.cells /\ M!Live(f.t) = M!Live(modtab)
        /\ Attachable(f.at) =>
             /\ f.at \in M!Live(modtab) /\ f.at \in ModSlots /\ modtab.cells[f.at] = m
             /\ m \notin Unhookable /\ coreOf[f.at] = NoCore
             /\ booting = "proc" => m \in ProcModules
             /\ booting = "debug" => m \in DebugModules
    BY <1>1, <1>3, AttachFinds
  <2>2. /\ Registered' = Registered /\ M!Live(modtab') = M!Live(modtab)
        /\ modtab'.cells = modtab.cells /\ ended' = ended /\ booting' = booting
    BY <1>4, <2>1 DEF Registered
  <2>3. ASSUME coreOf' = coreOf, HooksKept, holds' = holds PROVE AttInv'
    <3>1. EntriesKept
      BY <2>2, <2>3 DEF EntriesKept
    <3> QED
      BY <1>1, <2>3, <3>1, QuietStep
  <2>4. CASE UNCHANGED <<coreOf, hooks, holds>>
    BY <2>3, <2>4 DEF HooksKept
  <2>5. ASSUME Attachable(f.at)
        PROVE  /\ m \notin Hooked("proc") /\ m \notin Hooked("debug") /\ holds[m] = {}
               /\ m \in Registered
    <3>1. m \notin Hooked("proc") /\ m \notin Hooked("debug") /\ m \in Registered
      BY <2>1, <2>5, CoreNames DEF AttInv, Registered
    <3> QED
      BY <3>1 DEF AttInv
  <2>6. ASSUME Attachable(f.at), NEW stage \in Stages, Stopped(m, stage)
        PROVE  holds' = holds
    BY <1>1, <2>5, <2>6, StoppedKeeps DEF Scalars
  <2>7. ASSUME Attachable(f.at), NEW stage \in Stages, Stopped(m, stage),
               UNCHANGED <<coreOf, hooks>>
        PROVE  AttInv'
    <3>1. holds' = holds
      BY <2>6, <2>7
    <3>2. HooksKept
      BY <2>7 DEF HooksKept
    <3> QED
      BY <2>3, <2>7, <3>1, <3>2
  <2>8. CASE Attachable(f.at) /\ Hook(booting, m, f.at)
    <3>1. PICK r \in H!Insert(hooks[booting], m) :
            /\ hooks' = [hooks EXCEPT ![booting] = r.t]
            /\ IF r.ok THEN Stopped(m, "done") /\ coreOf' = [coreOf EXCEPT ![f.at] = booting]
               ELSE Stopped(m, "insert") /\ UNCHANGED coreOf
      BY <2>8 DEF Hook
    <3>2. HookSound(hooks[booting]) /\ H!Exists(hooks[booting])
      BY <1>1 DEF Tabled, HookFit
    <3>3. /\ \A q \in H!Live(hooks[booting]) : r.t.cells[q] = hooks[booting].cells[q]
          /\ IF r.ok THEN /\ r.at \notin H!Live(hooks[booting])
                          /\ H!Live(r.t) = H!Live(hooks[booting]) \cup {r.at}
                          /\ r.t.cells[r.at] = m
             ELSE H!Live(r.t) = H!Live(hooks[booting])
      BY <3>2, HookInsert
    <3>4. /\ hooks'[booting] = r.t
          /\ \A c \in Cores \ {booting} : hooks'[c] = hooks[c]
      BY <1>1, <3>1 DEF Scalars
    <3>5. CASE ~r.ok
      <4>1. holds' = holds /\ coreOf' = coreOf
        BY <2>6, <2>8, <3>1, <3>5 DEF Stages
      <4>2. HooksKept
        BY <3>3, <3>4, <3>5 DEF HooksKept
      <4> QED
        BY <2>3, <4>1, <4>2
    <3>6. CASE r.ok
      <4>1. /\ Hooked(booting)' = Hooked(booting) \cup {m}
            /\ \A c \in Cores \ {booting} : Hooked(c)' = Hooked(c)
        <5>1. PICK L : L = H!Live(hooks[booting])
          OBVIOUS
        <5>2. PICK u : u = r.t
          OBVIOUS
        <5>3. /\ \A q \in L : u.cells[q] = hooks[booting].cells[q]
              /\ H!Live(u) = L \cup {r.at} /\ u.cells[r.at] = m
          BY <3>3, <3>6, <5>1, <5>2
        <5>4. {u.cells[p] : p \in L \cup {r.at}} = {hooks[booting].cells[p] : p \in L} \cup {m}
          BY <5>3
        <5>5. Hooked(booting)' = {u.cells[p] : p \in H!Live(u)}
          BY <2>2, <3>4, <5>2 DEF Hooked
        <5>6. \A c \in Cores \ {booting} : Hooked(c)' = Hooked(c)
          BY <3>4 DEF Hooked
        <5> QED
          BY <5>1, <5>3, <5>4, <5>5, <5>6 DEF Hooked
      <4>2. \A p, q \in H!Live(r.t) : r.t.cells[p] = r.t.cells[q] => p = q
        <5>1. \A q \in H!Live(hooks[booting]) : hooks[booting].cells[q] # m
          BY <1>1, <2>5, <2>8 DEF Hooked
        <5> QED
          BY <1>1, <3>3, <3>6, <5>1 DEF AttInv
      <4>3. holds' = [holds EXCEPT ![m] = Resource]
        <5>1. (holds[m] \cup Given("done")) \ TakenBack("done") = Resource
          BY <2>5, <2>8 DEF Given, TakenBack
        <5> QED
          BY <3>1, <3>6, <5>1 DEF Stopped
      <4>4. coreOf' = [coreOf EXCEPT ![f.at] = booting]
        BY <3>1, <3>6
      <4>5. \A c \in Cores : \A p, q \in H!Live(hooks'[c]) :
              hooks'[c].cells[p] = hooks'[c].cells[q] => p = q
        BY <3>4, <4>2 DEF AttInv
      <4>6. \A c \in CoreModules : Hooked(c)' = {}
        BY <1>1, <4>1, CoreNames DEF AttInv
      <4>7. /\ Hooked("proc")' = Hooked("proc") \cup (IF booting = "proc" THEN {m} ELSE {})
            /\ Hooked("debug")' = Hooked("debug") \cup (IF booting = "debug" THEN {m} ELSE {})
        <5>1. CASE booting = "proc"
          BY <2>2, <4>1, <5>1, CoreNames
        <5>2. CASE booting = "debug"
          BY <2>2, <4>1, <5>2, CoreNames
        <5> QED
          BY <1>1, <5>1, <5>2
      <4>8. \A c \in {"proc", "debug"} :
              Hooked(c)' \subseteq Fit(c) /\ Hooked(c)' \subseteq Registered'
        BY <1>1, <2>1, <2>2, <2>5, <2>8, <4>7 DEF AttInv, Fit
      <4>9. \A k \in Modules :
              holds'[k] = IF k \in Hooked("proc")' \cup Hooked("debug")' THEN Resource ELSE {}
        <5>1. /\ holds'[m] = Resource
              /\ \A k \in Modules \ {m} : holds'[k] = holds[k]
          BY <1>1, <4>3 DEF Scalars
        <5>2. m \in Hooked("proc")' \cup Hooked("debug")'
          BY <1>1, <4>7
        <5>3. \A k \in Modules \ {m} : k \in Hooked("proc")' \cup Hooked("debug")'
                                       <=> k \in Hooked("proc") \cup Hooked("debug")
          BY <4>7
        <5> QED
          BY <5>1, <5>2, <5>3 DEF AttInv
      <4>10. ASSUME NEW p \in M!Live(modtab'), NEW c \in {"proc", "debug"}
             PROVE  coreOf'[p] = c <=> modtab'.cells[p] \in Hooked(c)'
        <5>1. p \in M!Live(modtab) /\ modtab'.cells[p] = modtab.cells[p]
          BY <2>2, <4>10
        <5>2. coreOf[p] = c <=> modtab.cells[p] \in Hooked(c)
          BY <5>1 DEF AttInv
        <5>3. p \in ModSlots /\ (modtab.cells[p] = m <=> p = f.at)
          BY <1>1, <2>1, <2>8, <5>1, ModFacts DEF Tabled, Single
        <5>4. CASE p = f.at
          BY <1>1, <2>1, <2>5, <2>8, <4>4, <4>7, <5>1, <5>3, <5>4 DEF Scalars
        <5>5. CASE p # f.at
          BY <1>1, <4>4, <4>7, <5>1, <5>2, <5>3, <5>5 DEF Scalars
        <5> QED
          BY <5>4, <5>5
      <4> QED
        BY <4>5, <4>6, <4>8, <4>9, <4>10 DEF AttInv
    <3> QED
      BY <3>5, <3>6
  <2> QED
    BY <1>4, <2>4, <2>7, <2>8
<1> QED
  BY <1>2, <1>3, <1>4 DEF Attach

LEMMA AttStep == KeepsAttached /\ RegInv /\ AttInv /\ [Next]_vars => AttInv'
<1> SUFFICES ASSUME KeepsAttached, RegInv, AttInv, [Next]_vars PROVE AttInv'
  OBVIOUS
<1>1. ASSUME ended = "no", EntriesKept, HooksKept, holds' = holds PROVE AttInv'
  BY <1>1, QuietStep
<1>2. CASE ModuleInit
  BY <1>1, <1>2, ModuleInitStep DEF ModuleInit
<1>3. CASE ModuleFini
  BY <1>1, <1>3, ModuleFiniStep DEF ModuleFini, Calm
<1>4. ASSUME NEW m \in Modules, Register(m) PROVE AttInv'
  BY <1>1, <1>4, RegisterStep DEF Register, Calm
<1>5. ASSUME NEW m \in Modules, Unregister(m) PROVE AttInv'
  BY <1>1, <1>5, UnregisterStep DEF Unregister, Calm
<1>6. ASSUME NEW m \in Modules, NEW full \in BOOLEAN, Attach(m, full) PROVE AttInv'
  BY <1>6, AttachAttStep
<1>7. ASSUME NEW c \in Cores, CoreBoot(c) \/ CoreBooted(c) \/ CoreDetach(c)
      PROVE  AttInv'
  <2>1. ended = "no"
    BY <1>7 DEF CoreBoot, CoreBooted, CoreDetach, Calm
  <2> QED
    BY <1>1, <1>7, <2>1, CoreStep
<1>8. CASE UNCHANGED vars
  <2>1. /\ modtab' = modtab /\ coreOf' = coreOf /\ hooks' = hooks /\ holds' = holds
        /\ ended' = ended /\ Registered' = Registered
        /\ \A c : Hooked(c)' = Hooked(c)
    BY <1>8 DEF vars, regVars, coreVars, Registered, Hooked
  <2> QED
    BY <2>1 DEF AttInv
<1> QED
  BY <1>2, <1>3, <1>4, <1>5, <1>6, <1>7, <1>8 DEF Next

\* Attachment is all or nothing: as long as only modules that no core hooks are
\* unregistered, what a core has hooked, once, holds all it was given and knows
\* its core, and what no core has hooked holds nothing (attach_module).
THEOREM AttachedHoldsAll == KeepsAttached => (Spec => []AttachedIsHooked)
<1> SUFFICES ASSUME KeepsAttached PROVE Spec => []AttachedIsHooked
  OBVIOUS
<1>1. RegInv /\ AttInv => AttachedIsHooked
  <2> SUFFICES ASSUME RegInv, AttInv PROVE AttachedIsHooked
    OBVIOUS
  <2>1. ASSUME NEW c \in Cores
        PROVE  Cardinality(Hooked(c)) = Cardinality(H!Live(hooks[c]))
    <3>1. H!Live(hooks[c]) \subseteq 0..(HookTabMax - 1)
      BY HookFacts DEF RegInv, Tabled, HookFit
    <3>2. IsFiniteSet(H!Live(hooks[c]))
      <4>1. HookTabMax - 1 \in Int
        BY RegistryAssumption
      <4>2. IsFiniteSet(0..(HookTabMax - 1))
        BY <4>1, FS_Interval
      <4> QED
        BY <3>1, <4>2, FS_Subset
    <3>3. \A p, q \in H!Live(hooks[c]) :
            hooks[c].cells[p] = hooks[c].cells[q] => p = q
      BY DEF AttInv
    <3> QED
      BY <3>2, <3>3, AsManyCells DEF Hooked
  <2>2. Cores \ CoreModules = {"proc", "debug"}
    BY CoreNames DEF Cores
  <2>3. ASSUME NEW m \in Modules
        PROVE  (\E c \in Cores : m \in Hooked(c))
                 <=> m \in Hooked("proc") \cup Hooked("debug")
    BY CoreNames DEF AttInv, Cores
  <2> QED
    BY <2>1, <2>2, <2>3 DEF AttInv, AttachedIsHooked
<1>2. Init => AttInv
  BY AttInit
<1>3. RegInv /\ AttInv /\ [Next]_vars => AttInv'
  BY AttStep
<1> QED
  BY <1>1, <1>2, <1>3, RegInvariant, PTL DEF Spec
=============================================================================
