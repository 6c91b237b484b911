-------------------------- MODULE SignalTableProofs --------------------------
(***************************************************************************)
(* Proofs about the signal handler, for any signals and handlers, tables   *)
(* of any sizes and any calls of the handlers.                             *)
(***************************************************************************)
EXTENDS SignalTable, TLAPS

STP == INSTANCE TableOpsProofs WITH
  SlotBits <- 8, MaxSize <- SigTabMax, Chunks <- Signals, Matches <- Same,
  Constrained <- FALSE, OnConstrains <- "unset", AllocFaults <- FALSE,
  DirtyHeap <- FALSE
ETP == INSTANCE TableOpsProofs WITH
  SlotBits <- 8, MaxSize <- EntTabMax, Chunks <- Handlers, Matches <- Same,
  Constrained <- TRUE, OnConstrains <- "unset", AllocFaults <- FALSE,
  DirtyHeap <- FALSE

----------------------------------------------------------------------------
(* The operations of the two kinds of table.                               *)

LEMMA STAgrees ==
  /\ ST!Table = STP!Table /\ ST!NoTable = STP!NoTable /\ ST!Null = STP!Null
  /\ \A t : /\ ST!Exists(t) = STP!Exists(t) /\ ST!IsEmpty(t) = STP!IsEmpty(t)
            /\ ST!Live(t) = STP!Live(t) /\ ST!Fragmented(t) = STP!Fragmented(t)
            /\ ST!Current(t) = STP!Current(t)
  /\ \A t : ST!Last(t) = STP!Last(t) /\ ST!PrevSlot(t) = STP!PrevSlot(t)
  /\ \A t, d : ST!Search(t, d) = STP!Search(t, d)
  /\ \A t : ST!DelCurrent(t) = STP!DelCurrent(t)
  /\ \A t : ST!Destroy(t) = STP!Destroy(t)
  /\ \A n, f : ST!Created(n, f) = STP!Created(n, f)
  /\ \A t, S : ST!Swept(t, S) = STP!Swept(t, S)
<1>1. \A t : /\ ST!Exists(t) = STP!Exists(t) /\ ST!IsEmpty(t) = STP!IsEmpty(t)
             /\ ST!Live(t) = STP!Live(t) /\ ST!Fragmented(t) = STP!Fragmented(t)
  BY DEF ST!Exists, STP!Exists, ST!IsEmpty, STP!IsEmpty, ST!Live, STP!Live,
         ST!Fragmented, STP!Fragmented
<1>2. ST!Null = STP!Null /\ ST!NoTable = STP!NoTable
  BY DEF ST!Null, STP!Null, ST!NoTable, STP!NoTable
<1>3. \A S : ST!Least(S) = STP!Least(S)
  BY DEF ST!Least, STP!Least
<1>30. \A S : ST!Greatest(S) = STP!Greatest(S)
  BY DEF ST!Greatest, STP!Greatest
<1>4. \A t, S : ST!Visible(t, S) = STP!Visible(t, S)
  BY <1>1 DEF ST!Visible, STP!Visible, ST!PosIsFrag, STP!PosIsFrag
<1>5. \A t, p : /\ ST!At(p, t) = STP!At(p, t) /\ ST!Nowhere(t) = STP!Nowhere(t)
                /\ ST!Done(p, t) = STP!Done(p, t) /\ ST!Failed(t) = STP!Failed(t)
  BY <1>2 DEF ST!At, STP!At, ST!Nowhere, STP!Nowhere, ST!Done, STP!Done,
              ST!Failed, STP!Failed
<1>6. \A t : /\ ST!First(t) = STP!First(t) /\ ST!Last(t) = STP!Last(t)
             /\ ST!Current(t) = STP!Current(t)
  BY <1>1, <1>2, <1>5 DEF ST!First, STP!First, ST!Last, STP!Last,
                          ST!Current, STP!Current
<1>7. \A t : ST!NextSlot(t) = STP!NextSlot(t) /\ ST!PrevSlot(t) = STP!PrevSlot(t)
  BY <1>1, <1>3, <1>30, <1>4, <1>5 DEF ST!NextSlot, STP!NextSlot, ST!PrevSlot, STP!PrevSlot
<1>8. \A t : ST!FirstNext(t) = STP!FirstNext(t)
  BY <1>2, <1>4, <1>6, <1>7 DEF ST!FirstNext, STP!FirstNext
<1>9. \A t, d : ST!Search(t, d) = STP!Search(t, d)
  <2> TAKE t, d
  <2>1. PICK found : found = {p \in ST!Visible(t, 0..t.last) : Same(t.cells[p], d)}
    OBVIOUS
  <2>2. found = {p \in STP!Visible(t, 0..t.last) : Same(t.cells[p], d)}
    BY <1>4, <2>1
  <2> QED
    BY <1>1, <1>3, <1>5, <2>1, <2>2 DEF ST!Search, STP!Search
<1>10. \A t : ST!DelCurrent(t) = STP!DelCurrent(t)
  BY DEF ST!DelCurrent, STP!DelCurrent, ST!Null, STP!Null, ST!Current, STP!Current,
         ST!IsEmpty, STP!IsEmpty, ST!Exists, STP!Exists, ST!Done, STP!Done,
         ST!Failed, STP!Failed
<1>11. /\ \A t : ST!Destroy(t) = STP!Destroy(t)
       /\ \A n, f : ST!Created(n, f) = STP!Created(n, f)
  BY <1>2, <1>5 DEF ST!Destroy, STP!Destroy, ST!Created, STP!Created
<1>12. ST!Table = STP!Table
  BY DEF ST!Table, STP!Table, ST!Flag, STP!Flag, ST!Contents, STP!Contents,
         ST!Cell, STP!Cell
<1>13. \A t, S : ST!Swept(t, S) = STP!Swept(t, S)
  <2> TAKE t, S
  <2> QED
    BY Zenon DEF ST!Swept, STP!Swept, ST!FirstNext, STP!FirstNext,
         ST!First, STP!First, ST!NextSlot, STP!NextSlot,
         ST!Visible, STP!Visible, ST!PosIsFrag, STP!PosIsFrag,
         ST!Fragmented, STP!Fragmented, ST!Least, STP!Least,
         ST!At, STP!At, ST!Nowhere, STP!Nowhere,
         ST!DelCurrent, STP!DelCurrent, ST!Null, STP!Null, ST!Current, STP!Current,
         ST!IsEmpty, STP!IsEmpty, ST!Exists, STP!Exists, ST!Done, STP!Done,
         ST!Failed, STP!Failed
<1> QED
  BY <1>1, <1>2, <1>6, <1>7, <1>9, <1>10, <1>11, <1>12, <1>13

LEMMA STPushAgrees == \A t, d : ST!Push(t, d) = STP!Push(t, d)
<1>1. \A t, p : /\ ST!Nowhere(t) = STP!Nowhere(t) /\ ST!Null = STP!Null
                /\ ST!Done(p, t) = STP!Done(p, t) /\ ST!Failed(t) = STP!Failed(t)
  BY DEF ST!Nowhere, STP!Nowhere, ST!Done, STP!Done, ST!Failed, STP!Failed,
         ST!Null, STP!Null
<1>2. \A t : ST!ReallocAndMove(t) = STP!ReallocAndMove(t)
  BY DEF ST!ReallocAndMove, STP!ReallocAndMove, ST!Done, STP!Done,
         ST!Failed, STP!Failed, ST!Null, STP!Null, ST!GrownSize, STP!GrownSize,
         ST!Grown, STP!Grown, ST!ClearedBits, STP!ClearedBits,
         ST!DirtyBits, STP!DirtyBits, ST!Bits, STP!Bits,
         ST!MaskSize, STP!MaskSize
<1>3. \A t : ST!TakeTail(t) = STP!TakeTail(t)
  BY <1>1, STAgrees DEF ST!TakeTail, STP!TakeTail
<1>4. \A t : ST!GetTailNext(t) = STP!GetTailNext(t)
  BY <1>1, <1>2, <1>3, STAgrees DEF ST!GetTailNext, STP!GetTailNext
<1>5. \A t, d : ST!Match(t, d) = STP!Match(t, d)
  BY <1>1, STAgrees DEF ST!Match, STP!Match
<1> QED
  BY <1>1, <1>4, <1>5 DEF ST!Push, STP!Push, ST!WriteChunk, STP!WriteChunk

LEMMA ETAgrees ==
  /\ ET!Table = ETP!Table /\ ET!NoTable = ETP!NoTable /\ ET!Null = ETP!Null
  /\ \A t : /\ ET!Exists(t) = ETP!Exists(t) /\ ET!IsEmpty(t) = ETP!IsEmpty(t)
            /\ ET!Live(t) = ETP!Live(t) /\ ET!Fragmented(t) = ETP!Fragmented(t)
            /\ ET!Current(t) = ETP!Current(t)
  /\ \A t : ET!Last(t) = ETP!Last(t) /\ ET!PrevSlot(t) = ETP!PrevSlot(t)
  /\ \A t, d : ET!Search(t, d) = ETP!Search(t, d)
  /\ \A t : ET!DelCurrent(t) = ETP!DelCurrent(t)
  /\ \A t : ET!Destroy(t) = ETP!Destroy(t)
  /\ \A n, f : ET!Created(n, f) = ETP!Created(n, f)
  /\ \A t, S : ET!Swept(t, S) = ETP!Swept(t, S)
<1>1. \A t : /\ ET!Exists(t) = ETP!Exists(t) /\ ET!IsEmpty(t) = ETP!IsEmpty(t)
             /\ ET!Live(t) = ETP!Live(t) /\ ET!Fragmented(t) = ETP!Fragmented(t)
  BY DEF ET!Exists, ETP!Exists, ET!IsEmpty, ETP!IsEmpty, ET!Live, ETP!Live,
         ET!Fragmented, ETP!Fragmented
<1>2. ET!Null = ETP!Null /\ ET!NoTable = ETP!NoTable
  BY DEF ET!Null, ETP!Null, ET!NoTable, ETP!NoTable
<1>3. \A S : ET!Least(S) = ETP!Least(S)
  BY DEF ET!Least, ETP!Least
<1>30. \A S : ET!Greatest(S) = ETP!Greatest(S)
  BY DEF ET!Greatest, ETP!Greatest
<1>4. \A t, S : ET!Visible(t, S) = ETP!Visible(t, S)
  BY <1>1 DEF ET!Visible, ETP!Visible, ET!PosIsFrag, ETP!PosIsFrag
<1>5. \A t, p : /\ ET!At(p, t) = ETP!At(p, t) /\ ET!Nowhere(t) = ETP!Nowhere(t)
                /\ ET!Done(p, t) = ETP!Done(p, t) /\ ET!Failed(t) = ETP!Failed(t)
  BY <1>2 DEF ET!At, ETP!At, ET!Nowhere, ETP!Nowhere, ET!Done, ETP!Done,
              ET!Failed, ETP!Failed
<1>6. \A t : /\ ET!First(t) = ETP!First(t) /\ ET!Last(t) = ETP!Last(t)
             /\ ET!Current(t) = ETP!Current(t)
  BY <1>1, <1>2, <1>5 DEF ET!First, ETP!First, ET!Last, ETP!Last,
                          ET!Current, ETP!Current
<1>7. \A t : ET!NextSlot(t) = ETP!NextSlot(t) /\ ET!PrevSlot(t) = ETP!PrevSlot(t)
  BY <1>1, <1>3, <1>30, <1>4, <1>5 DEF ET!NextSlot, ETP!NextSlot, ET!PrevSlot, ETP!PrevSlot
<1>8. \A t : ET!FirstNext(t) = ETP!FirstNext(t)
  BY <1>2, <1>4, <1>6, <1>7 DEF ET!FirstNext, ETP!FirstNext
<1>9. \A t, d : ET!Search(t, d) = ETP!Search(t, d)
  <2> TAKE t, d
  <2>1. PICK found : found = {p \in ET!Visible(t, 0..t.last) : Same(t.cells[p], d)}
    OBVIOUS
  <2>2. found = {p \in ETP!Visible(t, 0..t.last) : Same(t.cells[p], d)}
    BY <1>4, <2>1
  <2> QED
    BY <1>1, <1>3, <1>5, <2>1, <2>2 DEF ET!Search, ETP!Search
<1>10. \A t : ET!DelCurrent(t) = ETP!DelCurrent(t)
  BY DEF ET!DelCurrent, ETP!DelCurrent, ET!Null, ETP!Null, ET!Current, ETP!Current,
         ET!IsEmpty, ETP!IsEmpty, ET!Exists, ETP!Exists, ET!Done, ETP!Done,
         ET!Failed, ETP!Failed
<1>11. /\ \A t : ET!Destroy(t) = ETP!Destroy(t)
       /\ \A n, f : ET!Created(n, f) = ETP!Created(n, f)
  BY <1>2, <1>5 DEF ET!Destroy, ETP!Destroy, ET!Created, ETP!Created
<1>12. ET!Table = ETP!Table
  BY DEF ET!Table, ETP!Table, ET!Flag, ETP!Flag, ET!Contents, ETP!Contents,
         ET!Cell, ETP!Cell
<1>13. \A t, S : ET!Swept(t, S) = ETP!Swept(t, S)
  <2> TAKE t, S
  <2> QED
    BY Zenon DEF ET!Swept, ETP!Swept, ET!FirstNext, ETP!FirstNext,
         ET!First, ETP!First, ET!NextSlot, ETP!NextSlot,
         ET!Visible, ETP!Visible, ET!PosIsFrag, ETP!PosIsFrag,
         ET!Fragmented, ETP!Fragmented, ET!Least, ETP!Least,
         ET!At, ETP!At, ET!Nowhere, ETP!Nowhere,
         ET!DelCurrent, ETP!DelCurrent, ET!Null, ETP!Null, ET!Current, ETP!Current,
         ET!IsEmpty, ETP!IsEmpty, ET!Exists, ETP!Exists, ET!Done, ETP!Done,
         ET!Failed, ETP!Failed
<1> QED
  BY <1>1, <1>2, <1>6, <1>7, <1>9, <1>10, <1>11, <1>12, <1>13

LEMMA ETPushAgrees == \A t, d : ET!Push(t, d) = ETP!Push(t, d)
<1>1. \A t, p : /\ ET!Nowhere(t) = ETP!Nowhere(t) /\ ET!Null = ETP!Null
                /\ ET!Done(p, t) = ETP!Done(p, t) /\ ET!Failed(t) = ETP!Failed(t)
  BY DEF ET!Nowhere, ETP!Nowhere, ET!Done, ETP!Done, ET!Failed, ETP!Failed,
         ET!Null, ETP!Null
<1>2. \A t : ET!ReallocAndMove(t) = ETP!ReallocAndMove(t)
  BY DEF ET!ReallocAndMove, ETP!ReallocAndMove, ET!Done, ETP!Done,
         ET!Failed, ETP!Failed, ET!Null, ETP!Null, ET!GrownSize, ETP!GrownSize,
         ET!Grown, ETP!Grown, ET!ClearedBits, ETP!ClearedBits,
         ET!DirtyBits, ETP!DirtyBits, ET!Bits, ETP!Bits,
         ET!MaskSize, ETP!MaskSize
<1>3. \A t : ET!TakeTail(t) = ETP!TakeTail(t)
  BY <1>1, ETAgrees DEF ET!TakeTail, ETP!TakeTail
<1>4. \A t : ET!GetTailNext(t) = ETP!GetTailNext(t)
  BY <1>1, <1>2, <1>3, ETAgrees DEF ET!GetTailNext, ETP!GetTailNext
<1>5. \A t, d : ET!Match(t, d) = ETP!Match(t, d)
  BY <1>1, ETAgrees DEF ET!Match, ETP!Match
<1> QED
  BY <1>1, <1>4, <1>5 DEF ET!Push, ETP!Push, ET!WriteChunk, ETP!WriteChunk

\* The signal table: what holds of it as long as it is sound.
LEMMA SigFacts ==
  ASSUME NEW t, STP!Sound(t)
  PROVE  /\ t \in ST!Table
         /\ ST!Live(t) \subseteq DOMAIN t.cells /\ ST!Live(t) \subseteq SigSlots
         /\ \A p \in ST!Live(t) : t.cells[p] \in Signals
         /\ ST!Exists(t) => \A p \in DOMAIN t.cells :
                              p \notin ST!Live(t) => t.cells[p] = Zero
         /\ ST!IsEmpty(t) <=> ST!Live(t) = {}
         /\ ~ST!Exists(t) => ST!Live(t) = {}
<1>1. ~ST!Exists(t) => ST!Live(t) = {}
  BY DEF ST!Live, ST!IsEmpty
<1> QED
  BY <1>1, SignalAssumption, STP!HeldOrBlank, STAgrees DEF SigSlots

LEMMA SigMade ==
  LET t == ST!Created(SigTabSize, {}) IN
  /\ STP!Sound(ST!NoTable) /\ ~ST!Exists(ST!NoTable) /\ ST!Live(ST!NoTable) = {}
  /\ STP!Sound(t) /\ ST!Exists(t) /\ ST!Live(t) = {}
<1>1. ~ST!Exists(ST!NoTable) /\ ST!Live(ST!NoTable) = {}
  BY DEF ST!Exists, ST!Live, ST!IsEmpty, ST!NoTable
<1>2. STP!Sound(ST!NoTable)
  BY <1>1, SignalAssumption, STP!ShapeNoTable, STAgrees DEF STP!Sound
<1> QED
  BY <1>1, <1>2, SignalAssumption, STP!SoundCreated, STAgrees

LEMMA SigSearch ==
  ASSUME NEW t, STP!Sound(t), ST!Exists(t), NEW s \in Signals,
         NEW f, f = ST!Search(t, s)
  PROVE  /\ STP!Sound(f.t) /\ ST!Exists(f.t) /\ f.t.cells = t.cells
         /\ ST!Live(f.t) = ST!Live(t) /\ f.t.size = t.size
         /\ ST!IsEmpty(f.t) = ST!IsEmpty(t) /\ ST!Fragmented(f.t) = ST!Fragmented(t)
         /\ IF f.at = ST!Null THEN \A p \in ST!Live(t) : t.cells[p] # s
            ELSE f.at \in ST!Live(t) /\ t.cells[f.at] = s
<1>1. STP!Alike(t, f.t)
  BY SignalAssumption, STP!MovesAlike, STAgrees
<1>2. STP!BlankMatchesNone
  BY SignalAssumption DEF STP!BlankMatchesNone, Same
<1>3. IF \E p \in STP!Live(t) : Same(t.cells[p], s)
      THEN STP!OnLive(t, f) /\ Same(t.cells[f.at], s)
      ELSE f.at = STP!Null
  BY <1>2, SignalAssumption, STP!SearchFinds, STAgrees
<1>4. \A p \in STP!Live(t) : p # STP!Null
  BY SigFacts, STAgrees DEF SigSlots, STP!Null
<1> QED
  BY <1>1, <1>3, <1>4, STAgrees DEF STP!Alike, STP!OnLive, Same

LEMMA SigPush ==
  ASSUME NEW t, STP!Sound(t), ST!Exists(t), ~(ST!IsEmpty(t) /\ ST!Fragmented(t)),
         NEW s \in Signals, NEW r \in ST!Push(t, s)
  PROVE  /\ STP!Sound(r.t) /\ ST!Exists(r.t)
         /\ \A q \in ST!Live(t) : r.t.cells[q] = t.cells[q]
         /\ IF r.ok
            THEN /\ r.at \notin ST!Live(t) /\ ST!Live(r.t) = ST!Live(t) \cup {r.at}
                 /\ r.t.cells[r.at] = s /\ ST!Current(r.t) = r.at
            ELSE ST!Live(r.t) = ST!Live(t)
<1>1. r \in STP!Push(t, s) /\ STP!Exists(t) /\ ~STP!Emptying(t)
  BY STAgrees, STPushAgrees DEF STP!Emptying
<1>2. STP!Sound(r.t) /\ STP!Written(t, STP!Match(t, s), s, r)
  BY <1>1, SignalAssumption, STP!PushSound
<1>3. STP!Match(t, s).at = STP!Null
  BY DEF STP!Match, STP!Nowhere
<1>4. r.ok => STP!Current(r.t) = r.at
  BY <1>1, SignalAssumption, STP!PushCurrent
<1> QED
  BY <1>1, <1>2, <1>3, <1>4, STAgrees DEF STP!Written, STP!Gained, STP!Kept

LEMMA SigLeft ==
  ASSUME NEW t, STP!Sound(t), ST!Exists(t), NEW s,
         NEW u, u = Unregistered(t, s)
  PROVE  /\ STP!Sound(u) /\ ST!Exists(u)
         /\ ST!Live(u) = {q \in ST!Live(t) : t.cells[q] # s}
         /\ \A q \in ST!Live(u) : u.cells[q] = t.cells[q]
         /\ DOMAIN u.cells = DOMAIN t.cells
<1>1. PICK l : l = STP!Swept(t, {s})
  OBVIOUS
<1>2. u = l.t
  BY <1>1, STAgrees DEF Unregistered
<1>3. /\ STP!Sound(l.t) /\ STP!Exists(l.t) /\ l.t.size = t.size
      /\ STP!Live(l.t) = {q \in STP!Live(t) : t.cells[q] \notin {s}}
      /\ \A q \in STP!Live(l.t) : l.t.cells[q] = t.cells[q]
  <2>1. /\ STP!Exists(t) /\ 8 \in Nat \ {0} /\ SigTabMax \in Nat \ {0}
        /\ Zero \notin Signals /\ Junk \notin Signals
        /\ FALSE \in BOOLEAN /\ "unset" \in {"unset", "OK", "FAIL"}
    BY SignalAssumption, STAgrees
  <2> QED
    BY <1>1, <2>1, STP!SweptExact, SMTT(40)
<1>4. DOMAIN l.t.cells = 0..(l.t.size - 1) /\ DOMAIN t.cells = 0..(t.size - 1)
  BY <1>3, STAgrees DEF STP!Sound, STP!Good, STP!Bounds
<1> QED
  BY <1>2, <1>3, <1>4, STAgrees

\* The tables of handlers.  Nothing is known of them but what they hold.
Distinct(e) ==
  \A q, r \in ET!Live(e) : e.cells[q] = e.cells[r] => q = r

LEMMA EntFacts ==
  ASSUME NEW e, ETP!Sound(e)
  PROVE  /\ e \in ET!Table
         /\ ET!Live(e) \subseteq DOMAIN e.cells /\ ET!Live(e) \subseteq Nat
         /\ \A q \in ET!Live(e) : e.cells[q] \in Handlers
         /\ ET!Exists(e) => \A q \in DOMAIN e.cells :
                              q \notin ET!Live(e) => e.cells[q] = Zero
         /\ ET!IsEmpty(e) <=> ET!Live(e) = {}
<1>1. 0..(EntTabMax - 1) \subseteq Nat
  BY SignalAssumption
<1> QED
  BY <1>1, SignalAssumption, ETP!HeldOrBlank, ETAgrees

LEMMA EntMade ==
  LET e == ET!Created(EntTabSize, {}) IN
  /\ ETP!Sound(ET!NoTable) /\ ~ET!Exists(ET!NoTable) /\ ET!Live(ET!NoTable) = {}
  /\ ETP!Sound(e) /\ ET!Exists(e) /\ ET!Live(e) = {} /\ ~ET!Fragmented(e)
<1>1. ~ET!Exists(ET!NoTable) /\ ET!Live(ET!NoTable) = {}
  BY DEF ET!Exists, ET!Live, ET!IsEmpty, ET!NoTable
<1>2. ETP!Sound(ET!NoTable)
  BY <1>1, SignalAssumption, ETP!ShapeNoTable, ETAgrees DEF ETP!Sound
<1>3. ~ET!Fragmented(ET!Created(EntTabSize, {}))
  BY DEF ET!Fragmented, ET!Created
<1> QED
  BY <1>1, <1>2, <1>3, SignalAssumption, ETP!SoundCreated, ETAgrees

LEMMA EntMoves ==
  ASSUME NEW e, ETP!Sound(e),
         NEW u, u \in {ET!Last(e).t, ET!PrevSlot(e).t} \/ \E h : u = ET!Search(e, h).t
  PROVE  /\ ETP!Sound(u) /\ ET!Exists(u) = ET!Exists(e) /\ u.cells = e.cells
         /\ ET!Live(u) = ET!Live(e)
         /\ ET!IsEmpty(u) = ET!IsEmpty(e) /\ ET!Fragmented(u) = ET!Fragmented(e)
         /\ Distinct(e) => Distinct(u)
<1>1. ETP!Alike(e, u)
  BY SignalAssumption, ETP!MovesAlike, ETAgrees
<1> QED
  BY <1>1, ETAgrees DEF ETP!Alike, Distinct

LEMMA EntSearch ==
  ASSUME NEW e, ETP!Sound(e), NEW h \in Handlers, NEW f, f = ET!Search(e, h)
  PROVE  IF f.at = ET!Null THEN \A q \in ET!Live(e) : e.cells[q] # h
         ELSE /\ f.at \in ET!Live(e) /\ e.cells[f.at] = h
              /\ f.t.pos = f.at /\ ET!Current(f.t) = f.at
<1>1. ETP!BlankMatchesNone
  BY SignalAssumption DEF ETP!BlankMatchesNone, Same
<1>2. IF \E q \in ETP!Live(e) : Same(e.cells[q], h)
      THEN ETP!OnLive(e, f) /\ Same(e.cells[f.at], h)
      ELSE f.at = ETP!Null
  BY <1>1, SignalAssumption, ETP!SearchFinds, ETAgrees
<1>3. \A q \in ETP!Live(e) : q # ETP!Null
  BY EntFacts, ETAgrees DEF ETP!Null
<1>4. ETP!OnLive(e, f) => ETP!Current(f.t) = f.at
  BY SignalAssumption, ETP!OnLiveCurrent
<1>5. ETP!OnLive(e, f) => f.t.pos = f.at
  BY EntFacts, ETAgrees DEF ETP!OnLive, ETP!Table
<1> QED
  BY <1>2, <1>3, <1>4, <1>5, ETAgrees DEF ETP!OnLive, Same

LEMMA EntPush ==
  ASSUME NEW e, ETP!Sound(e), ET!Exists(e), ~(ET!IsEmpty(e) /\ ET!Fragmented(e)),
         Distinct(e), NEW h \in Handlers, NEW r \in PushHandler(e, h)
  PROVE  /\ ETP!Sound(r.t) /\ ET!Exists(r.t) /\ Distinct(r.t)
         /\ ET!Live(e) \subseteq ET!Live(r.t)
         /\ r.ok => ET!Live(r.t) # {}
         /\ ~r.ok => ET!Live(r.t) = ET!Live(e)
<1> DEFINE m == ETP!Match(e, h)
<1>0. CASE r = ET!Failed(ET!Search(e, h).t)
  <2>1. PICK f : f = ET!Search(e, h)
    OBVIOUS
  <2>2. r.t = f.t /\ r.ok = FALSE
    BY <1>0, <2>1, Zenon DEF ET!Failed
  <2>3. ETP!Sound(f.t) /\ ET!Exists(f.t) /\ ET!Live(f.t) = ET!Live(e) /\ Distinct(f.t)
    BY <2>1, EntMoves
  <2> QED
    BY <2>2, <2>3
<1> SUFFICES ASSUME r # ET!Failed(ET!Search(e, h).t)
             PROVE  /\ ETP!Sound(r.t) /\ ET!Exists(r.t) /\ Distinct(r.t)
                    /\ ET!Live(e) \subseteq ET!Live(r.t)
                    /\ r.ok => ET!Live(r.t) # {}
                    /\ ~r.ok => ET!Live(r.t) = ET!Live(e)
  BY <1>0
<1>1. r \in ETP!Push(e, h) /\ ETP!Exists(e) /\ ~ETP!Emptying(e)
  BY ETAgrees, ETPushAgrees DEF ETP!Emptying, PushHandler
<1>2. ETP!Sound(r.t) /\ ETP!Written(e, m, h, r)
  BY <1>1, SignalAssumption, ETP!PushSound
<1>3. m = ET!Search(e, h)
  BY ETAgrees DEF ETP!Match
<1>4. CASE m.at # ETP!Null
  <2>1. ~r.ok /\ r.t = m.t
    BY <1>2, <1>4 DEF ETP!Written
  <2>2. ET!Exists(r.t) /\ ET!Live(r.t) = ET!Live(e) /\ Distinct(r.t)
    BY <1>3, <2>1, EntMoves
  <2> QED
    BY <1>2, <2>1, <2>2
<1>5. CASE m.at = ETP!Null /\ r.ok
  <2>1. ETP!Gained(e, r.t, r.at) /\ r.t.cells[r.at] = h
    BY <1>2, <1>5 DEF ETP!Written
  <2>2. \A q \in ET!Live(e) : e.cells[q] # h
    BY <1>3, <1>5, EntSearch, ETAgrees
  <2>3. /\ ET!Live(r.t) = ET!Live(e) \cup {r.at} /\ ET!Exists(r.t)
        /\ \A q \in ET!Live(e) : r.t.cells[q] = e.cells[q]
    BY <2>1, ETAgrees DEF ETP!Gained
  <2>4. Distinct(r.t)
    BY <2>1, <2>2, <2>3 DEF Distinct
  <2> QED
    BY <1>2, <1>5, <2>3, <2>4
<1>6. CASE m.at = ETP!Null /\ ~r.ok
  <2>1. ETP!Kept(e, r.t)
    BY <1>2, <1>6 DEF ETP!Written
  <2> QED
    BY <1>2, <1>6, <2>1, ETAgrees DEF ETP!Kept, Distinct
<1> QED
  BY <1>4, <1>5, <1>6

LEMMA EntLeft ==
  ASSUME NEW e, ETP!Sound(e), ET!Exists(e), Distinct(e), NEW h \in Handlers,
         NEW f, f = ET!Search(e, h), f.at # ET!Null,
         NEW u, u = ET!DelCurrent(f.t).t
  PROVE  /\ ETP!Sound(u) /\ ET!Exists(u) /\ Distinct(u)
         /\ ET!Live(u) = ET!Live(e) \ {f.at} /\ u.pos <= f.at /\ u.pos \in Nat
         /\ \A q \in ET!Live(u) : u.cells[q] = e.cells[q]
<1>1. /\ ETP!Sound(f.t) /\ ET!Exists(f.t) /\ f.t.cells = e.cells
      /\ ET!Live(f.t) = ET!Live(e)
  BY EntMoves
<1>2. f.at \in ET!Live(e) /\ f.t.pos = f.at /\ ET!Current(f.t) = f.at /\ f.at \in Nat
  BY EntFacts, EntSearch
<1>3. /\ ETP!Sound(u)
      /\ IF ETP!DelCurrent(f.t).ok THEN ETP!Lost(f.t, u, ETP!DelCurrent(f.t).at)
         ELSE u = f.t
  BY <1>1, SignalAssumption, ETP!DelKeepsSound, ETAgrees
<1>4. /\ ETP!DelCurrent(f.t).ok /\ ETP!DelCurrent(f.t).at = f.at
      /\ (u.pos = f.at \/ (u.pos = f.t.last - 1 /\ f.at = f.t.tail))
  <2>1. f.at \notin f.t.mask /\ f.at # ETP!Null
    BY <1>1, <1>2 DEF ET!Live, ETP!Null
  <2>2. f.t \in ETP!Table /\ ETP!Current(f.t) = f.at
    BY <1>1, <1>2, EntFacts, ETAgrees
  <2> DEFINE cleared == [f.t EXCEPT !.cells[f.at] = Zero, !.count = @ - 1]
  <2>3. CASE f.at = f.t.tail /\ f.at # 0
    <3>1. ETP!DelCurrent(f.t) =
            [ok |-> TRUE, at |-> f.at,
             t |-> [cleared EXCEPT !.tail = f.at - 1, !.last = @ - 1,
                                   !.pos = f.t.last - 1]]
      BY <2>1, <2>2, <2>3 DEF ETP!DelCurrent, ETP!Done
    <3>2. u = [cleared EXCEPT !.tail = f.at - 1, !.last = @ - 1,
                              !.pos = f.t.last - 1]
      BY <3>1, ETAgrees
    <3>3. u.pos = f.t.last - 1
      BY <2>2, <3>2 DEF ETP!Table
    <3> QED
      BY <2>3, <3>1, <3>3
  <2>4. CASE ~(f.at = f.t.tail /\ f.at # 0)
    <3>1. ETP!DelCurrent(f.t) =
            [ok |-> TRUE, at |-> f.at,
             t |-> [cleared EXCEPT !.mask = @ \cup {f.at}, !.fragCount = @ + 1]]
      BY <2>1, <2>2, <2>4 DEF ETP!DelCurrent, ETP!Done
    <3>2. u = [cleared EXCEPT !.mask = @ \cup {f.at}, !.fragCount = @ + 1]
      BY <3>1, ETAgrees
    <3>3. u.pos = f.at
      BY <1>2, <2>2, <3>2 DEF ETP!Table
    <3> QED
      BY <3>1, <3>3
  <2> QED
    BY <2>3, <2>4
<1>5. ETP!Lost(f.t, u, f.at)
  BY <1>3, <1>4
<1>6. f.t.tail = f.t.last /\ u.pos \in Nat /\ f.t.last \in Nat
  BY <1>1, <1>3, SignalAssumption, ETP!SoundFacts, ETAgrees
<1>7. u.pos <= f.at
  BY <1>2, <1>4, <1>6
<1> QED
  BY <1>1, <1>3, <1>5, <1>6, <1>7, ETAgrees DEF ETP!Lost, Distinct

----------------------------------------------------------------------------
(* What is registered.                                                     *)

\* The entry table of a signal that is registered.
Registry(e) ==
  ETP!Sound(e) /\ ET!Exists(e) /\ Distinct(e) /\ ET!Live(e) # {}

\* The signal table, the entry tables and the mask agree.
Recorded(t, ents, mask) ==
  /\ STP!Sound(t)
  /\ ents \in [SigSlots -> ET!Table]
  /\ \A p \in SigSlots : IF p \in ST!Live(t) THEN Registry(ents[p])
                         ELSE ents[p] = ET!NoTable
  /\ mask = {t.cells[p] : p \in ST!Live(t)}
  /\ \A p, q \in ST!Live(t) : t.cells[p] = t.cells[q] => p = q

HandleTypes ==
  /\ signum \in Signals \cup {Zero}
  /\ sig \in SigSlots \cup {Dangling}
  /\ running \in Handlers \cup {Zero}
  /\ ran \subseteq Handlers
  /\ called \in BOOLEAN /\ missed = FALSE /\ delivered \in 0..Deliveries
  /\ signum = Zero => sig = Dangling /\ running = Zero

SigInv == Recorded(sigtab, entry, sigmask) /\ HandleTypes

LEMMA EntryTables ==
  /\ ET!NoTable \in ET!Table
  /\ \A e : ETP!Sound(e) => e \in ET!Table
BY EntMade, EntFacts

\* The cursors of the tables are of no account.
LEMMA RecordedMoved ==
  ASSUME NEW t, NEW ents, NEW mask, Recorded(t, ents, mask),
         NEW u, STP!Sound(u), u.cells = t.cells, ST!Live(u) = ST!Live(t)
  PROVE  Recorded(u, ents, mask)
BY DEF Recorded

LEMMA RecordedAt ==
  ASSUME NEW t, NEW ents, NEW mask, Recorded(t, ents, mask),
         NEW p \in ST!Live(t), NEW e, Registry(e)
  PROVE  Recorded(t, [ents EXCEPT ![p] = e], mask)
<1>1. p \in SigSlots
  BY SigFacts DEF Recorded
<1>2. \A q \in SigSlots : [ents EXCEPT ![p] = e][q] = IF q = p THEN e ELSE ents[q]
  BY DEF Recorded
<1>3. [ents EXCEPT ![p] = e] \in [SigSlots -> ET!Table]
  BY EntryTables DEF Recorded, Registry
<1> QED
  BY <1>2, <1>3 DEF Recorded

\* A signal is dropped: the loop leaves the others in their slots.
LEMMA DropStep ==
  ASSUME NEW t, STP!Sound(t), ST!Exists(t), NEW s \in Signals,
         NEW ents \in [SigSlots -> ET!Table], NEW mask,
         \A p \in SigSlots :
           IF p \in ST!Live(t) THEN t.cells[p] # s => Registry(ents[p])
           ELSE ents[p] = ET!NoTable,
         mask = {t.cells[p] : p \in ST!Live(t)},
         \A p, q \in ST!Live(t) : t.cells[p] = t.cells[q] => p = q,
         \E p \in ST!Live(t) : t.cells[p] = s,
         DropSignal(t, ents, mask, s)
  PROVE  /\ Recorded(sigtab', entry', sigmask')
         /\ ST!Live(sigtab') = {q \in ST!Live(t) : t.cells[q] # s}
         /\ \A q \in ST!Live(sigtab') : sigtab'.cells[q] = t.cells[q]
         /\ \A q \in ST!Live(sigtab') : entry'[q] = ents[q]
<1>1. PICK u, gone : u = Unregistered(t, s) /\ gone = Gone(t, u, s)
  OBVIOUS
<1>2. /\ sigtab' = u /\ sigmask' = (IF gone = {} THEN mask ELSE mask \ {s})
      /\ entry' = [p \in SigSlots |-> IF p \in gone THEN ET!NoTable ELSE ents[p]]
  BY <1>1 DEF DropSignal, WithoutTables
<1>3. /\ STP!Sound(u) /\ ST!Exists(u)
      /\ ST!Live(u) = {q \in ST!Live(t) : t.cells[q] # s}
      /\ \A q \in ST!Live(u) : u.cells[q] = t.cells[q]
      /\ DOMAIN u.cells = DOMAIN t.cells
  BY <1>1, SigLeft
<1>4. /\ ST!Live(u) \subseteq SigSlots /\ ST!Live(t) \subseteq DOMAIN t.cells
      /\ \A p \in DOMAIN u.cells : p \notin ST!Live(u) => u.cells[p] = Zero
      /\ Zero # s
  BY <1>3, SigFacts, SignalAssumption
<1>5. \A p \in SigSlots : entry'[p] = IF p \in gone THEN ET!NoTable ELSE ents[p]
  BY <1>2
<1>51. \A p \in ST!Live(u) : p \notin gone
  BY <1>1, <1>3 DEF Gone
<1>52. \A p \in ST!Live(t) : p \notin ST!Live(u) => p \in gone
  BY <1>1, <1>3, <1>4 DEF Gone
<1>53. sigmask' = mask \ {s}
  BY <1>2, <1>3, <1>52
<1>6. \A p \in SigSlots : IF p \in ST!Live(u) THEN Registry(entry'[p])
                          ELSE entry'[p] = ET!NoTable
  <2> TAKE p \in SigSlots
  <2>1. CASE p \in ST!Live(u)
    BY <1>3, <1>5, <1>51, <2>1
  <2>2. CASE p \notin ST!Live(u) /\ p \in ST!Live(t)
    BY <1>5, <1>52, <2>2
  <2>3. CASE p \notin ST!Live(u) /\ p \notin ST!Live(t)
    BY <1>5, <2>3
  <2> QED
    BY <2>1, <2>2, <2>3
<1>7. entry' \in [SigSlots -> ET!Table]
  BY <1>2, EntryTables
<1>8. sigmask' = {u.cells[p] : p \in ST!Live(u)}
  BY <1>3, <1>53
<1>9. \A p, q \in ST!Live(u) : u.cells[p] = u.cells[q] => p = q
  BY <1>3
<1>10. \A q \in ST!Live(u) : entry'[q] = ents[q]
  BY <1>4, <1>5, <1>51
<1> QED
  BY <1>2, <1>3, <1>6, <1>7, <1>8, <1>9, <1>10 DEF Recorded

\* A handler is pushed into a table that may be new.
LEMMA AddStep ==
  ASSUME NEW t, STP!Sound(t), ST!Exists(t), NEW ents \in [SigSlots -> ET!Table],
         NEW p \in ST!Live(t), NEW h \in Handlers, NEW mask,
         ETP!Sound(ents[p]), ET!Exists(ents[p]), Distinct(ents[p]),
         ~(ET!IsEmpty(ents[p]) /\ ET!Fragmented(ents[p])),
         \A q \in SigSlots \ {p} : IF q \in ST!Live(t) THEN Registry(ents[q])
                                   ELSE ents[q] = ET!NoTable,
         mask = {t.cells[q] : q \in ST!Live(t)},
         \A q, r \in ST!Live(t) : t.cells[q] = t.cells[r] => q = r,
         AddHandler(t, ents, mask, p, h)
  PROVE  Recorded(sigtab', entry', sigmask')
<1>1. PICK r \in PushHandler(ents[p], h) :
             LET pushed == [ents EXCEPT ![p] = r.t] IN
             IF ~r.ok /\ ET!IsEmpty(r.t) THEN DropSignal(t, pushed, mask, t.cells[p])
             ELSE sigtab' = t /\ entry' = pushed /\ sigmask' = mask
  BY DEF AddHandler
<1>2. /\ ETP!Sound(r.t) /\ ET!Exists(r.t) /\ Distinct(r.t)
      /\ r.ok => ET!Live(r.t) # {}
  BY EntPush
<1>3. p \in SigSlots /\ t.cells[p] \in Signals /\ r.t \in ET!Table
  BY <1>2, SigFacts, EntryTables
<1>4. PICK pushed : pushed = [ents EXCEPT ![p] = r.t]
  OBVIOUS
<1>5. /\ pushed \in [SigSlots -> ET!Table]
      /\ \A q \in SigSlots : pushed[q] = IF q = p THEN r.t ELSE ents[q]
  BY <1>3, <1>4
<1>6. CASE ~r.ok /\ ET!IsEmpty(r.t)
  <2>1. DropSignal(t, pushed, mask, t.cells[p])
    BY <1>1, <1>4, <1>6
  <2>2. \A q \in SigSlots :
          IF q \in ST!Live(t) THEN t.cells[q] # t.cells[p] => Registry(pushed[q])
          ELSE pushed[q] = ET!NoTable
    BY <1>5
  <2> QED
    BY <1>3, <1>5, <2>1, <2>2, DropStep
<1>7. CASE ~(~r.ok /\ ET!IsEmpty(r.t))
  <2>1. sigtab' = t /\ entry' = pushed /\ sigmask' = mask
    BY <1>1, <1>4, <1>7
  <2>2. ET!Live(r.t) # {}
    BY <1>2, <1>7, EntFacts
  <2>3. \A q \in SigSlots : IF q \in ST!Live(t) THEN Registry(pushed[q])
                            ELSE pushed[q] = ET!NoTable
    BY <1>2, <1>5, <2>2 DEF Registry
  <2> QED
    BY <1>5, <2>1, <2>3 DEF Recorded
<1> QED
  BY <1>6, <1>7

LEMMA RegisterStep ==
  ASSUME ~PushesEmptied, Recorded(sigtab, entry, sigmask),
         NEW s \in Signals, NEW h \in Handlers, Register(s, h)
  PROVE  Recorded(sigtab', entry', sigmask') /\ sig' \in {sig, Dangling}
<1>1. PICK found : found = ST!Search(sigtab, s)
  OBVIOUS
<1>2. STP!Sound(sigtab) /\ ST!Exists(sigtab) /\ entry \in [SigSlots -> ET!Table]
  BY DEF Register, Recorded
<1>3. /\ STP!Sound(found.t) /\ ST!Exists(found.t) /\ found.t.cells = sigtab.cells
      /\ ST!Live(found.t) = ST!Live(sigtab)
      /\ ST!IsEmpty(found.t) = ST!IsEmpty(sigtab)
      /\ ST!Fragmented(found.t) = ST!Fragmented(sigtab)
      /\ IF found.at = ST!Null THEN \A p \in ST!Live(sigtab) : sigtab.cells[p] # s
         ELSE found.at \in ST!Live(sigtab) /\ sigtab.cells[found.at] = s
  BY <1>1, <1>2, SigSearch
<1>4. Recorded(found.t, entry, sigmask)
  BY <1>3, RecordedMoved
<1>5. CASE found.at # ST!Null
  <2>1. AddHandler(found.t, entry, sigmask, found.at, h) /\ sig' = sig
    BY <1>1, <1>5 DEF Register
  <2>2. found.at \in SigSlots /\ found.at \in ST!Live(found.t)
    BY <1>3, <1>5, SigFacts
  <2>3. Registry(entry[found.at])
    BY <1>4, <2>2 DEF Recorded
  <2>4. ~ET!IsEmpty(entry[found.at])
    BY <2>3, EntFacts DEF Registry
  <2> QED
    BY <1>2, <1>3, <1>4, <2>1, <2>2, <2>3, <2>4, AddStep DEF Recorded, Registry
<1>6. CASE found.at = ST!Null
  <2>1. ~(ST!IsEmpty(found.t) /\ ST!Fragmented(found.t))
    BY <1>1, <1>3, <1>6 DEF Register
  <2>2. PICK r \in Registered(found.t, s) :
               IF ~r.ok
               THEN sigtab' = r.t /\ UNCHANGED <<entry, sigmask, sig>>
               ELSE LET at == ST!Current(r.t)
                        ents == [entry EXCEPT ![r.at] = ET!Created(EntTabSize, {})]
                    IN /\ ET!Exists(ents[at])
                       /\ AddHandler(r.t, ents, sigmask \cup {s}, at, h)
                       /\ \/ UNCHANGED sig
                          \/ r.t.size # sigtab.size /\ sig' = Dangling
    BY <1>1, <1>6 DEF Register
  <2>3. CASE s \in Refused
    <3>1. r = ST!Failed(found.t)
      BY <2>2, <2>3 DEF Registered
    <3>2. ~r.ok /\ r.t = found.t
      BY <3>1 DEF ST!Failed
    <3> QED
      BY <1>4, <2>2, <3>2
  <2>4. CASE s \notin Refused
    <3>1. PICK again : again = ST!Search(found.t, s).t
      OBVIOUS
    <3>2. r \in ST!Push(again, s) \/ r = ST!Failed(again)
      BY <2>2, <2>4, <3>1 DEF Registered
    <3>3. /\ STP!Sound(again) /\ ST!Exists(again) /\ again.cells = sigtab.cells
          /\ ST!Live(again) = ST!Live(sigtab)
          /\ ~(ST!IsEmpty(again) /\ ST!Fragmented(again))
      BY <1>3, <2>1, <3>1, SigSearch
    <3>4. /\ STP!Sound(r.t) /\ ST!Exists(r.t)
          /\ \A q \in ST!Live(sigtab) : r.t.cells[q] = sigtab.cells[q]
          /\ IF r.ok
             THEN /\ r.at \notin ST!Live(sigtab)
                  /\ ST!Live(r.t) = ST!Live(sigtab) \cup {r.at}
                  /\ r.t.cells[r.at] = s /\ ST!Current(r.t) = r.at
             ELSE ST!Live(r.t) = ST!Live(sigtab)
      <4>1. CASE r \in ST!Push(again, s)
        BY <3>3, <4>1, SigPush
      <4>2. CASE r = ST!Failed(again)
        <5>1. r.t = again /\ r.ok = FALSE
          BY <4>2, Zenon DEF ST!Failed
        <5> QED
          BY <3>3, <5>1
      <4> QED
        BY <3>2, <4>1, <4>2
    <3>5. CASE ~r.ok
      BY <2>2, <3>4, <3>5 DEF Recorded
    <3>6. CASE r.ok
      <4>1. PICK fresh : fresh = ET!Created(EntTabSize, {})
        OBVIOUS
      <4>2. PICK ents : ents = [entry EXCEPT ![r.at] = fresh]
        OBVIOUS
      <4>3. /\ AddHandler(r.t, ents, sigmask \cup {s}, r.at, h)
            /\ sig' \in {sig, Dangling}
        BY <2>2, <3>4, <3>6, <4>1, <4>2
      <4>4. r.at \in ST!Live(r.t) /\ r.at \in SigSlots
        BY <3>4, <3>6, SigFacts
      <4>5. /\ ETP!Sound(fresh) /\ ET!Exists(fresh) /\ Distinct(fresh)
            /\ ~ET!Fragmented(fresh) /\ fresh \in ET!Table
        BY <4>1, EntMade, EntryTables DEF Distinct
      <4>6. /\ ents \in [SigSlots -> ET!Table]
            /\ \A q \in SigSlots : ents[q] = IF q = r.at THEN fresh ELSE entry[q]
        BY <1>2, <4>2, <4>4, <4>5
      <4>7. \A q \in SigSlots \ {r.at} : IF q \in ST!Live(r.t) THEN Registry(ents[q])
                                         ELSE ents[q] = ET!NoTable
        BY <3>4, <3>6, <4>6 DEF Recorded
      <4>8. sigmask \cup {s} = {r.t.cells[q] : q \in ST!Live(r.t)}
        BY <3>4, <3>6 DEF Recorded
      <4>9. \A p, q \in ST!Live(r.t) : r.t.cells[p] = r.t.cells[q] => p = q
        BY <1>3, <1>6, <3>4, <3>6 DEF Recorded
      <4>10. Recorded(sigtab', entry', sigmask')
        <5>1. PICK mask : mask = sigmask \cup {s}
          OBVIOUS
        <5> QED
          BY <3>4, <4>3, <4>4, <4>5, <4>6, <4>7, <4>8, <4>9, <5>1, AddStep
      <4> QED
        BY <4>3, <4>10
    <3> QED
      BY <3>5, <3>6
  <2> QED
    BY <2>3, <2>4
<1> QED
  BY <1>5, <1>6

\* What an unregistration does: a handler's entry is taken out, and no other.
LEMMA UnregisterStep ==
  ASSUME Recorded(sigtab, entry, sigmask),
         NEW s \in Signals, NEW h \in Handlers, Unregister(s, h)
  PROVE  Recorded(sigtab', entry', sigmask') /\ sig' = sig
<1>1. PICK found : found = ST!Search(sigtab, s)
  OBVIOUS
<1>2. /\ STP!Sound(sigtab) /\ ST!Exists(sigtab) /\ entry \in [SigSlots -> ET!Table]
      /\ sig' = sig
  BY DEF Unregister, Recorded
<1>3. /\ STP!Sound(found.t) /\ ST!Exists(found.t) /\ found.t.cells = sigtab.cells
      /\ ST!Live(found.t) = ST!Live(sigtab)
      /\ IF found.at = ST!Null THEN \A p \in ST!Live(sigtab) : sigtab.cells[p] # s
         ELSE found.at \in ST!Live(sigtab) /\ sigtab.cells[found.at] = s
  BY <1>1, <1>2, SigSearch
<1>4. Recorded(found.t, entry, sigmask)
  BY <1>3, RecordedMoved
<1>5. CASE found.at = ST!Null
  BY <1>1, <1>2, <1>4, <1>5 DEF Unregister
<1>6. CASE found.at # ST!Null
  <2>1. PICK e : e = ET!Search(entry[found.at], h)
    OBVIOUS
  <2>2. PICK left : left = IF e.at = ET!Null THEN e.t ELSE ET!DelCurrent(e.t).t
    OBVIOUS
  <2>3. PICK ents : ents = [entry EXCEPT ![found.at] = left]
    OBVIOUS
  <2>4. IF e.at # ET!Null /\ ET!IsEmpty(left)
        THEN DropSignal(found.t, ents, sigmask, s)
        ELSE sigtab' = found.t /\ entry' = ents /\ UNCHANGED sigmask
    BY <1>1, <1>6, <2>1, <2>2, <2>3 DEF Unregister
  <2>5. /\ found.at \in ST!Live(found.t) /\ found.at \in SigSlots
        /\ Registry(entry[found.at]) /\ found.t.cells[found.at] = s
    BY <1>3, <1>4, <1>6, SigFacts DEF Recorded
  <2>6. ETP!Sound(left) /\ ET!Exists(left) /\ Distinct(left)
    BY <2>1, <2>2, <2>5, EntMoves, EntLeft DEF Registry
  <2>7. e.at = ET!Null => ET!Live(left) # {}
    BY <2>1, <2>2, <2>5, EntMoves DEF Registry
  <2>8. CASE e.at # ET!Null /\ ET!IsEmpty(left)
    <3>1. /\ ents \in [SigSlots -> ET!Table]
          /\ \A q \in SigSlots : ents[q] = IF q = found.at THEN left ELSE entry[q]
      BY <1>2, <2>3, <2>5, <2>6, EntryTables
    <3>2. \A q \in SigSlots :
            IF q \in ST!Live(found.t) THEN found.t.cells[q] # s => Registry(ents[q])
            ELSE ents[q] = ET!NoTable
      BY <1>4, <2>5, <3>1 DEF Recorded
    <3>3. /\ sigmask = {found.t.cells[q] : q \in ST!Live(found.t)}
          /\ \A p, q \in ST!Live(found.t) : found.t.cells[p] = found.t.cells[q] => p = q
          /\ \E q \in ST!Live(found.t) : found.t.cells[q] = s
      BY <1>4, <2>5 DEF Recorded
    <3>4. DropSignal(found.t, ents, sigmask, s)
      BY <2>4, <2>8
    <3>5. PICK mask : mask = sigmask
      OBVIOUS
    <3>6. Recorded(sigtab', entry', sigmask')
      BY <1>3, <3>1, <3>2, <3>3, <3>4, <3>5, DropStep
    <3> QED
      BY <1>2, <3>6
  <2>9. CASE ~(e.at # ET!Null /\ ET!IsEmpty(left))
    <3>1. ET!Live(left) # {}
      BY <2>6, <2>7, <2>9, EntFacts
    <3>2. Registry(left)
      BY <2>6, <3>1 DEF Registry
    <3> QED
      BY <1>2, <1>4, <2>3, <2>4, <2>5, <2>9, <3>2, RecordedAt
  <2> QED
    BY <2>8, <2>9
<1> QED
  BY <1>5, <1>6

\* The handling of a signal that is found starts: its last entry is looked at.
Starts(s) ==
  /\ signum' = s /\ sig' \in ST!Live(sigtab') /\ sig' \in SigSlots
  /\ sigtab'.cells[sig'] = s
  /\ LET e == entry'[sig'] IN
     /\ Registry(e) /\ \A q \in ET!Live(e) : q <= e.pos
     /\ running' = IF e.pos \in ET!Live(e) THEN e.cells[e.pos] ELSE Zero

\* A signal that is waited for is found, what is there after an interrupt may not.
LEMMA DeliverStep ==
  ASSUME Recorded(sigtab, entry, sigmask), HandleTypes,
         NEW s \in Signals, Deliver(s)
  PROVE  /\ Recorded(sigtab', entry', sigmask') /\ missed' = missed
         /\ ran' = {} /\ called' = FALSE /\ signum = Zero
         /\ Starts(s) \/ UNCHANGED <<entry, signum, sig, running>>
<1>1. PICK found : found = ST!Search(sigtab, s)
  OBVIOUS
<1>2. PICK last : last = ET!Last(entry[found.at])
  OBVIOUS
<1>3. ST!Exists(sigtab) /\ sigtab' = found.t /\ ran' = {} /\ called' = FALSE
      /\ sigmask' = sigmask /\ signum = Zero
  BY <1>1 DEF Deliver
<1>4. STP!Sound(sigtab) /\ entry \in [SigSlots -> ET!Table]
  BY DEF Recorded
<1>5. /\ STP!Sound(found.t) /\ ST!Exists(found.t) /\ found.t.cells = sigtab.cells
      /\ ST!Live(found.t) = ST!Live(sigtab)
      /\ IF found.at = ST!Null THEN \A p \in ST!Live(sigtab) : sigtab.cells[p] # s
         ELSE found.at \in ST!Live(sigtab) /\ sigtab.cells[found.at] = s
  BY <1>1, <1>3, <1>4, SigSearch
<1>50. CASE found.at = ST!Null
  <2>1. s \notin sigmask
    BY <1>5, <1>50 DEF Recorded
  <2>2. missed' = (missed \/ s \in sigmask) /\ UNCHANGED <<entry, signum, sig, running>>
    BY <1>1, <1>50, Zenon DEF Deliver
  <2>3. Recorded(found.t, entry, sigmask)
    BY <1>5, RecordedMoved
  <2>4. missed' = missed
    BY <2>1, <2>2 DEF HandleTypes
  <2> QED
    BY <1>3, <2>2, <2>3, <2>4
<1>6. SUFFICES ASSUME found.at # ST!Null
               PROVE  Recorded(sigtab', entry', sigmask') /\ missed' = missed /\ Starts(s)
  BY <1>3, <1>50
<1>7. /\ signum' = s /\ sig' = found.at /\ missed' = missed
      /\ entry' = [entry EXCEPT ![found.at] = last.t]
      /\ running' = last.t.cells[last.at]
  BY <1>1, <1>2, <1>6 DEF Deliver
<1>8. Recorded(found.t, entry, sigmask)
  BY <1>5, RecordedMoved
<1>9. /\ found.at \in SigSlots /\ Registry(entry[found.at])
      /\ found.at \in ST!Live(found.t)
  BY <1>5, <1>6, <1>8, SigFacts DEF Recorded
<1>10. /\ ETP!Sound(last.t) /\ ET!Exists(last.t) /\ last.t.cells = entry[found.at].cells
       /\ ET!Live(last.t) = ET!Live(entry[found.at]) /\ Distinct(last.t)
  BY <1>2, <1>9, EntMoves DEF Registry
<1>11. Registry(last.t)
  BY <1>9, <1>10 DEF Registry
<1>12. /\ last.at = last.t.pos /\ last.at \in DOMAIN last.t.cells
       /\ \A q \in ET!Live(last.t) : q <= last.t.pos
  <2>1. ETP!Sound(entry[found.at]) /\ ~ETP!IsEmpty(entry[found.at])
    BY <1>9, EntFacts, ETAgrees DEF Registry
  <2> QED
    BY <1>2, <1>10, <2>1, SignalAssumption, ETP!LastStands, ETAgrees
<1>13. last.at \notin ET!Live(last.t) => last.t.cells[last.at] = Zero
  BY <1>10, <1>12, EntFacts
<1>14. entry'[sig'] = last.t
  BY <1>4, <1>7, <1>9
<1>15. Recorded(sigtab', entry', sigmask')
  BY <1>3, <1>7, <1>8, <1>9, <1>11, RecordedAt
<1>16. /\ sig' \in ST!Live(sigtab') /\ sig' \in SigSlots /\ sigtab'.cells[sig'] = s
  BY <1>3, <1>5, <1>6, <1>7, <1>9
<1>17. /\ Registry(entry'[sig'])
       /\ \A q \in ET!Live(entry'[sig']) : q <= entry'[sig'].pos
  BY <1>11, <1>12, <1>14
<1>18. running' = IF last.t.pos \in ET!Live(last.t) THEN last.t.cells[last.t.pos] ELSE Zero
  BY <1>7, <1>12, <1>13
<1> QED
  BY <1>7, <1>14, <1>15, <1>16, <1>17, <1>18 DEF Starts

\* The step back in the table of the signal that is handled.
LEMMA BackStep ==
  ASSUME NEW e, Registry(e) \/ e = ET!NoTable, NEW prev, prev = Before(e)
  PROVE  /\ Registry(e) => /\ Registry(prev.t) /\ prev.t.cells = e.cells
                           /\ ET!Live(prev.t) = ET!Live(e)
         /\ e = ET!NoTable => prev.at = ET!Null /\ prev.t = e
         /\ prev.at # ET!Null => prev.t.cells[prev.at] \in Handlers
         /\ IF prev.at = ET!Null THEN \A q \in ET!Live(e) : ~(q < e.pos)
            ELSE /\ prev.at \in ET!Live(e) /\ prev.at < e.pos /\ prev.t.pos = prev.at
                 /\ \A q \in ET!Live(e) : q < e.pos => q <= prev.at
<1>1. CASE e = ET!NoTable
  <2>1. ET!IsEmpty(e) /\ ET!Live(e) = {}
    BY <1>1, EntMade, EntFacts
  <2> QED
    BY <1>1, <2>1, EntMade DEF Before, ET!PrevSlot, ET!Nowhere, Registry
<1>2. CASE Registry(e)
  <2>1. /\ ETP!Sound(e) /\ ETP!Sound(prev.t) /\ prev.t.cells = e.cells
        /\ ET!Live(prev.t) = ET!Live(e) /\ Registry(prev.t)
    BY <1>2, EntMoves DEF Registry, Before
  <2>2. IF prev.at = ET!Null THEN \A q \in ET!Live(e) : ~(q < e.pos)
        ELSE /\ prev.at \in ET!Live(e) /\ prev.at < e.pos /\ prev.t.pos = prev.at
             /\ \A q \in ET!Live(e) : q < e.pos => q <= prev.at
    BY <2>1, SignalAssumption, ETP!PrevSkipsNone, ETAgrees DEF Before
  <2>3. prev.at # ET!Null => prev.t.cells[prev.at] \in Handlers
    BY <2>1, <2>2, EntFacts
  <2>4. e # ET!NoTable
    BY <1>2, EntMade DEF Registry
  <2> QED
    BY <1>2, <2>1, <2>2, <2>3, <2>4
<1> QED
  BY <1>1, <1>2

\* A turn of the loop in handle_signal.
LEMMA HandlerStep ==
  ASSUME Recorded(sigtab, entry, sigmask), HandleTypes, NextHandler
  PROVE  /\ Recorded(sigtab', entry', sigmask')
         /\ sig \in SigSlots /\ sigtab' = sigtab
         /\ ran' = IF running = Zero THEN ran ELSE ran \cup {running}
         /\ Registry(entry[sig]) \/ entry[sig] = ET!NoTable
         /\ LET prev == Before(entry[sig]) IN
            /\ entry'[sig] = prev.t
            /\ Runs(prev.t, prev.at)
<1>1. PICK prev : prev = Before(entry[sig])
  OBVIOUS
<1>2. /\ sig \in SigSlots /\ entry \in [SigSlots -> ET!Table]
      /\ Registry(entry[sig]) \/ entry[sig] = ET!NoTable
  BY DEF NextHandler, HandleTypes, Recorded
<1>3. /\ entry' = [entry EXCEPT ![sig] = prev.t] /\ Runs(prev.t, prev.at)
      /\ sigtab' = sigtab /\ sigmask' = sigmask
      /\ ran' = IF running = Zero THEN ran ELSE ran \cup {running}
  BY <1>1 DEF NextHandler
<1>4. Recorded(sigtab', entry', sigmask')
  <2>1. CASE sig \in ST!Live(sigtab)
    <3>1. Registry(prev.t)
      BY <1>1, <1>2, <2>1, BackStep DEF Recorded
    <3> QED
      BY <1>3, <2>1, <3>1, RecordedAt
  <2>2. CASE sig \notin ST!Live(sigtab)
    <3>1. entry[sig] = ET!NoTable /\ prev.t = entry[sig]
      BY <1>1, <1>2, <2>2, BackStep DEF Recorded
    <3>2. entry' = entry
      BY <1>2, <1>3, <3>1
    <3> QED
      BY <1>3, <3>2
  <2> QED
    BY <2>1, <2>2
<1> QED
  BY <1>1, <1>2, <1>3, <1>4

----------------------------------------------------------------------------
(* The tables, the mask and the handling stay in step.                     *)

LEMMA NothingRecorded ==
  ASSUME NEW t, STP!Sound(t), ST!Live(t) = {},
         NEW ents, ents = [p \in SigSlots |-> ET!NoTable]
  PROVE  Recorded(t, ents, {})
<1>1. ents \in [SigSlots -> ET!Table] /\ \A p \in SigSlots : ents[p] = ET!NoTable
  BY EntryTables
<1> QED
  BY <1>1 DEF Recorded

LEMMA SigInit == Init => SigInv
<1> SUFFICES ASSUME Init PROVE SigInv
  OBVIOUS
<1>1. Recorded(sigtab, entry, sigmask)
  BY SigMade, NothingRecorded DEF Init
<1>2. HandleTypes
  <2>1. called \in BOOLEAN /\ missed = FALSE
    BY DEF Init
  <2>2. 0 \in 0..Deliveries
    BY SignalAssumption
  <2> QED
    BY <2>1, <2>2 DEF Init, HandleTypes
<1> QED
  BY <1>1, <1>2 DEF SigInv

\* Without a registration after the last unregistration.
LEMMA SigStep == ~PushesEmptied /\ SigInv /\ [Next]_vars => SigInv'
<1> SUFFICES ASSUME ~PushesEmptied, SigInv, [Next]_vars PROVE SigInv'
  OBVIOUS
<1>1. Recorded(sigtab, entry, sigmask) /\ HandleTypes
  BY DEF SigInv
<1>2. CASE SignalInit
  <2>1. /\ sigtab' = ST!Created(SigTabSize, {}) /\ sigmask' = {} /\ entry' = entry
        /\ HandleTypes'
    BY <1>1, <1>2 DEF SignalInit, HandleTypes, handleVars
  <2>2. ST!Live(sigtab) = {}
    BY <1>1, <1>2, SigFacts DEF SignalInit, Recorded
  <2>3. \A p \in SigSlots : entry[p] = ET!NoTable
    BY <1>1, <2>2 DEF Recorded
  <2>4. Recorded(sigtab', entry', sigmask')
    BY <1>1, <2>1, <2>3, SigMade DEF Recorded
  <2> QED
    BY <2>1, <2>4 DEF SigInv
<1>3. CASE SignalFini
  <2>1. /\ ST!Exists(sigtab) /\ sigtab' = ST!Destroy(sigtab).t /\ sigmask' = {}
        /\ entry' = [p \in SigSlots |-> ET!NoTable]
        /\ HandleTypes'
    BY <1>1, <1>3 DEF SignalFini, HandleTypes, handleVars
  <2>2. sigtab.head = "live"
    BY <1>1, <2>1, STAgrees DEF Recorded, STP!Sound, STP!Good, STP!Bounds
  <2>3. sigtab' = ST!NoTable
    BY <2>1, <2>2 DEF ST!Destroy, ST!Done
  <2>4. Recorded(sigtab', entry', sigmask')
    BY <2>1, <2>3, SigMade, NothingRecorded
  <2> QED
    BY <2>1, <2>4 DEF SigInv
<1>4. CASE CallRegister
  <2>1. PICK s \in Signals, h \in Handlers : Register(s, h)
    BY <1>4 DEF CallRegister
  <2>2. Recorded(sigtab', entry', sigmask') /\ sig' \in {sig, Dangling}
    BY <1>1, <2>1, RegisterStep
  <2>3. HandleTypes'
    BY <1>1, <1>4, <2>2 DEF CallRegister, HandleTypes
  <2> QED
    BY <2>2, <2>3 DEF SigInv
<1>5. CASE CallUnregister
  <2>1. PICK s \in Signals, h \in Handlers : Unregister(s, h)
    BY <1>5 DEF CallUnregister
  <2>2. Recorded(sigtab', entry', sigmask') /\ sig' = sig
    BY <1>1, <2>1, UnregisterStep
  <2>3. HandleTypes'
    BY <1>1, <1>5, <2>2 DEF CallUnregister, HandleTypes
  <2> QED
    BY <2>2, <2>3 DEF SigInv
<1>6. ASSUME NEW s \in Signals, Deliver(s)
      PROVE  SigInv'
  <2>1. /\ Recorded(sigtab', entry', sigmask') /\ missed' = missed
        /\ ran' = {} /\ called' = FALSE /\ signum = Zero
        /\ Starts(s) \/ UNCHANGED <<entry, signum, sig, running>>
    BY <1>1, <1>6, DeliverStep
  <2>2. /\ running' \in Handlers \cup {Zero} /\ signum' \in Signals \cup {Zero}
        /\ sig' \in SigSlots \cup {Dangling}
        /\ signum' = Zero => sig' = Dangling /\ running' = Zero
    <3>1. CASE Starts(s)
      BY <3>1, EntFacts, SignalAssumption DEF Registry, Starts
    <3>2. CASE UNCHANGED <<entry, signum, sig, running>>
      BY <1>1, <3>2 DEF HandleTypes
    <3> QED
      BY <2>1, <3>1, <3>2
  <2>3. delivered' \in 0..Deliveries
    BY <1>1, <1>6, SignalAssumption DEF Deliver, HandleTypes
  <2>4. HandleTypes'
    BY <1>1, <2>1, <2>2, <2>3, SignalAssumption DEF HandleTypes
  <2> QED
    BY <2>1, <2>4 DEF SigInv
<1>7. CASE NextHandler
  <2>1. PICK prev : prev = Before(entry[sig])
    OBVIOUS
  <2>2. /\ Recorded(sigtab', entry', sigmask') /\ sig \in SigSlots
        /\ ran' = IF running = Zero THEN ran ELSE ran \cup {running}
        /\ Registry(entry[sig]) \/ entry[sig] = ET!NoTable
        /\ Runs(prev.t, prev.at)
    BY <1>1, <1>7, <2>1, HandlerStep
  <2>3. prev.at # ET!Null => prev.t.cells[prev.at] \in Handlers
    BY <2>1, <2>2, BackStep
  <2>4. HandleTypes'
    BY <1>1, <1>7, <2>2, <2>3 DEF NextHandler, HandleTypes, Runs
  <2> QED
    BY <2>2, <2>4 DEF SigInv
<1>8. CASE UNCHANGED vars
  BY <1>1, <1>8 DEF SigInv, HandleTypes, Recorded, vars, tabVars, handleVars
<1> QED
  BY <1>2, <1>3, <1>4, <1>5, <1>6, <1>7, <1>8 DEF Next

\* What the signal tables are like as long as no signal is registered after the
\* last one was unregistered.
LEMMA SigInvariant == ~PushesEmptied /\ Spec => []SigInv
<1> SUFFICES ASSUME ~PushesEmptied PROVE Spec => []SigInv
  OBVIOUS
<1>1. SigInv /\ [Next]_vars => SigInv'
  BY SigStep
<1> QED
  BY <1>1, SigInit, PTL DEF Spec

\* The tables, the mask and what is known of the signal that is handled have
\* their types.
THEOREM SignalTypes == ~PushesEmptied /\ Spec => []TypeOK
<1>1. SigInv => TypeOK
  <2> SUFFICES ASSUME SigInv PROVE TypeOK
    OBVIOUS
  <2>1. sigtab \in ST!Table /\ entry \in [SigSlots -> ET!Table]
    BY SigFacts DEF SigInv, Recorded
  <2>2. sigmask \subseteq Signals
    BY SigFacts DEF SigInv, Recorded
  <2>3. missed \in BOOLEAN
    BY DEF SigInv, HandleTypes
  <2> QED
    BY <2>1, <2>2, <2>3 DEF SigInv, HandleTypes, TypeOK
<1> QED
  BY <1>1, SigInvariant, PTL

\* A signal is waited for when, and only when, it is registered; it then has
\* one chunk in l_sigtab, and a handler in it.
THEOREM WaitedForIsRegistered == ~PushesEmptied /\ Spec => []MaskIsRegistered
<1>1. SigInv => MaskIsRegistered
  <2> SUFFICES ASSUME SigInv, NEW p \in ST!Live(sigtab) PROVE HandlersIn(entry[p]) # {}
    BY DEF MaskIsRegistered, SigInv, Recorded
  <2>1. ET!Live(entry[p]) # {}
    BY SigFacts DEF SigInv, Recorded, Registry
  <2> QED
    BY <2>1 DEF HandlersIn
<1> QED
  BY <1>1, SigInvariant, PTL

\* register_signal and unregister_signal lose no table of handlers: there is
\* one only where there is a signal, when a signal is refused, when its table
\* takes no handler and when it loses its last one.
THEOREM TablesAreKept == ~PushesEmptied /\ Spec => []NoTableLost
<1>1. SigInv => NoTableLost
  BY EntMade DEF SigInv, Recorded, NoTableLost
<1> QED
  BY <1>1, SigInvariant, PTL

\* A handler is in the table of a signal once, whatever the handlers that run
\* register and unregister.
THEOREM RegisteredOnce == ~PushesEmptied /\ Spec => []HandlerOnce
<1>1. SigInv => HandlerOnce
  BY SigFacts DEF SigInv, Recorded, HandlerOnce, Registry, Distinct
<1> QED
  BY <1>1, SigInvariant, PTL

\* What signal.c:97 reports cannot be: it takes the one case that is excluded.
THEOREM WaitedForIsFound == ~PushesEmptied /\ Spec => []HandledIsRegistered
<1>1. SigInv => HandledIsRegistered
  BY DEF SigInv, HandleTypes, HandledIsRegistered
<1> QED
  BY <1>1, SigInvariant, PTL

----------------------------------------------------------------------------
(* The handlers of a signal.                                               *)

\* Until a handler calls back: those after the cursor have run, and the one it
\* is at runs.
RunInv ==
  signum # Zero /\ ~called =>
    LET e == entry[sig] IN
    /\ Registry(e)
    /\ running = IF e.pos \in ET!Live(e) THEN e.cells[e.pos] ELSE Zero
    /\ ran = {e.cells[q] : q \in {x \in ET!Live(e) : x > e.pos}}

\* A turn of the loop while no handler has called back.
LEMMA TurnRuns ==
  ASSUME Recorded(sigtab, entry, sigmask), HandleTypes, RunInv, ~called, NextHandler
  PROVE  /\ signum' = Zero => ran' = HandlersIn(entry[sig])
         /\ RunInv'
<1>1. PICK e : e = entry[sig]
  OBVIOUS
<1>2. PICK prev : prev = Before(e)
  OBVIOUS
<1>3. /\ sig \in SigSlots /\ ran' = IF running = Zero THEN ran ELSE ran \cup {running}
      /\ entry'[sig] = prev.t /\ Runs(prev.t, prev.at)
  BY <1>1, <1>2, HandlerStep
<1>4. /\ Registry(e) /\ running = IF e.pos \in ET!Live(e) THEN e.cells[e.pos] ELSE Zero
      /\ ran = {e.cells[q] : q \in {x \in ET!Live(e) : x > e.pos}}
  BY <1>1 DEF RunInv, NextHandler
<1>5. /\ Registry(prev.t) /\ prev.t.cells = e.cells /\ ET!Live(prev.t) = ET!Live(e)
      /\ IF prev.at = ET!Null THEN \A q \in ET!Live(e) : ~(q < e.pos)
         ELSE /\ prev.at \in ET!Live(e) /\ prev.at < e.pos /\ prev.t.pos = prev.at
              /\ \A q \in ET!Live(e) : q < e.pos => q <= prev.at
  BY <1>2, <1>4, BackStep
<1>6. /\ ET!Live(e) \subseteq Nat /\ e.pos \in Nat
      /\ \A q \in ET!Live(e) : e.cells[q] # Zero
  BY <1>4, EntFacts, SignalAssumption DEF Registry, ET!Table
<1>7. ran' = {e.cells[q] : q \in {x \in ET!Live(e) : x >= e.pos}}
  <2>1. CASE e.pos \in ET!Live(e)
    <3>1. {x \in ET!Live(e) : x >= e.pos} = {x \in ET!Live(e) : x > e.pos} \cup {e.pos}
      BY <1>6, <2>1
    <3>2. ran' = ran \cup {e.cells[e.pos]}
      BY <1>3, <1>4, <1>6, <2>1
    <3> QED
      BY <1>4, <3>1, <3>2
  <2>2. CASE e.pos \notin ET!Live(e)
    <3>1. {x \in ET!Live(e) : x >= e.pos} = {x \in ET!Live(e) : x > e.pos}
      BY <1>6, <2>2
    <3> QED
      BY <1>3, <1>4, <2>2, <3>1
  <2> QED
    BY <2>1, <2>2
<1>8. CASE prev.at = ET!Null
  <2>1. signum' = Zero
    BY <1>3, <1>8 DEF Runs
  <2>2. {x \in ET!Live(e) : x >= e.pos} = ET!Live(e)
    BY <1>5, <1>6, <1>8
  <2> QED
    BY <1>1, <1>7, <2>1, <2>2 DEF HandlersIn, RunInv
<1>9. CASE prev.at # ET!Null
  <2>1. signum' = signum /\ sig' = sig /\ running' = prev.t.cells[prev.at]
        /\ called' = called
    BY <1>3, <1>9 DEF Runs, NextHandler
  <2>2. {x \in ET!Live(e) : x >= e.pos} = {x \in ET!Live(prev.t) : x > prev.t.pos}
    BY <1>5, <1>6, <1>9
  <2>3. ran' = {prev.t.cells[q] : q \in {x \in ET!Live(prev.t) : x > prev.t.pos}}
    BY <1>5, <1>7, <2>2
  <2>4. running' = IF prev.t.pos \in ET!Live(prev.t) THEN prev.t.cells[prev.t.pos]
                   ELSE Zero
    BY <1>5, <1>9, <2>1
  <2>5. entry'[sig'] = prev.t
    BY <1>3, <2>1
  <2>6. signum # Zero
    BY DEF NextHandler
  <2> QED
    BY <1>5, <2>1, <2>3, <2>4, <2>5, <2>6 DEF RunInv
<1> QED
  BY <1>8, <1>9

LEMMA RunStep == SigInv /\ RunInv /\ [Next]_vars => RunInv'
<1> SUFFICES ASSUME SigInv, RunInv, [Next]_vars PROVE RunInv'
  OBVIOUS
<1>1. Recorded(sigtab, entry, sigmask) /\ HandleTypes
  BY DEF SigInv
<1>2. CASE SignalInit \/ UNCHANGED vars
  BY <1>2 DEF RunInv, SignalInit, vars, tabVars, handleVars
<1>3. CASE SignalFini
  BY <1>3 DEF RunInv, SignalFini, handleVars
<1>4. CASE CallRegister \/ CallUnregister
  BY <1>4 DEF RunInv, CallRegister, CallUnregister
<1>5. ASSUME NEW s \in Signals, Deliver(s)
      PROVE  RunInv'
  <2>1. PICK e : e = entry'[sig']
    OBVIOUS
  <2>0. CASE ~Starts(s)
    <3>1. signum' = Zero
      BY <1>1, <1>5, <2>0, DeliverStep
    <3> QED
      BY <3>1 DEF RunInv
  <2> SUFFICES ASSUME Starts(s) PROVE RunInv'
    BY <2>0
  <2>2. /\ ran' = {} /\ Registry(e) /\ \A q \in ET!Live(e) : q <= e.pos
        /\ running' = IF e.pos \in ET!Live(e) THEN e.cells[e.pos] ELSE Zero
    BY <1>1, <1>5, <2>1, DeliverStep DEF Starts
  <2>3. ET!Live(e) \subseteq Nat /\ e.pos \in Nat
    BY <2>2, EntFacts DEF Registry, ET!Table
  <2>4. {x \in ET!Live(e) : x > e.pos} = {}
    BY <2>2, <2>3
  <2> QED
    BY <2>1, <2>2, <2>4 DEF RunInv
<1>6. CASE NextHandler
  <2>1. CASE called
    BY <1>6, <2>1 DEF NextHandler, RunInv
  <2>2. CASE ~called
    BY <1>1, <1>6, <2>2, TurnRuns
  <2> QED
    BY <2>1, <2>2
<1> QED
  BY <1>2, <1>3, <1>4, <1>5, <1>6 DEF Next

\* The loop of handle_signal runs every handler of the signal, whatever holes
\* and cursor earlier calls have left in its table, when no handler calls back.
THEOREM EveryHandlerRuns == ~PushesEmptied /\ Spec => AllHandlersRun
<1> SUFFICES ASSUME ~PushesEmptied PROVE Spec => AllHandlersRun
  OBVIOUS
<1>1. Init => RunInv
  BY DEF Init, RunInv
<1>2. SigInv /\ RunInv /\ [Next]_vars =>
        [signum # Zero /\ signum' = Zero /\ ~called => ran' = HandlersIn(entry[sig])]_vars
  <2> SUFFICES ASSUME SigInv, RunInv, Next, signum # Zero, signum' = Zero, ~called
               PROVE  ran' = HandlersIn(entry[sig])
    OBVIOUS
  <2>1. NextHandler
    BY SignalAssumption DEF Next, SignalInit, SignalFini, CallRegister, CallUnregister,
       Deliver, handleVars
  <2> QED
    BY <2>1, TurnRuns DEF SigInv
<1> QED
  BY <1>1, <1>2, RunStep, SigInvariant, PTL DEF Spec, AllHandlersRun

\* A handler leaves the signal that is handled: the cursor of its table is not
\* moved past where the handler was.
LEMMA LeaveStep ==
  ASSUME Recorded(sigtab, entry, sigmask), NEW s \in Signals, NEW h \in Handlers,
         Unregister(s, h), NEW p \in ST!Live(sigtab), sigtab.cells[p] = s,
         h \in HandlersIn(entry[p])
  PROVE  \/ entry'[p] = ET!NoTable
         \/ /\ p \in ST!Live(sigtab') /\ sigtab'.cells[p] = s /\ Registry(entry'[p])
            /\ \E at \in ET!Live(entry[p]) :
                 /\ entry[p].cells[at] = h
                 /\ ET!Live(entry'[p]) = ET!Live(entry[p]) \ {at}
                 /\ entry'[p].pos <= at /\ entry'[p].pos \in Nat
                 /\ \A q \in ET!Live(entry'[p]) : entry'[p].cells[q] = entry[p].cells[q]
<1>1. PICK found : found = ST!Search(sigtab, s)
  OBVIOUS
<1>2. STP!Sound(sigtab) /\ ST!Exists(sigtab) /\ entry \in [SigSlots -> ET!Table]
  BY DEF Unregister, Recorded
<1>3. /\ STP!Sound(found.t) /\ ST!Exists(found.t) /\ found.t.cells = sigtab.cells
      /\ ST!Live(found.t) = ST!Live(sigtab)
      /\ IF found.at = ST!Null THEN \A q \in ST!Live(sigtab) : sigtab.cells[q] # s
         ELSE found.at \in ST!Live(sigtab) /\ sigtab.cells[found.at] = s
  BY <1>1, <1>2, SigSearch
<1>4. found.at # ST!Null /\ found.at = p
  BY <1>3 DEF Recorded
<1>5. p \in SigSlots /\ Registry(entry[p])
  BY <1>2, SigFacts DEF Recorded
<1>6. PICK e : e = ET!Search(entry[p], h)
  OBVIOUS
<1>7. e.at # ET!Null /\ e.at \in ET!Live(entry[p]) /\ entry[p].cells[e.at] = h
  BY <1>5, <1>6, EntSearch DEF HandlersIn, Registry
<1>8. PICK left : left = ET!DelCurrent(e.t).t
  OBVIOUS
<1>9. /\ ETP!Sound(left) /\ ET!Exists(left) /\ Distinct(left)
      /\ ET!Live(left) = ET!Live(entry[p]) \ {e.at}
      /\ left.pos <= e.at /\ left.pos \in Nat
      /\ \A q \in ET!Live(left) : left.cells[q] = entry[p].cells[q]
  BY <1>5, <1>6, <1>7, <1>8, EntLeft DEF Registry
<1>10. PICK ents : ents = [entry EXCEPT ![p] = left]
  OBVIOUS
<1>11. /\ ents \in [SigSlots -> ET!Table]
       /\ \A q \in SigSlots : ents[q] = IF q = p THEN left ELSE entry[q]
  BY <1>2, <1>5, <1>9, <1>10, EntryTables
<1>12. IF ET!IsEmpty(left) THEN DropSignal(found.t, ents, sigmask, s)
       ELSE sigtab' = found.t /\ entry' = ents
  BY <1>1, <1>4, <1>6, <1>7, <1>8, <1>10 DEF Unregister
<1>13. CASE ET!IsEmpty(left)
  <2>1. \A q \in SigSlots :
          IF q \in ST!Live(found.t) THEN found.t.cells[q] # s => Registry(ents[q])
          ELSE ents[q] = ET!NoTable
    BY <1>3, <1>11 DEF Recorded
  <2>2. /\ Recorded(sigtab', entry', sigmask')
        /\ ST!Live(sigtab') = {q \in ST!Live(found.t) : found.t.cells[q] # s}
    BY <1>3, <1>11, <1>12, <1>13, <2>1, DropStep DEF Recorded
  <2>3. p \notin ST!Live(sigtab')
    BY <1>3, <2>2
  <2> QED
    BY <1>5, <2>2, <2>3 DEF Recorded
<1>14. CASE ~ET!IsEmpty(left)
  <2>1. sigtab' = found.t /\ entry'[p] = left
    BY <1>5, <1>11, <1>12, <1>14
  <2>2. Registry(left)
    BY <1>9, <1>14, EntFacts DEF Registry
  <2> QED
    BY <1>3, <1>7, <1>9, <2>1, <2>2
<1> QED
  BY <1>13, <1>14

\* While handlers unregister no other than themselves: the handler that runs
\* is where the cursor is, or has left, and those before it have not run.
StartInv ==
  signum # Zero =>
    LET e == entry[sig] IN
    \/ e = ET!NoTable
    \/ /\ sig \in ST!Live(sigtab) /\ sigtab.cells[sig] = signum /\ Registry(e)
       /\ running \in HandlersIn(e) =>
            e.pos \in ET!Live(e) /\ e.cells[e.pos] = running
       /\ \A q \in ET!Live(e) : q < e.pos => e.cells[q] \notin ran \cup {running}

\* A turn of the loop while handlers leave.
LEMMA TurnStarts ==
  ASSUME Recorded(sigtab, entry, sigmask), HandleTypes, StartInv, NextHandler
  PROVE  /\ StartInv'
         /\ running' # Zero => /\ sigtab'.cells[sig'] = signum'
                               /\ running' \in HandlersIn(entry'[sig'])
                               /\ running' \notin ran'
<1>1. PICK e : e = entry[sig]
  OBVIOUS
<1>2. PICK prev : prev = Before(e)
  OBVIOUS
<1>3. /\ sig \in SigSlots /\ ran' = IF running = Zero THEN ran ELSE ran \cup {running}
      /\ entry'[sig] = prev.t /\ Runs(prev.t, prev.at) /\ sigtab' = sigtab
      /\ Registry(e) \/ e = ET!NoTable
  BY <1>1, <1>2, HandlerStep
<1>4. CASE prev.at = ET!Null
  BY <1>3, <1>4 DEF Runs, StartInv
<1>5. CASE prev.at # ET!Null
  <2>1. e # ET!NoTable
    BY <1>2, <1>5, BackStep
  <2>2. /\ Registry(e) /\ sig \in ST!Live(sigtab) /\ sigtab.cells[sig] = signum
        /\ \A q \in ET!Live(e) : q < e.pos => e.cells[q] \notin ran \cup {running}
    BY <1>1, <1>3, <2>1 DEF StartInv, NextHandler
  <2>3. /\ Registry(prev.t) /\ prev.t.cells = e.cells /\ ET!Live(prev.t) = ET!Live(e)
        /\ prev.at \in ET!Live(e) /\ prev.at < e.pos /\ prev.t.pos = prev.at
    BY <1>2, <1>5, <2>2, BackStep
  <2>4. signum' = signum /\ sig' = sig /\ running' = e.cells[prev.at]
    BY <1>3, <1>5, <2>3 DEF Runs
  <2>5. running' \notin ran'
    BY <1>3, <2>2, <2>3, <2>4
  <2>6. running' \in HandlersIn(prev.t)
    BY <2>3, <2>4 DEF HandlersIn
  <2>7. \A q \in ET!Live(prev.t) :
          q < prev.t.pos => prev.t.cells[q] \notin ran' \cup {running'}
    <3> SUFFICES ASSUME NEW q \in ET!Live(e), q < prev.at
                 PROVE  e.cells[q] \notin ran' /\ e.cells[q] # running'
      BY <2>3
    <3>1. q \in Nat /\ prev.at \in Nat /\ e.pos \in Nat
      BY <2>2, <2>3, EntFacts DEF Registry, ET!Table
    <3>2. q < e.pos /\ q # prev.at
      BY <2>3, <3>1
    <3> QED
      BY <1>3, <2>2, <2>3, <2>4, <3>2 DEF Registry, Distinct
  <2> QED
    BY <1>3, <2>2, <2>3, <2>4, <2>5, <2>6, <2>7 DEF StartInv
<1> QED
  BY <1>4, <1>5

LEMMA DeliverStarts ==
  ASSUME Recorded(sigtab, entry, sigmask), HandleTypes, NEW s \in Signals, Deliver(s)
  PROVE  /\ StartInv'
         /\ running' # Zero => /\ sigtab'.cells[sig'] = signum'
                               /\ running' \in HandlersIn(entry'[sig'])
                               /\ running' \notin ran'
<1>0. CASE ~Starts(s)
  <2>1. signum' = Zero /\ running' = Zero
    BY <1>0, DeliverStep DEF HandleTypes
  <2> QED
    BY <2>1 DEF StartInv
<1> SUFFICES ASSUME Starts(s)
             PROVE  /\ StartInv'
                    /\ running' # Zero => /\ sigtab'.cells[sig'] = signum'
                                          /\ running' \in HandlersIn(entry'[sig'])
                                          /\ running' \notin ran'
  BY <1>0
<1>1. PICK e : e = entry'[sig']
  OBVIOUS
<1>2. /\ signum' = s /\ ran' = {} /\ sig' \in ST!Live(sigtab') /\ sigtab'.cells[sig'] = s
      /\ Registry(e) /\ \A q \in ET!Live(e) : q <= e.pos
      /\ running' = IF e.pos \in ET!Live(e) THEN e.cells[e.pos] ELSE Zero
  BY <1>1, DeliverStep DEF Starts
<1>3. /\ ET!Live(e) \subseteq Nat /\ e.pos \in Nat
      /\ \A q \in ET!Live(e) : e.cells[q] # Zero
  BY <1>2, EntFacts, SignalAssumption DEF Registry, ET!Table
<1>4. running' \in HandlersIn(e) => e.pos \in ET!Live(e)
  BY <1>2, <1>3 DEF HandlersIn
<1>5. \A q \in ET!Live(e) : q < e.pos => e.cells[q] # running'
  <2> SUFFICES ASSUME NEW q \in ET!Live(e), q < e.pos PROVE e.cells[q] # running'
    OBVIOUS
  <2>1. q # e.pos
    BY <1>3
  <2> QED
    BY <1>2, <1>3, <2>1 DEF Registry, Distinct
<1>6. StartInv'
  BY <1>1, <1>2, <1>4, <1>5 DEF StartInv
<1>7. running' # Zero => running' \in HandlersIn(e)
  BY <1>2 DEF HandlersIn
<1> QED
  BY <1>1, <1>2, <1>6, <1>7

LEMMA StartStep ==
  HandlerOps \subseteq {"leave"} /\ SigInv /\ StartInv /\ [Next]_vars => StartInv'
<1> SUFFICES ASSUME HandlerOps \subseteq {"leave"}, SigInv, StartInv, [Next]_vars
             PROVE  StartInv'
  OBVIOUS
<1>1. Recorded(sigtab, entry, sigmask) /\ HandleTypes
  BY DEF SigInv
<1>2. CASE SignalInit
  <2>1. entry' = entry /\ signum' = signum /\ sig' = sig
    BY <1>2 DEF SignalInit, handleVars
  <2>2. ST!Live(sigtab) = {}
    BY <1>1, <1>2, SigFacts DEF SignalInit, Recorded
  <2> QED
    BY <2>1, <2>2 DEF StartInv
<1>3. CASE SignalFini
  BY <1>3 DEF StartInv, SignalFini, handleVars
<1>4. CASE CallRegister
  <2>1. signum = Zero /\ signum' = signum
    BY <1>4 DEF CallRegister, MayRegister
  <2> QED
    BY <2>1 DEF StartInv
<1>5. CASE CallUnregister
  <2>1. PICK s \in Signals, h \in Handlers : MayUnregister(s, h) /\ Unregister(s, h)
    BY <1>5 DEF CallUnregister
  <2>2. signum' = signum /\ running' = running /\ ran' = ran /\ sig' = sig
    BY <1>5, <2>1 DEF CallUnregister, Unregister
  <2>3. CASE signum = Zero
    BY <2>2, <2>3 DEF StartInv
  <2>4. CASE signum # Zero
    <3>1. running = h /\ signum = s /\ h \in HandlersIn(entry[sig])
      BY <2>1, <2>4 DEF MayUnregister
    <3>2. PICK e : e = entry[sig]
      OBVIOUS
    <3>3. e # ET!NoTable
      BY <3>1, <3>2, EntMade DEF HandlersIn
    <3>4. /\ sig \in ST!Live(sigtab) /\ sigtab.cells[sig] = s /\ Registry(e)
          /\ e.pos \in ET!Live(e) /\ e.cells[e.pos] = h
          /\ \A q \in ET!Live(e) : q < e.pos => e.cells[q] \notin ran \cup {running}
      BY <2>4, <3>1, <3>2, <3>3 DEF StartInv
    <3>5. CASE entry'[sig] = ET!NoTable
      BY <2>2, <3>5 DEF StartInv
    <3>6. CASE entry'[sig] # ET!NoTable
      <4>1. PICK u : u = entry'[sig]
        OBVIOUS
      <4>2. /\ sig \in ST!Live(sigtab') /\ sigtab'.cells[sig] = s /\ Registry(u)
            /\ \E at \in ET!Live(e) :
                 /\ e.cells[at] = h /\ ET!Live(u) = ET!Live(e) \ {at}
                 /\ u.pos <= at /\ u.pos \in Nat
                 /\ \A q \in ET!Live(u) : u.cells[q] = e.cells[q]
        BY <1>1, <2>1, <3>1, <3>2, <3>4, <3>6, <4>1, LeaveStep
      <4>3. /\ ET!Live(u) = ET!Live(e) \ {e.pos} /\ u.pos <= e.pos /\ u.pos \in Nat
            /\ \A q \in ET!Live(u) : u.cells[q] = e.cells[q]
        BY <3>4, <4>2 DEF Registry, Distinct
      <4>4. running \notin HandlersIn(u)
        BY <3>1, <3>4, <4>3 DEF HandlersIn, Registry, Distinct
      <4>5. \A q \in ET!Live(u) : q < u.pos => u.cells[q] \notin ran \cup {running}
        <5> SUFFICES ASSUME NEW q \in ET!Live(u), q < u.pos
                     PROVE  e.cells[q] \notin ran \cup {running}
          BY <4>3
        <5>1. q \in Nat /\ e.pos \in Nat /\ q \in ET!Live(e)
          BY <3>4, <4>3, EntFacts DEF Registry, ET!Table
        <5>2. q < e.pos
          BY <4>3, <5>1
        <5> QED
          BY <3>4, <5>1, <5>2
      <4> QED
        BY <2>2, <3>1, <4>1, <4>2, <4>4, <4>5 DEF StartInv
    <3> QED
      BY <3>5, <3>6
  <2> QED
    BY <2>3, <2>4
<1>6. ASSUME NEW s \in Signals, Deliver(s)
      PROVE  StartInv'
  BY <1>1, <1>6, DeliverStarts
<1>7. CASE NextHandler
  BY <1>1, <1>7, TurnStarts
<1>8. CASE UNCHANGED vars
  BY <1>8 DEF StartInv, vars, tabVars, handleVars
<1> QED
  BY <1>2, <1>3, <1>4, <1>5, <1>6, <1>7, <1>8 DEF Next

\* A handler that unregisters itself, even the last one, with which its signal
\* goes, makes the loop of handle_signal neither start one that is registered
\* no more nor one that it has started before.
THEOREM LeavingIsSafe ==
  ~PushesEmptied /\ HandlerOps \subseteq {"leave"} /\ Spec => StartsRegistered
<1> SUFFICES ASSUME ~PushesEmptied, HandlerOps \subseteq {"leave"}
             PROVE  Spec => StartsRegistered
  OBVIOUS
<1>1. Init => StartInv
  BY DEF Init, StartInv
<1>2. SigInv /\ StartInv /\ [Next]_vars =>
        [running' # Zero /\ (running = Zero \/ ran' # ran) =>
           /\ sigtab'.cells[sig'] = signum'
           /\ running' \in HandlersIn(entry'[sig']) /\ running' \notin ran']_vars
  <2> SUFFICES ASSUME SigInv, StartInv, Next, running' # Zero,
                      running = Zero \/ ran' # ran
               PROVE  /\ sigtab'.cells[sig'] = signum'
                      /\ running' \in HandlersIn(entry'[sig']) /\ running' \notin ran'
    OBVIOUS
  <2>1. NextHandler \/ \E s \in Signals : Deliver(s)
    BY DEF Next, SignalInit, SignalFini, CallRegister, CallUnregister, handleVars
  <2> QED
    BY <2>1, DeliverStarts, TurnStarts DEF SigInv
<1>3. SigInv /\ StartInv /\ [Next]_vars => StartInv'
  BY StartStep
<1> QED
  BY <1>1, <1>2, <1>3, SigInvariant, PTL DEF Spec, StartsRegistered
=============================================================================
