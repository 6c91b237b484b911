-------------------------- MODULE RattTableProofs --------------------------
(***************************************************************************)
(* What holds of a table and its owner after any sequence of calls, and that*)
(* a table is the store of numbered slots that its users take it for.      *)
(***************************************************************************)
EXTENDS RattTable, TableOpsProofs

----------------------------------------------------------------------------
(* Every step keeps the shape.                                             *)

ShapeInv ==
  /\ Shape(tab)
  /\ ret \in [op : Op, ok : BOOLEAN, at : Nat \cup {Null},
              arg : Chunks \cup {Zero}]

LEMMA MovesReturn ==
  ASSUME NEW op \in Op, NEW arg \in Chunks \cup {Zero}, NEW r,
         Shape(r.t), r.at \in Nat \cup {Null}, Moves(op, arg, r)
  PROVE  ShapeInv'
BY DEF Moves, ShapeInv

LEMMA WriteReturns ==
  ASSUME NEW op \in Op, NEW arg \in Chunks \cup {Zero}, NEW r,
         ShapeOut(r), Returns(op, arg, r)
  PROVE  ShapeInv'
BY DEF Returns, ShapeInv, ShapeOut

LEMMA ShapeInit == Init => ShapeInv
BY ShapeNoTable DEF Init, ShapeInv, Op, Null

LEMMA ShapeStep == ShapeInv /\ [Next]_vars => ShapeInv'
<1> SUFFICES ASSUME ShapeInv, [Next]_vars
             PROVE  ShapeInv'
  OBVIOUS
<1>1. Shape(tab) /\ tab.size \in Nat /\ Zero \in Chunks \cup {Zero}
  BY TableAssumption DEF ShapeInv, Shape, Table
<1>2. CASE DoCreate
  <2>1. PICK n \in InitSizes, flags \in CreateFlags :
               \E r \in Create(tab, n, flags) : Returns("Create", Zero, r)
    BY <1>2 DEF DoCreate
  <2>2. n \in Nat /\ flags \in SUBSET {"NRA", "NRU"}
    BY OwnerAssumption
  <2>3. PICK r \in Create(tab, n, flags) : Returns("Create", Zero, r)
    BY <2>1
  <2>4. ShapeOut(r)
    BY <1>1, <2>2, <2>3, CreateKeepsShape
  <2> QED
    BY <1>1, <2>3, <2>4, WriteReturns DEF Op
<1>3. CASE DoDestroy
  <2>1. ShapeOut(Destroy(tab))
    BY <1>1, ShapeNoTable DEF Destroy, Failed, Done, ShapeOut
  <2> QED
    BY <1>1, <1>3, <2>1, WriteReturns DEF DoDestroy, Op
<1>4. CASE DoPush
  <2>1. PICK d \in Chunks : \E r \in Push(tab, d) : Returns("Push", d, r)
    BY <1>4 DEF DoPush
  <2> DEFINE m == Match(tab, d)
  <2>2. Shape(m.t) /\ m.at \in Nat \cup {Null} /\ Exists(m.t)
    BY <1>1, <1>4, MatchShape DEF DoPush
  <2>3. \A r \in GetTailNext(m.t) :
          DstOut(r) /\ r = [ok |-> r.ok, at |-> r.at, t |-> r.t]
    BY <2>2, TailNextShape, DstRecords
  <2>4. \A w \in Push(tab, d) : ShapeOut(w)
    BY <2>2, <2>3, WriteShape DEF Push
  <2> QED
    BY <2>1, <2>4, WriteReturns DEF Op
<1>5. CASE DoInsert
  <2>1. PICK d \in Chunks : \E r \in Insert(tab, d) : Returns("Insert", d, r)
    BY <1>5 DEF DoInsert
  <2> DEFINE m == Match(tab, d)
  <2>2. Shape(m.t) /\ m.at \in Nat \cup {Null} /\ Exists(m.t)
    BY <1>1, <1>5, MatchShape DEF DoInsert
  <2>3. \A r \in GetFragFirst(m.t) :
          DstOut(r) /\ r = [ok |-> r.ok, at |-> r.at, t |-> r.t]
    BY <2>2, FragFirstShape, DstRecords
  <2>4. \A w \in Insert(tab, d) : ShapeOut(w)
    BY <2>2, <2>3, WriteShape DEF Insert
  <2> QED
    BY <2>1, <2>4, WriteReturns DEF Op
<1>6. CASE DoDelCurrent
  BY <1>1, <1>6, DelKeepsShape, WriteReturns DEF DoDelCurrent, Op
<1>7. CASE DoFirst \/ DoLast \/ DoNext \/ DoPrev
  BY <1>1, <1>7, MovesKeepShape, MovesAt, MovesReturn
     DEF DoFirst, DoLast, DoNext, DoPrev, Op
<1>8. CASE DoFirstNext \/ DoCircularNext
  BY <1>1, <1>8, FirstNextShape, MovesReturn DEF DoFirstNext, DoCircularNext, Op
<1>9. CASE DoChunk
  <2>1. PICK p \in 0..tab.size : Moves("Chunk", Zero, Chunk(tab, p))
    BY <1>9 DEF DoChunk
  <2>2. p \in Nat
    BY <1>1
  <2>3. Shape(Chunk(tab, p).t) /\ Chunk(tab, p).at \in Nat \cup {Null}
    BY <1>1, <2>2, MovesKeepShape, MovesAt
  <2> QED
    BY <1>1, <2>1, <2>3, MovesReturn DEF Op
<1>10. CASE DoSearch
  <2>1. PICK d \in Chunks : Moves("Search", d, Search(tab, d))
    BY <1>10 DEF DoSearch
  <2>2. Search(tab, d).at \in Nat \cup {Null}
    <3> DEFINE found == {p \in Visible(tab, 0..tab.last) : Matches(tab.cells[p], d)}
    <3>1. tab.pos \in Nat /\ found \in SUBSET Nat
      BY <1>1 DEF Shape, Table, Visible
    <3>2. found # {} => Least(found) \in Nat
      BY <3>1, LeastIn
    <3> QED
      BY <3>1, <3>2 DEF Search, At, Nowhere
  <2> QED
    BY <1>1, <2>1, <2>2, MovesKeepShape, MovesReturn DEF Op
<1>11. CASE UNCHANGED vars
  BY <1>11 DEF vars, ShapeInv
<1> QED
  BY <1>2, <1>3, <1>4, <1>5, <1>6, <1>7, <1>8, <1>9, <1>10, <1>11 DEF Next

\* The table and what calls return have their types, in every environment.
THEOREM TypeCorrect == Spec => []TypeOK
<1>1. ShapeInv => TypeOK
  BY DEF ShapeInv, Shape, TypeOK
<1> QED
  BY <1>1, ShapeInit, ShapeStep, PTL DEF Spec

\* No operation of data_array.c or array.h ever leaves the tail pointer, the
\* cursor when it is used, or the fragment mask outside what was allocated:
\* not when memory runs out, not when the owner appends to a table that it has
\* emptied, and not with a mask that has grown dirty.
THEOREM NeverOutOfBounds == Spec => []InBounds
<1>1. ShapeInv => InBounds
  <2> SUFFICES ASSUME Shape(tab), Exists(tab) PROVE InBounds
    BY DEF ShapeInv, InBounds
  <2>1. tab.last \in Nat /\ tab.pos \in Nat /\ tab.size \in 1..MaxSize
        /\ tab.last < tab.size /\ MaxSize \in Nat
    BY TableAssumption DEF Shape, Table
  <2>2. Current(tab) < tab.size
    BY <2>1 DEF Current, Null
  <2> QED
    BY <2>2 DEF Shape, InBounds
<1> QED
  BY <1>1, ShapeInit, ShapeStep, PTL DEF Spec

Careful == ~PushesEmptied /\ ~DirtyHeap /\ ~AllocFaults

SoundInv == Sound(tab)

LEMMA SoundStep ==
  ASSUME Careful, SoundInv, [Next]_vars
  PROVE  SoundInv'
<1>1. Sound(tab) /\ ~DirtyHeap /\ ~AllocFaults /\ ~PushesEmptied
  BY DEF SoundInv, Careful
<1>2. ASSUME NEW op, NEW arg, NEW r, Sound(r.t), Returns(op, arg, r) \/ Moves(op, arg, r)
      PROVE  SoundInv'
  BY <1>2 DEF Returns, Moves, SoundInv
<1>3. CASE DoCreate
  <2>1. PICK n \in InitSizes, flags \in CreateFlags :
               \E r \in Create(tab, n, flags) : Returns("Create", Zero, r)
    BY <1>3 DEF DoCreate
  <2>2. PICK r \in Create(tab, n, flags) : Returns("Create", Zero, r)
    BY <2>1
  <2>3. r \in {Failed(tab), Done(Null, Created(n, flags))}
        /\ (r # Failed(tab) => n \in MinSize..MaxSize)
    <3>1. n \in Nat /\ MaxSize \in Nat
      BY OwnerAssumption, TableAssumption
    <3>2. CASE Exists(tab) \/ n < MinSize \/ n > MaxSize
      BY <3>2 DEF Create
    <3>3. CASE ~(Exists(tab) \/ n < MinSize \/ n > MaxSize)
      <4>1. r \in {Done(Null, Created(n, flags))}
                 \cup (IF AllocFaults
                       THEN {Failed(NoTable), Failed([NoTable EXCEPT !.head = "freed"])}
                       ELSE {})
        BY <3>3 DEF Create
      <4>2. n \in MinSize..MaxSize
        BY <3>1, <3>3 DEF MinSize
      <4> QED
        BY <1>1, <4>1, <4>2
    <3> QED
      BY <3>2, <3>3
  <2>4. CASE r = Failed(tab)
    <3>1. r.t = tab
      BY <2>4 DEF Failed
    <3> QED
      BY <1>1, <1>2, <2>2, <3>1
  <2>5. CASE r # Failed(tab)
    <3>1. r.t = Created(n, flags) /\ n \in MinSize..MaxSize
      BY <2>3, <2>5 DEF Done
    <3>2. flags \in SUBSET {"NRA", "NRU"} /\ n \in 1..MaxSize
      BY <3>1, OwnerAssumption DEF MinSize
    <3>3. Sound(r.t)
      BY <3>1, <3>2, SoundCreated
    <3> QED
      BY <1>2, <2>2, <3>3
  <2> QED
    BY <2>4, <2>5
<1>4. CASE DoDestroy
  <2>1. Sound(NoTable)
    BY ShapeNoTable DEF Sound, Exists, NoTable
  <2>2. Sound(Destroy(tab).t)
    BY <1>1, <2>1 DEF Destroy, Failed, Done
  <2> QED
    BY <1>2, <1>4, <2>2 DEF DoDestroy
<1>5. CASE DoPush
  <2>1. PICK d \in Chunks : \E r \in Push(tab, d) : Returns("Push", d, r)
    BY <1>5 DEF DoPush
  <2>2. PICK w \in Push(tab, d) : Returns("Push", d, w)
    BY <2>1
  <2>3. Exists(tab) /\ ~Emptying(tab)
    BY <1>1, <1>5 DEF DoPush, Emptied, Emptying
  <2> QED
    BY <1>1, <1>2, <2>2, <2>3, PushSound
<1>6. CASE DoInsert
  <2>1. PICK d \in Chunks : \E r \in Insert(tab, d) : Returns("Insert", d, r)
    BY <1>6 DEF DoInsert
  <2>2. PICK w \in Insert(tab, d) : Returns("Insert", d, w)
    BY <2>1
  <2>3. Exists(tab) /\ ~("NRU" \in tab.flags /\ Emptying(tab))
    BY <1>1, <1>6 DEF DoInsert, Emptied, Emptying
  <2> QED
    BY <1>1, <1>2, <2>2, <2>3, InsertSound
<1>7. CASE DoDelCurrent
  BY <1>1, <1>2, <1>7, DelKeepsSound DEF DoDelCurrent
<1>8. CASE DoFirst \/ DoLast \/ DoNext \/ DoPrev
  BY <1>1, <1>2, <1>8, MovesKeepSound DEF DoFirst, DoLast, DoNext, DoPrev
<1>9. CASE DoFirstNext \/ DoCircularNext
  BY <1>1, <1>2, <1>9, FirstNextSound DEF DoFirstNext, DoCircularNext
<1>10. CASE DoChunk
  <2>1. PICK p \in 0..tab.size : Moves("Chunk", Zero, Chunk(tab, p))
    BY <1>10 DEF DoChunk
  <2>2. p \in Nat
    BY <1>1, TableAssumption DEF Sound, Shape, Table
  <2> QED
    BY <1>1, <1>2, <2>1, <2>2, MovesKeepSound
<1>11. CASE DoSearch
  BY <1>1, <1>2, <1>11, MovesKeepSound DEF DoSearch
<1>12. CASE UNCHANGED vars
  BY <1>1, <1>12 DEF vars, SoundInv
<1> QED
  BY <1>3, <1>4, <1>5, <1>6, <1>7, <1>8, <1>9, <1>10, <1>11, <1>12 DEF Next

LEMMA SoundInit == Init => SoundInv
BY ShapeNoTable DEF Init, SoundInv, Sound, Exists, NoTable

LEMMA SoundConsistent == SoundInv => Consistent
BY DEF SoundInv, Sound, Consistent

\* For an owner that does not append to a table it has emptied, as long as
\* memory does not run out and the mask grows into clear bytes, the counters,
\* the mask, the tail and the cells agree after any sequence of calls.
THEOREM AlwaysConsistent == Careful /\ Spec => []Consistent
<1>1. Init => SoundInv
  BY SoundInit
<1>2. SUFFICES ASSUME Careful PROVE Spec => []Consistent
  OBVIOUS
<1>3. SoundInv /\ [Next]_vars => SoundInv'
  BY <1>2, SoundStep
<1> QED
  BY <1>1, <1>3, SoundConsistent, PTL DEF Spec

\* A RATT_TABLE_FOREACH loop that deletes every chunk it is given comes to an end
\* and has emptied the table, whatever was done to the table before: no chunk is
\* passed over when the cursor goes back with the tail, nor is one looked at twice.
THEOREM LoopsDrain == Careful /\ Spec => []ForeachDrains
<1>1. SoundInv => ForeachDrains
  <2> SUFFICES ASSUME Sound(tab), Exists(tab)
               PROVE  Swept(tab, Chunks).at = Null /\ Swept(tab, Chunks).t.count = 0
    BY DEF SoundInv, ForeachDrains
  <2> DEFINE l == Swept(tab, Chunks)
  <2>1. /\ l.at = Null /\ Sound(l.t) /\ Exists(l.t)
        /\ Live(l.t) = {q \in Live(tab) : tab.cells[q] \notin Chunks}
    BY SweptExact
  <2>2. \A q \in Live(tab) : tab.cells[q] \in Chunks
    <3>1. /\ tab.last \in Nat /\ tab.last < tab.size /\ tab.size \in Nat
          /\ DOMAIN tab.cells = 0..(tab.size - 1) /\ CellsExact(tab)
      BY SoundFacts, TableAssumption DEF Good, Bounds
    <3>2. Live(tab) \subseteq DOMAIN tab.cells
      BY <3>1 DEF Live
    <3> QED
      BY <3>1, <3>2 DEF CellsExact
  <2> HIDE DEF l
  <2>3. Live(l.t) = {}
    BY <2>1, <2>2
  <2> QED
    BY <2>1, <2>3, NoneCounted DEF l
<1>2. SUFFICES ASSUME Careful PROVE Spec => []ForeachDrains
  OBVIOUS
<1>3. Init => SoundInv
  BY SoundInit
<1>4. SoundInv /\ [Next]_vars => SoundInv'
  BY <1>2, SoundStep
<1> QED
  BY <1>1, <1>3, <1>4, PTL DEF Spec

----------------------------------------------------------------------------
(* What each call does.                                                    *)

\* A push or an insert, with the chunk it was called for and its outcome.
Writes(d, w) ==
  /\ Exists(tab)
  /\ \/ ret'.op = "Push" /\ w \in Push(tab, d) /\ ~Emptying(tab)
     \/ ret'.op = "Insert" /\ w \in Insert(tab, d)
        /\ ~("NRU" \in tab.flags /\ Emptying(tab))
  /\ tab' = w.t /\ ret'.ok = w.ok /\ ret'.at = w.at /\ ret'.arg = d

LEMMA WriteStep ==
  ASSUME Careful, SoundInv, Next, ret'.op \in {"Push", "Insert"}
  PROVE  \E d \in Chunks : \E w :
           Writes(d, w) /\ Written(tab, Match(tab, d), d, w)
<1>1. Sound(tab) /\ ~DirtyHeap /\ ~AllocFaults /\ ~PushesEmptied
  BY DEF SoundInv, Careful
<1>2. DoPush \/ DoInsert
  BY DEF Next, DoCreate, DoDestroy, DoDelCurrent, DoFirst, DoLast, DoNext, DoPrev,
         DoFirstNext, DoCircularNext, DoChunk, DoSearch, Returns, Moves
<1>3. CASE DoPush
  <2>1. Exists(tab) /\ ~Emptying(tab)
    BY <1>1, <1>3 DEF DoPush, Emptied, Emptying
  <2>2. PICK d \in Chunks : \E w \in Push(tab, d) : Returns("Push", d, w)
    BY <1>3 DEF DoPush
  <2>3. PICK w \in Push(tab, d) : Returns("Push", d, w)
    BY <2>2
  <2>4. Written(tab, Match(tab, d), d, w)
    BY <1>1, <2>1, PushSound
  <2>5. Writes(d, w)
    BY <2>1, <2>3 DEF Writes, Returns
  <2> QED
    BY <2>4, <2>5
<1>4. CASE DoInsert
  <2>1. Exists(tab) /\ ~("NRU" \in tab.flags /\ Emptying(tab))
    BY <1>1, <1>4 DEF DoInsert, Emptied, Emptying
  <2>2. PICK d \in Chunks : \E w \in Insert(tab, d) : Returns("Insert", d, w)
    BY <1>4 DEF DoInsert
  <2>3. PICK w \in Insert(tab, d) : Returns("Insert", d, w)
    BY <2>2
  <2>4. Written(tab, Match(tab, d), d, w)
    BY <1>1, <2>1, InsertSound
  <2>5. Writes(d, w)
    BY <2>1, <2>3 DEF Writes, Returns
  <2> QED
    BY <2>4, <2>5
<1> QED
  BY <1>2, <1>3, <1>4

\* Calls other than a push or an insert.
Opened(t, u) == ~Exists(t) /\ Exists(u) /\ Live(u) = {}

Closed(t, u) == Exists(t) /\ ~Exists(u)

LEMMA OtherStep ==
  ASSUME Careful, SoundInv, Next, ret'.op \notin {"Push", "Insert"}
  PROVE  \/ Kept(tab, tab') \/ Opened(tab, tab') \/ Closed(tab, tab')
         \/ \E p : Lost(tab, tab', p)
<1>1. Sound(tab) /\ tab \in Table /\ ~AllocFaults
  BY SoundFacts DEF SoundInv, Careful
<1>2. ASSUME NEW op, NEW arg, NEW r, Moves(op, arg, r), Moved(tab, r.t)
      PROVE  Kept(tab, tab')
  BY <1>1, <1>2, MovedSame DEF Moves
<1>3. CASE DoCreate
  <2>1. PICK n \in InitSizes, flags \in CreateFlags :
               \E r \in Create(tab, n, flags) : Returns("Create", Zero, r)
    BY <1>3 DEF DoCreate
  <2>2. PICK r \in Create(tab, n, flags) : Returns("Create", Zero, r)
    BY <2>1
  <2>3. r = Failed(tab) \/ (~Exists(tab) /\ r = Done(Null, Created(n, flags)))
    BY <1>1 DEF Create
  <2>4. CASE r = Failed(tab)
    BY <2>2, <2>4 DEF Failed, Returns, Kept
  <2>5. CASE ~Exists(tab) /\ r = Done(Null, Created(n, flags))
    <3>1. tab' = Created(n, flags)
      BY <2>2, <2>5 DEF Done, Returns
    <3>2. tab'.count = 0 /\ "XIS" \in tab'.flags
      BY <3>1 DEF Created
    <3> QED
      BY <2>5, <3>2 DEF Opened, Exists, Live, IsEmpty
  <2> QED
    BY <2>3, <2>4, <2>5
<1>4. CASE DoDestroy
  <2>1. tab' = tab \/ tab' = NoTable
    BY <1>4 DEF DoDestroy, Destroy, Returns, Done, Failed
  <2>2. ~Exists(NoTable) /\ Live(NoTable) = {}
    BY DEF Exists, NoTable, Live, IsEmpty
  <2>3. ~Exists(tab) => Live(tab) = {}
    BY DEF Live, IsEmpty
  <2>4. Kept(tab, tab)
    BY DEF Kept
  <2>5. Kept(tab, NoTable) \/ Closed(tab, NoTable)
    BY <2>2, <2>3 DEF Kept, Closed, Exists
  <2> QED
    BY <2>1, <2>4, <2>5, Zenon
<1>5. CASE DoDelCurrent
  <2>1. tab' = DelCurrent(tab).t
    BY <1>5 DEF DoDelCurrent, Returns
  <2> QED
    BY <1>1, <2>1, DelKeepsSound DEF Kept
<1>6. CASE DoFirst \/ DoLast \/ DoNext \/ DoPrev
  BY <1>1, <1>2, <1>6, CursorMoves DEF DoFirst, DoLast, DoNext, DoPrev
<1>7. CASE DoFirstNext \/ DoCircularNext
  BY <1>1, <1>2, <1>7, CircularMoves DEF SoundInv, DoFirstNext, DoCircularNext
<1>8. CASE DoChunk
  BY <1>1, <1>2, <1>8, CursorMoves DEF DoChunk
<1>9. CASE DoSearch
  BY <1>1, <1>2, <1>9, CursorMoves DEF DoSearch
<1>10. ~DoPush /\ ~DoInsert
  BY DEF DoPush, DoInsert, Returns
<1> QED
  BY <1>3, <1>4, <1>5, <1>6, <1>7, <1>8, <1>9, <1>10 DEF Next

----------------------------------------------------------------------------
(* The refinement.                                                         *)

held == [p \in Live(tab) |-> tab.cells[p]]

LEMMA KeptStutters ==
  ASSUME Kept(tab, tab')
  PROVE  UNCHANGED Store!storeVars
<1>1. held' = held
  BY DEF Kept, held
<1> QED
  BY <1>1 DEF Kept, Store!storeVars, held

LEMMA StoreStep ==
  ASSUME Careful, SoundInv, [Next]_vars
  PROVE  [Store!StoreNext]_(Store!storeVars)
<1>1. /\ Sound(tab) /\ MaxSize \in Nat
      /\ \A p \in Live(tab) : p \in 0..(MaxSize - 1)
  <2>1. Sound(tab) /\ MaxSize \in Nat
    BY TableAssumption DEF SoundInv
  <2>2. Exists(tab) => tab.last \in Nat /\ tab.size \in 1..MaxSize /\ tab.last < tab.size
    BY <2>1, SoundFacts
  <2> QED
    BY <2>1, <2>2 DEF Live, IsEmpty
<1>2. Sound(tab') /\ \A p \in Live(tab') : p \in 0..(MaxSize - 1)
  <2>1. Sound(tab')
    BY SoundStep DEF SoundInv
  <2>2. Exists(tab') => /\ tab'.last \in Nat /\ tab'.size \in 1..MaxSize
                        /\ tab'.last < tab'.size
    BY <2>1, SoundFacts
  <2> QED
    BY <1>1, <2>1, <2>2 DEF Live, IsEmpty
<1>3. ASSUME NEW p, Lost(tab, tab', p)
      PROVE  Store!StoreNext
  <2>1. held' = [q \in DOMAIN held \ {p} |-> held[q]]
    BY <1>3 DEF Lost, held
  <2>2. p \in 0..(MaxSize - 1) /\ p \in DOMAIN held /\ Exists(tab') = Exists(tab)
    BY <1>1, <1>3 DEF Lost, held
  <2>3. Store!Take(p)
    BY <2>1, <2>2 DEF Store!Take, held
  <2> QED
    BY <2>2, <2>3 DEF Store!StoreNext
<1>4. ASSUME NEW p, NEW d \in Chunks, Gained(tab, tab', p), tab'.cells[p] = d
      PROVE  Store!StoreNext
  <2>1. held' = [q \in DOMAIN held \cup {p} |-> IF q = p THEN d ELSE held[q]]
    BY <1>4 DEF Gained, held
  <2>2. p \in 0..(MaxSize - 1) /\ p \notin DOMAIN held /\ Exists(tab') /\ Exists(tab)
    BY <1>2, <1>4 DEF Gained, held
  <2>3. Store!Put(p, d)
    BY <2>1, <2>2 DEF Store!Put, held
  <2> QED
    BY <2>2, <2>3 DEF Store!StoreNext
<1>5. ASSUME Opened(tab, tab')
      PROVE  Store!StoreNext
  <2>1. Live(tab) = {}
    BY <1>5 DEF Opened, Live, IsEmpty
  <2>2. held' = held
    BY <1>5, <2>1 DEF Opened, held
  <2>3. Store!Open
    BY <1>5, <2>2 DEF Store!Open, Opened, held
  <2> QED
    BY <2>3 DEF Store!StoreNext
<1>6. ASSUME Closed(tab, tab')
      PROVE  Store!StoreNext
  <2>1. Live(tab') = {}
    BY <1>6 DEF Closed, Live, IsEmpty
  <2>2. held' = [s \in {} |-> 0]
    BY <2>1 DEF held
  <2>3. Store!Close
    BY <1>6, <2>2 DEF Store!Close, Closed, held
  <2> QED
    BY <2>3 DEF Store!StoreNext
<1>7. CASE Next /\ ret'.op \in {"Push", "Insert"}
  <2>0. PICK d \in Chunks : \E w : Writes(d, w) /\ Written(tab, Match(tab, d), d, w)
    BY <1>7, WriteStep
  <2>1. PICK w : Writes(d, w) /\ Written(tab, Match(tab, d), d, w)
    BY <2>0
  <2>2. tab' = w.t
    BY <2>1 DEF Writes
  <2>3. CASE Match(tab, d).at # Null
    <3>1. tab' = Match(tab, d).t
      BY <2>1, <2>2, <2>3 DEF Written
    <3> QED
      BY <1>1, <3>1, MatchSound, KeptStutters
  <2>4. CASE Match(tab, d).at = Null /\ w.ok
    BY <1>4, <2>1, <2>2, <2>4 DEF Written
  <2>5. CASE Match(tab, d).at = Null /\ ~w.ok
    BY <2>1, <2>2, <2>5, KeptStutters DEF Written
  <2> QED
    BY <2>3, <2>4, <2>5
<1>8. CASE Next /\ ret'.op \notin {"Push", "Insert"}
  BY <1>3, <1>5, <1>6, <1>8, OtherStep, KeptStutters
<1>9. CASE UNCHANGED vars
  <2>1. tab' = tab
    BY <1>9 DEF vars
  <2> QED
    BY <2>1, KeptStutters DEF Kept
<1> QED
  BY <1>7, <1>8, <1>9

\* For a careful owner a table is a store of numbered slots: whatever is
\* called, a chunk goes into a slot that was free and stays there, unchanged,
\* until that chunk is deleted or the table destroyed, also when the array
\* grows, and what fails changes nothing.
THEOREM TableIsStore == Careful /\ Spec => StoreSafe
<1>1. Init => Store!StoreInit
  <2> SUFFICES ASSUME Init PROVE Store!StoreInit
    OBVIOUS
  <2>1. ~Exists(tab) /\ Live(tab) = {}
    BY DEF Init, NoTable, Exists, Live, IsEmpty
  <2>2. held = [s \in {} |-> 0]
    BY <2>1 DEF held
  <2> QED
    BY <2>1, <2>2 DEF Store!StoreInit, held
<1>2. SUFFICES ASSUME Careful PROVE Spec => StoreSafe
  OBVIOUS
<1>3. SoundInv /\ [Next]_vars => SoundInv'
  BY <1>2, SoundStep
<1>4. SoundInv /\ [Next]_vars => [Store!StoreNext]_(Store!storeVars)
  BY <1>2, StoreStep
<1>5. Init => SoundInv
  BY SoundInit
<1> QED
  BY <1>1, <1>3, <1>4, <1>5, PTL
     DEF Spec, StoreSafe, Store!StoreSpec

\* ratt_table_search finds a chunk if and only if some slot in use holds it,
\* wherever the cursor was left and whatever fragments lie before it.
THEOREM SearchIsExact ==
  Careful /\ BlankMatchesNone /\ Spec => []SearchExact
<1>1. SUFFICES ASSUME Careful, BlankMatchesNone PROVE Spec => []SearchExact
  OBVIOUS
<1>2. SoundInv /\ [Next]_vars => SoundInv'
  BY <1>1, SoundStep
<1>3. SoundInv => SearchExact
  <2> SUFFICES ASSUME Sound(tab), NEW d \in Chunks
               PROVE  LET s == Search(tab, d)
                      IN IF \E p \in Live(tab) : Matches(tab.cells[p], d)
                         THEN /\ s.at \in Live(tab) /\ Matches(tab.cells[s.at], d)
                              /\ Current(s.t) = s.at
                         ELSE s.at = Null
    BY DEF SoundInv, SearchExact
  <2> QED
    BY <1>1, SearchFinds, OnLiveCurrent DEF OnLive
<1> QED
  BY <1>2, <1>3, SoundInit, PTL DEF Spec

----------------------------------------------------------------------------
(* The uniqueness constraint.                                              *)

\* The comparison of a constraint does not depend on which of two chunks is
\* in the table.
MatchesBothWays ==
  \A c, d \in Chunks : Matches(c, d) => Matches(d, c)

\* A chunk that is in the table twice is not what the constraint prevents: the
\* chunks in two slots do not match.
DistinctInv == SoundInv /\ NoDuplicates

LEMMA DistinctStep ==
  ASSUME Careful, BlankMatchesNone, MatchesBothWays, Constrained,
         DistinctInv, [Next]_vars
  PROVE  DistinctInv'
<1>1. SoundInv /\ Sound(tab) /\ SoundInv' /\ Sound(tab')
  BY SoundStep DEF DistinctInv, SoundInv
<1> SUFFICES NoDuplicates'
  BY <1>1 DEF DistinctInv
<1>2. \A p, q \in Live(tab) : Matches(tab.cells[p], tab.cells[q]) => p = q
  BY DEF DistinctInv, NoDuplicates
<1>3. \A p \in Live(tab') : tab'.cells[p] \in Chunks
  <2>1. CASE IsEmpty(tab')
    BY <2>1 DEF Live
  <2>2. CASE ~IsEmpty(tab')
    <3>1. /\ CellsExact(tab') /\ DOMAIN tab'.cells = 0..(tab'.size - 1)
          /\ tab'.last \in Nat /\ tab'.last < tab'.size /\ tab'.size \in Nat
      BY <1>1, <2>2, SoundFacts, TableAssumption DEF IsEmpty, Good, Bounds, Table
    <3>2. Live(tab') \subseteq DOMAIN tab'.cells
      BY <3>1 DEF Live
    <3> QED
      BY <3>1, <3>2 DEF CellsExact
  <2> QED
    BY <2>1, <2>2
<1>4. ASSUME Kept(tab, tab') \/ Opened(tab, tab') \/ Closed(tab, tab')
             \/ \E p : Lost(tab, tab', p)
      PROVE  NoDuplicates'
  <2>1. \A p \in Live(tab') : p \in Live(tab) /\ tab'.cells[p] = tab.cells[p]
    <3>1. Closed(tab, tab') => Live(tab') = {}
      BY DEF Closed, Live, IsEmpty
    <3> QED
      BY <1>4, <3>1 DEF Kept, Opened, Lost
  <2> QED
    BY <1>2, <2>1 DEF NoDuplicates
<1>5. CASE Next /\ ret'.op \in {"Push", "Insert"}
  <2>0. PICK d \in Chunks : \E w : Writes(d, w) /\ Written(tab, Match(tab, d), d, w)
    BY <1>1, <1>5, WriteStep
  <2>1. PICK w : Writes(d, w) /\ Written(tab, Match(tab, d), d, w)
    BY <2>0
  <2>2. tab' = w.t
    BY <2>1 DEF Writes
  <2>3. CASE Match(tab, d).at # Null
    BY <1>1, <1>4, <2>1, <2>2, <2>3, MatchSound DEF Written
  <2>4. CASE Match(tab, d).at = Null /\ ~w.ok
    BY <1>4, <2>1, <2>2, <2>4 DEF Written
  <2>5. CASE Match(tab, d).at = Null /\ w.ok
    <3>1. Gained(tab, tab', w.at) /\ tab'.cells[w.at] = d
      BY <2>1, <2>2, <2>5 DEF Written
    <3>2. Search(tab, d).at = Null
      BY <2>5 DEF Match
    <3>3. \A p \in Live(tab) : ~Matches(tab.cells[p], d)
      <4>1. ASSUME NEW p \in Live(tab), Matches(tab.cells[p], d) PROVE FALSE
        <5>1. OnLive(tab, Search(tab, d))
          BY <1>1, <4>1, SearchFinds
        <5> QED
          BY <1>1, <3>2, <5>1, OnLiveCurrent
      <4> QED
        BY <4>1
    <3>4. \A p \in Live(tab) : ~Matches(d, tab.cells[p])
      BY <1>3, <3>1, <3>3 DEF MatchesBothWays, Gained
    <3>5. Live(tab') = Live(tab) \cup {w.at}
          /\ \A p \in Live(tab) : tab'.cells[p] = tab.cells[p]
      BY <3>1 DEF Gained
    <3>6. \A p, q \in Live(tab') : Matches(tab'.cells[p], tab'.cells[q]) => p = q
      BY <1>2, <3>1, <3>3, <3>4, <3>5
    <3> QED
      BY <3>6 DEF NoDuplicates
  <2> QED
    BY <2>3, <2>4, <2>5
<1>6. CASE Next /\ ret'.op \notin {"Push", "Insert"}
  BY <1>1, <1>4, <1>6, OtherStep
<1>7. CASE UNCHANGED vars
  BY <1>2, <1>7 DEF vars, NoDuplicates
<1> QED
  BY <1>5, <1>6, <1>7

\* No sequence of calls stores two chunks that the constraint of the table
\* finds alike, whatever on_constrains answers, though each push and insert
\* checks it with a search that starts at a cursor left anywhere.
THEOREM ConstraintHolds ==
  Careful /\ BlankMatchesNone /\ MatchesBothWays /\ Spec => []NoDuplicates
<1>1. CASE Constrained /\ Careful /\ BlankMatchesNone /\ MatchesBothWays
  <2>1. Init => DistinctInv
    <3>1. Init => Live(tab) = {}
      BY DEF Init, NoTable, Exists, Live, IsEmpty
    <3> QED
      BY <3>1, SoundInit DEF DistinctInv, NoDuplicates
  <2>2. DistinctInv /\ [Next]_vars => DistinctInv'
    BY <1>1, DistinctStep
  <2>3. DistinctInv => NoDuplicates
    BY DEF DistinctInv
  <2> QED
    BY <2>1, <2>2, <2>3, PTL DEF Spec
<1>2. CASE ~Constrained
  <2>1. NoDuplicates
    BY <1>2 DEF NoDuplicates
  <2> QED
    BY <2>1, PTL
<1> QED
  BY <1>1, <1>2

----------------------------------------------------------------------------
(* Properties of single steps.                                             *)

\* A successful next, prev, first_next or circular_next returns a slot in use
\* and leaves the cursor on it; circular_next, with which the pool looks for
\* work, fails on no table that holds a chunk.
THEOREM CursorStaysOnLive == Careful /\ Spec => CursorOnLive
<1>1. SUFFICES ASSUME Careful PROVE Spec => CursorOnLive
  OBVIOUS
<1> DEFINE OnLiveStep ==
             /\ ret'.op \in {"Next", "Prev", "FirstNext", "CircularNext"} /\ ret'.ok
                  => ret'.at \in Live(tab) /\ Current(tab') = ret'.at
             /\ ret'.op = "CircularNext" /\ Live(tab) # {} => ret'.ok
<1>2. SoundInv /\ [Next]_vars => SoundInv'
  BY <1>1, SoundStep
<1>3. SoundInv /\ Next => OnLiveStep
  <2> SUFFICES ASSUME SoundInv, Next PROVE OnLiveStep
    OBVIOUS
  <2>1. Sound(tab)
    BY DEF SoundInv
  <2>2. ASSUME NEW op, NEW r, Moves(op, Zero, r),
               r.at # Null => OnLive(tab, r),
               op = "CircularNext" /\ r.at = Null => Live(tab) = {}
        PROVE  OnLiveStep
    <3>1. ret'.op = op /\ ret'.ok = (r.at # Null) /\ ret'.at = r.at /\ tab' = r.t
      BY <2>2 DEF Moves
    <3> QED
      BY <2>1, <2>2, <3>1, OnLiveCurrent DEF OnLive
  <2>3. CASE DoNext
    BY <2>1, <2>2, <2>3, NextExact DEF DoNext
  <2>4. CASE DoPrev
    BY <2>1, <2>2, <2>4, PrevExact DEF DoPrev
  <2>5. CASE DoFirstNext
    BY <2>1, <2>2, <2>5, FirstNextExact DEF DoFirstNext
  <2>6. CASE DoCircularNext
    BY <2>1, <2>2, <2>6, CircularNextExact DEF DoCircularNext
  <2>7. CASE ret'.op \notin {"Next", "Prev", "FirstNext", "CircularNext"}
    BY <2>7
  <2> QED
    BY <2>3, <2>4, <2>5, <2>6, <2>7
       DEF Next, DoCreate, DoDestroy, DoPush, DoInsert, DoDelCurrent, DoFirst,
           DoLast, DoChunk, DoSearch, Returns, Moves
<1>4. SoundInv /\ [Next]_vars => [OnLiveStep]_vars
  BY <1>3
<1> QED
  BY <1>2, <1>4, SoundInit, PTL DEF Spec, CursorOnLive

\* What a constraint lets pass with OK is in the table as it was asked for.
SettlesEqual ==
  Constrained /\ OnConstrains = "OK" =>
    \A c, d \in Chunks : Matches(c, d) => c = d

\* A push or an insert that returned OK has the chunk in the table, one that
\* returned FAIL has changed neither what the table holds nor where.
THEOREM WritesAreAtomic ==
  Careful /\ BlankMatchesNone /\ SettlesEqual /\ Spec => WriteAllOrNothing
<1>1. SUFFICES ASSUME Careful, BlankMatchesNone, SettlesEqual
               PROVE  Spec => WriteAllOrNothing
  OBVIOUS
<1> DEFINE AllOrNothing ==
             ret'.op \in {"Push", "Insert"} =>
               IF ret'.ok
               THEN ret'.at \in Live(tab') /\ tab'.cells[ret'.at] = ret'.arg
               ELSE /\ Live(tab') = Live(tab)
                    /\ \A p \in Live(tab) : tab'.cells[p] = tab.cells[p]
<1>2. SoundInv /\ [Next]_vars => SoundInv'
  BY <1>1, SoundStep
<1>3. SoundInv /\ Next => AllOrNothing
  <2> SUFFICES ASSUME SoundInv, Next, ret'.op \in {"Push", "Insert"}
               PROVE  AllOrNothing
    OBVIOUS
  <2>1. Sound(tab) /\ tab \in Table
    BY SoundFacts DEF SoundInv
  <2>0. PICK d \in Chunks : \E w : Writes(d, w) /\ Written(tab, Match(tab, d), d, w)
    BY <1>1, WriteStep
  <2>2. PICK w : Writes(d, w) /\ Written(tab, Match(tab, d), d, w)
    BY <2>0
  <2>3. tab' = w.t /\ ret'.ok = w.ok /\ ret'.at = w.at /\ ret'.arg = d
    BY <2>2 DEF Writes
  <2>4. CASE Match(tab, d).at # Null
    <3> DEFINE s == Search(tab, d)
    <3>1. Constrained /\ Match(tab, d) = s
      BY <2>4 DEF Match, Nowhere
    <3>2. OnLive(tab, s) /\ Matches(tab.cells[s.at], d)
      BY <1>1, <2>1, <2>4, <3>1, SearchFinds
    <3>3. Kept(tab, s.t)
      BY <2>1, CursorMoves, MovedSame
    <3>4. w.ok = (OnConstrains = "OK") /\ w.at = s.at /\ w.t = s.t
      BY <2>2, <2>4, <3>1 DEF Written
    <3>5. tab.cells[s.at] \in Chunks
      <4>1. ~IsEmpty(tab) /\ s.at \in 0..tab.last
        BY <3>2 DEF OnLive, Live
      <4>2. /\ CellsExact(tab) /\ DOMAIN tab.cells = 0..(tab.size - 1)
            /\ tab.last \in Nat /\ tab.size \in Nat /\ tab.last < tab.size
        BY <2>1, <4>1, SoundFacts, TableAssumption DEF IsEmpty, Good, Bounds, Table
      <4>3. s.at \in DOMAIN tab.cells
        BY <4>1, <4>2
      <4> QED
        BY <3>2, <4>2, <4>3 DEF CellsExact, OnLive
    <3> HIDE DEF s
    <3>6. OnConstrains = "OK" => tab.cells[s.at] = d
      BY <1>1, <3>1, <3>2, <3>5 DEF SettlesEqual
    <3> QED
      BY <2>3, <3>2, <3>3, <3>4, <3>6 DEF Kept, OnLive
  <2>5. CASE Match(tab, d).at = Null /\ w.ok
    BY <2>2, <2>3, <2>5 DEF Written, Gained
  <2>6. CASE Match(tab, d).at = Null /\ ~w.ok
    BY <2>2, <2>3, <2>6 DEF Written, Kept
  <2> QED
    BY <2>4, <2>5, <2>6
<1>4. SoundInv /\ [Next]_vars => [AllOrNothing]_vars
  BY <1>3
<1> QED
  BY <1>2, <1>4, SoundInit, PTL DEF Spec, WriteAllOrNothing

\* The write of d, with the table and the room it was given.
LEMMA WriteRoom ==
  ASSUME Careful, SoundInv, NEW d \in Chunks, NEW w, Writes(d, w)
  PROVE  \E t : /\ Sound(t) /\ Exists(t) /\ Moved(tab, t)
                /\ \/ Constrained /\ w.ok = (OnConstrains = "OK") /\ w.t = t
                   \/ \E r : /\ w.ok = r.ok /\ w.t.last = r.t.last
                             /\ \/ ret'.op = "Push" /\ r \in GetTailNext(t)
                                \/ ret'.op = "Insert" /\ r \in GetFragFirst(t)
<1> DEFINE m == Match(tab, d)
           dsts == IF ret'.op = "Push" THEN GetTailNext(m.t) ELSE GetFragFirst(m.t)
<1>1. /\ Sound(m.t) /\ Exists(m.t) /\ Moved(tab, m.t)
  BY SoundFacts, MatchSound, CursorMoves DEF SoundInv, Writes, Kept
<1>2. m.at # Null => Constrained
  BY DEF Match, Nowhere
<1>3. w \in WriteChunk(m, d, dsts)
  BY DEF Writes, Push, Insert
<1>4. \A r \in dsts : r = [ok |-> r.ok, at |-> r.at, t |-> r.t] /\ r.t \in Table
  <2>1. \A r \in dsts : r = [ok |-> r.ok, at |-> r.at, t |-> r.t]
    BY DstRecords
  <2>2. \A r \in dsts : DstOut(r)
    BY <1>1, TailNextShape, FragFirstShape DEF Sound
  <2> QED
    BY <2>1, <2>2 DEF DstOut, ShapeOut, Shape
<1> HIDE DEF m, dsts
<1>5. \/ m.at # Null /\ w.ok = (OnConstrains = "OK") /\ w.t = m.t
      \/ m.at = Null /\ \E r \in dsts : w.ok = r.ok /\ w.t.last = r.t.last
  BY <1>3, <1>4, WriteWhy
<1>6. \A r \in dsts : \/ ret'.op = "Push" /\ r \in GetTailNext(m.t)
                      \/ ret'.op = "Insert" /\ r \in GetFragFirst(m.t)
  BY DEF dsts, Writes
<1> QED
  BY <1>1, <1>2, <1>5, <1>6

\* An insert makes the table longer only when no slot below last is free, or
\* reuse is forbidden.
THEOREM InsertReuses == Careful /\ Spec => InsertReusesFragment
<1>1. SUFFICES ASSUME Careful PROVE Spec => InsertReusesFragment
  OBVIOUS
<1> DEFINE Reuses == ret'.op = "Insert" /\ tab'.last > tab.last =>
                       tab.mask = {} \/ "NRU" \in tab.flags
<1>2. SoundInv /\ [Next]_vars => SoundInv'
  BY <1>1, SoundStep
<1>3. SoundInv /\ Next => Reuses
  <2> SUFFICES ASSUME SoundInv, Next, ret'.op = "Insert", tab'.last > tab.last
               PROVE  tab.mask = {} \/ "NRU" \in tab.flags
    OBVIOUS
  <2>1. tab \in Table /\ tab.last \in Nat
    BY SoundFacts DEF SoundInv
  <2>0. PICK d \in Chunks : \E w : Writes(d, w)
    BY <1>1, WriteStep
  <2>2. PICK w : Writes(d, w)
    BY <2>0
  <2>3. PICK t : /\ Sound(t) /\ Exists(t) /\ Moved(tab, t)
                 /\ \/ w.t = t
                    \/ \E r \in GetFragFirst(t) : w.t.last = r.t.last
    BY <1>1, <2>2, WriteRoom
  <2>4. t.last = tab.last /\ t.mask = tab.mask /\ t.flags = tab.flags
    BY <2>1, <2>3, MovedSame
  <2>5. PICK r \in GetFragFirst(t) : tab'.last = r.t.last
    BY <2>1, <2>2, <2>3, <2>4 DEF Writes
  <2> QED
    BY <1>1, <2>3, <2>4, <2>5, FragFirstRefuses DEF Careful
<1>4. SoundInv /\ [Next]_vars => [Reuses]_vars
  BY <1>3
<1> QED
  BY <1>2, <1>4, SoundInit, PTL DEF Spec, InsertReusesFragment

\* A push or an insert that no constraint objects to is refused for want of
\* room only: no fragment may be reused and the array can grow no more; apart
\* from an insert into a table that was emptied.
THEOREM RefusedWhenFull ==
  Careful /\ (Constrained => OnConstrains = "OK") /\ Spec => RefusedOnlyWhenFull
<1>1. SUFFICES ASSUME Careful, Constrained => OnConstrains = "OK"
               PROVE  Spec => RefusedOnlyWhenFull
  OBVIOUS
<1> DEFINE Refused ==
             ret'.op \in {"Push", "Insert"} /\ ~ret'.ok =>
               \/ ret'.op = "Insert" /\ tab.count = 0 /\ tab.mask # {}
               \/ /\ ret'.op = "Push" \/ tab.mask = {} \/ "NRU" \in tab.flags
                  /\ tab.last = tab.size - 1
                  /\ tab.size = MaxSize \/ "NRA" \in tab.flags
<1>2. SoundInv /\ [Next]_vars => SoundInv'
  BY <1>1, SoundStep
<1>3. SoundInv /\ Next => Refused
  <2> SUFFICES ASSUME SoundInv, Next, ret'.op \in {"Push", "Insert"}, ~ret'.ok
               PROVE  \/ ret'.op = "Insert" /\ tab.count = 0 /\ tab.mask # {}
                      \/ /\ ret'.op = "Push" \/ tab.mask = {} \/ "NRU" \in tab.flags
                         /\ NoRoom(tab)
    BY DEF NoRoom
  <2>0. PICK d \in Chunks : \E w : Writes(d, w)
    BY <1>1, WriteStep
  <2>1. PICK w : Writes(d, w)
    BY <2>0
  <2>2. ~w.ok
    BY <2>1 DEF Writes
  <2>3. PICK t : /\ Sound(t) /\ Exists(t) /\ Moved(tab, t)
                 /\ \E r : /\ ~r.ok
                           /\ \/ ret'.op = "Push" /\ r \in GetTailNext(t)
                              \/ ret'.op = "Insert" /\ r \in GetFragFirst(t)
    BY <1>1, <2>1, <2>2, WriteRoom
  <2>4. /\ t.count = tab.count /\ t.mask = tab.mask /\ t.flags = tab.flags
        /\ NoRoom(t) = NoRoom(tab)
    BY <2>3, SoundFacts, MovedSame DEF NoRoom, SoundInv
  <2>5. CASE ret'.op = "Push"
    BY <1>1, <2>3, <2>4, <2>5, TailNextRefuses DEF Careful
  <2>6. CASE ret'.op = "Insert"
    BY <1>1, <2>3, <2>4, <2>6, FragFirstRefuses DEF Careful
  <2> QED
    BY <2>5, <2>6
<1>4. SoundInv /\ [Next]_vars => [Refused]_vars
  BY <1>3
<1> QED
  BY <1>2, <1>4, SoundInit, PTL DEF Spec, RefusedOnlyWhenFull
=============================================================================
