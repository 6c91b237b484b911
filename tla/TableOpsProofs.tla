--------------------------- MODULE TableOpsProofs ---------------------------
(***************************************************************************)
(* What each operation does to a table whose counters, mask, tail pointer  *)
(* and contents agree: they still do, and what the table holds changes by  *)
(* one chunk at most.                                                      *)
(***************************************************************************)
EXTENDS TableShapeProofs

Sound(t) == Shape(t) /\ (Exists(t) => Good(t))

\* The table has had chunks and holds none.
Emptying(t) == IsEmpty(t) /\ Fragmented(t)

\* Table u holds what t held, in the same slots.
Kept(t, u) ==
  /\ Exists(u) = Exists(t)
  /\ Live(u) = Live(t)
  /\ \A q \in Live(t) : u.cells[q] = t.cells[q]

\* Besides, slot p of u was taken, or given back.
Gained(t, u, p) ==
  /\ Exists(t) /\ Exists(u)
  /\ p \notin Live(t)
  /\ Live(u) = Live(t) \cup {p}
  /\ \A q \in Live(t) : u.cells[q] = t.cells[q]

Lost(t, u, p) ==
  /\ Exists(t) /\ Exists(u)
  /\ p \in Live(t)
  /\ Live(u) = Live(t) \ {p}
  /\ \A q \in Live(u) : u.cells[q] = t.cells[q]

----------------------------------------------------------------------------
(* Counting slots.                                                         *)

Used(last, mask) == (0..last) \ mask

LEMMA UsedFinite ==
  ASSUME NEW last \in Nat, NEW mask \in SUBSET (0..last)
  PROVE  /\ IsFiniteSet(mask) /\ IsFiniteSet(Used(last, mask))
         /\ Cardinality(mask) \in Nat /\ Cardinality(Used(last, mask)) \in Nat
<1>1. IsFiniteSet(0..last)
  BY FS_Interval
<1>2. Used(last, mask) \in SUBSET (0..last)
  BY DEF Used
<1> QED
  BY <1>1, <1>2, FS_Subset, FS_CardinalityType

LEMMA UsedExtends ==
  ASSUME NEW last \in Nat, NEW mask \in SUBSET (0..last)
  PROVE  Cardinality(Used(last + 1, mask)) = Cardinality(Used(last, mask)) + 1
<1>1. Used(last + 1, mask) = Used(last, mask) \cup {last + 1}
  BY DEF Used
<1>2. last + 1 \notin Used(last, mask)
  BY DEF Used
<1> QED
  BY <1>1, <1>2, UsedFinite, FS_AddElement

LEMMA UsedShrinks ==
  ASSUME NEW last \in Nat, last # 0, NEW mask \in SUBSET (0..last),
         last \notin mask
  PROVE  /\ mask \in SUBSET (0..(last - 1))
         /\ Cardinality(Used(last - 1, mask)) = Cardinality(Used(last, mask)) - 1
<1>1. mask \in SUBSET (0..(last - 1))
  OBVIOUS
<1>2. Used(last - 1, mask) = Used(last, mask) \ {last} /\ last \in Used(last, mask)
  BY DEF Used
<1> QED
  BY <1>1, <1>2, UsedFinite, FS_RemoveElement

LEMMA UsedMarks ==
  ASSUME NEW last \in Nat, NEW mask \in SUBSET (0..last),
         NEW p \in (0..last) \ mask
  PROVE  /\ mask \cup {p} \in SUBSET (0..last)
         /\ Cardinality(mask \cup {p}) = Cardinality(mask) + 1
         /\ Cardinality(Used(last, mask \cup {p})) = Cardinality(Used(last, mask)) - 1
<1>1. Used(last, mask \cup {p}) = Used(last, mask) \ {p} /\ p \in Used(last, mask)
  BY DEF Used
<1>2. /\ mask \cup {p} \in SUBSET (0..last)
      /\ Cardinality(mask \cup {p}) = Cardinality(mask) + 1
  BY UsedFinite, FS_AddElement
<1>3. Cardinality(Used(last, mask \cup {p})) = Cardinality(Used(last, mask)) - 1
  BY <1>1, UsedFinite, FS_RemoveElement
<1> QED
  BY <1>2, <1>3

LEMMA UsedUnmarks ==
  ASSUME NEW last \in Nat, NEW mask \in SUBSET (0..last), NEW p \in mask
  PROVE  /\ mask \ {p} \in SUBSET (0..last)
         /\ Cardinality(mask \ {p}) = Cardinality(mask) - 1
         /\ Cardinality(Used(last, mask \ {p})) = Cardinality(Used(last, mask)) + 1
<1>1. Used(last, mask \ {p}) = Used(last, mask) \cup {p} /\ p \notin Used(last, mask)
  BY DEF Used
<1> QED
  BY <1>1, UsedFinite, FS_AddElement, FS_RemoveElement

\* The slots in use are those that the mask leaves, also of a table with none.
LEMMA LiveIsUsed ==
  ASSUME NEW t, Shape(t), Exists(t), Bounds(t), MaskExact(t), CountExact(t)
  PROVE  /\ t.count # 0 => Live(t) = Used(t.last, t.mask)
         /\ t.count = 0 => Live(t) = {}
         /\ t.count = 0 /\ t.fragCount # 0 => Used(t.last, t.mask) = {}
         /\ t.count = 0 /\ t.fragCount = 0 => t.last = 0 /\ t.mask = {}
<1>1. t.last \in Nat /\ t.mask \in SUBSET (0..t.last)
  BY DEF Shape, Table, MaskExact
<1>2. t.count # 0 => Live(t) = Used(t.last, t.mask)
  BY DEF Live, IsEmpty, Used
<1>3. t.count = 0 => Live(t) = {}
  BY DEF Live, IsEmpty
<1>4. ASSUME t.count = 0, t.fragCount # 0 PROVE Used(t.last, t.mask) = {}
  <2>1. t.mask # {}
    BY <1>4, FS_EmptySet DEF MaskExact
  <2>2. Cardinality(Used(t.last, t.mask)) = 0
    BY <1>4, <2>1 DEF CountExact, Used
  <2> QED
    BY <1>1, <2>2, UsedFinite, FS_EmptySet
<1>5. ASSUME t.count = 0, t.fragCount = 0 PROVE t.last = 0 /\ t.mask = {}
  <2>1. t.mask = {}
    BY <1>1, <1>5, UsedFinite, FS_EmptySet DEF MaskExact
  <2>2. Used(t.last, t.mask) = 0..t.last
    BY <2>1 DEF Used
  <2>3. Cardinality(0..t.last) = t.last + 1
    <3>1. 0 \in Int /\ t.last \in Int /\ ~(0 > t.last)
      BY <1>1
    <3>2. Cardinality(0..t.last) = IF 0 > t.last THEN 0 ELSE t.last - 0 + 1
      BY <3>1, FS_Interval, Zenon
    <3> QED
      BY <1>1, <3>2
  <2> QED
    BY <1>1, <1>5, <2>1, <2>2, <2>3 DEF CountExact, Used
<1> QED
  BY <1>2, <1>3, <1>4, <1>5

LEMMA LiveOfUsed ==
  ASSUME NEW u, Exists(u), u.last \in Nat, u.mask \in SUBSET (0..u.last),
         u.count = Cardinality(Used(u.last, u.mask))
  PROVE  Live(u) = Used(u.last, u.mask)
<1>1. CASE u.count = 0
  <2>1. Used(u.last, u.mask) = {}
    BY <1>1, UsedFinite, FS_EmptySet
  <2> QED
    BY <1>1, <2>1 DEF Live, IsEmpty
<1>2. CASE u.count # 0
  BY <1>2 DEF Live, IsEmpty, Used
<1> QED
  BY <1>1, <1>2

----------------------------------------------------------------------------
(* The cursor stays between the first slot and last.                       *)

LEMMA GoodMoves ==
  ASSUME NEW t, Sound(t), NEW p \in Nat, Exists(t) => p <= t.last
  PROVE  Sound([t EXCEPT !.pos = p])
<1> DEFINE u == [t EXCEPT !.pos = p]
<1>1. Shape(u)
  BY ShapeMoves DEF Sound
<1>2. /\ u.flags = t.flags /\ u.head = t.head /\ u.size = t.size /\ u.pos = p
      /\ u.last = t.last /\ u.tail = t.tail /\ u.count = t.count
      /\ u.fragCount = t.fragCount /\ u.mask = t.mask /\ u.cells = t.cells
  BY DEF Sound, Shape, Table
<1> HIDE DEF u
<1>3. Exists(u) = Exists(t) /\ Live(u) = Live(t)
  BY <1>2 DEF Exists, Live, IsEmpty
<1>4. Sound(u)
  BY <1>1, <1>2, <1>3
     DEF Sound, Good, Bounds, MaskExact, CountExact, TailIsLast, CellsExact
<1> QED
  BY <1>4 DEF u

LEMMA MovesKeep ==
  ASSUME NEW t, t \in Table, NEW p
  PROVE  Kept(t, [t EXCEPT !.pos = p])
<1> DEFINE u == [t EXCEPT !.pos = p]
<1>1. /\ u.flags = t.flags /\ u.last = t.last /\ u.count = t.count
      /\ u.mask = t.mask /\ u.cells = t.cells
  BY DEF Table
<1> QED
  BY <1>1 DEF Kept, Live, IsEmpty, Exists

LEMMA SoundFacts ==
  ASSUME NEW t, Sound(t)
  PROVE  /\ t \in Table /\ t.pos \in Nat /\ t.last \in Nat /\ t.tail \in Nat
         /\ Exists(t) => /\ t.pos <= t.last /\ t.tail = t.last
                         /\ t.size \in 1..MaxSize /\ t.last < t.size
                         /\ t.mask \in SUBSET (0..t.last)
                         /\ Good(t)
BY DEF Sound, Shape, Table, Good, Bounds, TailIsLast, MaskExact

LEMMA MovesKeepSound ==
  ASSUME NEW t, Sound(t)
  PROVE  /\ Sound(First(t).t) /\ Sound(Last(t).t)
         /\ Sound(NextSlot(t).t) /\ Sound(PrevSlot(t).t)
         /\ \A p \in Nat : Sound(Chunk(t, p).t)
         /\ \A d : Sound(Search(t, d).t)
<1>1. t.pos \in Nat /\ t.last \in Nat /\ (Exists(t) => t.pos <= t.last)
  BY SoundFacts
<1>2. \A S : Visible(t, S) \subseteq S
  BY DEF Visible
<1>3. ASSUME ~Exists(t)
      PROVE  /\ First(t).t = t /\ Last(t).t = t /\ NextSlot(t).t = t
             /\ PrevSlot(t).t = t
             /\ \A p \in Nat : Chunk(t, p).t = t
             /\ \A d : Search(t, d).t = t
  BY <1>3 DEF First, Last, NextSlot, PrevSlot, Chunk, Search, IsEmpty, Nowhere
<1>4. CASE Exists(t)
  <2>1. \A p \in Nat : p <= t.last => Sound([t EXCEPT !.pos = p])
    BY GoodMoves
  <2>2. 0 <= t.last /\ t.last <= t.last
    BY <1>1
  <2>3. Sound(First(t).t) /\ Sound(Last(t).t)
    BY <1>1, <2>1, <2>2 DEF First, Last, At, Nowhere
  <2>4. Sound(NextSlot(t).t)
    <3> DEFINE ahead == Visible(t, (t.pos + 1)..t.last)
    <3>1. ahead \in SUBSET ((t.pos + 1)..t.last)
      BY <1>2
    <3>2. ahead # {} => Least(ahead) \in Nat /\ Least(ahead) <= t.last
      <4>1. ahead \in SUBSET Nat
        BY <1>1, <3>1
      <4>2. ASSUME ahead # {} PROVE Least(ahead) \in ahead
        BY <4>1, <4>2, LeastIn, Zenon
      <4>3. \A p \in (t.pos + 1)..t.last : p \in Nat /\ p <= t.last
        BY <1>1
      <4> QED
        BY <3>1, <4>2, <4>3
    <3> HIDE DEF ahead
    <3>3. /\ ahead # {} => NextSlot(t).t \in {t, [t EXCEPT !.pos = Least(ahead)]}
          /\ ahead = {} => NextSlot(t).t \in {t, [t EXCEPT !.pos = t.last],
                                             [t EXCEPT !.pos = t.pos]}
      BY DEF NextSlot, At, Nowhere, ahead
    <3> QED
      BY <1>1, <1>4, <2>1, <2>2, <3>2, <3>3
  <2>5. Sound(PrevSlot(t).t)
    <3> DEFINE behind == Visible(t, 0..(t.pos - 1))
    <3>1. behind \in SUBSET (0..t.pos)
      <4>1. \A p \in 0..(t.pos - 1) : p \in 0..t.pos
        BY <1>1
      <4> QED
        BY <1>2, <4>1
    <3>2. ASSUME behind # {} PROVE Greatest(behind) \in behind
      BY <1>1, <3>1, <3>2, GreatestIn, Zenon
    <3>3. behind # {} => Greatest(behind) \in Nat /\ Greatest(behind) <= t.last
      <4>1. \A p \in 0..t.pos : p \in Nat /\ p <= t.last
        BY <1>1, <1>4
      <4> QED
        BY <3>1, <3>2, <4>1
    <3> QED
      BY <1>1, <2>1, <2>2, <3>3 DEF PrevSlot, At, Nowhere
  <2>6. ASSUME NEW p \in Nat PROVE Sound(Chunk(t, p).t)
    BY <2>1 DEF Chunk, At, Nowhere
  <2>7. ASSUME NEW d PROVE Sound(Search(t, d).t)
    <3> DEFINE found == {p \in Visible(t, 0..t.last) : Matches(t.cells[p], d)}
    <3>1. found \in SUBSET (0..t.last)
      BY <1>2
    <3>2. found # {} => Least(found) \in Nat /\ Least(found) <= t.last
      <4>1. found \in SUBSET Nat
        BY <1>1, <3>1
      <4>2. ASSUME found # {} PROVE Least(found) \in found
        BY <4>1, <4>2, LeastIn, Zenon
      <4>3. \A p \in 0..t.last : p \in Nat /\ p <= t.last
        BY <1>1
      <4> QED
        BY <3>1, <4>2, <4>3
    <3> QED
      BY <1>1, <1>4, <2>1, <2>2, <3>2 DEF Search, At, Nowhere
  <2> QED
    BY <2>3, <2>4, <2>5, <2>6, <2>7
<1> QED
  BY <1>3, <1>4

LEMMA FirstNextSound ==
  ASSUME NEW t, Sound(t)
  PROVE  Sound(FirstNext(t).t) /\ Sound(CircularNext(t).t)
<1>1. ASSUME NEW u, Sound(u) PROVE Sound(FirstNext(u).t)
  BY <1>1, MovesKeepSound DEF FirstNext
<1> QED
  BY <1>1, MovesKeepSound DEF CircularNext

LEMMA SoundCreated ==
  ASSUME NEW n \in 1..MaxSize, NEW flags \in SUBSET {"NRA", "NRU"}
  PROVE  /\ Sound(Created(n, flags)) /\ Exists(Created(n, flags))
         /\ Live(Created(n, flags)) = {}
<1> DEFINE u == Created(n, flags)
<1>1. Shape(u) /\ Exists(u)
  BY ShapeCreated DEF MinSize
<1>2. /\ u.head = "live" /\ u.size = n /\ u.pos = 0 /\ u.last = 0
      /\ u.tail = 0 /\ u.count = 0 /\ u.fragCount = 0 /\ u.mask = {}
      /\ u.cells = [p \in 0..(n - 1) |-> Zero]
  BY DEF Created
<1> HIDE DEF u
<1>3. Live(u) = {}
  BY <1>2 DEF Live, IsEmpty
<1>4. Bounds(u) /\ CountExact(u) /\ TailIsLast(u)
  BY <1>2, TableAssumption DEF Bounds, CountExact, TailIsLast
<1>5. MaskExact(u)
  BY <1>2, FS_EmptySet DEF MaskExact
<1>6. CellsExact(u)
  BY <1>2, <1>3 DEF CellsExact
<1>7. Sound(u) /\ Exists(u) /\ Live(u) = {}
  BY <1>1, <1>3, <1>4, <1>5, <1>6 DEF Sound, Good
<1> QED
  BY <1>7 DEF u

----------------------------------------------------------------------------
(* Deleting.                                                               *)

LEMMA DelKeepsSound ==
  ASSUME NEW t, Sound(t)
  PROVE  /\ Sound(DelCurrent(t).t)
         /\ IF DelCurrent(t).ok THEN Lost(t, DelCurrent(t).t, DelCurrent(t).at)
            ELSE DelCurrent(t).t = t
<1> DEFINE p == Current(t)
           r == DelCurrent(t)
<1>1. CASE p = Null \/ p \in t.mask
  BY <1>1 DEF DelCurrent, Failed
<1>2. CASE ~(p = Null \/ p \in t.mask)
  <2>1. Exists(t) /\ p = t.pos /\ p \in Nat /\ p <= t.last /\ t.count # 0
    BY <1>2, SoundFacts DEF Current, IsEmpty
  <2>2. /\ t \in Table /\ t.last \in Nat /\ t.tail = t.last /\ t.count \in Int
        /\ t.size \in 1..MaxSize /\ t.last < t.size /\ t.mask \in SUBSET (0..t.last)
        /\ Good(t) /\ t.size \in Nat
    BY <2>1, SoundFacts, TableAssumption DEF Table
  <2>3. /\ t.count = Cardinality(Used(t.last, t.mask))
        /\ Live(t) = Used(t.last, t.mask)
        /\ t.cells \in [0..(t.size - 1) -> Cell]
    BY <2>1, <2>2 DEF Good, CountExact, Live, IsEmpty, Used, Shape, Sound
  <2>4. Shape(r.t)
    BY DelKeepsShape DEF Sound, ShapeOut
  <2> DEFINE cells == [t.cells EXCEPT ![p] = Zero]
  <2>5. /\ cells \in [0..(t.size - 1) -> Cell] /\ cells[p] = Zero
        /\ \A q \in 0..(t.size - 1) : q # p => cells[q] = t.cells[q]
    BY <2>1, <2>2, <2>3 DEF Cell
  <2>6. \A q \in 0..(t.size - 1) :
          IF q \in Used(t.last, t.mask) \ {p} THEN cells[q] \in Chunks
          ELSE cells[q] = Zero
    <3>1. \A q \in 0..(t.size - 1) :
            IF q \in Used(t.last, t.mask) THEN t.cells[q] \in Chunks
            ELSE t.cells[q] = Zero
      BY <2>2, <2>3 DEF Good, Bounds, CellsExact
    <3> QED
      BY <2>5, <3>1
  <2>9. p \in Used(t.last, t.mask) /\ Used(t.last, t.mask) \subseteq 0..(t.size - 1)
    BY <1>2, <2>1, <2>2 DEF Used
  <2>7. CASE p = t.tail /\ p # 0
    <3>1. /\ r.t.flags = t.flags /\ r.t.head = t.head /\ r.t.size = t.size
          /\ r.t.pos = t.last - 1 /\ r.t.last = t.last - 1 /\ r.t.tail = p - 1
          /\ r.t.count = t.count - 1 /\ r.t.fragCount = t.fragCount
          /\ r.t.mask = t.mask /\ r.t.cells = cells
      BY <1>2, <2>2, <2>7 DEF DelCurrent, Done, Table
    <3>2. p = t.last /\ t.last # 0 /\ t.last \notin t.mask
      BY <1>2, <2>2, <2>7
    <3>3. /\ t.mask \in SUBSET (0..(t.last - 1))
          /\ Cardinality(Used(t.last - 1, t.mask)) = Cardinality(Used(t.last, t.mask)) - 1
      BY <2>2, <3>2, UsedShrinks
    <3>4. Used(t.last - 1, t.mask) = Used(t.last, t.mask) \ {p}
      BY <2>2, <3>2 DEF Used
    <3> HIDE DEF r, cells, p
    <3>5. Exists(r.t) /\ r.t.last \in Nat /\ r.t.mask \in SUBSET (0..r.t.last)
          /\ r.t.count = Cardinality(Used(r.t.last, r.t.mask))
      BY <2>1, <2>2, <2>3, <3>1, <3>2, <3>3 DEF Exists
    <3>6. Live(r.t) = Used(t.last, t.mask) \ {p}
      BY <3>1, <3>4, <3>5, LiveOfUsed
    <3>7. Bounds(r.t) /\ MaskExact(r.t) /\ TailIsLast(r.t)
      BY <2>2, <2>5, <3>1, <3>2, <3>3 DEF Good, Bounds, MaskExact, TailIsLast
    <3>8. CountExact(r.t)
      BY <3>5 DEF CountExact, Used
    <3>9. CellsExact(r.t)
      BY <2>5, <2>6, <3>1, <3>6 DEF CellsExact
    <3>10. Sound(r.t)
      BY <2>4, <3>7, <3>8, <3>9 DEF Sound, Good
    <3>11. r.ok /\ r.at = p
      BY <1>2, <2>7 DEF r, p, DelCurrent, Done
    <3>12. Lost(t, r.t, p)
      BY <2>1, <2>2, <2>3, <2>5, <2>9, <3>1, <3>5, <3>6 DEF Lost
    <3> QED
      BY <3>10, <3>11, <3>12 DEF r
  <2>8. CASE ~(p = t.tail /\ p # 0)
    <3>1. /\ r.t.flags = t.flags /\ r.t.head = t.head /\ r.t.size = t.size
          /\ r.t.pos = t.pos /\ r.t.last = t.last /\ r.t.tail = t.tail
          /\ r.t.count = t.count - 1 /\ r.t.fragCount = t.fragCount + 1
          /\ r.t.mask = t.mask \cup {p} /\ r.t.cells = cells
      BY <1>2, <2>2, <2>8 DEF DelCurrent, Done, Table
    <3>2. p \in (0..t.last) \ t.mask
      BY <1>2, <2>1, <2>2
    <3>3. /\ t.mask \cup {p} \in SUBSET (0..t.last)
          /\ Cardinality(t.mask \cup {p}) = Cardinality(t.mask) + 1
          /\ Cardinality(Used(t.last, t.mask \cup {p})) = Cardinality(Used(t.last, t.mask)) - 1
      BY <2>2, <3>2, UsedMarks
    <3>4. Used(t.last, t.mask \cup {p}) = Used(t.last, t.mask) \ {p}
      BY DEF Used
    <3> HIDE DEF r, cells, p
    <3>5. Exists(r.t) /\ r.t.last \in Nat /\ r.t.mask \in SUBSET (0..r.t.last)
          /\ r.t.count = Cardinality(Used(r.t.last, r.t.mask))
      BY <2>1, <2>2, <2>3, <3>1, <3>3 DEF Exists
    <3>6. Live(r.t) = Used(t.last, t.mask) \ {p}
      BY <3>1, <3>4, <3>5, LiveOfUsed
    <3>7. Bounds(r.t) /\ MaskExact(r.t) /\ TailIsLast(r.t)
      BY <2>1, <2>2, <2>5, <3>1, <3>3 DEF Good, Bounds, MaskExact, TailIsLast
    <3>8. CountExact(r.t)
      BY <3>5 DEF CountExact, Used
    <3>9. CellsExact(r.t)
      BY <2>5, <2>6, <3>1, <3>6 DEF CellsExact
    <3>10. Sound(r.t)
      BY <2>4, <3>7, <3>8, <3>9 DEF Sound, Good
    <3>11. r.ok /\ r.at = p
      BY <1>2, <2>8 DEF r, p, DelCurrent, Done
    <3>12. Lost(t, r.t, p)
      BY <2>1, <2>2, <2>3, <2>5, <2>9, <3>1, <3>5, <3>6 DEF Lost
    <3> QED
      BY <3>10, <3>11, <3>12 DEF r
  <2> QED
    BY <2>7, <2>8
<1> QED
  BY <1>1, <1>2

----------------------------------------------------------------------------
(* Growing and taking room for a chunk.                                    *)

\* A table that is as it should be but for slot p, which a chunk is about to
\* be written to.
Ready(t, p) ==
  /\ Shape(t) /\ Exists(t) /\ t.count # 0
  /\ Bounds(t) /\ MaskExact(t) /\ CountExact(t) /\ TailIsLast(t)
  /\ p \in Live(t)
  /\ \A q \in DOMAIN t.cells \ {p} :
       IF q \in Live(t) THEN t.cells[q] \in Chunks ELSE t.cells[q] = Zero

LEMMA GrowKeepsGood ==
  ASSUME ~DirtyHeap, ~AllocFaults, NEW t, Sound(t), Exists(t), ~IsEmpty(t),
         t.last + 1 >= t.size, NEW r \in ReallocAndMove(t)
  PROVE  IF r.ok THEN /\ Sound(r.t) /\ Exists(r.t) /\ ~IsEmpty(r.t)
                      /\ r.t.last + 1 < r.t.size
                      /\ Kept(t, r.t)
                      /\ r.t.flags = t.flags /\ t.size < r.t.size
         ELSE r.t = t /\ t.size = MaxSize
<1> DEFINE n == GrownSize(t)
<1>1. /\ t \in Table /\ t.last \in Nat /\ t.tail = t.last /\ Good(t)
      /\ t.size \in 1..MaxSize /\ t.last < t.size /\ t.mask \in SUBSET (0..t.last)
      /\ t.size \in Nat /\ t.last = t.size - 1 /\ MaxSize \in Nat
  BY SoundFacts, TableAssumption DEF Table
<1>2. n \in 1..MaxSize
  <2>1. t.size \in 1..MaxSize /\ MaxSize \in Nat
    BY <1>1
  <2> QED
    BY <2>1 DEF GrownSize
<1>3. /\ ShapeOut(r)
      /\ r.ok => /\ Exists(r.t) /\ r.t.last = t.last
                 /\ r.t.count = t.count /\ r.t.last + 1 < r.t.size
  BY GrowKeepsShape DEF Sound
<1>4. CASE n <= t.size
  <2>1. t.size = MaxSize
    BY <1>1, <1>4 DEF GrownSize
  <2> QED
    BY <1>4, <2>1 DEF ReallocAndMove, Failed
<1>5. CASE n > t.size
  <2>1. PICK moved \in BOOLEAN : r = Done(Null, Grown(t, n, moved, {}))
    <3>1. DirtyBits(t, n) = {}
      BY DEF DirtyBits
    <3>2. r \in {Done(Null, Grown(t, n, moved, dirt)) :
                   moved \in BOOLEAN, dirt \in SUBSET DirtyBits(t, n)}
               \cup (IF AllocFaults
                     THEN {Failed(t), Failed([t EXCEPT !.head = "freed"])} ELSE {})
      BY <1>5, <1>1, <1>2 DEF ReallocAndMove
    <3>3. PICK moved \in BOOLEAN, dirt \in SUBSET DirtyBits(t, n) :
                 r = Done(Null, Grown(t, n, moved, dirt))
      BY <3>2
    <3>4. dirt = {}
      BY <3>1, <3>3
    <3> QED
      BY <3>3, <3>4
  <2> DEFINE cells == [q \in 0..(n - 1) |->
                         IF q < t.size THEN t.cells[q] ELSE Zero]
  <2>2. t.mask \ ClearedBits(t, n) = t.mask
    <3>1. SlotBits \in Nat \ {0} /\ t.last \div SlotBits \in Nat
      BY <1>1, TableAssumption
    <3>2. t.last < (t.last \div SlotBits + 1) * SlotBits
      BY <1>1, <3>1, Z3
    <3>3. \A b \in ClearedBits(t, n) : b >= (t.last \div SlotBits + 1) * SlotBits
      BY <3>1 DEF ClearedBits, Bits
    <3>4. \A b \in t.mask : b < (t.last \div SlotBits + 1) * SlotBits
      <4>1. (t.last \div SlotBits + 1) * SlotBits \in Int
        BY <3>1
      <4> QED
        BY <1>1, <3>2, <4>1
    <3>5. (t.last \div SlotBits + 1) * SlotBits \in Int
      BY <3>1
    <3>6. \A b \in t.mask : b \notin ClearedBits(t, n)
      BY <1>1, <3>3, <3>4, <3>5
    <3> QED
      BY <3>6
  <2>3. (IF moved THEN t.last ELSE t.tail) = t.last
    BY <1>1
  <2>4. \A q \in 0..(n - 1) :
          (IF q \in (t.last + 1)..(t.last + n - t.size) THEN Zero
           ELSE IF q < t.size THEN t.cells[q] ELSE Junk)
          = (IF q < t.size THEN t.cells[q] ELSE Zero)
    BY <1>1, <1>2, <1>5
  <2>5. Grown(t, n, moved, {}) =
          [t EXCEPT !.size = n, !.tail = t.last, !.mask = t.mask, !.cells = cells]
    BY <2>2, <2>3, <2>4 DEF Grown
  <2>6. /\ r.ok
        /\ r.t.flags = t.flags /\ r.t.head = t.head /\ r.t.size = n
        /\ r.t.pos = t.pos /\ r.t.last = t.last /\ r.t.tail = t.last
        /\ r.t.count = t.count /\ r.t.fragCount = t.fragCount
        /\ r.t.mask = t.mask /\ r.t.cells = cells
    BY <1>1, <2>1, <2>5 DEF Done, Table
  <2> HIDE DEF cells
  <2>7. Live(r.t) = Live(t) /\ Live(t) \subseteq 0..(t.size - 1) /\ ~IsEmpty(r.t)
    BY <1>1, <2>6 DEF Live, IsEmpty, Exists
  <2>8. Bounds(r.t) /\ MaskExact(r.t) /\ CountExact(r.t) /\ TailIsLast(r.t)
    BY <1>1, <1>2, <1>5, <2>6
       DEF Good, Bounds, MaskExact, CountExact, TailIsLast, cells
  <2>9. CellsExact(r.t)
    <3>1. DOMAIN r.t.cells = 0..(n - 1) /\ DOMAIN t.cells = 0..(t.size - 1)
      BY <1>1, <2>6 DEF Good, Bounds, cells
    <3>2. \A q \in 0..(n - 1) : r.t.cells[q] = IF q < t.size THEN t.cells[q] ELSE Zero
      BY <2>6 DEF cells
    <3>3. \A q \in 0..(t.size - 1) :
            IF q \in Live(t) THEN t.cells[q] \in Chunks ELSE t.cells[q] = Zero
      BY <1>1, <3>1 DEF CellsExact, Good
    <3>4. ASSUME NEW q \in 0..(n - 1)
          PROVE  IF q \in Live(r.t) THEN r.t.cells[q] \in Chunks ELSE r.t.cells[q] = Zero
      <4>1. CASE q < t.size
        <5>1. q \in 0..(t.size - 1) /\ r.t.cells[q] = t.cells[q]
          BY <1>1, <1>2, <3>2, <4>1
        <5> QED
          BY <2>7, <3>3, <5>1
      <4>2. CASE ~(q < t.size)
        <5>1. q \notin Live(t) /\ r.t.cells[q] = Zero
          BY <1>1, <1>2, <2>7, <3>2, <4>2
        <5> QED
          BY <2>7, <5>1
      <4> QED
        BY <4>1, <4>2
    <3> QED
      BY <3>1, <3>4 DEF CellsExact
  <2>10. Kept(t, r.t)
    <3>1. \A q \in 0..(t.size - 1) : cells[q] = t.cells[q]
      BY <1>1, <1>2, <1>5 DEF cells
    <3> QED
      BY <1>3, <2>6, <2>7, <3>1 DEF Kept
  <2> QED
    BY <1>3, <1>5, <2>6, <2>7, <2>8, <2>9, <2>10 DEF Sound, Good, ShapeOut
<1> QED
  BY <1>1, <1>2, <1>4, <1>5

\* Room for one chunk was found in t and only its cell is still to be written,
\* or none was and the table is as good as before.
RoomOut(t, r) ==
  /\ DstOut(r)
  /\ IF r.ok THEN Ready(r.t, r.at) /\ Gained(t, r.t, r.at)
     ELSE Sound(r.t) /\ Kept(t, r.t)

LEMMA KeptGained ==
  ASSUME NEW s, NEW t, NEW u, NEW p, Exists(s), Kept(s, t)
  PROVE  /\ Gained(t, u, p) => Gained(s, u, p)
         /\ Kept(t, u) => Kept(s, u)
BY DEF Kept, Gained

LEMMA TakeTailReady ==
  ASSUME NEW t, Sound(t), Exists(t),
         IF IsEmpty(t) THEN ~Fragmented(t) ELSE t.last + 1 < t.size
  PROVE  RoomOut(t, TakeTail(t))
<1> DEFINE r == TakeTail(t)
           b == r.at
<1>1. /\ t \in Table /\ t.last \in Nat /\ t.tail = t.last /\ Good(t)
      /\ t.size \in 1..MaxSize /\ t.last < t.size /\ t.mask \in SUBSET (0..t.last)
      /\ t.size \in Nat /\ t.count \in Int /\ t.pos \in Nat
  BY SoundFacts, TableAssumption DEF Table
<1>2. DstOut(r) /\ Shape(r.t) /\ Exists(r.t)
  BY TakeTailShape DEF Sound, DstOut, ShapeOut
<1>3. \A q \in 0..(t.size - 1) :
        IF q \in Live(t) THEN t.cells[q] \in Chunks ELSE t.cells[q] = Zero
  BY <1>1 DEF Good, Bounds, CellsExact
<1>4. CASE IsEmpty(t)
  <2>1. t.count = 0 /\ t.fragCount = 0
    BY <1>4 DEF IsEmpty, Fragmented
  <2>2. t.last = 0 /\ t.mask = {} /\ Live(t) = {}
    BY <2>1, <1>1, LiveIsUsed DEF Sound, Good
  <2>3. /\ r.ok /\ b = 0
        /\ r.t.flags = t.flags /\ r.t.head = t.head /\ r.t.size = t.size
        /\ r.t.pos = t.pos /\ r.t.last = 0 /\ r.t.tail = 0
        /\ r.t.count = 1 /\ r.t.fragCount = t.fragCount
        /\ r.t.mask = {} /\ r.t.cells = t.cells
    <3>1. r = Done(0, [t EXCEPT !.tail = 0, !.count = 1])
      BY <1>4, <2>1 DEF TakeTail
    <3>2. t \in Table
      BY <1>1
    <3>3. /\ r.ok /\ b = 0
          /\ r.t = [t EXCEPT !.tail = 0, !.count = 1]
      BY <3>1 DEF Done
    <3> QED
      BY <2>2, <3>2, <3>3 DEF Table
  <2> HIDE DEF r, b
  <2>4. Live(r.t) = {0}
    BY <1>2, <2>3 DEF Live, IsEmpty
  <2>5. r.t.count = Cardinality((0..r.t.last) \ r.t.mask)
    <3>1. (0..r.t.last) \ r.t.mask = {0}
      BY <2>3
    <3> QED
      BY <2>3, <3>1, FS_Singleton
  <2>6. Bounds(r.t) /\ MaskExact(r.t) /\ CountExact(r.t) /\ TailIsLast(r.t)
    BY <1>1, <2>2, <2>3, <2>5
       DEF Good, Bounds, MaskExact, CountExact, TailIsLast
  <2>7. \A q \in DOMAIN r.t.cells \ {b} :
          IF q \in Live(r.t) THEN r.t.cells[q] \in Chunks ELSE r.t.cells[q] = Zero
    BY <1>1, <1>3, <2>2, <2>3, <2>4 DEF Good, Bounds
  <2>8. Ready(r.t, b)
    BY <1>2, <2>3, <2>4, <2>6, <2>7 DEF Ready
  <2>9. Gained(t, r.t, b)
    BY <1>2, <2>2, <2>3, <2>4 DEF Gained
  <2> QED
    BY <1>2, <2>3, <2>8, <2>9 DEF RoomOut, b, r
<1>5. CASE ~IsEmpty(t)
  <2>1. t.last + 1 < t.size /\ t.count # 0
    BY <1>5 DEF IsEmpty
  <2>2. /\ t.count = Cardinality(Used(t.last, t.mask))
        /\ Live(t) = Used(t.last, t.mask)
    BY <1>1, <2>1 DEF Good, CountExact, Live, IsEmpty, Used
  <2>3. /\ r.ok /\ b = t.last + 1
        /\ r.t.flags = t.flags /\ r.t.head = t.head /\ r.t.size = t.size
        /\ r.t.pos = t.last + 1 /\ r.t.last = t.last + 1 /\ r.t.tail = t.last + 1
        /\ r.t.count = t.count + 1 /\ r.t.fragCount = t.fragCount
        /\ r.t.mask = t.mask /\ r.t.cells = t.cells
    BY <1>1, <1>5 DEF TakeTail, Done, Table
  <2> HIDE DEF r, b
  <2>4. Cardinality(Used(t.last + 1, t.mask)) = Cardinality(Used(t.last, t.mask)) + 1
    BY <1>1, UsedExtends
  <2>5. Used(t.last + 1, t.mask) = Used(t.last, t.mask) \cup {b}
    BY <1>1, <2>3 DEF Used
  <2>6. r.t.last \in Nat /\ r.t.mask \in SUBSET (0..r.t.last)
        /\ r.t.count = Cardinality(Used(r.t.last, r.t.mask))
    BY <1>1, <2>2, <2>3, <2>4
  <2>7. Live(r.t) = Live(t) \cup {b}
    BY <1>2, <2>2, <2>3, <2>5, <2>6, LiveOfUsed
  <2>8. r.t.count # 0
    BY <1>1, <2>1, <2>2, <2>3, UsedFinite
  <2>9. Bounds(r.t) /\ MaskExact(r.t) /\ TailIsLast(r.t)
    BY <1>1, <2>1, <2>3 DEF Good, Bounds, MaskExact, TailIsLast
  <2>10. CountExact(r.t)
    BY <2>6 DEF CountExact, Used
  <2>11. \A q \in DOMAIN r.t.cells \ {b} :
          IF q \in Live(r.t) THEN r.t.cells[q] \in Chunks ELSE r.t.cells[q] = Zero
    BY <1>1, <1>3, <2>3, <2>7 DEF Good, Bounds
  <2>12. Ready(r.t, b)
    BY <1>2, <2>7, <2>8, <2>9, <2>10, <2>11 DEF Ready
  <2>13. b \notin Live(t)
    BY <1>1, <2>2, <2>3 DEF Used
  <2>14. Gained(t, r.t, b)
    BY <1>2, <2>3, <2>7, <2>13 DEF Gained
  <2> QED
    BY <1>2, <2>3, <2>12, <2>14 DEF RoomOut, b, r
<1> QED
  BY <1>4, <1>5

LEMMA TailNextReady ==
  ASSUME ~DirtyHeap, ~AllocFaults, NEW t, Sound(t), Exists(t),
         IsEmpty(t) => ~Fragmented(t), NEW r \in GetTailNext(t)
  PROVE  RoomOut(t, r)
<1>1. DstOut(r)
  BY TailNextShape DEF Sound
<1>2. CASE IsEmpty(t) \/ t.last + 1 < t.size
  <2>1. r = TakeTail(t)
    BY <1>2 DEF GetTailNext
  <2> QED
    BY <1>2, <2>1, TakeTailReady
<1>3. CASE ~(IsEmpty(t) \/ t.last + 1 < t.size)
  <2>1. t.last + 1 >= t.size
    BY <1>3, TableAssumption DEF Sound, Shape, Table
  <2>2. CASE "NRA" \in t.flags
    <3>1. r = Failed(t)
      BY <1>3, <2>2 DEF GetTailNext
    <3> QED
      BY <1>1, <3>1 DEF Failed, RoomOut, Kept
  <2>3. CASE "NRA" \notin t.flags
    <3>1. PICK g \in ReallocAndMove(t) : r = IF g.ok THEN TakeTail(g.t) ELSE g
      BY <1>3, <2>3 DEF GetTailNext
    <3>2. IF g.ok THEN /\ Sound(g.t) /\ Exists(g.t) /\ ~IsEmpty(g.t)
                       /\ g.t.last + 1 < g.t.size /\ Kept(t, g.t)
          ELSE g.t = t
      BY <1>3, <2>1, GrowKeepsGood
    <3>3. CASE g.ok
      <4>1. RoomOut(g.t, r)
        BY <3>1, <3>2, <3>3, TakeTailReady
      <4> QED
        BY <3>2, <3>3, <4>1, KeptGained DEF RoomOut
    <3>4. CASE ~g.ok
      BY <1>1, <3>1, <3>2, <3>4 DEF RoomOut, Kept
    <3> QED
      BY <3>3, <3>4
  <2> QED
    BY <2>2, <2>3
<1> QED
  BY <1>2, <1>3

\* The position that ratt_table_set_pos_frag_first finds is that of a fragment.
LEMMA FragFirstFinds ==
  ASSUME NEW t, Sound(t), Exists(t), Fragmented(t)
  PROVE  \E p \in t.mask : SetPosFragFirst(t) = [t EXCEPT !.pos = p]
<1> DEFINE slots == t.last \div SlotBits + 1
           on == t.mask \cap Bits(0, slots)
<1>1. t.last \in Nat /\ t.mask \in SUBSET (0..t.last) /\ MaskExact(t)
  BY SoundFacts DEF Good
<1>2. t.mask # {}
  BY <1>1, FS_EmptySet DEF MaskExact, Fragmented
<1>3. on = t.mask
  <2>1. \A p \in 0..t.last : p \in Bits(0, MaskSize(t.last))
    BY <1>1, MaskCovers
  <2>2. slots = MaskSize(t.last)
    BY <1>1, TableAssumption DEF MaskSize
  <2> HIDE DEF slots
  <2> QED
    BY <1>1, <2>1, <2>2
<1>4. on \in SUBSET Nat /\ on # {}
  BY <1>1, <1>2, <1>3
<1>5. Least(on) \in on
  BY <1>4, LeastIn
<1>6. SetPosFragFirst(t) = [t EXCEPT !.pos = Least(on)]
  BY <1>4 DEF SetPosFragFirst
<1> HIDE DEF on
<1> QED
  BY <1>3, <1>5, <1>6

LEMMA FragFirstReady ==
  ASSUME ~DirtyHeap, ~AllocFaults, NEW t, Sound(t), Exists(t),
         IsEmpty(t) /\ "NRU" \in t.flags => ~Fragmented(t),
         NEW r \in GetFragFirst(t)
  PROVE  RoomOut(t, r)
<1> DEFINE s == SetPosFragFirst(t)
<1>1. DstOut(r)
  BY FragFirstShape DEF Sound
<1>2. CASE ~Fragmented(t) \/ "NRU" \in t.flags
  BY <1>2, TailNextReady DEF GetFragFirst
<1>3. CASE ~(~Fragmented(t) \/ "NRU" \in t.flags)
  <2>1. PICK p \in t.mask : s = [t EXCEPT !.pos = p]
    BY <1>3, FragFirstFinds
  <2>2. p \in Nat /\ p <= t.last
    BY SoundFacts
  <2>3. Sound(s) /\ Kept(t, s)
    BY <2>1, <2>2, GoodMoves, MovesKeep, SoundFacts
  <2>4. CASE Current(s) = Null \/ s.pos \notin s.mask
    <3>1. r = Failed(s)
      BY <1>3, <2>4 DEF GetFragFirst
    <3> QED
      BY <1>1, <2>3, <3>1 DEF Failed, RoomOut
  <2>5. CASE ~(Current(s) = Null \/ s.pos \notin s.mask)
    <3>1. /\ s \in Table /\ s.pos \in s.mask /\ s.last \in Nat /\ s.count # 0
          /\ s.mask \in SUBSET (0..s.last) /\ Exists(s) /\ Good(s)
          /\ s.pos <= s.last /\ s.count \in Int
      BY <2>3, <2>5, SoundFacts DEF Current, IsEmpty, Table
    <3>2. r = Done(s.pos, [s EXCEPT !.mask = s.mask \ {s.pos},
                                    !.fragCount = s.fragCount - 1,
                                    !.count = s.count + 1])
      BY <1>3, <2>5 DEF GetFragFirst
    <3>3. /\ s.count = Cardinality(Used(s.last, s.mask))
          /\ Live(s) = Used(s.last, s.mask)
          /\ s.fragCount = Cardinality(s.mask)
      BY <3>1 DEF Good, CountExact, MaskExact, Live, IsEmpty, Used
    <3> HIDE DEF s
    <3>4. /\ r.ok /\ r.at = s.pos
          /\ r.t.flags = s.flags /\ r.t.head = s.head /\ r.t.size = s.size
          /\ r.t.pos = s.pos /\ r.t.last = s.last /\ r.t.tail = s.tail
          /\ r.t.count = s.count + 1 /\ r.t.fragCount = s.fragCount - 1
          /\ r.t.mask = s.mask \ {s.pos} /\ r.t.cells = s.cells
      BY <3>1, <3>2 DEF Done, Table
    <3>5. /\ s.mask \ {s.pos} \in SUBSET (0..s.last)
          /\ Cardinality(s.mask \ {s.pos}) = Cardinality(s.mask) - 1
          /\ Cardinality(Used(s.last, s.mask \ {s.pos})) = Cardinality(Used(s.last, s.mask)) + 1
      BY <3>1, UsedUnmarks
    <3>6. Used(s.last, s.mask \ {s.pos}) = Used(s.last, s.mask) \cup {s.pos}
      BY <3>1 DEF Used
    <3>7. Exists(r.t) /\ Shape(r.t)
      BY <1>1 DEF DstOut, ShapeOut
    <3>8. r.t.last \in Nat /\ r.t.mask \in SUBSET (0..r.t.last)
          /\ r.t.count = Cardinality(Used(r.t.last, r.t.mask))
      BY <3>1, <3>3, <3>4, <3>5
    <3>9. Live(r.t) = Live(s) \cup {s.pos}
      BY <3>3, <3>4, <3>6, <3>7, <3>8, LiveOfUsed
    <3>10. r.t.count # 0
      BY <3>1, <3>3, <3>4, UsedFinite
    <3>11. Bounds(r.t) /\ MaskExact(r.t) /\ TailIsLast(r.t)
      BY <3>1, <3>3, <3>4, <3>5 DEF Good, Bounds, MaskExact, TailIsLast
    <3>12. CountExact(r.t)
      BY <3>8 DEF CountExact, Used
    <3>13. \A q \in DOMAIN r.t.cells \ {s.pos} :
            IF q \in Live(r.t) THEN r.t.cells[q] \in Chunks ELSE r.t.cells[q] = Zero
      BY <3>1, <3>4, <3>9 DEF Good, CellsExact
    <3>14. Ready(r.t, s.pos)
      BY <3>7, <3>9, <3>10, <3>11, <3>12, <3>13 DEF Ready
    <3>15. s.pos \notin Live(s)
      BY <3>1, <3>3 DEF Used
    <3>16. Gained(s, r.t, s.pos)
      BY <3>1, <3>4, <3>7, <3>9, <3>15 DEF Gained
    <3> QED
      BY <1>1, <2>3, <3>4, <3>14, <3>16, KeptGained DEF RoomOut
  <2> QED
    BY <2>4, <2>5
<1> QED
  BY <1>2, <1>3

----------------------------------------------------------------------------
(* Writing.                                                                *)

LEMMA WriteSound ==
  ASSUME NEW t, NEW r, RoomOut(t, r), r.ok,
         r = [ok |-> r.ok, at |-> r.at, t |-> r.t], NEW d \in Chunks
  PROVE  /\ Sound([r EXCEPT !.t.cells[r.at] = d].t)
         /\ [r EXCEPT !.t.cells[r.at] = d].ok
         /\ [r EXCEPT !.t.cells[r.at] = d].at = r.at
         /\ [r EXCEPT !.t.cells[r.at] = d].t.cells[r.at] = d
         /\ Gained(t, [r EXCEPT !.t.cells[r.at] = d].t, r.at)
<1> DEFINE u == r.t
           cells == [u.cells EXCEPT ![r.at] = d]
           g == [u EXCEPT !.cells = cells]
<1>1. /\ u \in Table /\ Shape(u) /\ Exists(u) /\ Ready(u, r.at)
      /\ r.at \in 0..(u.size - 1) /\ u.size \in 0..MaxSize
      /\ u.cells \in [0..(u.size - 1) -> Cell]
  <2>1. Shape(u) /\ Exists(u) /\ Ready(u, r.at) /\ r.at \in 0..(u.size - 1)
    BY DEF RoomOut, DstOut, ShapeOut
  <2>2. u \in Table
    BY <2>1 DEF Shape
  <2> QED
    BY <2>1, <2>2 DEF Shape, Table
<1>2. /\ [r EXCEPT !.t.cells[r.at] = d].t = g
      /\ [r EXCEPT !.t.cells[r.at] = d].ok
      /\ [r EXCEPT !.t.cells[r.at] = d].at = r.at
  BY Zenon
<1>11. Gained(t, u, r.at) /\ u.size \in Nat
  BY <1>1, TableAssumption DEF RoomOut
<1> HIDE DEF u
<1>3. /\ cells \in [0..(u.size - 1) -> Cell] /\ cells[r.at] = d
      /\ \A q \in 0..(u.size - 1) : q # r.at => cells[q] = u.cells[q]
  BY <1>1 DEF Cell
<1>4. cells \in Contents
  BY <1>1, <1>3, ContentsIntro
<1> HIDE DEF cells
<1>5. g \in Table
  BY <1>1, <1>4 DEF Table
<1>6. /\ g.flags = u.flags /\ g.head = u.head /\ g.size = u.size /\ g.pos = u.pos
      /\ g.last = u.last /\ g.tail = u.tail /\ g.count = u.count
      /\ g.fragCount = u.fragCount /\ g.mask = u.mask /\ g.cells = cells
  BY <1>1 DEF Table
<1> HIDE DEF g
<1>7. Live(g) = Live(u) /\ Exists(g)
  BY <1>1, <1>6 DEF Live, IsEmpty, Exists
<1>8. Shape(g)
  BY <1>1, <1>3, <1>5, <1>6 DEF Shape, Exists
<1>9. Bounds(g) /\ MaskExact(g) /\ CountExact(g) /\ TailIsLast(g)
  BY <1>1, <1>3, <1>6 DEF Ready, Bounds, MaskExact, CountExact, TailIsLast
<1>10. CellsExact(g)
  BY <1>1, <1>3, <1>6, <1>7 DEF Ready, CellsExact
<1>12. Gained(t, g, r.at) /\ g.cells[r.at] = d
  <2>1. Live(t) \subseteq 0..(u.size - 1)
    BY <1>11, <1>1 DEF Gained, Ready, Bounds, Live, Shape, Table
  <2> QED
    BY <1>3, <1>6, <1>7, <1>11, <2>1 DEF Gained
<1> QED
  BY <1>2, <1>7, <1>8, <1>9, <1>10, <1>12 DEF Sound, Good

\* What a write into t of chunk d returns: w settles a match, or stores the
\* chunk in a slot that was free, or fails and has changed nothing.
Written(t, m, d, w) ==
  IF m.at # Null
  THEN w.ok = (OnConstrains = "OK") /\ w.at = m.at /\ w.t = m.t
  ELSE IF w.ok THEN Gained(t, w.t, w.at) /\ w.t.cells[w.at] = d
  ELSE Kept(t, w.t)

LEMMA WriteChunkSound ==
  ASSUME NEW t, Exists(t), NEW m, Sound(m.t), Kept(t, m.t), NEW d \in Chunks,
         NEW dsts,
         \A r \in dsts : /\ RoomOut(m.t, r)
                         /\ r = [ok |-> r.ok, at |-> r.at, t |-> r.t],
         NEW w \in WriteChunk(m, d, dsts)
  PROVE  Sound(w.t) /\ Written(t, m, d, w)
<1>1. CASE m.at # Null
  <2>1. w = [ok |-> OnConstrains = "OK", at |-> m.at, t |-> m.t]
    BY <1>1 DEF WriteChunk
  <2> QED
    BY <1>1, <2>1 DEF Written
<1>2. CASE m.at = Null
  <2>1. PICK r \in dsts : w = IF r.ok THEN [r EXCEPT !.t.cells[r.at] = d] ELSE r
    BY <1>2 DEF WriteChunk
  <2>2. RoomOut(m.t, r) /\ r = [ok |-> r.ok, at |-> r.at, t |-> r.t]
    OBVIOUS
  <2>3. CASE r.ok
    <3> DEFINE x == [r EXCEPT !.t.cells[r.at] = d]
    <3>1. /\ Sound(x.t) /\ x.ok /\ x.at = r.at /\ x.t.cells[r.at] = d
          /\ Gained(m.t, x.t, r.at)
      BY <2>2, <2>3, WriteSound
    <3>2. w = x
      BY <2>1, <2>3
    <3> HIDE DEF x
    <3> QED
      BY <1>2, <3>1, <3>2, KeptGained DEF Written
  <2>4. CASE ~r.ok
    BY <1>2, <2>1, <2>2, <2>4, KeptGained DEF Written, RoomOut
  <2> QED
    BY <2>3, <2>4
<1> QED
  BY <1>1, <1>2

\* Table u is t with the cursor somewhere else.
Moved(t, u) == \E p : u = [t EXCEPT !.pos = p]

LEMMA MovedSame ==
  ASSUME NEW t \in Table, NEW u, Moved(t, u)
  PROVE  /\ Kept(t, u)
         /\ u.flags = t.flags /\ u.head = t.head /\ u.size = t.size
         /\ u.last = t.last /\ u.tail = t.tail /\ u.count = t.count
         /\ u.fragCount = t.fragCount /\ u.mask = t.mask /\ u.cells = t.cells
<1>1. PICK p : u = [t EXCEPT !.pos = p]
  BY DEF Moved
<1> QED
  BY <1>1, MovesKeep DEF Table

\* The moves of the cursor, the search and the search for a match do no more.
LEMMA CursorMoves ==
  ASSUME NEW t \in Table
  PROVE  /\ Moved(t, First(t).t) /\ Moved(t, Last(t).t)
         /\ Moved(t, NextSlot(t).t) /\ Moved(t, PrevSlot(t).t)
         /\ \A p : Moved(t, Chunk(t, p).t)
         /\ \A d : Moved(t, Search(t, d).t) /\ Moved(t, Match(t, d).t)
<1>1. t = [t EXCEPT !.pos = t.pos]
  BY DEF Table
<1>2. Moved(t, t) /\ \A p : Moved(t, [t EXCEPT !.pos = p])
  BY <1>1 DEF Moved
<1>3. Moved(t, First(t).t) /\ Moved(t, Last(t).t)
  BY <1>2 DEF First, Last, At, Nowhere
<1>4. Moved(t, NextSlot(t).t)
  BY <1>2 DEF NextSlot, At, Nowhere
<1>5. Moved(t, PrevSlot(t).t)
  BY <1>2 DEF PrevSlot, At, Nowhere
<1>6. ASSUME NEW p PROVE Moved(t, Chunk(t, p).t)
  BY <1>2 DEF Chunk, At, Nowhere
<1>7. ASSUME NEW d PROVE Moved(t, Search(t, d).t)
  BY <1>2 DEF Search, At, Nowhere
<1>8. ASSUME NEW d PROVE Moved(t, Match(t, d).t)
  BY <1>2, <1>7 DEF Match, Nowhere
<1> QED
  BY <1>3, <1>4, <1>5, <1>6, <1>7, <1>8

LEMMA MatchSound ==
  ASSUME NEW t, Sound(t), NEW d
  PROVE  /\ Sound(Match(t, d).t) /\ Kept(t, Match(t, d).t)
         /\ Emptying(Match(t, d).t) = Emptying(t)
         /\ Match(t, d).t.flags = t.flags
<1>1. Sound(Match(t, d).t)
  BY MovesKeepSound DEF Match, Nowhere
<1>2. t \in Table /\ Moved(t, Match(t, d).t)
  BY SoundFacts, CursorMoves
<1> QED
  BY <1>1, <1>2, MovedSame DEF Emptying, IsEmpty, Exists, Fragmented

LEMMA PushSound ==
  ASSUME ~DirtyHeap, ~AllocFaults, NEW t, Sound(t), Exists(t), ~Emptying(t),
         NEW d \in Chunks, NEW w \in Push(t, d)
  PROVE  Sound(w.t) /\ Written(t, Match(t, d), d, w)
<1> DEFINE m == Match(t, d)
<1>1. Sound(m.t) /\ Kept(t, m.t) /\ Exists(m.t) /\ ~Emptying(m.t)
  BY MatchSound DEF Kept
<1>2. \A r \in GetTailNext(m.t) :
        RoomOut(m.t, r) /\ r = [ok |-> r.ok, at |-> r.at, t |-> r.t]
  BY <1>1, TailNextReady, DstRecords DEF Emptying
<1> QED
  BY <1>1, <1>2, WriteChunkSound DEF Push

LEMMA InsertSound ==
  ASSUME ~DirtyHeap, ~AllocFaults, NEW t, Sound(t), Exists(t),
         ~("NRU" \in t.flags /\ Emptying(t)),
         NEW d \in Chunks, NEW w \in Insert(t, d)
  PROVE  Sound(w.t) /\ Written(t, Match(t, d), d, w)
<1> DEFINE m == Match(t, d)
<1>1. /\ Sound(m.t) /\ Kept(t, m.t) /\ Exists(m.t)
      /\ IsEmpty(m.t) /\ "NRU" \in m.t.flags => ~Fragmented(m.t)
  BY MatchSound DEF Kept, Emptying
<1>2. \A r \in GetFragFirst(m.t) :
        RoomOut(m.t, r) /\ r = [ok |-> r.ok, at |-> r.at, t |-> r.t]
  BY <1>1, FragFirstReady, DstRecords
<1> QED
  BY <1>1, <1>2, WriteChunkSound DEF Insert

----------------------------------------------------------------------------
(* The cursor stands on slots in use.                                      *)

LEMMA VisibleLive ==
  ASSUME NEW t, Sound(t), ~IsEmpty(t), NEW S \in SUBSET (0..t.last)
  PROVE  /\ Visible(t, S) = S \cap Live(t)
         /\ Live(t) = (0..t.last) \ t.mask
<1>1. /\ Exists(t) /\ t.last \in Nat /\ t.mask \in SUBSET (0..t.last)
      /\ MaskExact(t)
  BY SoundFacts DEF IsEmpty, Good
<1>2. Live(t) = (0..t.last) \ t.mask
  BY DEF Live
<1>3. ~Fragmented(t) => t.mask = {}
  BY <1>1, UsedFinite, FS_EmptySet DEF Fragmented, MaskExact
<1>4. \A p \in S : PosIsFrag(t, p) <=> p \in t.mask
  BY <1>1 DEF PosIsFrag
<1>5. \A p \in S : (Fragmented(t) /\ PosIsFrag(t, p)) <=> p \in t.mask
  BY <1>1, <1>3, <1>4
<1> QED
  BY <1>2, <1>5 DEF Visible

\* What a move returns that ended on a slot.
OnLive(t, r) ==
  /\ r.at \in Live(t)
  /\ r.t = [t EXCEPT !.pos = r.at]

LEMMA OnLiveCurrent ==
  ASSUME NEW t, Sound(t), NEW r, OnLive(t, r)
  PROVE  Current(r.t) = r.at /\ r.at \in Nat /\ r.at # Null
<1>1. t \in Table /\ t.last \in Nat
  BY SoundFacts
<1>2. ~IsEmpty(t) /\ r.at \in Nat /\ r.at <= t.last
  BY <1>1 DEF OnLive, Live
<1>3. r.t.pos = r.at /\ r.t.last = t.last /\ r.t.count = t.count
      /\ r.t.flags = t.flags
  BY <1>1 DEF OnLive, Table
<1> QED
  BY <1>2, <1>3 DEF Current, IsEmpty, Exists, Null

LEMMA NextExact ==
  ASSUME NEW t, Sound(t)
  PROVE  IF NextSlot(t).at = Null THEN \A p \in Live(t) : p <= t.pos
         ELSE OnLive(t, NextSlot(t))
<1> DEFINE ahead == Visible(t, (t.pos + 1)..t.last)
<1>1. t.pos \in Nat /\ t.last \in Nat
  BY SoundFacts
<1>2. CASE IsEmpty(t)
  BY <1>2 DEF NextSlot, Nowhere, Live
<1>3. CASE ~IsEmpty(t)
  <2>1. (t.pos + 1)..t.last \in SUBSET (0..t.last)
    BY <1>1
  <2>2. ahead = ((t.pos + 1)..t.last) \cap Live(t)
        /\ Live(t) = (0..t.last) \ t.mask
    BY <1>3, <2>1, VisibleLive
  <2>3. ahead \in SUBSET Nat
    BY <1>1, <2>2
  <2> HIDE DEF ahead
  <2>4. CASE ahead = {}
    <3>1. NextSlot(t).at = Null
      BY <1>3, <2>4 DEF NextSlot, Nowhere, ahead
    <3>2. \A p \in Live(t) : p <= t.pos
      BY <1>1, <2>2, <2>4
    <3> QED
      BY <3>1, <3>2
  <2>5. CASE ahead # {}
    <3>1. Least(ahead) \in ahead
      BY <2>3, <2>5, LeastIn
    <3>2. NextSlot(t) = At(Least(ahead), t)
      BY <1>3, <2>5 DEF NextSlot, ahead
    <3>3. Least(ahead) \in Live(t) /\ Least(ahead) \in Nat
      BY <2>2, <2>3, <3>1
    <3>4. OnLive(t, NextSlot(t))
      BY <3>2, <3>3 DEF OnLive, At
    <3> QED
      BY <3>2, <3>3, <3>4 DEF At, Null
  <2> QED
    BY <2>4, <2>5
<1> QED
  BY <1>2, <1>3

LEMMA PrevExact ==
  ASSUME NEW t, Sound(t), PrevSlot(t).at # Null
  PROVE  OnLive(t, PrevSlot(t))
<1> DEFINE behind == Visible(t, 0..(t.pos - 1))
<1>1. t.pos \in Nat /\ t.last \in Nat /\ (Exists(t) => t.pos <= t.last)
  BY SoundFacts
<1>2. ~IsEmpty(t) /\ behind # {} /\ PrevSlot(t) = At(Greatest(behind), t)
  BY DEF PrevSlot, Nowhere
<1>3. 0..(t.pos - 1) \in SUBSET (0..t.last) /\ 0..(t.pos - 1) \in SUBSET (0..t.pos)
  BY <1>1, <1>2 DEF IsEmpty
<1>4. behind = (0..(t.pos - 1)) \cap Live(t)
  BY <1>2, <1>3, VisibleLive
<1>5. behind \in SUBSET (0..t.pos)
  BY <1>3, <1>4
<1> HIDE DEF behind
<1>6. Greatest(behind) \in behind
  BY <1>1, <1>2, <1>5, GreatestIn
<1> QED
  BY <1>2, <1>4, <1>6 DEF OnLive, At

LEMMA FirstNextExact ==
  ASSUME NEW t, Sound(t)
  PROVE  IF FirstNext(t).at = Null THEN Live(t) = {}
         ELSE OnLive(t, FirstNext(t))
<1> DEFINE f == First(t)
<1>1. /\ t \in Table /\ t.last \in Nat
      /\ Sound(f.t) /\ Moved(t, f.t)
  BY SoundFacts, MovesKeepSound, CursorMoves
<1>2. CASE IsEmpty(t)
  BY <1>2 DEF FirstNext, First, NextSlot, Nowhere, Live
<1>3. CASE ~IsEmpty(t)
  <2>1. f = At(0, t) /\ f.at = 0 /\ f.t = [t EXCEPT !.pos = 0]
    BY <1>3 DEF First, At
  <2>2. /\ f.t.pos = 0 /\ f.t.last = t.last
        /\ \A p : [f.t EXCEPT !.pos = p] = [t EXCEPT !.pos = p]
    BY <1>1, <2>1 DEF Table
  <2>3. ~IsEmpty(f.t) /\ Live(f.t) = Live(t)
    BY <1>1, <1>3, MovedSame DEF IsEmpty, Exists, Kept
  <2> HIDE DEF f
  <2>4. Visible(f.t, {0}) = {0} \cap Live(t)
    <3>1. {0} \in SUBSET (0..f.t.last)
      BY <1>1, <2>2
    <3> QED
      BY <1>1, <2>3, <3>1, VisibleLive
  <2>5. CASE 0 \in Live(t)
    <3>1. FirstNext(t) = f
      BY <2>1, <2>4, <2>5 DEF FirstNext, f, Null
    <3> QED
      BY <2>1, <2>5, <3>1 DEF OnLive, Null
  <2>6. CASE 0 \notin Live(t)
    <3>1. FirstNext(t) = NextSlot(f.t)
      BY <2>1, <2>4, <2>6 DEF FirstNext, f, Null
    <3>2. IF NextSlot(f.t).at = Null THEN \A p \in Live(t) : p <= 0
          ELSE OnLive(f.t, NextSlot(f.t))
      BY <1>1, <2>2, <2>3, NextExact
    <3>3. \A p \in Live(t) : p \in Nat
      BY <1>1 DEF Live
    <3> QED
      BY <2>2, <2>3, <2>6, <3>1, <3>2, <3>3 DEF OnLive
  <2> QED
    BY <2>5, <2>6
<1> QED
  BY <1>2, <1>3

LEMMA CircularNextExact ==
  ASSUME NEW t, Sound(t)
  PROVE  IF CircularNext(t).at = Null THEN Live(t) = {}
         ELSE OnLive(t, CircularNext(t))
<1> DEFINE n == NextSlot(t)
<1>1. t \in Table /\ Sound(n.t) /\ Moved(t, n.t)
  BY SoundFacts, MovesKeepSound, CursorMoves
<1>2. /\ Live(n.t) = Live(t)
      /\ \A p : [n.t EXCEPT !.pos = p] = [t EXCEPT !.pos = p]
  BY <1>1, MovedSame DEF Kept, Moved, Table
<1>3. CASE n.at # Null
  BY <1>3, NextExact DEF CircularNext
<1>4. CASE n.at = Null
  <2>1. CircularNext(t) = FirstNext(n.t)
    BY <1>4 DEF CircularNext
  <2> QED
    BY <1>1, <1>2, <2>1, FirstNextExact DEF OnLive
<1> QED
  BY <1>3, <1>4

----------------------------------------------------------------------------
(* Search.                                                                 *)

\* A comparison does not take a cleared cell for a chunk.
BlankMatchesNone == \A d \in Chunks : ~Matches(Zero, d)

LEMMA SearchFinds ==
  ASSUME BlankMatchesNone, NEW t, Sound(t), NEW d \in Chunks
  PROVE  IF \E p \in Live(t) : Matches(t.cells[p], d)
         THEN OnLive(t, Search(t, d)) /\ Matches(t.cells[Search(t, d).at], d)
         ELSE Search(t, d).at = Null
<1> DEFINE found == {p \in Visible(t, 0..t.last) : Matches(t.cells[p], d)}
<1>1. CASE IsEmpty(t)
  BY <1>1 DEF Search, Nowhere, Live
<1>2. CASE ~IsEmpty(t)
  <2>1. /\ t.pos \in Nat /\ t.last \in Nat /\ t.pos <= t.last /\ t.size \in Nat
        /\ DOMAIN t.cells = 0..(t.size - 1) /\ t.last < t.size /\ CellsExact(t)
    BY <1>2, SoundFacts, TableAssumption DEF IsEmpty, Good, Bounds, Table
  <2>2. Visible(t, 0..t.last) = Live(t) /\ Live(t) \subseteq 0..t.last
    BY <1>2, VisibleLive
  <2>3. ASSUME Matches(t.cells[t.pos], d) PROVE t.pos \in Live(t)
    <3>1. t.pos \in DOMAIN t.cells
      BY <2>1
    <3>2. t.pos \notin Live(t) => t.cells[t.pos] = Zero
      BY <2>1, <3>1 DEF CellsExact
    <3> QED
      BY <2>3, <3>2 DEF BlankMatchesNone
  <2>4. found = {p \in Live(t) : Matches(t.cells[p], d)} /\ found \in SUBSET Nat
    BY <2>1, <2>2
  <2> HIDE DEF found
  <2>5. CASE Matches(t.cells[t.pos], d)
    <3>1. Search(t, d) = At(t.pos, t)
      BY <1>2, <2>1, <2>5 DEF Search
    <3>2. t.pos \in Live(t)
      BY <2>3, <2>5
    <3>3. OnLive(t, Search(t, d)) /\ Search(t, d).at = t.pos
      BY <3>1, <3>2 DEF OnLive, At
    <3> QED
      BY <2>5, <3>2, <3>3
  <2>6. CASE ~Matches(t.cells[t.pos], d) /\ found # {}
    <3>1. Search(t, d) = At(Least(found), t)
      BY <1>2, <2>6 DEF Search, found
    <3>2. Least(found) \in found
      BY <2>4, <2>6, LeastIn
    <3>3. Least(found) \in Live(t) /\ Matches(t.cells[Least(found)], d)
      BY <2>4, <3>2
    <3>4. OnLive(t, Search(t, d)) /\ Search(t, d).at = Least(found)
      BY <3>1, <3>3 DEF OnLive, At
    <3> QED
      BY <3>3, <3>4
  <2>7. CASE ~Matches(t.cells[t.pos], d) /\ found = {}
    <3>1. Search(t, d).at = Null
      BY <1>2, <2>7 DEF Search, Nowhere, found
    <3>2. ~\E p \in Live(t) : Matches(t.cells[p], d)
      BY <2>4, <2>7
    <3> QED
      BY <3>1, <3>2
  <2> QED
    BY <2>5, <2>6, <2>7
<1> QED
  BY <1>1, <1>2

\* Nothing is left to grow into.
NoRoom(t) == t.last = t.size - 1 /\ (t.size = MaxSize \/ "NRA" \in t.flags)

LEMMA TailNextRefuses ==
  ASSUME ~DirtyHeap, ~AllocFaults, NEW t, Sound(t), Exists(t), NEW r \in GetTailNext(t), ~r.ok
  PROVE  NoRoom(t)
<1>1. t.last \in Nat /\ t.size \in Nat /\ t.last < t.size
  BY SoundFacts, TableAssumption DEF Table
<1>2. \A u : TakeTail(u).ok
  BY DEF TakeTail, Done
<1>3. ~IsEmpty(t) /\ ~(t.last + 1 < t.size)
  BY <1>2 DEF GetTailNext
<1>4. CASE "NRA" \in t.flags
  BY <1>1, <1>3, <1>4 DEF NoRoom
<1>5. CASE "NRA" \notin t.flags
  <2>1. PICK g \in ReallocAndMove(t) : r = IF g.ok THEN TakeTail(g.t) ELSE g
    BY <1>3, <1>5 DEF GetTailNext
  <2>2. ~g.ok
    BY <1>2, <2>1
  <2>3. t.size = MaxSize
    BY <1>1, <1>3, <2>2, GrowKeepsGood
  <2> QED
    BY <1>1, <1>3, <2>3 DEF NoRoom
<1> QED
  BY <1>4, <1>5

LEMMA FragFirstRefuses ==
  ASSUME ~DirtyHeap, ~AllocFaults, NEW t, Sound(t), Exists(t), NEW r \in GetFragFirst(t)
  PROVE  /\ ~r.ok => \/ t.count = 0 /\ t.mask # {}
                     \/ NoRoom(t) /\ (t.mask = {} \/ "NRU" \in t.flags)
         /\ r.t.last > t.last => t.mask = {} \/ "NRU" \in t.flags
<1>1. /\ t \in Table /\ t.last \in Nat /\ t.mask \in SUBSET (0..t.last)
      /\ MaskExact(t)
  BY SoundFacts DEF Good
<1>2. ~Fragmented(t) <=> t.mask = {}
  BY <1>1, UsedFinite, FS_EmptySet DEF Fragmented, MaskExact
<1>3. CASE ~Fragmented(t) \/ "NRU" \in t.flags
  <2>1. r \in GetTailNext(t)
    BY <1>3 DEF GetFragFirst
  <2> QED
    BY <1>2, <1>3, <2>1, TailNextRefuses
<1>4. CASE ~(~Fragmented(t) \/ "NRU" \in t.flags)
  <2> DEFINE s == SetPosFragFirst(t)
  <2>1. PICK p \in t.mask : s = [t EXCEPT !.pos = p]
    BY <1>4, FragFirstFinds
  <2>2. /\ s.pos = p /\ s.last = t.last /\ s.mask = t.mask /\ s.count = t.count
        /\ s.flags = t.flags
    BY <1>1, <2>1 DEF Table
  <2>3. p \in Nat /\ p <= t.last
    BY <1>1
  <2> HIDE DEF s
  <2>4. t.count # 0 => Current(s) = p /\ p # Null
    BY <2>2, <2>3 DEF Current, IsEmpty, Exists, Null
  <2>5. CASE Current(s) = Null
    <3>1. ~r.ok /\ r.t = s
      BY <1>4, <2>5 DEF GetFragFirst, Failed, s
    <3> QED
      BY <1>1, <2>2, <2>3, <2>4, <2>5, <3>1
  <2>6. CASE Current(s) # Null
    <3>1. r = Done(s.pos, [s EXCEPT !.mask = @ \ {s.pos}, !.fragCount = @ - 1,
                                    !.count = @ + 1])
      BY <1>4, <2>2, <2>6 DEF GetFragFirst, s
    <3>2. s \in Table
      BY <1>1, <2>1, <2>3 DEF Table
    <3>3. r.ok /\ r.t.last = s.last
      BY <3>1, <3>2 DEF Done, Table
    <3> QED
      BY <1>1, <2>2, <3>3
  <2> QED
    BY <2>5, <2>6
<1> QED
  BY <1>3, <1>4

\* What a write changed besides the contents, and why it was refused.
LEMMA WriteWhy ==
  ASSUME NEW m, NEW d, NEW dsts, NEW w \in WriteChunk(m, d, dsts),
         \A r \in dsts : r = [ok |-> r.ok, at |-> r.at, t |-> r.t] /\ r.t \in Table
  PROVE  \/ m.at # Null /\ w.ok = (OnConstrains = "OK") /\ w.t = m.t
         \/ m.at = Null /\ \E r \in dsts :
              /\ w.ok = r.ok /\ w.t.last = r.t.last
              /\ w.t.size = r.t.size /\ w.t.flags = r.t.flags
<1>1. CASE m.at # Null
  BY <1>1 DEF WriteChunk
<1>2. CASE m.at = Null
  <2>1. PICK r \in dsts : w = IF r.ok THEN [r EXCEPT !.t.cells[r.at] = d] ELSE r
    BY <1>2 DEF WriteChunk
  <2>2. r = [ok |-> r.ok, at |-> r.at, t |-> r.t] /\ r.t \in Table
    OBVIOUS
  <2>3. CASE r.ok
    <3>1. w.ok = r.ok /\ w.t = [r.t EXCEPT !.cells = [r.t.cells EXCEPT ![r.at] = d]]
      BY <2>1, <2>2, <2>3, Zenon
    <3>2. w.t.last = r.t.last /\ w.t.size = r.t.size /\ w.t.flags = r.t.flags
      BY <2>2, <3>1 DEF Table
    <3> QED
      BY <1>2, <3>1, <3>2
  <2>4. CASE ~r.ok
    BY <1>2, <2>1, <2>4
  <2> QED
    BY <2>3, <2>4
<1> QED
  BY <1>1, <1>2

----------------------------------------------------------------------------
(* A table that is made with no flags and no constraint, and is inserted   *)
(* into, searched and gone through until it is destroyed and after.        *)

Plain(t) ==
  \/ Sound(t) /\ Exists(t) /\ t.flags = {"XIS"}
  \/ \E k \in Nat : t = [NoTable EXCEPT !.count = k]

LEMMA PlainFacts ==
  ASSUME NEW t, Plain(t)
  PROVE  /\ t \in Table /\ t.size \in Nat /\ t.size <= MaxSize
         /\ Exists(t) => Sound(t) /\ t.flags = {"XIS"}
         /\ ~Exists(t) => Live(t) = {}
         /\ Live(t) \subseteq 0..(t.size - 1)
         /\ \A p \in 0..(t.size - 1) :
              IF p \in Live(t) THEN t.cells[p] \in Chunks ELSE t.cells[p] = Zero
<1>1. CASE Sound(t) /\ Exists(t) /\ t.flags = {"XIS"}
  <2>1. /\ t \in Table /\ t.size \in 1..MaxSize /\ t.last < t.size
        /\ t.last \in Nat /\ CellsExact(t) /\ Bounds(t) /\ MaxSize \in Nat
    BY <1>1, SoundFacts, TableAssumption DEF Good
  <2>2. Live(t) \subseteq 0..t.last
    BY DEF Live
  <2> QED
    BY <1>1, <2>1, <2>2 DEF CellsExact, Bounds
<1>2. CASE \E k \in Nat : t = [NoTable EXCEPT !.count = k]
  <2>1. PICK k \in Nat : t = [NoTable EXCEPT !.count = k]
    BY <1>2
  <2>2. NoTable \in Table /\ MaxSize \in Nat
    BY ShapeNoTable, TableAssumption DEF Shape
  <2>3. t \in Table
    BY <2>1, <2>2 DEF Table
  <2>4. t.flags = {} /\ t.size = 0
    BY <2>1 DEF NoTable
  <2>5. ~Exists(t) /\ Live(t) = {}
    BY <2>4 DEF Exists, Live, IsEmpty
  <2> QED
    BY <2>2, <2>3, <2>4, <2>5
<1> QED
  BY <1>1, <1>2 DEF Plain

LEMMA PlainCreated ==
  ASSUME NEW n \in 1..MaxSize
  PROVE  /\ Plain(Created(n, {})) /\ Exists(Created(n, {}))
         /\ Created(n, {}).size = n /\ Live(Created(n, {})) = {}
<1>1. Created(n, {}).flags = {"XIS"} /\ Created(n, {}).size = n
  BY DEF Created
<1> QED
  BY <1>1, SoundCreated DEF Plain

LEMMA PlainDestroyed ==
  /\ Plain(NoTable)
  /\ \A t : Plain(t) => Plain(Destroy(t).t) /\ ~Exists(Destroy(t).t)
                        /\ Live(Destroy(t).t) = {}
<1>1. NoTable = [NoTable EXCEPT !.count = 0]
  BY DEF NoTable
<1>2. Plain(NoTable) /\ ~Exists(NoTable) /\ Live(NoTable) = {}
  BY <1>1 DEF Plain, NoTable, Exists, Live, IsEmpty
<1>3. ASSUME NEW t, Plain(t)
      PROVE  Plain(Destroy(t).t) /\ ~Exists(Destroy(t).t) /\ Live(Destroy(t).t) = {}
  <2>1. CASE Exists(t)
    <3>1. t.head = "live"
      BY <1>3, <2>1, PlainFacts, SoundFacts DEF Good, Bounds
    <3> QED
      BY <1>2, <3>1 DEF Destroy, Done
  <2>2. CASE ~Exists(t)
    <3>1. t.head = "null"
      BY <1>3, <2>2 DEF Plain, NoTable
    <3> QED
      BY <1>3, <2>2, <3>1, PlainFacts DEF Destroy, Failed
  <2> QED
    BY <2>1, <2>2
<1> QED
  BY <1>2, <1>3

\* Moving the cursor, or searching.
LEMMA PlainMoved ==
  ASSUME NEW t, Plain(t), NEW u, Moved(t, u), Sound(u), ~Exists(t) => u = t
  PROVE  /\ Plain(u) /\ Exists(u) = Exists(t) /\ u.size = t.size
         /\ Live(u) = Live(t) /\ u.cells = t.cells
<1>1. t \in Table
  BY PlainFacts
<1>2. /\ Exists(u) = Exists(t) /\ u.size = t.size /\ u.flags = t.flags
      /\ Live(u) = Live(t) /\ u.cells = t.cells
  BY <1>1, MovedSame DEF Kept
<1> QED
  BY <1>2, PlainFacts DEF Plain

LEMMA CircularMoves ==
  ASSUME NEW t, Sound(t)
  PROVE  Moved(t, FirstNext(t).t) /\ Moved(t, CircularNext(t).t)
<1>1. ASSUME NEW u \in Table, NEW v \in Table, NEW x, Moved(u, v), Moved(v, x)
      PROVE  Moved(u, x)
  BY <1>1 DEF Moved, Table
<1>2. ASSUME NEW u, Sound(u)
      PROVE  Moved(u, FirstNext(u).t)
  <2>1. /\ Moved(u, First(u).t) /\ First(u).t \in Table /\ u \in Table
        /\ Moved(First(u).t, NextSlot(First(u).t).t) /\ NextSlot(First(u).t).t \in Table
    BY <1>2, MovesKeepSound, CursorMoves, SoundFacts
  <2> QED
    BY <1>1, <2>1 DEF FirstNext
<1>3. /\ Moved(t, NextSlot(t).t) /\ NextSlot(t).t \in Table /\ t \in Table
      /\ Sound(NextSlot(t).t)
  BY MovesKeepSound, CursorMoves, SoundFacts
<1>4. FirstNext(NextSlot(t).t).t \in Table
  BY <1>3, FirstNextSound, SoundFacts
<1> QED
  BY <1>1, <1>2, <1>3, <1>4 DEF CircularNext

\* Going to the next entry, round and round: it finds one if there is one.
LEMMA PlainNext ==
  ASSUME NEW t, Plain(t), NEW n, n = CircularNext(t)
  PROVE  /\ Plain(n.t) /\ Exists(n.t) = Exists(t) /\ n.t.size = t.size
         /\ Live(n.t) = Live(t) /\ n.t.cells = t.cells
         /\ IF n.at = Null THEN Live(t) = {} ELSE n.at \in Live(t)
<1>1. CASE Exists(t)
  <2>1. Sound(t)
    BY <1>1, PlainFacts
  <2>2. Moved(t, n.t) /\ Sound(n.t)
    BY <2>1, CircularMoves, FirstNextSound
  <2>3. IF n.at = Null THEN Live(t) = {} ELSE n.at \in Live(t)
    BY <2>1, CircularNextExact DEF OnLive
  <2> QED
    BY <1>1, <2>2, <2>3, PlainMoved
<1>2. CASE ~Exists(t)
  <2>1. IsEmpty(t) /\ Live(t) = {}
    BY <1>2 DEF IsEmpty, Live
  <2>2. n = Nowhere(t)
    BY <2>1 DEF CircularNext, FirstNext, First, NextSlot, Nowhere
  <2> QED
    BY <2>1, <2>2 DEF Nowhere
<1> QED
  BY <1>1, <1>2

LEMMA DelKeepsSize ==
  ASSUME NEW t \in Table
  PROVE  /\ DelCurrent(t).t.flags = t.flags
         /\ DelCurrent(t).t.size = t.size
<1> DEFINE p == Current(t)
           cleared == [t EXCEPT !.cells = [t.cells EXCEPT ![p] = Zero],
                                !.count = t.count - 1]
<1>1. cleared.flags = t.flags /\ cleared.size = t.size
  BY DEF Table
<1>2. DOMAIN cleared = DOMAIN t
  OBVIOUS
<1>3. \/ DelCurrent(t).t = t
      \/ DelCurrent(t).t = [cleared EXCEPT !.tail = p - 1,
                              !.last = cleared.last - 1, !.pos = t.last - 1]
      \/ DelCurrent(t).t = [cleared EXCEPT !.mask = cleared.mask \cup {p},
                              !.fragCount = cleared.fragCount + 1]
  BY DEF DelCurrent, Failed, Done
<1> HIDE DEF cleared
<1> QED
  BY <1>1, <1>2, <1>3 DEF Table

\* Searching, and deleting what was found.
LEMMA PlainDelete ==
  ASSUME NEW t, Plain(t), NEW d
  PROVE  LET s == Search(t, d)
             u == IF s.at = Null THEN s.t ELSE DelCurrent(s.t).t
         IN  Plain(u) /\ Exists(u) = Exists(t) /\ u.size = t.size
             /\ Live(u) \subseteq Live(t)
<1> DEFINE s == Search(t, d)
<1>1. CASE Exists(t)
  <2>1. t \in Table /\ Sound(t)
    BY <1>1, PlainFacts
  <2>2. Moved(t, s.t) /\ Sound(s.t)
    BY <2>1, CursorMoves, MovesKeepSound
  <2>3. /\ Plain(s.t) /\ Exists(s.t) = Exists(t) /\ s.t.size = t.size
        /\ Live(s.t) = Live(t)
    BY <1>1, <2>2, PlainMoved
  <2> HIDE DEF s
  <2> DEFINE u == DelCurrent(s.t).t
  <2>4. Sound(u) /\ (u = s.t \/ \E p : Lost(s.t, u, p))
    BY <2>2, DelKeepsSound
  <2>5. u.flags = s.t.flags /\ u.size = s.t.size
    BY <2>2, SoundFacts, DelKeepsSize
  <2>6. Plain(u) /\ Exists(u) /\ u.size = t.size /\ Live(u) \subseteq Live(t)
    BY <1>1, <2>3, <2>4, <2>5, PlainFacts DEF Lost, Plain
  <2> QED
    BY <1>1, <2>3, <2>6 DEF s
<1>2. CASE ~Exists(t)
  BY <1>2 DEF Search, Nowhere, IsEmpty
<1> QED
  BY <1>1, <1>2

\* Finding room leaves the flags alone, and the array no shorter.
LEMMA TakeTailKeepsSize ==
  ASSUME NEW t \in Table
  PROVE  TakeTail(t).t.flags = t.flags /\ TakeTail(t).t.size = t.size
BY DEF TakeTail, Done, Table

LEMMA TailNextKeepsSize ==
  ASSUME ~DirtyHeap, ~AllocFaults, NEW t, Sound(t), Exists(t),
         NEW r \in GetTailNext(t)
  PROVE  r.t.flags = t.flags /\ t.size <= r.t.size
<1>1. t \in Table /\ t.size \in Nat /\ t.last \in Nat
  BY SoundFacts, TableAssumption DEF Table
<1>2. CASE IsEmpty(t) \/ t.last + 1 < t.size
  BY <1>1, <1>2, TakeTailKeepsSize DEF GetTailNext
<1>3. CASE ~(IsEmpty(t) \/ t.last + 1 < t.size)
  <2>1. CASE r = Failed(t)
    BY <1>1, <2>1 DEF Failed
  <2>2. CASE r # Failed(t)
    <3>1. PICK g \in ReallocAndMove(t) : r = IF g.ok THEN TakeTail(g.t) ELSE g
      BY <1>3, <2>2 DEF GetTailNext
    <3>2. IF g.ok THEN Sound(g.t) /\ g.t.flags = t.flags /\ t.size < g.t.size
          ELSE g.t = t
      BY <1>1, <1>3, GrowKeepsGood
    <3>3. g.t.flags = t.flags /\ t.size <= g.t.size /\ g.t.size \in Nat
      BY <1>1, <3>2, SoundFacts DEF Table
    <3>4. CASE g.ok
      BY <3>1, <3>2, <3>3, <3>4, SoundFacts, TakeTailKeepsSize
    <3>5. CASE ~g.ok
      BY <3>1, <3>3, <3>5
    <3> QED
      BY <3>4, <3>5
  <2> QED
    BY <2>1, <2>2
<1> QED
  BY <1>2, <1>3

LEMMA FragFirstKeepsSize ==
  ASSUME ~DirtyHeap, ~AllocFaults, NEW t, Sound(t), Exists(t),
         NEW r \in GetFragFirst(t)
  PROVE  r.t.flags = t.flags /\ t.size <= r.t.size
<1> DEFINE s == SetPosFragFirst(t)
<1>1. t \in Table /\ t.size \in Nat
  BY SoundFacts, TableAssumption DEF Table
<1>2. CASE ~Fragmented(t) \/ "NRU" \in t.flags
  BY <1>2, TailNextKeepsSize DEF GetFragFirst
<1>3. CASE ~(~Fragmented(t) \/ "NRU" \in t.flags)
  <2>1. PICK p \in t.mask : s = [t EXCEPT !.pos = p]
    BY <1>3, FragFirstFinds
  <2>2. /\ s.flags = t.flags /\ s.size = t.size
        /\ s = [flags |-> s.flags, head |-> s.head, size |-> s.size, pos |-> s.pos,
                last |-> s.last, tail |-> s.tail, count |-> s.count,
                fragCount |-> s.fragCount, mask |-> s.mask, cells |-> s.cells]
    BY <1>1, <2>1 DEF Table
  <2> HIDE DEF s
  <2>3. \/ r.t = s
        \/ r.t = [s EXCEPT !.mask = s.mask \ {s.pos},
                    !.fragCount = s.fragCount - 1, !.count = s.count + 1]
    BY <1>3 DEF GetFragFirst, Failed, Done, s
  <2>4. r.t.flags = s.flags /\ r.t.size = s.size
    BY <2>2, <2>3
  <2> QED
    BY <1>1, <2>2, <2>4
<1> QED
  BY <1>2, <1>3

\* Inserting.
LEMMA PlainInsert ==
  ASSUME ~DirtyHeap, ~AllocFaults, ~Constrained, NEW t, Plain(t),
         NEW d \in Chunks, NEW w \in Insert(t, d)
  PROVE  /\ Plain(w.t) /\ Exists(w.t) = Exists(t)
         /\ w.ok \in BOOLEAN
         /\ t.size <= w.t.size /\ (t.size = MaxSize => w.t.size = t.size)
         /\ Live(t) \subseteq Live(w.t)
         /\ \A q \in Live(t) : w.t.cells[q] = t.cells[q]
         /\ ~w.ok => Live(w.t) = Live(t)
<1>1. Match(t, d) = Nowhere(t) /\ Match(t, d).t = t /\ Match(t, d).at = Null
  BY DEF Match, Nowhere
<1>2. w \in WriteChunk(Nowhere(t), d, GetFragFirst(t))
  BY <1>1 DEF Insert
<1>3. CASE Exists(t)
  <2>1. Sound(t) /\ t.flags = {"XIS"} /\ t.size \in Nat
    BY <1>3, PlainFacts
  <2>2. Sound(w.t) /\ Written(t, Match(t, d), d, w)
    BY <1>3, <2>1, InsertSound
  <2>3. IF w.ok THEN Gained(t, w.t, w.at) ELSE Kept(t, w.t)
    BY <1>1, <2>2 DEF Written
  <2>4. \A r \in GetFragFirst(t) :
          /\ r = [ok |-> r.ok, at |-> r.at, t |-> r.t] /\ r.t \in Table
          /\ r.ok \in BOOLEAN /\ r.t.flags = t.flags /\ t.size <= r.t.size
    BY <1>3, <2>1, DstRecords, FragFirstShape, FragFirstKeepsSize
       DEF Sound, DstOut, ShapeOut, Shape
  <2>5. /\ w.ok \in BOOLEAN
        /\ w.t.flags = t.flags /\ t.size <= w.t.size
    BY <1>2, <2>4, WriteWhy DEF Nowhere
  <2>6. Plain(w.t) /\ Exists(w.t) /\ w.t.size \in Nat /\ w.t.size <= MaxSize
    BY <1>3, <2>1, <2>2, <2>3, <2>5, PlainFacts DEF Gained, Kept, Plain
  <2> QED
    BY <1>3, <2>1, <2>3, <2>5, <2>6, TableAssumption DEF Gained, Kept
<1>4. CASE ~Exists(t)
  <2>1. PICK k \in Nat : t = [NoTable EXCEPT !.count = k]
    BY <1>4 DEF Plain
  <2> DEFINE u == [NoTable EXCEPT !.count = k + 1]
  <2>2. IsEmpty(t) /\ ~Fragmented(t) /\ t.tail = 0 /\ t.cells = NoTable.cells
    BY <1>4, <2>1 DEF IsEmpty, Fragmented, NoTable
  <2>3. TakeTail(t) = Done(0, u)
    BY <2>1, <2>2 DEF TakeTail, NoTable
  <2>4. GetFragFirst(t) = {Done(0, u)}
    BY <2>2, <2>3 DEF GetFragFirst, GetTailNext
  <2>5. PICK r \in GetFragFirst(t) :
             w = IF r.ok THEN [r EXCEPT !.t.cells[r.at] = d] ELSE r
    BY <1>2 DEF WriteChunk, Nowhere
  <2>6. r = [ok |-> TRUE, at |-> 0, t |-> u]
    BY <2>4, <2>5 DEF Done
  <2>7. w.ok = TRUE /\ w.t = [u EXCEPT !.cells = [u.cells EXCEPT ![0] = d]]
    BY <2>5, <2>6, Zenon
  <2>8. [u.cells EXCEPT ![0] = d] = u.cells /\ u = [u EXCEPT !.cells = u.cells]
    BY DEF NoTable
  <2>9. w.t = u /\ k + 1 \in Nat
    <3> HIDE DEF u
    <3> QED
      BY <2>7, <2>8
  <2> HIDE DEF u
  <2>10. Plain(w.t) /\ w.t.flags = {} /\ w.t.size = 0 /\ t.size = 0
    BY <2>1, <2>9 DEF Plain, u, NoTable
  <2>11. ~Exists(w.t) /\ Live(w.t) = {} /\ Live(t) = {}
    BY <1>4, <2>10, PlainFacts DEF Exists
  <2>12. w.ok \in BOOLEAN /\ (w.ok <=> TRUE)
    BY <2>7
  <2>13. Exists(w.t) = Exists(t)
    BY <1>4, <2>11 DEF Exists
  <2> QED
    BY <2>10, <2>11, <2>12, <2>13
<1> QED
  BY <1>3, <1>4

----------------------------------------------------------------------------
(* Tables from which nothing is deleted, under the same conditions: they   *)
(* have no fragments.                                                      *)

Packed(t) ==
  /\ Plain(t) /\ Exists(t)
  /\ t.mask = {} /\ t.fragCount = 0
  /\ t.count \in Nat
  /\ IF t.count = 0 THEN t.last = 0 ELSE t.count = t.last + 1

LEMMA PackedCreated ==
  ASSUME NEW n \in 1..MaxSize
  PROVE  Packed(Created(n, {})) /\ Created(n, {}).count = 0
BY PlainCreated DEF Packed, Created

----------------------------------------------------------------------------
(* Loops that delete while they go through a table.                        *)

\* Induction, for sets of naturals.
LEMMA AllNaturals ==
  ASSUME NEW S \in SUBSET Nat, 0 \in S, \A n \in S : n + 1 \in S
  PROVE  S = Nat
<1>1. SUFFICES ASSUME Nat \ S # {}
               PROVE  FALSE
  OBVIOUS
<1> DEFINE m == Least(Nat \ S)
<1>2. m \in Nat \ S /\ \A y \in Nat \ S : m <= y
  BY <1>1, LeastIn
<1> HIDE DEF m
<1>3. m # 0 /\ m - 1 \in Nat /\ m - 1 \notin Nat \ S
  BY <1>2
<1>4. m - 1 \in S /\ (m - 1) + 1 = m
  BY <1>2, <1>3
<1> QED
  BY <1>2, <1>4

\* Where the moves forward end.
LEMMA NextSkipsNone ==
  ASSUME NEW t, Sound(t), NextSlot(t).at # Null
  PROVE  /\ t.pos < NextSlot(t).at
         /\ \A p \in Live(t) : p <= t.pos \/ NextSlot(t).at <= p
<1> DEFINE ahead == Visible(t, (t.pos + 1)..t.last)
<1>1. t.pos \in Nat /\ t.last \in Nat /\ ~IsEmpty(t)
  BY SoundFacts DEF NextSlot, Nowhere
<1>2. (t.pos + 1)..t.last \in SUBSET (0..t.last)
  BY <1>1
<1>3. ahead = ((t.pos + 1)..t.last) \cap Live(t) /\ Live(t) \subseteq 0..t.last
  BY <1>1, <1>2, VisibleLive
<1>4. ahead # {} /\ NextSlot(t).at = Least(ahead)
  BY <1>1 DEF NextSlot, Nowhere, At
<1> HIDE DEF ahead
<1>5. ahead \in SUBSET Nat
  BY <1>1, <1>3
<1>6. Least(ahead) \in ahead /\ \A y \in ahead : Least(ahead) <= y
  BY <1>4, <1>5, LeastIn
<1>7. t.pos < Least(ahead)
  BY <1>1, <1>3, <1>6
<1>8. ASSUME NEW p \in Live(t) PROVE p <= t.pos \/ Least(ahead) <= p
  <2>1. p \in Nat /\ p <= t.last
    BY <1>1, <1>3
  <2>2. t.pos < p => p \in ahead
    BY <1>1, <1>3, <2>1
  <2> QED
    BY <1>1, <1>6, <2>1, <2>2
<1> QED
  BY <1>4, <1>7, <1>8

LEMMA FirstSkipsNone ==
  ASSUME NEW t, Sound(t), FirstNext(t).at # Null
  PROVE  \A p \in Live(t) : FirstNext(t).at <= p
<1> DEFINE f == First(t)
<1>1. /\ t \in Table /\ t.last \in Nat
      /\ Sound(f.t) /\ Moved(t, f.t)
  BY SoundFacts, MovesKeepSound, CursorMoves
<1>2. ~IsEmpty(t)
  BY DEF FirstNext, First, NextSlot, Nowhere
<1>3. f.at = 0 /\ f.t = [t EXCEPT !.pos = 0]
  BY <1>2 DEF First, At
<1>4. f.t.pos = 0 /\ Live(f.t) = Live(t)
  BY <1>1, <1>3, MovedSame DEF Kept, Table
<1>5. \A p \in Live(t) : p \in Nat
  BY <1>1 DEF Live
<1> HIDE DEF f
<1>6. CASE FirstNext(t) = f
  BY <1>3, <1>5, <1>6
<1>7. CASE FirstNext(t) # f
  <2>1. FirstNext(t) = NextSlot(f.t) /\ Visible(f.t, {0}) = {}
    BY <1>3, <1>7 DEF FirstNext, f, Null
  <2>2. ~IsEmpty(f.t) /\ {0} \in SUBSET (0..f.t.last)
    BY <1>1, <1>2, <1>3, MovedSame DEF IsEmpty, Exists
  <2>3. 0 \notin Live(t)
    BY <1>1, <1>4, <2>1, <2>2, VisibleLive
  <2> QED
    BY <1>1, <1>4, <1>5, <2>1, <2>3, NextSkipsNone
<1> QED
  BY <1>6, <1>7

\* A table that exists and holds nothing counts nothing.
LEMMA NoneCounted ==
  ASSUME NEW t, Sound(t), Exists(t), Live(t) = {}
  PROVE  t.count = 0
<1>1. /\ t.last \in Nat /\ t.mask \in SUBSET (0..t.last) /\ CountExact(t)
  BY SoundFacts DEF Good
<1> SUFFICES ASSUME t.count # 0
             PROVE  FALSE
  OBVIOUS
<1>2. Used(t.last, t.mask) = {} /\ t.count = Cardinality(Used(t.last, t.mask))
  BY <1>1 DEF Live, IsEmpty, CountExact, Used
<1> QED
  BY <1>2, FS_EmptySet

\* One turn of the loop.
SweepStep(S, l) ==
  IF l.at = Null THEN l
  ELSE NextSlot(IF l.t.cells[l.at] \in S THEN DelCurrent(l.t).t ELSE l.t)

\* The loop is a function of the number of turns.
LEMMA SweepRuns ==
  ASSUME NEW t, NEW S
  PROVE  \E loop :
           /\ loop = [i \in 0..(MaxSize + 1) |->
                        IF i = 0 THEN FirstNext(t) ELSE SweepStep(S, loop[i - 1])]
           /\ Swept(t, S) = loop[MaxSize + 1]
<1> DEFINE Runs(loop, n) ==
             loop = [i \in 0..n |->
                       IF i = 0 THEN FirstNext(t) ELSE SweepStep(S, loop[i - 1])]
           Reached == {n \in Nat : \E loop : Runs(loop, n)}
<1>1. 0 \in Reached
  <2> DEFINE loop == [i \in 0..0 |-> FirstNext(t)]
  <2>1. Runs(loop, 0)
    OBVIOUS
  <2> HIDE DEF loop
  <2> QED
    BY <2>1
<1>2. ASSUME NEW n \in Reached PROVE n + 1 \in Reached
  <2>1. PICK loop : Runs(loop, n)
    OBVIOUS
  <2> DEFINE more == [i \in 0..(n + 1) |->
                        IF i = n + 1 THEN SweepStep(S, loop[n]) ELSE loop[i]]
  <2>2. n \in Nat /\ DOMAIN more = 0..(n + 1)
    OBVIOUS
  <2>3. ASSUME NEW i \in 0..(n + 1)
        PROVE  more[i] = IF i = 0 THEN FirstNext(t) ELSE SweepStep(S, more[i - 1])
    <3>1. CASE i = n + 1
      <4>1. i # 0 /\ i - 1 = n /\ n \in 0..(n + 1) /\ n # n + 1
        BY <2>2, <3>1
      <4> QED
        BY <3>1, <4>1
    <3>2. CASE i # n + 1
      <4>1. i \in 0..n /\ more[i] = loop[i]
        BY <2>2, <3>2
      <4>2. i # 0 => more[i - 1] = loop[i - 1]
        BY <2>2, <4>1
      <4>3. loop[i] = IF i = 0 THEN FirstNext(t) ELSE SweepStep(S, loop[i - 1])
        BY <2>1, <4>1
      <4> HIDE DEF more
      <4> QED
        BY <4>1, <4>2, <4>3
    <3> QED
      BY <3>1, <3>2
  <2>4. Runs(more, n + 1)
    <3>1. more = [i \in 0..(n + 1) |-> more[i]]
      OBVIOUS
    <3> HIDE DEF more
    <3> QED
      BY <2>3, <3>1
  <2> HIDE DEF more
  <2> QED
    BY <2>2, <2>4
<1>3. Reached = Nat
  <2> HIDE DEF Reached
  <2>1. Reached \in SUBSET Nat
    BY DEF Reached
  <2> QED
    BY <1>1, <1>2, <2>1, AllNaturals
<1>4. MaxSize + 1 \in Nat
  BY TableAssumption
<1>5. \E loop : Runs(loop, MaxSize + 1)
  BY <1>3, <1>4
<1> DEFINE loop == CHOOSE loop : Runs(loop, MaxSize + 1)
<1>6. Runs(loop, MaxSize + 1)
  BY <1>5
<1>7. Swept(t, S) = loop[MaxSize + 1]
  BY DEF Swept, SweepStep
<1> HIDE DEF loop
<1> QED
  BY <1>6, <1>7

\* Where a loop over t that deletes the chunks of S is after i turns.
Sweeping(t, S, i, l) ==
  /\ Sound(l.t) /\ Exists(l.t) /\ l.t.flags = t.flags /\ l.t.size = t.size
  /\ Live(l.t) \subseteq Live(t)
  /\ \A q \in Live(t) : IF q \in Live(l.t) THEN l.t.cells[q] = t.cells[q]
                        ELSE t.cells[q] \in S
  /\ IF l.at = Null THEN \A q \in Live(l.t) : l.t.cells[q] \notin S
     ELSE /\ l.at \in Live(l.t) /\ l.t.pos = l.at /\ i <= l.at
          /\ \A q \in Live(l.t) : q < l.at => l.t.cells[q] \notin S

LEMMA SweepStarts ==
  ASSUME NEW t, Sound(t), Exists(t), NEW S
  PROVE  Sweeping(t, S, 0, FirstNext(t))
<1> DEFINE f == FirstNext(t)
<1>1. /\ t \in Table /\ t.last \in Nat /\ Sound(f.t) /\ Moved(t, f.t)
  BY SoundFacts, FirstNextSound, CircularMoves
<1>2. /\ Kept(t, f.t) /\ f.t.flags = t.flags /\ f.t.size = t.size
  BY <1>1, MovedSame
<1>3. \A p \in Live(t) : p \in Nat
  BY <1>1 DEF Live
<1>4. f.at = Null => Live(t) = {}
  BY FirstNextExact
<1>5. f.at # Null => /\ f.at \in Live(t) /\ f.t.pos = f.at
                     /\ \A p \in Live(t) : f.at <= p
  BY <1>1, FirstNextExact, FirstSkipsNone DEF OnLive, Table
<1> HIDE DEF f
<1>6. /\ Sound(f.t) /\ Exists(f.t) /\ Live(f.t) = Live(t)
      /\ \A q \in Live(t) : f.t.cells[q] = t.cells[q]
  BY <1>1, <1>2 DEF Kept
<1>7. IF f.at = Null THEN \A q \in Live(f.t) : f.t.cells[q] \notin S
      ELSE /\ f.at \in Live(f.t) /\ f.t.pos = f.at /\ 0 <= f.at
           /\ \A q \in Live(f.t) : q < f.at => f.t.cells[q] \notin S
  BY <1>3, <1>4, <1>5, <1>6
<1> QED
  BY <1>2, <1>6, <1>7 DEF Sweeping, f

\* Deleting the chunk that the cursor is on: the cursor stays, or steps back to
\* the new end of the table.
LEMMA DelHere ==
  ASSUME NEW t, Sound(t), t.pos \in Live(t), NEW u, u = DelCurrent(t).t
  PROVE  /\ Sound(u) /\ Exists(u) /\ Lost(t, u, t.pos)
         /\ u.flags = t.flags /\ u.size = t.size
         /\ u.pos = t.pos \/ u.pos = t.pos - 1
         /\ \A q \in Live(u) : q \in Nat
<1>1. /\ t \in Table /\ t.pos \in Nat /\ t.last \in Nat /\ t.tail \in Nat
  BY SoundFacts
<1>2. ~IsEmpty(t) /\ t.pos <= t.last /\ t.pos \notin t.mask /\ Exists(t)
  BY <1>1 DEF Live, IsEmpty
<1>3. Current(t) = t.pos /\ t.pos # Null
  BY <1>1, <1>2 DEF Current, Null
<1>4. DelCurrent(t).ok /\ DelCurrent(t).at = t.pos
  BY <1>2, <1>3 DEF DelCurrent, Done
<1>5. Sound(u) /\ Lost(t, u, t.pos)
  BY <1>4, DelKeepsSound
<1>6. u.flags = t.flags /\ u.size = t.size
  BY <1>1, DelKeepsSize
<1>7. u.pos = t.pos \/ u.pos = t.pos - 1
  <2> DEFINE cleared == [t EXCEPT !.cells = [t.cells EXCEPT ![t.pos] = Zero],
                                  !.count = t.count - 1]
  <2>1. /\ [cleared EXCEPT !.mask = cleared.mask \cup {t.pos},
                          !.fragCount = cleared.fragCount + 1].pos = t.pos
        /\ [cleared EXCEPT !.tail = t.pos - 1,
                          !.last = cleared.last - 1, !.pos = t.last - 1].pos = t.last - 1
    BY <1>1 DEF Table
  <2>2. t.tail = t.last
    BY <1>2, SoundFacts
  <2>3. \/ /\ t.pos = t.tail
           /\ DelCurrent(t).t = [cleared EXCEPT !.tail = t.pos - 1,
                                  !.last = cleared.last - 1, !.pos = t.last - 1]
        \/ DelCurrent(t).t = [cleared EXCEPT !.mask = cleared.mask \cup {t.pos},
                                  !.fragCount = cleared.fragCount + 1]
    BY <1>2, <1>3 DEF DelCurrent, Done
  <2> HIDE DEF cleared
  <2> QED
    BY <2>1, <2>2, <2>3
<1>8. \A q \in Live(u) : q \in Nat
  BY <1>5, SoundFacts DEF Live
<1> QED
  BY <1>5, <1>6, <1>7, <1>8 DEF Lost

LEMMA SweepGoesOn ==
  ASSUME NEW t, NEW S, NEW i \in Nat, NEW l, Sweeping(t, S, i, l)
  PROVE  Sweeping(t, S, i + 1, SweepStep(S, l))
<1>1. CASE l.at = Null
  BY <1>1 DEF SweepStep, Sweeping
<1>2. CASE l.at # Null
  <2> DEFINE u == IF l.t.cells[l.at] \in S THEN DelCurrent(l.t).t ELSE l.t
             n == NextSlot(u)
  <2>1. /\ Sound(l.t) /\ l.at \in Live(l.t) /\ l.t.pos = l.at /\ l.at \in Nat
        /\ i <= l.at /\ \A q \in Live(l.t) : q \in Nat
    BY <1>2, SoundFacts DEF Sweeping, Live
  <2>2. /\ Sound(u) /\ Exists(u) /\ u.flags = t.flags /\ u.size = t.size
        /\ u.pos = l.at \/ (u.pos = l.at - 1 /\ l.at \notin Live(u))
        /\ Live(u) \subseteq Live(l.t)
        /\ \A q \in Live(l.t) : IF q \in Live(u) THEN u.cells[q] = l.t.cells[q]
                                ELSE l.t.cells[q] \in S
        /\ l.at \in Live(u) => l.t.cells[l.at] \notin S
    <3>1. CASE l.t.cells[l.at] \in S
      <4>1. u = DelCurrent(l.t).t
        BY <3>1
      <4> HIDE DEF u
      <4> QED
        BY <2>1, <3>1, <4>1, DelHere DEF Sweeping, Lost
    <3>2. CASE l.t.cells[l.at] \notin S
      BY <2>1, <3>2 DEF Sweeping
    <3> QED
      BY <3>1, <3>2
  <2> HIDE DEF u
  <2>3. u.pos \in Nat /\ u \in Table /\ Sound(n.t) /\ Moved(u, n.t)
    BY <2>2, SoundFacts, MovesKeepSound, CursorMoves
  <2>4. Kept(u, n.t) /\ n.t.flags = u.flags /\ n.t.size = u.size
    BY <2>3, MovedSame
  <2>5. /\ Exists(n.t) /\ Live(n.t) = Live(u) /\ Live(n.t) \subseteq Live(t)
        /\ \A q \in Live(t) : IF q \in Live(n.t) THEN n.t.cells[q] = t.cells[q]
                              ELSE t.cells[q] \in S
    BY <2>2, <2>4 DEF Sweeping, Kept
  <2>6. ASSUME NEW q \in Live(u), q <= u.pos PROVE n.t.cells[q] \notin S
    <3>1. q \in Live(l.t) /\ q \in Nat /\ n.t.cells[q] = l.t.cells[q]
      BY <2>1, <2>2, <2>4 DEF Kept
    <3>2. q = l.at \/ q < l.at
      BY <2>1, <2>2, <2>6, <3>1
    <3> QED
      BY <1>2, <2>2, <3>1, <3>2 DEF Sweeping
  <2>7. CASE n.at = Null
    <3>1. \A q \in Live(u) : q <= u.pos
      BY <2>2, <2>7, NextExact
    <3> HIDE DEF n
    <3>2. \A q \in Live(n.t) : n.t.cells[q] \notin S
      BY <2>5, <2>6, <3>1
    <3>3. Sweeping(t, S, i + 1, n)
      BY <2>2, <2>3, <2>4, <2>5, <2>7, <3>2 DEF Sweeping
    <3> QED
      BY <1>2, <3>3 DEF SweepStep, n, u
  <2>8. CASE n.at # Null
    <3>1. n.at \in Live(u) /\ n.t.pos = n.at /\ u.pos < n.at
          /\ \A q \in Live(u) : q <= u.pos \/ n.at <= q
      BY <2>2, <2>3, <2>8, NextExact, NextSkipsNone DEF OnLive, Table
    <3> HIDE DEF n
    <3>2. n.at \in Nat /\ i + 1 <= n.at
      BY <2>1, <2>2, <3>1
    <3>3. \A q \in Live(n.t) : q < n.at => n.t.cells[q] \notin S
      BY <2>1, <2>2, <2>5, <2>6, <3>1, <3>2
    <3>4. Sweeping(t, S, i + 1, n)
      BY <2>2, <2>3, <2>4, <2>5, <2>8, <3>1, <3>2, <3>3 DEF Sweeping
    <3> QED
      BY <1>2, <3>4 DEF SweepStep, n, u
  <2> QED
    BY <2>7, <2>8
<1> QED
  BY <1>1, <1>2

\* The loop comes to an end, and what it leaves is what is not in S.
LEMMA SweptExact ==
  ASSUME NEW t, Sound(t), Exists(t), NEW S, NEW l, l = Swept(t, S)
  PROVE  /\ l.at = Null
         /\ Sound(l.t) /\ Exists(l.t) /\ l.t.flags = t.flags /\ l.t.size = t.size
         /\ Live(l.t) = {q \in Live(t) : t.cells[q] \notin S}
         /\ \A q \in Live(l.t) : l.t.cells[q] = t.cells[q]
<1>1. PICK loop :
        /\ loop = [i \in 0..(MaxSize + 1) |->
                     IF i = 0 THEN FirstNext(t) ELSE SweepStep(S, loop[i - 1])]
        /\ l = loop[MaxSize + 1]
  BY SweepRuns
<1>2. MaxSize \in Nat
  BY TableAssumption
<1> DEFINE Reached == {n \in Nat : n <= MaxSize + 1 => Sweeping(t, S, n, loop[n])}
<1>3. loop[0] = FirstNext(t)
  BY <1>1, <1>2
<1>4. \A n \in Nat : n + 1 <= MaxSize + 1 => loop[n + 1] = SweepStep(S, loop[n])
  <2> TAKE n \in Nat
  <2> HAVE n + 1 <= MaxSize + 1
  <2>1. n + 1 \in 0..(MaxSize + 1) /\ n + 1 # 0 /\ (n + 1) - 1 = n
    BY <1>2
  <2> QED
    BY <1>1, <2>1
<1>5. 0 \in Reached
  BY <1>3, SweepStarts
<1>6. ASSUME NEW n \in Reached PROVE n + 1 \in Reached
  BY <1>2, <1>4, <1>6, SweepGoesOn
<1>7. Reached = Nat
  <2>1. Reached \in SUBSET Nat
    OBVIOUS
  <2> HIDE DEF Reached
  <2> QED
    BY <1>5, <1>6, <2>1, AllNaturals
<1>8. Sweeping(t, S, MaxSize + 1, l)
  <2>1. MaxSize + 1 \in Reached
    BY <1>2, <1>7
  <2>2. MaxSize + 1 <= MaxSize + 1 => Sweeping(t, S, MaxSize + 1, loop[MaxSize + 1])
    BY <2>1
  <2> HIDE DEF Reached
  <2> QED
    BY <1>1, <1>2, <2>2
<1>9. l.at = Null
  <2>1. Live(l.t) \subseteq 0..l.t.last /\ l.t.last \in Nat /\ l.t.last < l.t.size
        /\ l.t.size \in 1..MaxSize
    BY <1>8, SoundFacts DEF Sweeping, Live
  <2>2. \A q \in Live(l.t) : ~(MaxSize + 1 <= q)
    BY <1>2, <2>1
  <2> QED
    BY <1>8, <2>2 DEF Sweeping
<1>10. Live(l.t) = {q \in Live(t) : t.cells[q] \notin S}
  BY <1>8, <1>9 DEF Sweeping
<1> QED
  BY <1>8, <1>9, <1>10 DEF Sweeping
----------------------------------------------------------------------------
(* What the code that uses a table knows of it.                            *)

LEMMA HeldOrBlank ==
  ASSUME NEW t, Sound(t)
  PROVE  /\ t \in Table
         /\ Live(t) \subseteq DOMAIN t.cells /\ Live(t) \subseteq 0..(MaxSize - 1)
         /\ \A p \in Live(t) : t.cells[p] \in Chunks
         /\ Exists(t) => \A p \in DOMAIN t.cells :
                           p \notin Live(t) => t.cells[p] = Zero
         /\ IsEmpty(t) <=> Live(t) = {}
<1>1. CASE ~Exists(t)
  BY <1>1, SoundFacts DEF Live, IsEmpty
<1>2. CASE Exists(t)
  <2>1. /\ t \in Table /\ Good(t) /\ Shape(t) /\ MaxSize \in Nat
        /\ t.last \in Nat /\ t.size \in 1..MaxSize /\ t.last < t.size
        /\ t.mask \in SUBSET (0..t.last)
    BY <1>2, SoundFacts, TableAssumption DEF Sound
  <2>2. DOMAIN t.cells = 0..(t.size - 1) /\ Live(t) \subseteq 0..t.last
    BY <2>1 DEF Good, Bounds, Live
  <2>3. Live(t) \subseteq DOMAIN t.cells /\ Live(t) \subseteq 0..(MaxSize - 1)
    BY <2>1, <2>2
  <2>4. t.count # 0 => Live(t) # {}
    BY <1>2, NoneCounted
  <2>5. IsEmpty(t) <=> Live(t) = {}
    BY <1>2, <2>4 DEF IsEmpty, Live
  <2> QED
    BY <2>1, <2>3, <2>5 DEF Good, CellsExact
<1> QED
  BY <1>1, <1>2

\* What a move of the cursor leaves as it was.
Alike(t, u) ==
  /\ Sound(u) /\ Exists(u) = Exists(t) /\ Live(u) = Live(t)
  /\ u.cells = t.cells /\ u.size = t.size /\ u.last = t.last /\ u.mask = t.mask
  /\ u.flags = t.flags
  /\ IsEmpty(u) = IsEmpty(t) /\ Fragmented(u) = Fragmented(t)

LEMMA MovesAlike ==
  ASSUME NEW t, Sound(t)
  PROVE  /\ Alike(t, First(t).t) /\ Alike(t, Last(t).t) /\ Alike(t, PrevSlot(t).t)
         /\ \A d : Alike(t, Search(t, d).t)
<1>1. t \in Table
  BY SoundFacts
<1>2. ASSUME NEW u, Moved(t, u), Sound(u) PROVE Alike(t, u)
  BY <1>1, <1>2, MovedSame DEF Alike, Kept, IsEmpty, Exists, Fragmented
<1> QED
  BY <1>1, <1>2, CursorMoves, MovesKeepSound

\* The last entry stands on tail and the cursor there too.
LEMMA LastStands ==
  ASSUME NEW t, Sound(t), ~IsEmpty(t)
  PROVE  /\ Last(t).at = t.last /\ Last(t).t.pos = t.last
         /\ t.last \in DOMAIN t.cells
         /\ \A p \in Live(t) : p <= t.last
<1>1. /\ t \in Table /\ t.last \in Nat /\ t.tail = t.last /\ Good(t)
      /\ t.size \in 1..MaxSize /\ t.last < t.size
  BY SoundFacts DEF IsEmpty
<1>2. t.last \in DOMAIN t.cells /\ \A p \in Live(t) : p <= t.last
  BY <1>1 DEF Good, Bounds, Live
<1>3. Last(t).at = t.last /\ Last(t).t.pos = t.last
  BY <1>1 DEF Last, Table
<1> QED
  BY <1>2, <1>3

\* The step back passes no slot in use over.
LEMMA PrevSkipsNone ==
  ASSUME NEW t, Sound(t)
  PROVE  IF PrevSlot(t).at = Null THEN \A p \in Live(t) : ~(p < t.pos)
         ELSE /\ PrevSlot(t).at \in Live(t) /\ PrevSlot(t).at < t.pos
              /\ PrevSlot(t).t.pos = PrevSlot(t).at
              /\ \A p \in Live(t) : p < t.pos => p <= PrevSlot(t).at
<1> DEFINE behind == Visible(t, 0..(t.pos - 1))
<1>1. t \in Table /\ t.pos \in Nat /\ t.last \in Nat /\ (Exists(t) => t.pos <= t.last)
  BY SoundFacts
<1>2. CASE IsEmpty(t)
  BY <1>2 DEF PrevSlot, Nowhere, Live
<1>3. CASE ~IsEmpty(t)
  <2>1. 0..(t.pos - 1) \in SUBSET (0..t.last) /\ 0..(t.pos - 1) \in SUBSET (0..t.pos)
    BY <1>1, <1>3 DEF IsEmpty
  <2>2. behind = (0..(t.pos - 1)) \cap Live(t) /\ Live(t) \subseteq Nat
    <3>1. behind = (0..(t.pos - 1)) \cap Live(t)
      BY <1>3, <2>1, VisibleLive
    <3>2. Live(t) \subseteq Nat
      BY <1>1 DEF Live
    <3> QED
      BY <3>1, <3>2
  <2>3. behind \in SUBSET (0..t.pos)
    BY <2>1, <2>2
  <2>4. \A p \in Live(t) : p < t.pos => p \in behind
    BY <1>1, <2>2
  <2> HIDE DEF behind
  <2>5. CASE behind = {}
    <3>1. PrevSlot(t).at = Null
      BY <1>3, <2>5 DEF PrevSlot, Nowhere, behind
    <3> QED
      BY <2>4, <2>5, <3>1
  <2>6. CASE behind # {}
    <3>1. Greatest(behind) \in behind /\ \A y \in behind : Greatest(behind) >= y
      BY <1>1, <2>3, <2>6, GreatestIn
    <3>2. PrevSlot(t) = At(Greatest(behind), t)
      BY <1>3, <2>6 DEF PrevSlot, behind
    <3>3. PrevSlot(t).at = Greatest(behind) /\ PrevSlot(t).t.pos = Greatest(behind)
      BY <1>1, <3>2 DEF At, Table
    <3>4. Greatest(behind) \in Live(t) /\ Greatest(behind) \in 0..(t.pos - 1)
      BY <2>2, <3>1
    <3>5. PrevSlot(t).at # Null
      BY <1>1, <3>3, <3>4 DEF Null
    <3>6. \A p \in Live(t) : p < t.pos => p <= Greatest(behind)
      BY <1>1, <2>2, <2>4, <3>1, <3>4
    <3>7. Greatest(behind) < t.pos
      BY <1>1, <3>4
    <3> QED
      BY <3>3, <3>4, <3>5, <3>6, <3>7
  <2> QED
    BY <2>5, <2>6
<1> QED
  BY <1>2, <1>3

\* Taking room at the tail leaves the cursor on it.
LEMMA TailNextCurrent ==
  ASSUME ~DirtyHeap, ~AllocFaults, NEW t, Sound(t), Exists(t), ~Emptying(t),
         NEW r \in GetTailNext(t), r.ok
  PROVE  r.t.pos = r.at
<1>1. ASSUME NEW u, Sound(u), Exists(u), ~Emptying(u)
      PROVE  TakeTail(u).t.pos = TakeTail(u).at
  <2>1. /\ u \in Table /\ u.pos \in Nat /\ u.last \in Nat /\ u.tail = u.last
        /\ u.pos <= u.last /\ Good(u) /\ Shape(u)
    BY <1>1, SoundFacts DEF Sound
  <2>2. CASE IsEmpty(u)
    <3>1. u.count = 0 /\ u.fragCount = 0
      BY <1>1, <2>2 DEF IsEmpty, Emptying, Fragmented
    <3>2. u.last = 0
      BY <1>1, <2>1, <3>1, LiveIsUsed DEF Good
    <3>3. u.pos = 0
      BY <2>1, <3>2
    <3>4. TakeTail(u) = Done(0, [u EXCEPT !.tail = 0, !.count = u.count + 1])
      BY <2>2 DEF TakeTail
    <3>5. TakeTail(u).at = 0 /\ TakeTail(u).t = [u EXCEPT !.tail = 0, !.count = u.count + 1]
      BY <3>4 DEF Done
    <3> QED
      BY <2>1, <3>3, <3>5 DEF Table
  <2>3. CASE ~IsEmpty(u)
    BY <2>1, <2>3 DEF TakeTail, Done, Table
  <2> QED
    BY <2>2, <2>3
<1>2. t.last \in Nat /\ t.size \in Nat
  BY SoundFacts, TableAssumption DEF Table
<1>3. CASE IsEmpty(t) \/ t.last + 1 < t.size
  BY <1>1, <1>3 DEF GetTailNext
<1>4. CASE ~(IsEmpty(t) \/ t.last + 1 < t.size)
  <2>1. "NRA" \notin t.flags
    BY <1>4 DEF GetTailNext, Failed
  <2>2. PICK g \in ReallocAndMove(t) : r = IF g.ok THEN TakeTail(g.t) ELSE g
    BY <1>4, <2>1 DEF GetTailNext
  <2>3. g.ok => Sound(g.t) /\ Exists(g.t) /\ ~IsEmpty(g.t)
    BY <1>2, <1>4, <2>2, GrowKeepsGood
  <2> QED
    BY <1>1, <2>2, <2>3 DEF Emptying
<1> QED
  BY <1>3, <1>4

\* A push that stores its chunk does, too, and where nothing was deleted from
\* the end of an empty table it always finds what it stored under the cursor.
LEMMA PushCurrent ==
  ASSUME ~DirtyHeap, ~AllocFaults, ~Constrained, NEW t, Sound(t), Exists(t),
         ~Emptying(t), NEW d \in Chunks, NEW w \in Push(t, d), w.ok
  PROVE  Current(w.t) = w.at
<1>1. Match(t, d) = Nowhere(t) /\ Match(t, d).t = t /\ Match(t, d).at = Null
  BY DEF Match, Nowhere
<1>2. PICK r \in GetTailNext(t) : w = IF r.ok THEN [r EXCEPT !.t.cells[r.at] = d] ELSE r
  BY <1>1 DEF Push, WriteChunk
<1>3. r.ok
  BY <1>2
<1>4. r.t.pos = r.at /\ RoomOut(t, r)
  BY <1>3, TailNextCurrent, TailNextReady DEF Emptying
<1>5. r = [ok |-> r.ok, at |-> r.at, t |-> r.t] /\ r.t \in Table
  BY <1>4, DstRecords, SoundFacts DEF RoomOut, DstOut, ShapeOut, Shape, Ready
<1>6. w.at = r.at /\ w.t = [r.t EXCEPT !.cells = [r.t.cells EXCEPT ![r.at] = d]]
  BY <1>2, <1>3, <1>5
<1>7. w.t.pos = r.at
  BY <1>4, <1>5, <1>6 DEF Table
<1>8. Sound(w.t) /\ Gained(t, w.t, w.at)
  BY <1>1, PushSound, <1>2, <1>3 DEF Written
<1>9. w.at \in Live(w.t) /\ w.t.last \in Nat
  BY <1>8, SoundFacts DEF Gained
<1> QED
  BY <1>6, <1>7, <1>9 DEF Current, Live, IsEmpty

\* What is searched for may be no chunk.
LEMMA SearchHits ==
  ASSUME NEW t, Sound(t), NEW d, Search(t, d).at # Null
  PROVE  Search(t, d).at \in DOMAIN t.cells /\ Matches(t.cells[Search(t, d).at], d)
<1> DEFINE found == {p \in Visible(t, 0..t.last) : Matches(t.cells[p], d)}
<1>1. ~IsEmpty(t)
  BY DEF Search, Nowhere
<1>2. /\ t.pos \in Nat /\ t.last \in Nat /\ t.last < t.size /\ t.size \in Nat
      /\ DOMAIN t.cells = 0..(t.size - 1)
  BY <1>1, SoundFacts, TableAssumption DEF IsEmpty, Good, Bounds
<1>3. CASE t.pos <= t.last /\ Matches(t.cells[t.pos], d)
  <2>1. Search(t, d).at = t.pos
    BY <1>1, <1>3 DEF Search, At
  <2> QED
    BY <1>2, <1>3, <2>1
<1>4. CASE ~(t.pos <= t.last /\ Matches(t.cells[t.pos], d))
  <2>1. found # {} /\ found \subseteq 0..t.last
    BY <1>1, <1>4 DEF Search, Nowhere, Visible
  <2>2. Search(t, d).at = Least(found)
    BY <1>1, <1>4, <2>1 DEF Search, At
  <2>3. found \in SUBSET Nat
    BY <1>2, <2>1
  <2>4. Least(found) \in found
    BY <2>1, <2>3, LeastIn
  <2>5. PICK p : p = Search(t, d).at
    OBVIOUS
  <2>6. p \in found
    BY <2>2, <2>4, <2>5
  <2>7. p \in 0..t.last /\ Matches(t.cells[p], d)
    BY <2>1, <2>6
  <2> QED
    BY <1>2, <2>5, <2>7
<1> QED
  BY <1>3, <1>4

\* A table that may not be reallocated keeps its size.
LEMMA InsertKeepsFlags ==
  ASSUME ~DirtyHeap, ~AllocFaults, NEW t, Sound(t), Exists(t),
         NEW d \in Chunks, NEW w \in Insert(t, d)
  PROVE  w.t.flags = t.flags /\ ("NRA" \in t.flags => w.t.size = t.size)
<1> DEFINE m == Match(t, d)
<1>1. m.t \in Table /\ Sound(m.t) /\ Exists(m.t) /\ m.t.flags = t.flags /\ m.t.size = t.size
  <2>1. Sound(m.t) /\ m.t.flags = t.flags /\ Kept(t, m.t)
    BY MatchSound
  <2>2. t \in Table /\ Moved(t, m.t)
    BY SoundFacts, CursorMoves
  <2> QED
    BY <2>1, <2>2, MovedSame, SoundFacts DEF Kept
<1>2. ASSUME NEW r \in GetTailNext(m.t), "NRA" \in m.t.flags PROVE r.t.size = m.t.size
  <2>1. CASE r = TakeTail(m.t)
    BY <1>1, <2>1, TakeTailKeepsSize
  <2>2. CASE r = Failed(m.t)
    BY <2>2 DEF Failed
  <2> QED
    BY <1>2, <2>1, <2>2 DEF GetTailNext
<1>3. ASSUME NEW r \in GetFragFirst(m.t), "NRA" \in m.t.flags PROVE r.t.size = m.t.size
  <2> DEFINE s == SetPosFragFirst(m.t)
  <2>1. CASE ~Fragmented(m.t) \/ "NRU" \in m.t.flags
    BY <1>2, <1>3, <2>1 DEF GetFragFirst
  <2>2. CASE ~(~Fragmented(m.t) \/ "NRU" \in m.t.flags)
    <3>1. s.size = m.t.size /\ s \in [DOMAIN m.t -> {s[x] : x \in DOMAIN m.t}]
      BY <1>1 DEF SetPosFragFirst, Table
    <3> HIDE DEF s
    <3>2. \/ r.t = s
          \/ r.t = [s EXCEPT !.mask = s.mask \ {s.pos},
                      !.fragCount = s.fragCount - 1, !.count = s.count + 1]
      BY <2>2 DEF GetFragFirst, Failed, Done, s
    <3> QED
      BY <1>1, <3>1, <3>2 DEF Table
  <2> QED
    BY <2>1, <2>2
<1>4. \A r \in GetFragFirst(m.t) :
        /\ r = [ok |-> r.ok, at |-> r.at, t |-> r.t] /\ r.t \in Table
        /\ r.t.flags = m.t.flags
  BY <1>1, DstRecords, FragFirstShape, FragFirstKeepsSize
     DEF Sound, DstOut, ShapeOut, Shape
<1>5. w \in WriteChunk(m, d, GetFragFirst(m.t))
  BY DEF Insert
<1> HIDE DEF m
<1>6. \/ w.t = m.t
      \/ \E r \in GetFragFirst(m.t) : w.t.size = r.t.size /\ w.t.flags = r.t.flags
  BY <1>4, <1>5, WriteWhy
<1> QED
  BY <1>1, <1>3, <1>4, <1>6

----------------------------------------------------------------------------
(* The same for a table whose constraint is met by what is already there.  *)

LEMMA PackedFacts ==
  ASSUME NEW t, Packed(t)
  PROVE  /\ t \in Table /\ Sound(t) /\ Exists(t) /\ t.flags = {"XIS"}
         /\ t.count \in 0..MaxSize /\ t.last \in Nat /\ t.pos \in Nat
         /\ t.size \in 1..MaxSize /\ t.last < t.size /\ t.pos <= t.last
         /\ Live(t) = 0..(t.count - 1) /\ IsFiniteSet(Live(t))
         /\ Cardinality(Live(t)) = t.count
         /\ IsEmpty(t) <=> t.count = 0
         /\ \A p \in Live(t) : t.cells[p] \in Chunks
<1>1. /\ Plain(t) /\ Exists(t) /\ t.mask = {} /\ t.count \in Nat
      /\ IF t.count = 0 THEN t.last = 0 ELSE t.count = t.last + 1
  BY DEF Packed
<1>2. t \in Table /\ Sound(t) /\ t.flags = {"XIS"}
  BY <1>1, PlainFacts
<1>3. /\ t.last \in Nat /\ t.pos \in Nat /\ t.size \in 1..MaxSize /\ t.last < t.size
      /\ t.pos <= t.last /\ MaxSize \in Nat
  BY <1>1, <1>2, SoundFacts, TableAssumption
<1>4. Live(t) = 0..(t.count - 1)
  BY <1>1, <1>3 DEF Live, IsEmpty
<1>5. IsFiniteSet(Live(t)) /\ Cardinality(Live(t)) = t.count
  BY <1>1, <1>4, FS_Interval
<1>6. t.count \in 0..MaxSize
  BY <1>1, <1>3
<1>7. \A p \in Live(t) : t.cells[p] \in Chunks
  BY <1>2, HeldOrBlank
<1> QED
  BY <1>1, <1>2, <1>3, <1>4, <1>5, <1>6, <1>7 DEF IsEmpty

LEMMA PackedSearch ==
  ASSUME NEW t, Packed(t), NEW d, NEW s, s = Search(t, d)
  PROVE  /\ Packed(s.t) /\ s.t.count = t.count /\ s.t.cells = t.cells
         /\ Live(s.t) = Live(t)
         /\ IF s.at = Null THEN \A p \in Live(t) : ~Matches(t.cells[p], d)
            ELSE /\ s.at \in Live(t) /\ Matches(t.cells[s.at], d)
                 /\ Current(s.t) = s.at
<1> DEFINE found == {p \in Visible(t, 0..t.last) : Matches(t.cells[p], d)}
<1>1. /\ t \in Table /\ Sound(t) /\ Exists(t) /\ t.flags = {"XIS"}
      /\ t.last \in Nat /\ t.pos \in Nat /\ t.pos <= t.last
      /\ t.count \in Nat /\ Live(t) = 0..(t.count - 1)
      /\ IsEmpty(t) <=> t.count = 0
      /\ IF t.count = 0 THEN t.last = 0 ELSE t.count = t.last + 1
  BY PackedFacts, TableAssumption DEF Packed
<1>2. Sound(s.t) /\ Moved(t, s.t)
  BY <1>1, MovesKeepSound, CursorMoves
<1>3. /\ Exists(s.t) /\ s.t.flags = t.flags /\ s.t.last = t.last /\ s.t.count = t.count
      /\ s.t.fragCount = t.fragCount /\ s.t.mask = t.mask /\ s.t.cells = t.cells
      /\ Live(s.t) = Live(t)
  BY <1>1, <1>2, MovedSame DEF Kept
<1>4. Packed(s.t)
  BY <1>1, <1>2, <1>3 DEF Packed, Plain
<1>5. CASE t.count = 0
  <2>1. s = Nowhere(t)
    BY <1>1, <1>5 DEF Search
  <2> QED
    BY <1>1, <1>3, <1>4, <1>5, <2>1 DEF Nowhere
<1>6. CASE t.count # 0
  <2>1. Live(t) = 0..t.last /\ ~IsEmpty(t)
    BY <1>1, <1>6
  <2>2. Visible(t, 0..t.last) = 0..t.last
    <3>1. 0..t.last \in SUBSET (0..t.last)
      OBVIOUS
    <3> QED
      BY <1>1, <2>1, <3>1, VisibleLive
  <2>3. found = {p \in Live(t) : Matches(t.cells[p], d)}
    BY <2>1, <2>2
  <2>4. ASSUME NEW p \in Live(t), Matches(t.cells[p], d), s = At(p, t)
        PROVE  /\ s.at # Null /\ s.at \in Live(t) /\ Matches(t.cells[s.at], d)
               /\ Current(s.t) = s.at
    <3>1. s.at = p /\ p \in Nat /\ p <= t.last
      BY <1>1, <2>1, <2>4 DEF At
    <3>2. s.t.pos = p
      BY <1>1, <2>4 DEF At, Table
    <3>3. ~IsEmpty(s.t)
      BY <1>3, <1>6 DEF IsEmpty
    <3> QED
      BY <1>3, <2>4, <3>1, <3>2, <3>3 DEF Current, Null
  <2>5. CASE Matches(t.cells[t.pos], d)
    <3>1. s = At(t.pos, t) /\ t.pos \in Live(t)
      BY <1>1, <2>1, <2>5 DEF Search
    <3> QED
      BY <1>3, <1>4, <2>4, <2>5, <3>1
  <2>6. CASE ~Matches(t.cells[t.pos], d) /\ found # {}
    <3>1. s = At(Least(found), t)
      BY <1>1, <2>1, <2>6 DEF Search
    <3>2. found \in SUBSET Nat
      BY <1>1, <2>1, <2>3
    <3>3. PICK p : p = Least(found)
      OBVIOUS
    <3>4. p \in found
      BY <2>6, <3>2, <3>3, LeastIn
    <3>5. p \in Live(t) /\ Matches(t.cells[p], d)
      BY <2>3, <3>4
    <3> HIDE DEF found
    <3> QED
      BY <1>3, <1>4, <2>4, <3>1, <3>3, <3>5
  <2>7. CASE ~Matches(t.cells[t.pos], d) /\ found = {}
    <3>1. s.at = Null
      BY <2>1, <2>7 DEF Search, Nowhere
    <3>2. \A p \in Live(t) : ~Matches(t.cells[p], d)
      BY <2>3, <2>7
    <3> QED
      BY <1>3, <1>4, <3>1, <3>2
  <2> QED
    BY <2>5, <2>6, <2>7
<1> QED
  BY <1>5, <1>6

LEMMA PackedTail ==
  ASSUME ~DirtyHeap, ~AllocFaults, NEW t, Packed(t), NEW r \in GetTailNext(t)
  PROVE  IF t.count < MaxSize
         THEN /\ r.ok = TRUE /\ r.t \in Table /\ r.t.mask = {} /\ r.t.fragCount = 0
              /\ r.t.count = t.count + 1 /\ r.t.last + 1 = r.t.count
              /\ r.t.flags = t.flags /\ r.t.pos = r.t.last /\ r.at = r.t.last
         ELSE r = Failed(t)
<1>1. /\ t \in Table /\ Sound(t) /\ Exists(t) /\ t.flags = {"XIS"}
      /\ t.last \in Nat /\ t.pos \in Nat /\ t.pos <= t.last
      /\ t.count \in Nat /\ t.count <= MaxSize /\ MaxSize \in Nat \ {0}
      /\ t.size \in 1..MaxSize /\ t.last < t.size
      /\ t.mask = {} /\ t.fragCount = 0 /\ t.tail = t.last
      /\ IsEmpty(t) <=> t.count = 0
      /\ IF t.count = 0 THEN t.last = 0 ELSE t.count = t.last + 1
  BY PackedFacts, SoundFacts, TableAssumption DEF Packed
<1> DEFINE More(x) == /\ x.ok = TRUE /\ x.t.mask = {} /\ x.t.fragCount = 0
              /\ x.t.count = t.count + 1 /\ x.t.last + 1 = x.t.count
              /\ x.t.flags = t.flags /\ x.t.pos = x.t.last /\ x.at = x.t.last
<1>2. ASSUME NEW u \in Table, u.mask = {}, u.fragCount = 0, u.count = t.count,
             u.last = t.last, u.flags = t.flags, u.pos = t.pos, u.tail = t.last
      PROVE  More(TakeTail(u))
  BY <1>1, <1>2 DEF TakeTail, Done, IsEmpty, Exists, Table
<1>3. r.t \in Table
  BY <1>1, TailNextShape DEF Sound, DstOut, ShapeOut, Shape
<1>4. CASE IsEmpty(t) \/ t.last + 1 < t.size
  <2>1. r = TakeTail(t) /\ t.count < MaxSize
    BY <1>1, <1>4 DEF GetTailNext
  <2>2. More(TakeTail(t))
    BY <1>1, <1>2
  <2> QED
    BY <1>3, <2>1, <2>2
<1>5. CASE ~(IsEmpty(t) \/ t.last + 1 < t.size)
  <2>1. t.count = t.last + 1 /\ t.count = t.size /\ "NRA" \notin t.flags
    BY <1>1, <1>5
  <2>2. PICK g \in ReallocAndMove(t) : r = IF g.ok THEN TakeTail(g.t) ELSE g
    BY <1>5, <2>1 DEF GetTailNext
  <2>3. CASE t.count < MaxSize
    <3>1. ~(GrownSize(t) <= t.size)
      BY <1>1, <2>1, <2>3 DEF GrownSize
    <3>2. PICK moved \in BOOLEAN, dirt \in SUBSET DirtyBits(t, GrownSize(t)) :
            g = Done(Null, Grown(t, GrownSize(t), moved, dirt))
      BY <2>2, <3>1 DEF ReallocAndMove
    <3> DEFINE u == Grown(t, GrownSize(t), moved, dirt)
    <3>3. /\ u.mask = {} /\ u.fragCount = 0 /\ u.count = t.count
          /\ u.last = t.last /\ u.flags = t.flags /\ u.pos = t.pos /\ u.tail = t.last
      <4>1. dirt = {}
        BY <3>2 DEF DirtyBits
      <4> QED
        BY <1>1, <4>1 DEF Grown, Table
    <3>4. g.ok = TRUE /\ g.t = u
      BY <3>2 DEF Done
    <3>5. r = TakeTail(u)
      BY <2>2, <3>4, Zenon
    <3>6. u \in Table
      <4>1. Sound(g.t)
        BY <1>1, <1>5, <2>2, <3>4, GrowKeepsGood
      <4> QED
        BY <3>4, <4>1, SoundFacts
    <3> HIDE DEF u
    <3>7. More(TakeTail(u))
      BY <1>2, <3>3, <3>6
    <3> QED
      BY <1>3, <2>3, <3>5, <3>7
  <2>4. CASE ~(t.count < MaxSize)
    <3>1. t.size = MaxSize
      BY <1>1, <2>1, <2>4
    <3>2. GrownSize(t) <= t.size
      BY <1>1, <3>1 DEF GrownSize
    <3>3. g = Failed(t)
      BY <2>2, <3>2 DEF ReallocAndMove
    <3>4. ~g.ok
      BY <3>3 DEF Failed
    <3> QED
      BY <2>2, <2>4, <3>3, <3>4
  <2> QED
    BY <2>3, <2>4
<1> QED
  BY <1>4, <1>5

\* An entry that is there is found, another is added, unless the table is full.
LEMMA PackedSettle ==
  ASSUME ~DirtyHeap, ~AllocFaults, Constrained, OnConstrains = "OK",
         NEW t, Packed(t), NEW d \in Chunks, NEW w \in Insert(t, d)
  PROVE  /\ Packed(w.t) /\ \A q \in Live(t) : w.t.cells[q] = t.cells[q]
         /\ w.ok \in BOOLEAN
         /\ w.ok => Current(w.t) = w.at
         /\ IF \E p \in Live(t) : Matches(t.cells[p], d)
            THEN w.ok /\ Live(w.t) = Live(t) /\ w.at \in Live(t)
                 /\ Matches(t.cells[w.at], d)
            ELSE IF t.count < MaxSize
            THEN w.ok /\ w.at \notin Live(t) /\ Live(w.t) = Live(t) \cup {w.at}
                 /\ w.t.cells[w.at] = d
            ELSE ~w.ok /\ Live(w.t) = Live(t)
<1>1. PICK s : s = Search(t, d)
  OBVIOUS
<1>2. /\ Packed(s.t) /\ s.t.count = t.count /\ s.t.cells = t.cells
      /\ Live(s.t) = Live(t)
      /\ IF s.at = Null THEN \A p \in Live(t) : ~Matches(t.cells[p], d)
         ELSE /\ s.at \in Live(t) /\ Matches(t.cells[s.at], d)
              /\ Current(s.t) = s.at
  BY <1>1, PackedSearch
<1>3. w \in WriteChunk(s, d, GetFragFirst(s.t)) /\ Match(t, d) = s
  BY <1>1 DEF Insert, Match
<1>4. CASE s.at # Null
  <2>1. w = [ok |-> OnConstrains = "OK", at |-> s.at, t |-> s.t]
    BY <1>3, <1>4 DEF WriteChunk
  <2>2. w.ok = TRUE /\ w.at = s.at /\ w.t = s.t
    BY <2>1, Zenon
  <2> QED
    BY <1>2, <1>4, <2>2
<1>5. CASE s.at = Null
  <2>1. GetFragFirst(s.t) = GetTailNext(s.t)
    BY <1>2 DEF GetFragFirst, Fragmented, Packed
  <2>2. PICK r \in GetTailNext(s.t) :
          w = IF r.ok THEN [r EXCEPT !.t.cells[r.at] = d] ELSE r
    BY <1>3, <1>5, <2>1 DEF WriteChunk
  <2>3. r = [ok |-> r.ok, at |-> r.at, t |-> r.t]
    BY DstRecords
  <2>4. ~\E p \in Live(t) : Matches(t.cells[p], d)
    BY <1>2, <1>5
  <2>5. CASE t.count < MaxSize
    <3>1. /\ r.ok = TRUE /\ r.t \in Table /\ r.t.mask = {} /\ r.t.fragCount = 0
          /\ r.t.count = t.count + 1 /\ r.t.last + 1 = r.t.count
          /\ r.t.flags = s.t.flags /\ r.t.pos = r.t.last /\ r.at = r.t.last
      BY <1>2, <2>5, PackedTail
    <3>2. /\ w.ok = TRUE /\ w.at = r.at
          /\ w.t = [r.t EXCEPT !.cells = [r.t.cells EXCEPT ![r.at] = d]]
      BY <2>2, <2>3, <3>1, Zenon
    <3>3. /\ w.t.mask = {} /\ w.t.fragCount = 0 /\ w.t.flags = s.t.flags
          /\ w.t.count = t.count + 1 /\ w.t.last + 1 = w.t.count
          /\ w.t.pos = w.t.last /\ w.at = w.t.last
      BY <3>1, <3>2 DEF Table
    <3>4. /\ Sound(t) /\ Exists(t) /\ t.flags = {"XIS"} /\ t.fragCount = 0
          /\ t.count \in Nat
      BY PackedFacts DEF Packed
    <3>5. Sound(w.t) /\ Written(t, s, d, w)
      BY <1>3, <3>4, InsertSound
    <3>6. Gained(t, w.t, w.at) /\ w.t.cells[w.at] = d
      BY <1>5, <3>2, <3>5 DEF Written
    <3>7. Packed(w.t)
      <4>1. s.t.flags = {"XIS"}
        BY <1>2, PackedFacts
      <4>2. Plain(w.t) /\ Exists(w.t)
        BY <3>3, <3>5, <3>6, <4>1 DEF Plain, Gained
      <4>3. w.t.last \in Nat
        BY <3>5, SoundFacts
      <4> QED
        BY <3>3, <3>4, <4>2, <4>3 DEF Packed
    <3>8. Current(w.t) = w.at
      BY <3>3, <3>4, <3>6, <3>7, PackedFacts DEF Current, IsEmpty, Gained, Live
    <3> QED
      BY <2>4, <2>5, <3>2, <3>6, <3>7, <3>8 DEF Gained
  <2>6. CASE ~(t.count < MaxSize)
    <3>1. r = Failed(s.t)
      BY <1>2, <2>6, PackedTail
    <3>2. w.ok = FALSE /\ w.t = s.t
      BY <2>2, <3>1 DEF Failed
    <3> QED
      BY <1>2, <2>4, <2>6, <3>2
  <2> QED
    BY <2>5, <2>6
<1> QED
  BY <1>4, <1>5
=============================================================================
