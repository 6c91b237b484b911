-------------------------- MODULE TableShapeProofs --------------------------
(***************************************************************************)
(* The shape that every operation on a table keeps, whatever its size, its *)
(* chunks and the number of bits in a slot of its mask.                    *)
(***************************************************************************)
EXTENDS TableOps, FiniteSetTheorems, WellFoundedInduction, TLAPS

----------------------------------------------------------------------------
(* Arithmetic of the mask.                                                 *)

LEMMA MaskCovers ==
  ASSUME NEW n \in Nat, NEW p \in Nat, p <= n
  PROVE  p \in Bits(0, MaskSize(n))
<1>1. SlotBits \in Nat \ {0}
  BY TableAssumption
<1>2. n < (1 + n \div SlotBits) * SlotBits
  BY <1>1, Z3
<1> QED
  BY <1>1, <1>2 DEF Bits, MaskSize

LEMMA MaskGrows ==
  ASSUME NEW m \in Nat, NEW n \in Nat, m <= n
  PROVE  /\ MaskSize(m) \in Nat /\ MaskSize(n) \in Nat
         /\ MaskSize(m) <= MaskSize(n)
         /\ Bits(0, MaskSize(m)) \subseteq Bits(0, MaskSize(n))
<1>1. SlotBits \in Nat \ {0}
  BY TableAssumption
<1>2. m \div SlotBits \in Nat /\ n \div SlotBits \in Nat
  BY <1>1
<1>3. m \div SlotBits <= n \div SlotBits
  BY <1>1, Z3
<1> QED
  BY <1>1, <1>2, <1>3, Z3 DEF Bits, MaskSize

----------------------------------------------------------------------------
(* The cursor.                                                             *)

LEMMA LeastIn ==
  ASSUME NEW S \in SUBSET Nat, S # {}
  PROVE  Least(S) \in S /\ \A y \in S : Least(S) <= y
<1>1. \E x \in S : \A y \in S : <<y, x>> \notin OpToRel(<, Nat)
  BY NatLessThanWellFounded, WFMin
<1>2. OpToRel(<, Nat) = {ss \in Nat \X Nat : ss[1] < ss[2]}
  BY Zenon DEF OpToRel
<1>3. PICK x \in S : \A y \in S : <<y, x>> \notin OpToRel(<, Nat)
  BY <1>1
<1>4. ASSUME NEW y \in S PROVE x <= y
  <2>1. ASSUME y < x PROVE <<y, x>> \in {ss \in Nat \X Nat : ss[1] < ss[2]}
    BY <2>1
  <2>2. ~(y < x)
    BY <1>2, <1>3, <2>1
  <2> QED
    BY <2>2
<1> QED
  BY <1>4 DEF Least

LEMMA GreatestIn ==
  ASSUME NEW b \in Nat, NEW S \in SUBSET (0..b), S # {}
  PROVE  Greatest(S) \in S /\ \A y \in S : Greatest(S) >= y
<1> DEFINE T == {b - x : x \in S}
<1>1. T \in SUBSET Nat /\ T # {}
  <2>1. \A x \in S : b - x \in Nat
    OBVIOUS
  <2> QED
    BY <2>1
<1>2. Least(T) \in T /\ \A y \in T : Least(T) <= y
  BY <1>1, LeastIn
<1>3. PICK x \in S : Least(T) = b - x
  BY <1>2
<1>4. \A y \in S : x >= y
  BY <1>2, <1>3
<1> QED
  BY <1>4 DEF Greatest

----------------------------------------------------------------------------
(* The shape of a table, which holds whatever its owner does.              *)

Shape(t) ==
  /\ t \in Table
  /\ Exists(t) =>
       /\ t.size \in 1..MaxSize /\ t.cells \in [0..(t.size - 1) -> Cell]
       /\ t.tail <= t.last /\ t.last < t.size
       /\ t.mask \subseteq Bits(0, MaskSize(t.size))

LEMMA ContentsIntro ==
  ASSUME NEW n \in 0..MaxSize, NEW c \in [0..(n - 1) -> Cell]
  PROVE  c \in Contents
BY DEF Contents

LEMMA TableCells ==
  ASSUME NEW t \in Table, NEW c \in Contents, NEW k \in Int
  PROVE  [t EXCEPT !.cells = c, !.count = k] \in Table
BY DEF Table

LEMMA TableMask ==
  ASSUME NEW t \in Table, NEW m \in SUBSET Nat, NEW k \in Int
  PROVE  [t EXCEPT !.mask = m, !.fragCount = k] \in Table
BY DEF Table

LEMMA TableGrown ==
  ASSUME NEW t \in Table, NEW n \in 0..MaxSize, NEW tail \in Nat,
         NEW m \in SUBSET Nat, NEW c \in Contents
  PROVE  [t EXCEPT !.size = n, !.tail = tail, !.mask = m, !.cells = c] \in Table
BY DEF Table

LEMMA TableTail ==
  ASSUME NEW t \in Table, NEW tail \in Nat, NEW k \in Int
  PROVE  [t EXCEPT !.tail = tail, !.count = k] \in Table
BY DEF Table

LEMMA TableAppend ==
  ASSUME NEW t \in Table, NEW tail \in Nat, NEW last \in Nat, NEW pos \in Nat,
         NEW k \in Int
  PROVE  [t EXCEPT !.tail = tail, !.last = last, !.pos = pos, !.count = k] \in Table
BY DEF Table

LEMMA TableReuse ==
  ASSUME NEW t \in Table, NEW m \in SUBSET Nat, NEW j \in Int, NEW k \in Int
  PROVE  [t EXCEPT !.mask = m, !.fragCount = j, !.count = k] \in Table
BY DEF Table

LEMMA ShapeMoves ==
  ASSUME NEW t, Shape(t), NEW p \in Nat
  PROVE  Shape([t EXCEPT !.pos = p])
BY DEF Shape, Table, Exists

LEMMA MovesKeepShape ==
  ASSUME NEW t, Shape(t)
  PROVE  /\ Shape(First(t).t) /\ Shape(Last(t).t)
         /\ Shape(NextSlot(t).t) /\ Shape(PrevSlot(t).t)
         /\ \A p \in Nat : Shape(Chunk(t, p).t)
         /\ \A d : Shape(Search(t, d).t)
         /\ Shape(SetPosFragFirst(t))
<1>1. t.pos \in Nat /\ t.last \in Nat
  BY DEF Shape, Table
<1>2. \A S : Visible(t, S) \subseteq S
  BY DEF Visible
<1>3. Shape(First(t).t) /\ Shape(Last(t).t)
  BY <1>1, ShapeMoves DEF First, Last, At, Nowhere
<1>4. Shape(NextSlot(t).t)
  <2> DEFINE ahead == Visible(t, (t.pos + 1)..t.last)
  <2>1. ahead # {} => Least(ahead) \in Nat
    BY <1>1, <1>2, LeastIn
  <2> QED
    BY <1>1, <2>1, ShapeMoves DEF NextSlot, At, Nowhere
<1>5. Shape(PrevSlot(t).t)
  <2> DEFINE behind == Visible(t, 0..(t.pos - 1))
  <2>1. behind # {} => Greatest(behind) \in Nat
    <3>1. behind \in SUBSET (0..t.pos)
      <4>1. \A p \in 0..(t.pos - 1) : p \in 0..t.pos
        BY <1>1
      <4> QED
        BY <1>2, <4>1
    <3>2. ASSUME behind # {} PROVE Greatest(behind) \in behind
      BY <1>1, <3>1, <3>2, GreatestIn, Zenon
    <3> QED
      BY <1>1, <3>1, <3>2
  <2> QED
    BY <1>1, <2>1, ShapeMoves DEF PrevSlot, At, Nowhere
<1>6. ASSUME NEW p \in Nat PROVE Shape(Chunk(t, p).t)
  BY ShapeMoves DEF Chunk, At, Nowhere
<1>7. ASSUME NEW d PROVE Shape(Search(t, d).t)
  <2> DEFINE found == {p \in Visible(t, 0..t.last) : Matches(t.cells[p], d)}
  <2>1. found \in SUBSET Nat
    BY <1>1, <1>2
  <2>2. found # {} => Least(found) \in Nat
    BY <2>1, LeastIn
  <2> QED
    BY <1>1, <2>2, ShapeMoves DEF Search, At, Nowhere
<1>8. Shape(SetPosFragFirst(t))
  <2> DEFINE slots == t.last \div SlotBits + 1
             on == t.mask \cap Bits(0, slots)
  <2>1. slots * SlotBits \in Nat
    BY <1>1, TableAssumption
  <2>2. on \in SUBSET Nat
    BY DEF Shape, Table
  <2>3. on # {} => Least(on) \in Nat
    BY <2>2, LeastIn
  <2> QED
    BY <2>1, <2>3, ShapeMoves DEF SetPosFragFirst
<1> QED
  BY <1>3, <1>4, <1>5, <1>6, <1>7, <1>8

----------------------------------------------------------------------------
(* Deleting and writing keep the shape.                                    *)

\* What a write operation returns, and the table it leaves.
ShapeOut(r) ==
  /\ r.ok \in BOOLEAN
  /\ r.at \in Nat \cup {Null}
  /\ Shape(r.t)

LEMMA DelKeepsShape ==
  ASSUME NEW t, Shape(t)
  PROVE  ShapeOut(DelCurrent(t))
<1> DEFINE p == Current(t)
           cleared == [t EXCEPT !.cells[p] = Zero, !.count = @ - 1]
<1>1. CASE p = Null \/ p \in t.mask
  BY <1>1 DEF DelCurrent, Failed, ShapeOut
<1>2. CASE ~(p = Null \/ p \in t.mask)
  <2>1. Exists(t) /\ p = t.pos /\ p \in Nat /\ p <= t.last
    BY <1>2 DEF Current, IsEmpty, Shape, Table
  <2>2. p \in 0..(t.size - 1) /\ t.size \in 0..MaxSize
    BY <2>1, TableAssumption DEF Shape, Table
  <2>3. Shape(cleared) /\ Exists(cleared)
    <3> DEFINE cells == [t.cells EXCEPT ![p] = Zero]
    <3>1. cells \in [0..(t.size - 1) -> Cell]
      BY <2>1, <2>2 DEF Shape, Cell
    <3>2. cells \in Contents
      BY <2>2, <3>1, ContentsIntro
    <3>3. cleared = [t EXCEPT !.cells = cells, !.count = t.count - 1]
      BY DEF Shape, Table
    <3> HIDE DEF cells
    <3>4. cleared \in Table
      <4>1. t \in Table /\ t.count - 1 \in Int
        BY DEF Shape, Table
      <4> HIDE DEF cleared
      <4> QED
        BY <3>2, <3>3, <4>1, TableCells
    <3>5. /\ cleared.flags = t.flags /\ cleared.size = t.size
          /\ cleared.tail = t.tail /\ cleared.last = t.last
          /\ cleared.mask = t.mask /\ cleared.cells = cells
      BY <3>3 DEF Shape, Table
    <3> HIDE DEF cleared
    <3> QED
      BY <2>1, <3>1, <3>4, <3>5 DEF Shape, Exists
  <2>4. CASE p = t.tail /\ p # 0
    <3>1. t.last - 1 \in Nat /\ p - 1 \in Nat
      BY <2>1, <2>4 DEF Shape, Table
    <3>2. p - 1 <= t.last - 1 /\ t.last - 1 < t.size
      BY <2>1, <2>4, <3>1 DEF Shape, Table
    <3>3. cleared.last = t.last /\ cleared.size = t.size
      BY DEF Shape, Table
    <3>4. Shape([cleared EXCEPT !.tail = p - 1, !.last = @ - 1,
                                !.pos = t.last - 1])
      BY <2>3, <3>1, <3>2, <3>3 DEF Shape, Table, Exists
    <3> QED
      BY <1>2, <2>1, <2>4, <3>4 DEF DelCurrent, Done, ShapeOut
  <2>5. CASE ~(p = t.tail /\ p # 0)
    <3>1. p \in Bits(0, MaskSize(t.size))
      BY <2>1, <2>2, MaskCovers
    <3>2. Shape([cleared EXCEPT !.mask = @ \cup {p}, !.fragCount = @ + 1])
      <4> DEFINE mask == cleared.mask \cup {p}
                 g == [cleared EXCEPT !.mask = mask,
                                      !.fragCount = cleared.fragCount + 1]
      <4>1. cleared.size = t.size
        BY DEF Shape, Table
      <4> HIDE DEF cleared, p
      <4>2. /\ cleared \in Table /\ mask \in SUBSET Nat
            /\ cleared.fragCount + 1 \in Int
            /\ mask \subseteq Bits(0, MaskSize(t.size))
        BY <2>1, <2>3, <3>1, <4>1 DEF Shape, Table
      <4> HIDE DEF mask
      <4>3. g \in Table
        BY <4>2, TableMask
      <4>4. /\ g.flags = cleared.flags /\ g.size = t.size
            /\ g.tail = cleared.tail /\ g.last = cleared.last
            /\ g.mask = mask /\ g.cells = cleared.cells
        BY <4>1, <4>2 DEF Table
      <4>5. g = [cleared EXCEPT !.mask = @ \cup {p}, !.fragCount = @ + 1]
        BY <4>2 DEF mask, Table
      <4> HIDE DEF g
      <4>6. Shape(g)
        BY <2>3, <4>1, <4>2, <4>3, <4>4 DEF Shape, Exists
      <4> QED
        BY <4>5, <4>6
    <3> QED
      BY <1>2, <2>1, <2>5, <3>2 DEF DelCurrent, Done, ShapeOut
  <2> QED
    BY <2>4, <2>5
<1> QED
  BY <1>1, <1>2

LEMMA GrowKeepsShape ==
  ASSUME NEW t, Shape(t), Exists(t), t.last + 1 >= t.size,
         NEW r \in ReallocAndMove(t)
  PROVE  /\ ShapeOut(r)
         /\ r.ok => /\ Exists(r.t) /\ r.t.last = t.last
                    /\ r.t.count = t.count /\ r.t.last + 1 < r.t.size
<1> DEFINE n == GrownSize(t)
<1>1. t.size \in 1..MaxSize /\ t.last = t.size - 1 /\ t.tail <= t.last
      /\ t.tail \in Nat /\ t.last \in Nat /\ MaxSize \in Nat
  BY TableAssumption DEF Shape, Table
<1>2. n \in 1..MaxSize
  BY <1>1 DEF GrownSize
<1>3. CASE n <= t.size
  <2>1. r = Failed(t)
    BY <1>3 DEF ReallocAndMove
  <2> QED
    BY <2>1 DEF Failed, ShapeOut
<1>4. CASE n > t.size
  <2>1. ASSUME NEW moved \in BOOLEAN, NEW dirt \in SUBSET DirtyBits(t, n)
        PROVE  /\ Shape(Grown(t, n, moved, dirt))
               /\ Exists(Grown(t, n, moved, dirt))
               /\ Grown(t, n, moved, dirt).last = t.last
               /\ Grown(t, n, moved, dirt).count = t.count
               /\ Grown(t, n, moved, dirt).size = n
    <3> DEFINE tail == IF moved THEN t.last ELSE t.tail
               mask == (t.mask \ ClearedBits(t, n)) \cup dirt
               cells == [q \in 0..(n - 1) |->
                           IF q \in (tail + 1)..(tail + n - t.size) THEN Zero
                           ELSE IF q < t.size THEN t.cells[q] ELSE Junk]
    <3>1. tail \in Nat /\ tail <= t.last
      BY <1>1
    <3>2. cells \in [0..(n - 1) -> Cell]
      <4>1. \A q \in 0..(n - 1) : q < t.size => t.cells[q] \in Cell
        BY <1>1, <1>2 DEF Shape
      <4> QED
        BY <4>1 DEF Cell
    <3>3. /\ Bits(0, MaskSize(t.size)) \subseteq Bits(0, MaskSize(n))
          /\ dirt \subseteq Bits(0, MaskSize(n))
      <4>1. /\ MaskSize(t.size) \in Nat /\ MaskSize(n) \in Nat
            /\ Bits(0, MaskSize(t.size)) \subseteq Bits(0, MaskSize(n))
        BY <1>1, <1>2, <1>4, MaskGrows
      <4>2. \A b \in Bits(MaskSize(t.size), MaskSize(n)) : b \in Bits(0, MaskSize(n))
        <5>1. MaskSize(t.size) * SlotBits \in Nat /\ MaskSize(n) * SlotBits \in Int
          BY <4>1, TableAssumption
        <5>2. 0 * SlotBits = 0
          BY TableAssumption
        <5> QED
          BY <5>1, <5>2 DEF Bits
      <4>3. dirt \subseteq Bits(MaskSize(t.size), MaskSize(n))
        BY DEF DirtyBits
      <4> QED
        BY <4>1, <4>2, <4>3
    <3>4. mask \subseteq Bits(0, MaskSize(n)) /\ mask \in SUBSET Nat
      <4>1. mask \subseteq Bits(0, MaskSize(n))
        BY <3>3 DEF Shape
      <4>2. Bits(0, MaskSize(n)) \subseteq Nat
        BY <1>2, TableAssumption DEF Bits, MaskSize
      <4> QED
        BY <4>1, <4>2
    <3>5. Grown(t, n, moved, dirt)
            = [t EXCEPT !.size = n, !.tail = tail, !.mask = mask, !.cells = cells]
      BY DEF Grown
    <3> HIDE DEF tail, mask, cells
    <3>6. cells \in Contents
      BY <1>2, <3>2, ContentsIntro
    <3> DEFINE g == [t EXCEPT !.size = n, !.tail = tail, !.mask = mask,
                              !.cells = cells]
    <3> HIDE DEF n
    <3>7. g \in Table
      <4>1. t \in Table /\ n \in 0..MaxSize
        BY <1>1, <1>2 DEF Shape
      <4> HIDE DEF tail, mask, cells
      <4> QED
        BY <3>1, <3>4, <3>6, <4>1, TableGrown
    <3>8. /\ g.flags = t.flags /\ g.last = t.last /\ g.count = t.count
          /\ g.size = n /\ g.tail = tail /\ g.mask = mask /\ g.cells = cells
      BY DEF Shape, Table
    <3> HIDE DEF g
    <3>9. Shape(g) /\ Exists(g)
      BY <1>1, <1>2, <1>4, <3>1, <3>2, <3>4, <3>7, <3>8 DEF Shape, Exists
    <3> QED
      BY <3>5, <3>8, <3>9 DEF g
  <2>2. Shape([t EXCEPT !.head = "freed"])
    BY DEF Shape, Table, Exists
  <2>3. CASE r \in {Failed(t), Failed([t EXCEPT !.head = "freed"])}
    <3>1. ShapeOut(Failed(t)) /\ ~Failed(t).ok
      BY DEF Failed, ShapeOut
    <3>2. LET u == [t EXCEPT !.head = "freed"]
          IN ShapeOut(Failed(u)) /\ ~Failed(u).ok
      BY <2>2 DEF Failed, ShapeOut
    <3> QED
      BY <2>3, <3>1, <3>2
  <2>4. CASE \E moved \in BOOLEAN, dirt \in SUBSET DirtyBits(t, n) :
               r = Done(Null, Grown(t, n, moved, dirt))
    BY <1>1, <1>2, <1>4, <2>1, <2>4 DEF Done, ShapeOut
  <2> QED
    BY <1>4, <2>3, <2>4 DEF ReallocAndMove
<1> QED
  BY <1>1, <1>2, <1>3, <1>4

\* What getdst returns to write_chunk: a slot inside the array when it is OK.
DstOut(r) ==
  /\ ShapeOut(r)
  /\ Exists(r.t)
  /\ r.ok => r.at \in 0..(r.t.size - 1)

LEMMA TakeTailShape ==
  ASSUME NEW t, Shape(t), Exists(t), IsEmpty(t) \/ t.last + 1 < t.size
  PROVE  DstOut(TakeTail(t))
<1>1. t \in Table /\ t.size \in Nat /\ t.tail \in Nat /\ t.last \in Nat
      /\ t.count \in Int /\ t.size >= 1 /\ t.tail <= t.last
  BY TableAssumption DEF Shape, Table
<1>2. CASE IsEmpty(t)
  <2> DEFINE g == [t EXCEPT !.tail = 0, !.count = t.count + 1]
  <2>1. g \in Table
    <3>1. t.count + 1 \in Int
      BY <1>1
    <3> QED
      BY <1>1, <3>1, TableTail
  <2>2. /\ g.flags = t.flags /\ g.size = t.size /\ g.tail = 0
        /\ g.last = t.last /\ g.mask = t.mask /\ g.cells = t.cells
    BY <1>1 DEF Table
  <2>3. TakeTail(t) = [ok |-> TRUE, at |-> 0, t |-> g]
    BY <1>1, <1>2 DEF TakeTail, Done
  <2> HIDE DEF g
  <2> QED
    BY <1>1, <2>1, <2>2, <2>3 DEF Shape, ShapeOut, DstOut, Exists
<1>3. CASE ~IsEmpty(t)
  <2> DEFINE g == [t EXCEPT !.tail = t.tail + 1, !.last = t.last + 1,
                            !.pos = t.last + 1, !.count = t.count + 1]
  <2>1. g \in Table
    <3>1. /\ t.count + 1 \in Int
          /\ t.tail + 1 \in Nat /\ t.last + 1 \in Nat
      BY <1>1
    <3> QED
      BY <1>1, <3>1, TableAppend
  <2>2. /\ g.flags = t.flags /\ g.size = t.size /\ g.tail = t.tail + 1
        /\ g.last = t.last + 1 /\ g.mask = t.mask /\ g.cells = t.cells
    BY <1>1 DEF Table
  <2>3. TakeTail(t) = [ok |-> TRUE, at |-> t.tail + 1, t |-> g]
    BY <1>1, <1>3 DEF TakeTail, Done
  <2> HIDE DEF g
  <2> QED
    BY <1>1, <1>3, <2>1, <2>2, <2>3 DEF Shape, ShapeOut, DstOut, Exists
<1> QED
  BY <1>2, <1>3

LEMMA TailNextShape ==
  ASSUME NEW t, Shape(t), Exists(t), NEW r \in GetTailNext(t)
  PROVE  DstOut(r)
<1>1. DstOut(Failed(t))
  BY DEF DstOut, ShapeOut, Failed
<1>2. CASE IsEmpty(t) \/ t.last + 1 < t.size
  BY <1>2, TakeTailShape DEF GetTailNext
<1>3. CASE ~(IsEmpty(t) \/ t.last + 1 < t.size)
  <2>1. t.last + 1 >= t.size
    BY <1>3, TableAssumption DEF Shape, Table
  <2>2. CASE "NRA" \in t.flags
    BY <1>1, <1>3, <2>2 DEF GetTailNext
  <2>3. CASE "NRA" \notin t.flags
    <3>1. PICK g \in ReallocAndMove(t) : r = IF g.ok THEN TakeTail(g.t) ELSE g
      BY <1>3, <2>3 DEF GetTailNext
    <3>2. /\ ShapeOut(g)
          /\ g.ok => Exists(g.t) /\ g.t.last + 1 < g.t.size
      BY <2>1, GrowKeepsShape
    <3>3. CASE g.ok
      BY <3>1, <3>2, <3>3, TakeTailShape DEF ShapeOut
    <3>4. CASE ~g.ok
      <4>1. Exists(g.t)
        <5>1. \A u : Failed(u).t = u /\ ~Failed(u).ok
          BY DEF Failed
        <5>2. \A u : Done(Null, u).ok
          BY DEF Done
        <5>3. g.t = t \/ g.t = [t EXCEPT !.head = "freed"]
          BY <3>4, <5>1, <5>2 DEF ReallocAndMove
        <5> QED
          BY <5>3 DEF Exists, Shape, Table
      <4> QED
        BY <3>1, <3>2, <3>4, <4>1 DEF DstOut
    <3> QED
      BY <3>3, <3>4
  <2> QED
    BY <2>2, <2>3
<1> QED
  BY <1>2, <1>3

LEMMA FragFirstShape ==
  ASSUME NEW t, Shape(t), Exists(t), NEW r \in GetFragFirst(t)
  PROVE  DstOut(r)
<1> DEFINE s == SetPosFragFirst(t)
<1>1. Shape(s)
  BY MovesKeepShape
<1>2. Exists(s)
  BY DEF SetPosFragFirst, Exists, Shape, Table
<1> HIDE DEF s
<1>3. CASE ~Fragmented(t) \/ "NRU" \in t.flags
  BY <1>3, TailNextShape DEF GetFragFirst
<1>4. CASE /\ ~(~Fragmented(t) \/ "NRU" \in t.flags)
           /\ Current(s) = Null \/ s.pos \notin s.mask
  <2>1. r = Failed(s)
    BY <1>4 DEF GetFragFirst, s
  <2> QED
    BY <1>1, <1>2, <2>1 DEF DstOut, ShapeOut, Failed
<1>5. CASE /\ ~(~Fragmented(t) \/ "NRU" \in t.flags)
           /\ ~(Current(s) = Null \/ s.pos \notin s.mask)
  <2> DEFINE g == [s EXCEPT !.mask = s.mask \ {s.pos},
                            !.fragCount = s.fragCount - 1,
                            !.count = s.count + 1]
  <2>1. r = [ok |-> TRUE, at |-> s.pos, t |-> g]
    BY <1>5 DEF GetFragFirst, Done, s
  <2>2. s \in Table /\ s.pos \in Nat /\ s.pos <= s.last /\ s.last < s.size
        /\ s.last \in Nat /\ s.size \in Nat
    BY <1>1, <1>2, <1>5, TableAssumption DEF Current, Shape, Table
  <2>3. g \in Table
    <3>1. /\ s.mask \ {s.pos} \in SUBSET Nat /\ s.fragCount - 1 \in Int
          /\ s.count + 1 \in Int
      BY <2>2 DEF Table
    <3> QED
      BY <2>2, <3>1, TableReuse
  <2>4. /\ g.flags = s.flags /\ g.size = s.size /\ g.tail = s.tail
        /\ g.last = s.last /\ g.mask = s.mask \ {s.pos} /\ g.cells = s.cells
    BY <2>2 DEF Table
  <2> HIDE DEF g
  <2> QED
    BY <1>1, <1>2, <2>1, <2>2, <2>3, <2>4 DEF Shape, ShapeOut, DstOut, Exists
<1> QED
  BY <1>3, <1>4, <1>5

LEMMA WriteShape ==
  ASSUME NEW m, Shape(m.t), m.at \in Nat \cup {Null}, NEW d \in Chunks, NEW dsts,
         \A r \in dsts : DstOut(r) /\ r = [ok |-> r.ok, at |-> r.at, t |-> r.t],
         NEW w \in WriteChunk(m, d, dsts)
  PROVE  ShapeOut(w)
<1>1. CASE m.at # Null
  <2>1. w = [ok |-> OnConstrains = "OK", at |-> m.at, t |-> m.t]
    BY <1>1 DEF WriteChunk
  <2>2. w.ok \in BOOLEAN
    BY <2>1, Zenon
  <2>3. w.at = m.at /\ w.t = m.t
    BY <2>1
  <2> QED
    BY <2>2, <2>3 DEF ShapeOut
<1>2. CASE m.at = Null
  <2>1. PICK r \in dsts : w = IF r.ok THEN [r EXCEPT !.t.cells[r.at] = d] ELSE r
    BY <1>2 DEF WriteChunk
  <2>2. CASE ~r.ok
    BY <2>1, <2>2 DEF DstOut
  <2>3. CASE r.ok
    <3> DEFINE cells == [r.t.cells EXCEPT ![r.at] = d]
               g == [r.t EXCEPT !.cells = cells]
    <3>1. r.t \in Table /\ Shape(r.t) /\ Exists(r.t) /\ r.at \in 0..(r.t.size - 1)
          /\ r.t.size \in 0..MaxSize /\ r.at \in Nat
          /\ r.t.cells \in [0..(r.t.size - 1) -> Cell]
      <4>1. r.t \in Table /\ Shape(r.t) /\ Exists(r.t) /\ r.at \in 0..(r.t.size - 1)
        BY <2>3 DEF DstOut, ShapeOut, Shape
      <4>2. r.t.size \in 0..MaxSize
        BY <4>1 DEF Table
      <4> QED
        BY <4>1, <4>2 DEF Shape
    <3>2. cells \in [0..(r.t.size - 1) -> Cell]
      BY <3>1 DEF Cell
    <3>3. cells \in Contents
      BY <3>1, <3>2, ContentsIntro
    <3>4. w = [ok |-> TRUE, at |-> r.at, t |-> g]
      <4>1. w = [r EXCEPT !.t.cells[r.at] = d]
        BY <2>1, <2>3
      <4>2. w = [r EXCEPT !.t = [r.t EXCEPT !.cells = cells]]
        BY <4>1, Zenon
      <4>3. r = [ok |-> TRUE, at |-> r.at, t |-> r.t]
        BY <2>3
      <4> HIDE DEF g
      <4> QED
        BY <4>2, <4>3 DEF g
    <3> HIDE DEF cells
    <3>5. g \in Table
      BY <3>1, <3>3 DEF Table
    <3>6. /\ g.flags = r.t.flags /\ g.size = r.t.size /\ g.tail = r.t.tail
          /\ g.last = r.t.last /\ g.mask = r.t.mask /\ g.cells = cells
      BY <3>1 DEF Table
    <3> HIDE DEF g
    <3> QED
      BY <3>1, <3>2, <3>4, <3>5, <3>6 DEF Shape, ShapeOut, Exists
  <2> QED
    BY <2>2, <2>3
<1> QED
  BY <1>1, <1>2

LEMMA ShapeNoTable == Shape(NoTable)
<1>1. NoTable.cells \in [0..(0 - 1) -> Cell]
  BY DEF NoTable
<1>2. 0 \in 0..MaxSize
  BY TableAssumption
<1>3. NoTable.cells \in Contents
  BY <1>1, <1>2, ContentsIntro
<1> QED
  BY <1>2, <1>3 DEF Shape, Table, NoTable, Exists

LEMMA ShapeCreated ==
  ASSUME NEW n \in MinSize..MaxSize, NEW flags \in SUBSET {"NRA", "NRU"}
  PROVE  Shape(Created(n, flags)) /\ Exists(Created(n, flags))
<1> DEFINE cells == [p \in 0..(n - 1) |-> Zero]
<1>1. n \in 1..MaxSize /\ n \in 0..MaxSize /\ MaxSize \in Nat
  BY TableAssumption DEF MinSize
<1>2. cells \in [0..(n - 1) -> Cell]
  BY DEF Cell
<1>3. cells \in Contents
  BY <1>1, <1>2, ContentsIntro
<1>4. /\ Created(n, flags).flags = {"XIS"} \cup flags
      /\ Created(n, flags).size = n
      /\ Created(n, flags).last = 0 /\ Created(n, flags).tail = 0
      /\ Created(n, flags).mask = {} /\ Created(n, flags).cells = cells
  BY DEF Created
<1>5. {"XIS"} \cup flags \in SUBSET Flag
  BY DEF Flag
<1>6. Created(n, flags) \in Table
  BY <1>1, <1>3, <1>5 DEF Table, Created
<1> HIDE DEF cells
<1> QED
  BY <1>1, <1>2, <1>4, <1>6 DEF Shape, Exists

LEMMA CreateKeepsShape ==
  ASSUME NEW t, Shape(t), NEW n \in Nat, NEW flags \in SUBSET {"NRA", "NRU"},
         NEW r \in Create(t, n, flags)
  PROVE  ShapeOut(r)
<1>1. \A u : Shape(u) => ShapeOut(Failed(u))
  BY DEF Failed, ShapeOut
<1>2. Shape([NoTable EXCEPT !.head = "freed"])
  BY ShapeNoTable DEF NoTable, Shape, Table, Exists
<1>3. CASE Exists(t) \/ n < MinSize \/ n > MaxSize
  BY <1>1, <1>3 DEF Create
<1>4. CASE ~(Exists(t) \/ n < MinSize \/ n > MaxSize)
  <2>1. n \in MinSize..MaxSize /\ flags \in SUBSET {"NRA", "NRU"}
    BY <1>4, TableAssumption DEF MinSize
  <2>2. ShapeOut(Done(Null, Created(n, flags)))
    BY <2>1, ShapeCreated DEF Done, ShapeOut
  <2> QED
    BY <1>1, <1>2, <1>4, <2>2, ShapeNoTable DEF Create
<1> QED
  BY <1>3, <1>4

LEMMA DstRecords ==
  ASSUME NEW t
  PROVE  /\ \A r \in GetTailNext(t) : r = [ok |-> r.ok, at |-> r.at, t |-> r.t]
         /\ \A r \in GetFragFirst(t) : r = [ok |-> r.ok, at |-> r.at, t |-> r.t]
<1> DEFINE IsOut(r) == r = [ok |-> r.ok, at |-> r.at, t |-> r.t]
<1>1. \A u : IsOut(Failed(u)) /\ \A q : IsOut(Done(q, u))
  BY DEF Failed, Done
<1>2. \A u : IsOut(TakeTail(u))
  BY <1>1 DEF TakeTail
<1>3. \A u : \A r \in ReallocAndMove(u) : IsOut(r)
  BY <1>1 DEF ReallocAndMove
<1>4. \A u : \A r \in GetTailNext(u) : IsOut(r)
  BY <1>1, <1>2, <1>3 DEF GetTailNext
<1>5. \A r \in GetFragFirst(t) : IsOut(r)
  BY <1>1, <1>4 DEF GetFragFirst
<1> QED
  BY <1>4, <1>5

LEMMA MatchShape ==
  ASSUME NEW t, Shape(t), NEW d
  PROVE  /\ Shape(Match(t, d).t) /\ Match(t, d).at \in Nat \cup {Null}
         /\ Exists(t) => Exists(Match(t, d).t)
<1>1. Shape(Search(t, d).t)
  BY MovesKeepShape
<1>2. Search(t, d).at \in Nat \cup {Null}
  <2> DEFINE found == {p \in Visible(t, 0..t.last) : Matches(t.cells[p], d)}
  <2>1. t.pos \in Nat /\ found \in SUBSET Nat
    BY DEF Shape, Table, Visible
  <2>2. found # {} => Least(found) \in Nat
    BY <2>1, LeastIn
  <2> QED
    BY <2>1, <2>2 DEF Search, At, Nowhere
<1>3. Search(t, d).t.flags = t.flags
  BY DEF Search, At, Nowhere, Shape, Table
<1> QED
  BY <1>1, <1>2, <1>3 DEF Match, Nowhere, Exists

\* Where a cursor operation may point.
LEMMA MovesAt ==
  ASSUME NEW t, Shape(t)
  PROVE  /\ First(t).at \in Nat \cup {Null} /\ Last(t).at \in Nat \cup {Null}
         /\ NextSlot(t).at \in Nat \cup {Null}
         /\ PrevSlot(t).at \in Nat \cup {Null}
         /\ \A p \in Nat : Chunk(t, p).at \in Nat \cup {Null}
<1>1. t.pos \in Nat /\ t.last \in Nat /\ t.tail \in Nat
  BY DEF Shape, Table
<1>2. \A S : Visible(t, S) \subseteq S
  BY DEF Visible
<1>3. First(t).at \in Nat \cup {Null} /\ Last(t).at \in Nat \cup {Null}
  BY <1>1 DEF First, Last, At, Nowhere
<1>4. NextSlot(t).at \in Nat \cup {Null}
  <2> DEFINE ahead == Visible(t, (t.pos + 1)..t.last)
  <2>1. ahead # {} => Least(ahead) \in Nat
    BY <1>1, <1>2, LeastIn
  <2> QED
    BY <2>1 DEF NextSlot, At, Nowhere
<1>5. PrevSlot(t).at \in Nat \cup {Null}
  <2> DEFINE behind == Visible(t, 0..(t.pos - 1))
  <2>1. behind \in SUBSET (0..t.pos)
    <3>1. \A p \in 0..(t.pos - 1) : p \in 0..t.pos
      BY <1>1
    <3> QED
      BY <1>2, <3>1
  <2>2. ASSUME behind # {} PROVE Greatest(behind) \in behind
    BY <1>1, <2>1, <2>2, GreatestIn, Zenon
  <2>3. behind # {} => Greatest(behind) \in Nat
    BY <1>1, <2>1, <2>2
  <2> QED
    BY <2>3 DEF PrevSlot, At, Nowhere
<1>6. \A p \in Nat : Chunk(t, p).at \in Nat \cup {Null}
  BY DEF Chunk, At, Nowhere
<1> QED
  BY <1>3, <1>4, <1>5, <1>6

LEMMA FirstNextShape ==
  ASSUME NEW t, Shape(t)
  PROVE  /\ Shape(FirstNext(t).t) /\ FirstNext(t).at \in Nat \cup {Null}
         /\ Shape(CircularNext(t).t) /\ CircularNext(t).at \in Nat \cup {Null}
<1>1. ASSUME NEW u, Shape(u)
      PROVE  Shape(FirstNext(u).t) /\ FirstNext(u).at \in Nat \cup {Null}
  <2> DEFINE f == First(u)
  <2>1. Shape(f.t) /\ f.at \in Nat \cup {Null}
    BY <1>1, MovesKeepShape, MovesAt
  <2>2. Shape(NextSlot(f.t).t) /\ NextSlot(f.t).at \in Nat \cup {Null}
    BY <2>1, MovesKeepShape, MovesAt
  <2> QED
    BY <2>1, <2>2 DEF FirstNext
<1>2. Shape(NextSlot(t).t) /\ NextSlot(t).at \in Nat \cup {Null}
  BY MovesKeepShape, MovesAt
<1> QED
  BY <1>1, <1>2 DEF CircularNext
=============================================================================
