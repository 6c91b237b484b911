------------------------------ MODULE TableOps ------------------------------
(***************************************************************************)
(* The operations of ratt_table_t (modules/data/array), the growable array *)
(* with a fragment mask in which every other part of rattle keeps its      *)
(* entries.  An operation is an operator on a table record; one that asks  *)
(* the allocator for memory returns the set of its outcomes.               *)
(*                                                                         *)
(* A table is [flags, head, size, pos, last, tail, count, fragCount, mask, *)
(* cells].  Pointers into the array are slot numbers; head only says what  *)
(* the pointer refers to; mask is the set of the bits that are on in       *)
(* frag_mask; a cell that memset cleared holds Zero.                       *)
(***************************************************************************)
EXTENDS Integers, FiniteSets

CONSTANTS
  SlotBits,      \* bits in one slot of frag_mask: 8 in the code
  MaxSize,       \* RATTTABSIZMAX
  Chunks,        \* what callers store
  Zero,          \* a cell full of zero bytes
  Junk,          \* a cell that was never written
  Matches(_, _), \* does a comparison callback find a cell and a chunk alike
  Constrained,   \* is table->constrains set
  OnConstrains,  \* what table->on_constrains returns, "unset" if it is NULL
  AllocFaults,   \* may calloc() and realloc() fail
  DirtyHeap      \* may memory fresh from realloc() hold bits that are on

ASSUME TableAssumption ==
  /\ SlotBits \in Nat \ {0}
  /\ MaxSize \in Nat \ {0}
  /\ Zero \notin Chunks /\ Junk \notin Chunks
  /\ Constrained \in BOOLEAN
  /\ OnConstrains \in {"unset", "OK", "FAIL"}
  /\ AllocFaults \in BOOLEAN
  /\ DirtyHeap \in BOOLEAN

MinSize == 1
Null == -1          \* the NULL chunk pointer, where a slot is expected
Cell == Chunks \cup {Zero, Junk}
Flag == {"XIS", "NRA", "NRU"}

Contents == UNION {[0..(n - 1) -> Cell] : n \in 0..MaxSize}
Table == [flags : SUBSET Flag, head : {"null", "live", "freed"},
          size : 0..MaxSize, pos : Nat, last : Nat, tail : Nat,
          count : Int, fragCount : Int, mask : SUBSET Nat,
          cells : Contents]

\* RATT_TABLE_INIT, and what memset(table, 0, ...) leaves
NoTable == [flags |-> {}, head |-> "null", size |-> 0, pos |-> 0, last |-> 0,
            tail |-> 0, count |-> 0, fragCount |-> 0, mask |-> {},
            cells |-> [p \in {} |-> Zero]]

----------------------------------------------------------------------------
(* Predicates and the cursor.                                              *)

Least(S) == CHOOSE x \in S : \A y \in S : x <= y
Greatest(S) == CHOOSE x \in S : \A y \in S : x >= y

Exists(t) == "XIS" \in t.flags
IsEmpty(t) == ~Exists(t) \/ t.count = 0
\* Mutant of Fragmented: one fragment is taken for none.
FragmentedByMore(t) == t.fragCount > 1

Fragmented(t) == t.fragCount # 0
MaskSize(n) == 1 + n \div SlotBits
Bits(from, to) == (from * SlotBits)..(to * SlotBits - 1)

\* The if of ratt_table_pos_isfrag guards only the move to the right slot of
\* the mask: a position past last is looked up in slot 0.
PosIsFrag(t, p) ==
  IF ~IsEmpty(t) /\ p <= t.last THEN p \in t.mask ELSE p % SlotBits \in t.mask

\* The slots in use, by the mask.
Live(t) == IF IsEmpty(t) THEN {} ELSE (0..t.last) \ t.mask

\* Mutant of Visible: the mask is not looked at.
VisibleUnmasked(t, S) == S

Visible(t, S) == {p \in S : ~(Fragmented(t) /\ PosIsFrag(t, p))}

\* A cursor operation returns the slot it points to and the table it leaves.
At(p, t) == [at |-> p, t |-> [t EXCEPT !.pos = p]]
Nowhere(t) == [at |-> Null, t |-> t]

First(t) == IF IsEmpty(t) THEN Nowhere(t) ELSE At(0, t)
Last(t) == IF IsEmpty(t) THEN Nowhere(t)
           ELSE [at |-> t.tail, t |-> [t EXCEPT !.pos = t.last]]
Current(t) == IF ~IsEmpty(t) /\ t.pos <= t.last THEN t.pos ELSE Null
Chunk(t, p) == IF ~IsEmpty(t) /\ p <= t.last THEN At(p, t) ELSE Nowhere(t)

NextSlot(t) ==
  LET ahead == Visible(t, (t.pos + 1)..t.last) IN
  IF IsEmpty(t) THEN Nowhere(t)
  ELSE IF ahead # {} THEN At(Least(ahead), t)
  ELSE Nowhere([t EXCEPT !.pos = IF t.pos < t.last THEN t.last ELSE t.pos])

\* Mutant of PrevSlot: the cursor is decremented once more at the start.
PrevSlotUnderflow(t) ==
  LET behind == Visible(t, 0..(t.pos - 1)) IN
  IF IsEmpty(t) THEN Nowhere(t)
  ELSE IF behind # {} THEN At(Greatest(behind), t)
  ELSE Nowhere([t EXCEPT !.pos = -1])

PrevSlot(t) ==
  LET behind == Visible(t, 0..(t.pos - 1)) IN
  IF IsEmpty(t) THEN Nowhere(t)
  ELSE IF behind # {} THEN At(Greatest(behind), t)
  ELSE Nowhere([t EXCEPT !.pos = 0])

FirstNext(t) ==
  LET f == First(t) IN
  IF f.at # Null /\ Visible(f.t, {0}) # {} THEN f ELSE NextSlot(f.t)

CircularNext(t) ==
  LET n == NextSlot(t) IN IF n.at # Null THEN n ELSE FirstNext(n.t)

\* Mutant of Search: the search goes on from the cursor.
SearchFromCursor(t, d) ==
  LET found == {p \in Visible(t, t.pos..t.last) : Matches(t.cells[p], d)} IN
  IF IsEmpty(t) THEN Nowhere(t)
  ELSE IF found # {} THEN At(Least(found), t)
  ELSE Nowhere([t EXCEPT !.pos = t.last])

\* The current chunk is compared first, even when its slot is a fragment; then
\* RATT_TABLE_FOREACH stops at the first match or leaves the cursor on last.
Search(t, d) ==
  LET found == {p \in Visible(t, 0..t.last) : Matches(t.cells[p], d)} IN
  IF IsEmpty(t) THEN Nowhere(t)
  ELSE IF t.pos <= t.last /\ Matches(t.cells[t.pos], d) THEN At(t.pos, t)
  ELSE IF found # {} THEN At(Least(found), t)
  ELSE Nowhere([t EXCEPT !.pos = t.last])

----------------------------------------------------------------------------
(* Deletion.                                                               *)

Done(p, t) == [ok |-> TRUE, at |-> p, t |-> t]
Failed(t) == [ok |-> FALSE, at |-> Null, t |-> t]

\* Mutant of DelCurrent: the cursor steps on from the slot it leaves free.
DelCurrentStepsOn(t) ==
  LET p == Current(t)
      cleared == [t EXCEPT !.cells[p] = Zero, !.count = @ - 1]
  IN IF p = Null \/ p \in t.mask THEN Failed(t)
     ELSE IF p = t.tail /\ p # 0
     THEN Done(p, [cleared EXCEPT !.tail = p - 1, !.last = @ - 1,
                                  !.pos = t.last - 1])
     ELSE Done(p, [cleared EXCEPT !.mask = @ \cup {p}, !.fragCount = @ + 1,
                                  !.pos = IF p < t.last THEN p + 1 ELSE p])

DelCurrent(t) ==
  LET p == Current(t)
      cleared == [t EXCEPT !.cells[p] = Zero, !.count = @ - 1]
  IN IF p = Null \/ p \in t.mask THEN Failed(t)
     ELSE IF p = t.tail /\ p # 0
     THEN Done(p, [cleared EXCEPT !.tail = p - 1, !.last = @ - 1,
                                  !.pos = t.last - 1])
     ELSE Done(p, [cleared EXCEPT !.mask = @ \cup {p}, !.fragCount = @ + 1])

\* A RATT_TABLE_FOREACH loop that deletes each chunk of S that it comes to, as
\* the loops that unregister do: the table it leaves.
Swept(t, S) ==
  LET loop[i \in 0..(MaxSize + 1)] ==
        IF i = 0 THEN FirstNext(t)
        ELSE LET l == loop[i - 1] IN
             IF l.at = Null THEN l
             ELSE NextSlot(IF l.t.cells[l.at] \in S THEN DelCurrent(l.t).t ELSE l.t)
  IN loop[MaxSize + 1]

----------------------------------------------------------------------------
(* Finding room for a chunk.  Each operator is the set of its outcomes.    *)

\* Mutant of GrownSize: RATTTABSIZMAX is not looked at.
GrownSizeUncapped(t) == t.size + IF t.size \div 2 = 0 THEN 1 ELSE t.size \div 2

\* Mutant of GrownSize: half of one slot is none.
GrownSizeByHalf(t) ==
  IF t.size + t.size \div 2 > MaxSize THEN MaxSize ELSE t.size + t.size \div 2

GrownSize(t) ==
  LET grow == IF t.size \div 2 = 0 THEN 1 ELSE t.size \div 2
  IN IF t.size + grow > MaxSize THEN MaxSize ELSE t.size + grow

\* frag_mask is cleared from the slot after last's, for as many slots as it
\* grew by; the new slots past those keep what the allocator left in them.
ClearedBits(t, n) ==
  LET from == t.last \div SlotBits + 1
  IN Bits(from, from + MaskSize(n) - MaskSize(t.size))
DirtyBits(t, n) ==
  IF DirtyHeap THEN Bits(MaskSize(t.size), MaskSize(n)) \ ClearedBits(t, n)
  ELSE {}

\* moved: realloc() returned another address, so that tail is recomputed
Grown(t, n, moved, dirt) ==
  LET tail == IF moved THEN t.last ELSE t.tail
  IN [t EXCEPT !.size = n, !.tail = tail,
               !.mask = (@ \ ClearedBits(t, n)) \cup dirt,
               !.cells = [p \in 0..(n - 1) |->
                 IF p \in (tail + 1)..(tail + n - t.size) THEN Zero
                 ELSE IF p < t.size THEN t.cells[p] ELSE Junk]]

\* When the second realloc() fails table->head still holds the address that
\* the first one may have given back.
ReallocAndMove(t) ==
  LET n == GrownSize(t) IN
  IF n <= t.size THEN {Failed(t)}
  ELSE {Done(Null, Grown(t, n, moved, dirt)) :
          moved \in BOOLEAN, dirt \in SUBSET DirtyBits(t, n)}
       \cup (IF AllocFaults
             THEN {Failed(t), Failed([t EXCEPT !.head = "freed"])} ELSE {})

\* Mutant of TakeTail: the first chunk is not counted.
TakeTailUncounted(t) ==
  IF IsEmpty(t)
  THEN Done(0, [t EXCEPT !.tail = 0])
  ELSE Done(t.tail + 1, [t EXCEPT !.tail = @ + 1, !.last = @ + 1,
                                  !.pos = t.last + 1, !.count = @ + 1])

\* Mutant of TakeTail: the tail is returned before it is advanced.
TakeTailEarly(t) ==
  IF IsEmpty(t)
  THEN Done(0, [t EXCEPT !.tail = 0, !.count = @ + 1])
  ELSE Done(t.tail, [t EXCEPT !.tail = @ + 1, !.last = @ + 1,
                              !.pos = t.last + 1, !.count = @ + 1])

\* On an empty table neither last nor the cursor is reset.
TakeTail(t) ==
  IF IsEmpty(t)
  THEN Done(0, [t EXCEPT !.tail = 0, !.count = @ + 1])
  ELSE Done(t.tail + 1, [t EXCEPT !.tail = @ + 1, !.last = @ + 1,
                                  !.pos = t.last + 1, !.count = @ + 1])

\* Mutant of GetTailNext: off by one in the test for room.
GetTailNextPastEnd(t) ==
  IF IsEmpty(t) \/ t.last + 1 <= t.size THEN {TakeTail(t)}
  ELSE IF "NRA" \in t.flags THEN {Failed(t)}
  ELSE {IF g.ok THEN TakeTail(g.t) ELSE g : g \in ReallocAndMove(t)}

GetTailNext(t) ==
  IF IsEmpty(t) \/ t.last + 1 < t.size THEN {TakeTail(t)}
  ELSE IF "NRA" \in t.flags THEN {Failed(t)}
  ELSE {IF g.ok THEN TakeTail(g.t) ELSE g : g \in ReallocAndMove(t)}

\* The scan ends with the slot of the mask that holds last's bit.
SetPosFragFirst(t) ==
  LET slots == t.last \div SlotBits + 1
      on == t.mask \cap Bits(0, slots)
  IN [t EXCEPT !.pos = IF on = {} THEN slots * SlotBits ELSE Least(on)]

\* Mutant of GetFragFirst: the bit of the slot that is reused stays on.
GetFragFirstKeepsBit(t) ==
  LET s == SetPosFragFirst(t) IN
  IF ~Fragmented(t) \/ "NRU" \in t.flags THEN GetTailNext(t)
  ELSE IF Current(s) = Null \/ s.pos \notin s.mask THEN {Failed(s)}
  ELSE {Done(s.pos, [s EXCEPT !.fragCount = @ - 1, !.count = @ + 1])}

GetFragFirst(t) ==
  LET s == SetPosFragFirst(t) IN
  IF ~Fragmented(t) \/ "NRU" \in t.flags THEN GetTailNext(t)
  ELSE IF Current(s) = Null \/ s.pos \notin s.mask THEN {Failed(s)}
  ELSE {Done(s.pos, [s EXCEPT !.mask = @ \ {s.pos}, !.fragCount = @ - 1,
                              !.count = @ + 1])}

----------------------------------------------------------------------------
(* Writing a chunk.                                                        *)

\* ratt_table_satisfy_constrains: the slot of the chunk it matches, if any
Match(t, d) == IF Constrained THEN Search(t, d) ELSE Nowhere(t)

\* A match is settled by on_constrains, which may rewrite what the chunk
\* carries but not what it is matched by.
WriteChunk(m, d, dsts) ==
  IF m.at # Null
  THEN {[ok |-> OnConstrains = "OK", at |-> m.at, t |-> m.t]}
  ELSE {IF r.ok THEN [r EXCEPT !.t.cells[r.at] = d] ELSE r : r \in dsts}

Push(t, d) ==
  LET m == Match(t, d) IN WriteChunk(m, d, GetTailNext(m.t))
Insert(t, d) ==
  LET m == Match(t, d) IN WriteChunk(m, d, GetFragFirst(m.t))

----------------------------------------------------------------------------
(* Creation and destruction.                                               *)

Created(n, flags) ==
  [flags |-> {"XIS"} \cup flags, head |-> "live", size |-> n, pos |-> 0,
   last |-> 0, tail |-> 0, count |-> 0, fragCount |-> 0, mask |-> {},
   cells |-> [p \in 0..(n - 1) |-> Zero]]

\* When the second calloc() fails head is freed and not reset.
Create(t, n, flags) ==
  IF Exists(t) \/ n < MinSize \/ n > MaxSize THEN {Failed(t)}
  ELSE {Done(Null, Created(n, flags))}
       \cup (IF AllocFaults
             THEN {Failed(NoTable), Failed([NoTable EXCEPT !.head = "freed"])}
             ELSE {})

Destroy(t) == IF t.head = "null" THEN Failed(t) ELSE Done(Null, NoTable)

----------------------------------------------------------------------------
(* The parts of a table that the operations keep in step with each other.  *)

Bounds(t) ==
  /\ t.head = "live"
  /\ t.size \in 1..MaxSize /\ DOMAIN t.cells = 0..(t.size - 1)
  /\ t.last < t.size /\ t.pos <= t.last
MaskExact(t) ==
  /\ t.mask \subseteq 0..t.last
  /\ t.fragCount = Cardinality(t.mask)
CountExact(t) ==
  \/ t.count = 0 /\ t.mask = {} /\ t.last = 0
  \/ t.count = Cardinality((0..t.last) \ t.mask)
TailIsLast(t) == t.tail = t.last
CellsExact(t) ==
  \A p \in DOMAIN t.cells :
    IF p \in Live(t) THEN t.cells[p] \in Chunks ELSE t.cells[p] = Zero
Good(t) ==
  Bounds(t) /\ MaskExact(t) /\ CountExact(t) /\ TailIsLast(t) /\ CellsExact(t)
=============================================================================
