----------------------------- MODULE RattTable -----------------------------
(***************************************************************************)
(* One ratt_table_t and the calls its owner makes, in any order: each      *)
(* operation that its owners call is one action.  get_frag_first,          *)
(* set_pos_frag_first, satisfy_constrains and get_tail_next are part of    *)
(* DoPush and DoInsert; the last conf.c alone calls itself (ConfParse).    *)
(***************************************************************************)
EXTENDS TableOps

CONSTANTS
  InitSizes,      \* sizes the owner may ask ratt_table_create for
  CreateFlags,    \* flags it may create the table with
  PushesEmptied   \* may the owner append to a table that it has emptied

ASSUME OwnerAssumption ==
  /\ InitSizes \subseteq Nat
  /\ CreateFlags \subseteq SUBSET {"NRA", "NRU"}
  /\ PushesEmptied \in BOOLEAN

VARIABLES
  tab,    \* the table
  ret     \* the last call and what it returned

vars == <<tab, ret>>

Op == {"Init", "Create", "Destroy", "Push", "Insert", "DelCurrent", "First",
       "Last", "Next", "Prev", "FirstNext", "CircularNext", "Chunk", "Search"}

TypeOK ==
  /\ tab \in Table
  /\ ret \in [op : Op, ok : BOOLEAN, at : Nat \cup {Null},
              arg : Chunks \cup {Zero}]

Init ==
  /\ tab = NoTable
  /\ ret = [op |-> "Init", ok |-> TRUE, at |-> Null, arg |-> Zero]

----------------------------------------------------------------------------

Returns(op, arg, r) ==
  /\ tab' = r.t
  /\ ret' = [op |-> op, ok |-> r.ok, at |-> r.at, arg |-> arg]

Moves(op, arg, r) ==
  /\ tab' = r.t
  /\ ret' = [op |-> op, ok |-> r.at # Null, at |-> r.at, arg |-> arg]

\* An access through a head that realloc() gave back has no defined outcome:
\* the table is followed up to there.
Usable == tab.head = "live" \/ ~Exists(tab)

\* The table has had chunks and holds none: the tail is taken again from slot
\* 0, which is still marked as a fragment.
Emptied == IsEmpty(tab) /\ Fragmented(tab)

DoCreate ==
  \E n \in InitSizes, flags \in CreateFlags :
    \E r \in Create(tab, n, flags) : Returns("Create", Zero, r)

DoDestroy == Returns("Destroy", Zero, Destroy(tab))

DoPush ==
  /\ Usable /\ Exists(tab)
  /\ Emptied => PushesEmptied
  /\ \E d \in Chunks : \E r \in Push(tab, d) : Returns("Push", d, r)

DoInsert ==
  /\ Usable /\ Exists(tab)
  /\ Emptied /\ "NRU" \in tab.flags => PushesEmptied
  /\ \E d \in Chunks : \E r \in Insert(tab, d) : Returns("Insert", d, r)

DoDelCurrent == Usable /\ Returns("DelCurrent", Zero, DelCurrent(tab))
DoFirst == Usable /\ Moves("First", Zero, First(tab))
DoLast == Usable /\ Moves("Last", Zero, Last(tab))
DoNext == Usable /\ Moves("Next", Zero, NextSlot(tab))
DoPrev == Usable /\ Moves("Prev", Zero, PrevSlot(tab))
DoFirstNext == Usable /\ Moves("FirstNext", Zero, FirstNext(tab))
DoCircularNext == Usable /\ Moves("CircularNext", Zero, CircularNext(tab))

DoChunk ==
  /\ Usable
  /\ \E p \in 0..tab.size : Moves("Chunk", Zero, Chunk(tab, p))

DoSearch ==
  /\ Usable
  /\ \E d \in Chunks : Moves("Search", d, Search(tab, d))

Next ==
  \/ DoCreate \/ DoDestroy \/ DoPush \/ DoInsert \/ DoDelCurrent
  \/ DoFirst \/ DoLast \/ DoNext \/ DoPrev \/ DoFirstNext \/ DoCircularNext
  \/ DoChunk \/ DoSearch

Spec == Init /\ [][Next]_vars

----------------------------------------------------------------------------
(* Properties.                                                             *)

\* Even when the owner appends to a table that it has emptied, and whatever
\* bits a grown mask starts with: the cursor, once used, the tail that the
\* next chunk is written after and the mask stay inside what is allocated.
InBounds ==
  Exists(tab) =>
    /\ tab.size \in 1..MaxSize /\ DOMAIN tab.cells = 0..(tab.size - 1)
    /\ tab.tail <= tab.last /\ tab.last < tab.size
    /\ Current(tab) < tab.size
    /\ tab.mask \subseteq Bits(0, MaskSize(tab.size))

\* Whatever the owner has done, the counters, the mask, the tail pointer and
\* the contents of the array agree: the chunks are exactly in the slots up to
\* last that the mask does not mark, their number is the count, and every
\* other slot is clear (get_tail_next, get_frag_first, del_current and
\* realloc_and_move each update several of these).
Consistent ==
  Exists(tab) => Good(tab)

\* A RATT_TABLE_FOREACH loop that deletes each chunk it is given ends, and has
\* emptied the table, though del_current moves the cursor back with the tail.
ForeachDrains ==
  Exists(tab) => /\ Swept(tab, Chunks).at = Null
                 /\ Swept(tab, Chunks).t.count = 0

\* ratt_table_search finds a chunk if and only if some slot in use holds it,
\* wherever the cursor was left and whatever fragments lie before it, and then
\* leaves the cursor on it.
SearchExact ==
  Exists(tab) =>
    \A d \in Chunks :
      LET s == Search(tab, d)
      IN IF \E p \in Live(tab) : Matches(tab.cells[p], d)
         THEN s.at \in Live(tab) /\ Matches(tab.cells[s.at], d) /\ Current(s.t) = s.at
         ELSE s.at = Null

\* Under a uniqueness constraint no sequence of pushes, inserts and deletions
\* stores a chunk twice, though the constraint is checked with a search that
\* starts at a cursor left anywhere.
NoDuplicates ==
  Constrained => \A p, q \in Live(tab) :
                   Matches(tab.cells[p], tab.cells[q]) => p = q

\* An insert that finds a fragment reuses it: the table gets longer only when
\* no slot below last is free, or reuse is forbidden.
InsertReusesFragment ==
  [][ret'.op = "Insert" /\ tab'.last > tab.last =>
       tab.mask = {} \/ "NRU" \in tab.flags]_vars

\* A push or an insert that returned OK has the chunk in the table, one that
\* returned FAIL has changed neither what the table holds nor where.
WriteAllOrNothing ==
  [][ret'.op \in {"Push", "Insert"} =>
       IF ret'.ok
       THEN ret'.at \in Live(tab') /\ tab'.cells[ret'.at] = ret'.arg
       ELSE /\ Live(tab') = Live(tab)
            /\ \A p \in Live(tab) : tab'.cells[p] = tab.cells[p]]_vars

\* A push or an insert is refused for want of room only: no fragment may be
\* reused and the array can grow no more; apart from an insert into a table that
\* was emptied, of which InsertFailsOnlyWhenFull says more (get_tail_next,
\* get_frag_first and realloc_and_move each decide on a part of this).
RefusedOnlyWhenFull ==
  [][ret'.op \in {"Push", "Insert"} /\ ~ret'.ok =>
       \/ ret'.op = "Insert" /\ tab.count = 0 /\ tab.mask # {}
       \/ /\ ret'.op = "Push" \/ tab.mask = {} \/ "NRU" \in tab.flags
          /\ tab.last = tab.size - 1
          /\ tab.size = MaxSize \/ "NRA" \in tab.flags]_vars

\* The cursor never rests on or returns a fragment after a successful next,
\* prev, first_next or circular_next, and circular_next fails on no table
\* that holds a chunk (the worker loop relies on it to find work).
CursorOnLive ==
  [][/\ ret'.op \in {"Next", "Prev", "FirstNext", "CircularNext"} /\ ret'.ok
          => ret'.at \in Live(tab) /\ Current(tab') = ret'.at
     /\ ret'.op = "CircularNext" /\ Live(tab) # {} => ret'.ok]_vars

\* data_array.c:44: "A frag_mask bit toggled on means there is fragmentation
\* at the corresponding table->pos".
FragBitMeansFree ==
  Exists(tab) =>
    \A p \in tab.mask \cap (0..tab.last) : tab.cells[p] \notin Chunks

\* test/table/table_frag.c:80: the "table should have filled up to the maximum
\* it can hold before failing", where growing is forbidden.
InsertFailsOnlyWhenFull ==
  [][ret'.op = "Insert" /\ ~ret'.ok => Cardinality(Live(tab)) = tab.size]_vars

\* data_array.c:465: a table that destroy does not find "already freed" still
\* had its memory.
DestroyFreesOnce ==
  [][ret'.op = "Destroy" /\ ret'.ok => tab.head = "live"]_vars

\* The table is a store of numbered slots (see SlotStore).
Store == INSTANCE SlotStore WITH
  Items <- Chunks, SlotNumbers <- 0..(MaxSize - 1),
  open <- Exists(tab), held <- [p \in Live(tab) |-> tab.cells[p]]

StoreSafe == Store!StoreSpec
=============================================================================
