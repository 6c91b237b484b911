------------------------- MODULE ArgsSectionsProofs -------------------------
(***************************************************************************)
(* What the steps of the argument manager do to the sections, for any      *)
(* command line, sections, names and options, and tables of any size.      *)
(***************************************************************************)
EXTENDS ArgsSections, FiniteSetTheorems, TLAPS

TP == INSTANCE TableOpsProofs WITH
  SlotBits <- 8, MaxSize <- SecTabMax, Chunks <- Names, Matches <- SameName,
  Constrained <- TRUE, OnConstrains <- "OK", AllocFaults <- FALSE,
  DirtyHeap <- FALSE

----------------------------------------------------------------------------
(* The table of a section.                                                 *)

LEMMA TAgrees ==
  /\ T!NoTable = TP!NoTable /\ T!Null = TP!Null /\ T!Table = TP!Table
  /\ \A t : /\ T!Exists(t) = TP!Exists(t) /\ T!Live(t) = TP!Live(t)
            /\ T!Current(t) = TP!Current(t)
  /\ \A t, d : T!Search(t, d) = TP!Search(t, d)
  /\ \A n, f : T!Created(n, f) = TP!Created(n, f)
<1>1. T!NoTable = TP!NoTable /\ T!Null = TP!Null /\ T!Table = TP!Table
  BY Zenon DEF T!Flag, TP!Flag, T!Cell, TP!Cell, T!Contents, TP!Contents,
     T!Table, TP!Table, T!NoTable, TP!NoTable, T!Null, TP!Null
<1>2. ASSUME NEW t
      PROVE  /\ T!Exists(t) = TP!Exists(t) /\ T!Live(t) = TP!Live(t)
             /\ T!Current(t) = TP!Current(t)
  BY Zenon DEF T!Exists, TP!Exists, T!IsEmpty, TP!IsEmpty, T!Live, TP!Live,
     T!Null, TP!Null, T!Current, TP!Current
<1>3. ASSUME NEW t, NEW d PROVE T!Search(t, d) = TP!Search(t, d)
  BY Zenon DEF T!Fragmented, TP!Fragmented, T!Exists, TP!Exists, T!IsEmpty,
     TP!IsEmpty, T!PosIsFrag, TP!PosIsFrag, T!Visible, TP!Visible, T!Null,
     TP!Null, T!Nowhere, TP!Nowhere, T!At, TP!At, T!Least, TP!Least, T!Search,
     TP!Search
<1>4. ASSUME NEW n, NEW f PROVE T!Created(n, f) = TP!Created(n, f)
  BY Zenon DEF T!Created, TP!Created
<1> QED
  BY <1>1, <1>2, <1>3, <1>4

LEMMA TInsertAgrees == \A t, d : T!Insert(t, d) = TP!Insert(t, d)
<1>1. \A t, p : /\ T!Nowhere(t) = TP!Nowhere(t) /\ T!Null = TP!Null
                /\ T!Done(p, t) = TP!Done(p, t) /\ T!Failed(t) = TP!Failed(t)
                /\ T!IsEmpty(t) = TP!IsEmpty(t) /\ T!Fragmented(t) = TP!Fragmented(t)
  BY Zenon DEF T!Null, TP!Null, T!Nowhere, TP!Nowhere, T!Done, TP!Done,
     T!Failed, TP!Failed, T!Exists, TP!Exists, T!IsEmpty, TP!IsEmpty,
     T!Fragmented, TP!Fragmented
<1>2. \A t : T!ReallocAndMove(t) = TP!ReallocAndMove(t)
  BY DEF T!ReallocAndMove, TP!ReallocAndMove, T!Done, TP!Done,
         T!Failed, TP!Failed, T!Null, TP!Null, T!GrownSize, TP!GrownSize,
         T!Grown, TP!Grown, T!ClearedBits, TP!ClearedBits,
         T!DirtyBits, TP!DirtyBits, T!Bits, TP!Bits, T!MaskSize, TP!MaskSize
<1>3. \A t : T!TakeTail(t) = TP!TakeTail(t)
  BY <1>1 DEF T!TakeTail, TP!TakeTail
<1>4. \A t : T!GetTailNext(t) = TP!GetTailNext(t)
  BY <1>1, <1>2, <1>3 DEF T!GetTailNext, TP!GetTailNext
<1>5. \A t : T!SetPosFragFirst(t) = TP!SetPosFragFirst(t)
  BY DEF T!SetPosFragFirst, TP!SetPosFragFirst, T!Bits, TP!Bits, T!Least, TP!Least
<1>6. \A t : T!GetFragFirst(t) = TP!GetFragFirst(t)
  BY <1>1, <1>4, <1>5, TAgrees DEF T!GetFragFirst, TP!GetFragFirst
<1>7. \A t, d : T!Match(t, d) = TP!Match(t, d)
  BY <1>1, TAgrees DEF T!Match, TP!Match
<1> QED
  BY <1>1, <1>6, <1>7 DEF T!Insert, TP!Insert, T!WriteChunk, TP!WriteChunk

\* What TableOpsProofs supposes.
LEMMA TableConstants ==
  /\ 8 \in Nat \ {0} /\ SecTabMax \in Nat \ {0}
  /\ Zero \notin Names /\ Junk \notin Names
  /\ TRUE \in BOOLEAN /\ FALSE \in BOOLEAN /\ "OK" \in {"unset", "OK", "FAIL"}
BY ArgsAssumption

\* A section's table: it is not there yet, or nothing was deleted from it.
Kept(t) == t = T!NoTable \/ TP!Packed(t)
Opened(t) == IF T!Exists(t) THEN t ELSE T!Created(SecTabSize, {})
Filled(t) == T!Exists(t) /\ Cardinality(T!Live(t)) = SecTabMax

LEMMA KeptFacts ==
  ASSUME NEW t, Kept(t)
  PROVE  /\ t \in TP!Table /\ T!Live(t) \subseteq SecSlots /\ IsFiniteSet(T!Live(t))
         /\ \A p \in T!Live(t) : t.cells[p] \in Names
         /\ TP!Packed(Opened(t)) /\ T!Live(Opened(t)) = T!Live(t)
         /\ \A p \in T!Live(t) : Opened(t).cells[p] = t.cells[p]
<1>1. CASE TP!Packed(t)
  <2>1. /\ t \in TP!Table /\ TP!Exists(t) /\ t.count \in 0..SecTabMax
        /\ TP!Live(t) = 0..(t.count - 1)
        /\ \A p \in TP!Live(t) : t.cells[p] \in Names
    BY <1>1, TableConstants, TP!PackedFacts
  <2>2. Opened(t) = t
    BY <2>1, TAgrees DEF Opened
  <2>3. 0 \in Int /\ t.count - 1 \in Int
    BY <2>1, ArgsAssumption
  <2>4. IsFiniteSet(0..(t.count - 1))
    BY <2>3, FS_Interval
  <2>5. 0..(t.count - 1) \subseteq SecSlots
    BY <2>1, ArgsAssumption DEF SecSlots
  <2> QED
    BY <1>1, <2>1, <2>2, <2>4, <2>5, TAgrees
<1>2. CASE t = T!NoTable
  <2>1. ~T!Exists(t) /\ T!Live(t) = {}
    BY <1>2 DEF T!Exists, T!Live, T!IsEmpty, T!NoTable
  <2>2. TP!Packed(TP!Created(SecTabSize, {})) /\ TP!Created(SecTabSize, {}).count = 0
    BY ArgsAssumption, TableConstants, TP!PackedCreated
  <2>3. TP!Live(TP!Created(SecTabSize, {})) = {}
    BY <2>2 DEF TP!Live, TP!IsEmpty
  <2>4. TP!NoTable \in TP!Table
    BY TableConstants, TP!ShapeNoTable DEF TP!Shape
  <2> QED
    BY <1>2, <2>1, <2>2, <2>3, <2>4, TAgrees, FS_EmptySet DEF Opened
<1> QED
  BY <1>1, <1>2 DEF Kept

LEMMA KeptInsert ==
  ASSUME NEW t, Kept(t), NEW n \in Names, NEW r \in T!Insert(Opened(t), n)
  PROVE  /\ TP!Packed(r.t) /\ Kept(r.t) /\ T!Exists(r.t)
         /\ \A q \in T!Live(t) : r.t.cells[q] = t.cells[q]
         /\ r.ok \in BOOLEAN
         /\ r.ok => T!Current(r.t) = r.at
         /\ IF \E p \in T!Live(t) : t.cells[p] = n
            THEN r.ok /\ T!Live(r.t) = T!Live(t) /\ r.at \in T!Live(t)
                 /\ t.cells[r.at] = n
            ELSE IF r.ok
            THEN r.at \notin T!Live(t) /\ T!Live(r.t) = T!Live(t) \cup {r.at}
                 /\ r.t.cells[r.at] = n
            ELSE T!Live(r.t) = T!Live(t) /\ Filled(r.t)
         /\ Filled(t) => T!Live(r.t) = T!Live(t)
<1>1. PICK u : u = Opened(t)
  OBVIOUS
<1>2. /\ TP!Packed(u) /\ T!Live(u) = T!Live(t)
      /\ \A p \in T!Live(t) : u.cells[p] = t.cells[p] /\ t.cells[p] \in Names
  BY <1>1, KeptFacts
<1>3. r \in TP!Insert(u, n)
  BY <1>1, TInsertAgrees
<1>4. /\ TP!Packed(r.t) /\ \A q \in TP!Live(u) : r.t.cells[q] = u.cells[q]
      /\ r.ok \in BOOLEAN
      /\ r.ok => TP!Current(r.t) = r.at
      /\ IF \E p \in TP!Live(u) : SameName(u.cells[p], n)
         THEN r.ok /\ TP!Live(r.t) = TP!Live(u) /\ r.at \in TP!Live(u)
              /\ SameName(u.cells[r.at], n)
         ELSE IF u.count < SecTabMax
         THEN r.ok /\ r.at \notin TP!Live(u) /\ TP!Live(r.t) = TP!Live(u) \cup {r.at}
              /\ r.t.cells[r.at] = n
         ELSE ~r.ok /\ TP!Live(r.t) = TP!Live(u)
  BY <1>2, <1>3, TableConstants, TP!PackedSettle
<1>5. \A p \in T!Live(u) : SameName(u.cells[p], n) <=> t.cells[p] = n
  BY <1>2, ArgsAssumption DEF SameName
<1>6. /\ u.count \in 0..SecTabMax /\ Cardinality(TP!Live(u)) = u.count
      /\ TP!Exists(r.t) /\ SecTabMax \in Nat
  <2>1. u.count \in 0..SecTabMax /\ TP!Live(u) = 0..(u.count - 1) /\ TP!Exists(r.t)
    BY <1>2, <1>4, TableConstants, TP!PackedFacts
  <2>2. u.count \in Nat /\ 0 \in Int /\ u.count - 1 \in Int /\ SecTabMax \in Nat
    BY <2>1, TableConstants
  <2>3. Cardinality(0..(u.count - 1)) = u.count
    BY <2>2, FS_Interval
  <2> QED
    BY <2>1, <2>2, <2>3
<1>7. ASSUME Filled(t) PROVE ~(u.count < SecTabMax)
  BY <1>2, <1>6, <1>7, TAgrees DEF Filled
<1>8. CASE \E p \in T!Live(t) : t.cells[p] = n
  BY <1>2, <1>4, <1>5, <1>6, <1>8, TAgrees DEF Kept
<1>9. CASE ~\E p \in T!Live(t) : t.cells[p] = n
  <2>1. ~\E p \in TP!Live(u) : SameName(u.cells[p], n)
    BY <1>2, <1>5, <1>9, TAgrees
  <2>2. CASE u.count < SecTabMax
    BY <1>2, <1>4, <1>6, <1>7, <1>9, <2>1, <2>2, TAgrees DEF Kept
  <2>3. CASE ~(u.count < SecTabMax)
    <3>1. ~r.ok /\ TP!Live(r.t) = TP!Live(u) /\ u.count = SecTabMax
      BY <1>4, <1>6, <2>1, <2>3
    <3>2. Filled(r.t)
      BY <1>6, <3>1, TAgrees DEF Filled
    <3> QED
      BY <1>2, <1>4, <1>6, <1>9, <3>1, <3>2, TAgrees DEF Kept
  <2> QED
    BY <2>2, <2>3
<1> QED
  BY <1>8, <1>9

\* args_unregister moves the cursor, no more.
LEMMA KeptSearch ==
  ASSUME NEW t, Kept(t), NEW n, NEW s, s = T!Search(t, n)
  PROVE  /\ Kept(s.t) /\ T!Live(s.t) = T!Live(t) /\ s.t.cells = t.cells
         /\ T!Exists(s.t) = T!Exists(t)
<1>1. CASE TP!Packed(t)
  <2>1. s = TP!Search(t, n)
    BY TAgrees
  <2>2. /\ TP!Packed(s.t) /\ s.t.count = t.count /\ s.t.cells = t.cells
        /\ TP!Live(s.t) = TP!Live(t)
    BY <1>1, <2>1, TableConstants, TP!PackedSearch
  <2>3. TP!Exists(s.t) /\ TP!Exists(t)
    BY <1>1, <2>2 DEF TP!Packed
  <2> QED
    BY <2>2, <2>3, TAgrees DEF Kept, TP!Exists
<1>2. CASE t = T!NoTable
  <2>1. s = [at |-> T!Null, t |-> t]
    BY <1>2 DEF T!Search, T!IsEmpty, T!Exists, T!NoTable, T!Nowhere
  <2> QED
    BY <1>2, <2>1
<1> QED
  BY <1>1, <1>2 DEF Kept

----------------------------------------------------------------------------
(* What a section holds, against what it is meant to: M says for each name *)
(* and option how often the option was given and its last argument.        *)

OptionArg == [found : Nat, arg : Given \cup {NoArg}]
UsrArgs == [SecSlots -> [Options -> OptionArg]]
Meanings == [Names -> [Options -> OptionArg]]

Tally(t, usr, M) ==
  /\ \A p, q \in T!Live(t) : t.cells[p] = t.cells[q] => p = q
  /\ \A p \in T!Live(t), o \in Options : usr[p][o] = M[t.cells[p]][o]
  /\ \A n \in Names : (\A p \in T!Live(t) : t.cells[p] # n) =>
       Filled(t) \/ \A o \in Options : M[n][o] = Unfound[o]
  /\ \A p \in SecSlots \ T!Live(t) : usr[p] = Unfound

\* insert_args
LEMMA TallyInsert ==
  ASSUME NEW t, Kept(t), NEW usr \in UsrArgs, NEW M \in Meanings, Tally(t, usr, M),
         NEW n \in Names, NEW o \in Options, NEW a \in Given \cup {NoArg},
         NEW r \in T!Insert(Opened(t), n), NEW now,
         now = IF r.ok THEN [usr EXCEPT ![r.at] = Found(usr[r.at], o, a)] ELSE usr
  PROVE  /\ now \in UsrArgs
         /\ Tally(r.t, now, [M EXCEPT ![n] = Found(M[n], o, a)])
<1> DEFINE N == [M EXCEPT ![n] = Found(M[n], o, a)]
<1>1. /\ Kept(r.t) /\ T!Exists(r.t)
      /\ \A q \in T!Live(t) : r.t.cells[q] = t.cells[q]
      /\ r.ok \in BOOLEAN
      /\ IF \E p \in T!Live(t) : t.cells[p] = n
         THEN r.ok /\ T!Live(r.t) = T!Live(t) /\ r.at \in T!Live(t)
              /\ t.cells[r.at] = n
         ELSE IF r.ok
         THEN r.at \notin T!Live(t) /\ T!Live(r.t) = T!Live(t) \cup {r.at}
              /\ r.t.cells[r.at] = n
         ELSE T!Live(r.t) = T!Live(t) /\ Filled(r.t)
      /\ Filled(t) => T!Live(r.t) = T!Live(t)
  BY KeptInsert
<1>2. /\ T!Live(t) \subseteq SecSlots /\ T!Live(r.t) \subseteq SecSlots
      /\ \A p \in T!Live(t) : t.cells[p] \in Names
      /\ \A p \in T!Live(r.t) : r.t.cells[p] \in Names
  BY <1>1, KeptFacts
<1>3. Filled(t) => Filled(r.t)
  BY <1>1 DEF Filled
<1>4. \A x \in Names : x # n => N[x] = M[x]
  BY DEF Meanings
<1>5. N[n] = Found(M[n], o, a)
  BY DEF Meanings
<1>6. /\ Found(M[n], o, a) \in [Options -> OptionArg]
      /\ Found(M[n], o, a)[o] = [found |-> M[n][o].found + 1, arg |-> a]
      /\ \A x \in Options : x # o => Found(M[n], o, a)[x] = M[n][x]
  BY DEF Found, Meanings, OptionArg
<1> HIDE DEF N
<1>7. CASE r.ok
  <2>1. r.at \in T!Live(r.t) /\ r.at \in SecSlots /\ r.t.cells[r.at] = n
    BY <1>1, <1>2, <1>7
  <2>2. usr[r.at] \in [Options -> OptionArg] /\ \A x \in Options : usr[r.at][x] = M[n][x]
    <3>1. CASE r.at \in T!Live(t)
      BY <1>1, <2>1, <3>1 DEF Tally, UsrArgs
    <3>2. CASE r.at \notin T!Live(t)
      <4>1. \A p \in T!Live(t) : t.cells[p] # n
        BY <1>1, <3>2
      <4>2. ~Filled(t)
        BY <1>1, <2>1, <3>2
      <4> QED
        BY <2>1, <3>2, <4>1, <4>2 DEF Tally, UsrArgs
    <3> QED
      BY <3>1, <3>2
  <2>3. Found(usr[r.at], o, a) = Found(M[n], o, a)
    BY <2>2 DEF Found, Meanings
  <2>4. now = [usr EXCEPT ![r.at] = N[n]]
    BY <1>5, <1>7, <2>3
  <2>5. now \in UsrArgs /\ now[r.at] = N[n] /\ \A p \in SecSlots : p # r.at => now[p] = usr[p]
    BY <1>5, <1>6, <2>1, <2>4 DEF UsrArgs
  <2>6. \A p, q \in T!Live(r.t) : r.t.cells[p] = r.t.cells[q] => p = q
    BY <1>1, <1>7 DEF Tally
  <2>7. ASSUME NEW p \in T!Live(r.t), NEW x \in Options PROVE now[p][x] = N[r.t.cells[p]][x]
    <3>1. CASE p = r.at
      BY <2>1, <2>5, <3>1
    <3>2. CASE p # r.at
      <4>1. p \in T!Live(t) /\ r.t.cells[p] = t.cells[p] /\ t.cells[p] # n
        BY <1>1, <1>7, <2>1, <2>6, <2>7, <3>2
      <4> QED
        BY <1>2, <1>4, <2>5, <3>2, <4>1 DEF Tally
    <3> QED
      BY <3>1, <3>2
  <2>8. ASSUME NEW x \in Names, \A p \in T!Live(r.t) : r.t.cells[p] # x
        PROVE  Filled(r.t) \/ \A y \in Options : N[x][y] = Unfound[y]
    <3>1. x # n /\ \A p \in T!Live(t) : t.cells[p] # x
      BY <1>1, <1>7, <2>1, <2>8
    <3> QED
      BY <1>3, <1>4, <3>1 DEF Tally
  <2>9. \A p \in SecSlots \ T!Live(r.t) : now[p] = Unfound
    BY <1>1, <1>7, <2>1, <2>5 DEF Tally
  <2> QED
    BY <2>5, <2>6, <2>7, <2>8, <2>9 DEF Tally, N
<1>8. CASE ~r.ok
  <2>1. /\ now = usr /\ T!Live(r.t) = T!Live(t) /\ Filled(r.t)
        /\ \A p \in T!Live(t) : t.cells[p] # n
    BY <1>1, <1>8
  <2>2. \A p \in T!Live(t) : r.t.cells[p] = t.cells[p] /\ N[t.cells[p]] = M[t.cells[p]]
    BY <1>1, <1>2, <1>4, <2>1
  <2>3. Tally(r.t, now, N)
    BY <2>1, <2>2 DEF Tally
  <2> QED
    BY <2>1, <2>3 DEF N
<1> QED
  BY <1>7, <1>8

\* The section of args_register, and the entry that it binds.
LEMMA TallyRegister ==
  ASSUME NEW t, Kept(t), NEW usr \in UsrArgs, NEW M \in Meanings, Tally(t, usr, M),
         NEW n \in Names, NEW r \in T!Insert(Opened(t), n)
  PROVE  /\ Kept(r.t) /\ Tally(r.t, usr, M)
         /\ IF r.ok THEN \A o \in Options : usr[EntryOf(r.t)][o] = M[n][o]
            ELSE Filled(r.t) /\ \A p \in T!Live(r.t) : r.t.cells[p] # n
<1>1. /\ Kept(r.t) /\ T!Exists(r.t)
      /\ \A q \in T!Live(t) : r.t.cells[q] = t.cells[q]
      /\ r.ok => T!Current(r.t) = r.at
      /\ IF \E p \in T!Live(t) : t.cells[p] = n
         THEN r.ok /\ T!Live(r.t) = T!Live(t) /\ r.at \in T!Live(t)
              /\ t.cells[r.at] = n
         ELSE IF r.ok
         THEN r.at \notin T!Live(t) /\ T!Live(r.t) = T!Live(t) \cup {r.at}
              /\ r.t.cells[r.at] = n
         ELSE T!Live(r.t) = T!Live(t) /\ Filled(r.t)
      /\ Filled(t) => T!Live(r.t) = T!Live(t)
  BY KeptInsert
<1>2. T!Live(t) \subseteq SecSlots /\ T!Live(r.t) \subseteq SecSlots
  BY <1>1, KeptFacts
<1>3. Filled(t) => Filled(r.t)
  BY <1>1 DEF Filled
<1>4. CASE T!Live(r.t) = T!Live(t)
  <2>1. Tally(r.t, usr, M)
    BY <1>1, <1>3, <1>4 DEF Tally
  <2> QED
    BY <1>1, <1>4, <2>1 DEF Tally, EntryOf
<1>5. CASE T!Live(r.t) # T!Live(t)
  <2>1. /\ r.ok /\ r.at \notin T!Live(t) /\ T!Live(r.t) = T!Live(t) \cup {r.at}
        /\ r.t.cells[r.at] = n /\ ~Filled(t)
        /\ \A p \in T!Live(t) : t.cells[p] # n
    BY <1>1, <1>5
  <2>2. \A o \in Options : M[n][o] = Unfound[o]
    BY <2>1 DEF Tally
  <2>3. usr[r.at] = Unfound
    BY <1>2, <2>1 DEF Tally
  <2>4. Tally(r.t, usr, M)
    BY <1>1, <1>2, <2>1, <2>2, <2>3 DEF Tally
  <2> QED
    BY <1>1, <2>1, <2>2, <2>3, <2>4 DEF EntryOf
<1> QED
  BY <1>4, <1>5

\* args_unregister
LEMMA TallySearch ==
  ASSUME NEW t, Kept(t), NEW usr, NEW M, Tally(t, usr, M), NEW n,
         NEW s, s = T!Search(t, n)
  PROVE  Kept(s.t) /\ Tally(s.t, usr, M)
<1>1. /\ Kept(s.t) /\ T!Live(s.t) = T!Live(t) /\ s.t.cells = t.cells
      /\ T!Exists(s.t) = T!Exists(t)
  BY KeptSearch
<1> QED
  BY <1>1 DEF Tally, Filled

----------------------------------------------------------------------------
(* What the command line means.                                            *)

LEMMA Kinds ==
  ASSUME NEW a
  PROVE  /\ a \in Letters => a \notin Options \cup Given
         /\ a \in Options => a \notin Letters \cup Given
         /\ a \in Given => a \notin Letters \cup Options /\ ~DashFirst(a)
         /\ a \in Tokens /\ ~DashFirst(a) => a \in Given
         /\ a = End => a \notin Letters \cup Options \cup Given
         /\ a \in Dashed => a \notin Letters \cup Options \cup Given
<1> DEFINE kinds == <<Letters, Options, Words, Others, Dashed, {End}>>
<1>1. \A j, k \in 1..6 : j # k => kinds[j] \cap kinds[k] = {}
  BY ArgsAssumption
<1>2. /\ kinds[1] = Letters /\ kinds[2] = Options /\ kinds[3] = Words
      /\ kinds[4] = Others /\ kinds[5] = Dashed /\ kinds[6] = {End}
  OBVIOUS
<1> HIDE DEF kinds
<1>3. ASSUME NEW j \in 1..6, NEW k \in 1..6, j # k, a \in kinds[j]
      PROVE  a \notin kinds[k]
  BY <1>1, <1>3
<1>4. /\ a \in Letters => a \notin Options /\ a \notin Words /\ a \notin Others
      /\ a \in Options => a \notin Letters /\ a \notin Words /\ a \notin Others
      /\ a \in Words \cup Others => a \notin Letters /\ a \notin Options
                                    /\ a \notin Dashed /\ a # End
      /\ a = End => a \notin Letters /\ a \notin Options /\ a \notin Words /\ a \notin Others
      /\ a \in Dashed => a \notin Letters /\ a \notin Options /\ a \notin Words
                         /\ a \notin Others
  BY <1>2, <1>3
<1> QED
  BY <1>4 DEF Given, Tokens, DashFirst

SectionOf(starts) ==
  IF starts = {} THEN [id |-> Main, name |-> NoName]
  ELSE LET q == CHOOSE x \in starts : \A y \in starts : y <= x IN
       [id |-> argv[q], name |-> IF argv[q + 1] \in Words THEN argv[q + 1] ELSE NoName]

LEMMA SectionAtIs ==
  \A p : SectionAt(p) = SectionOf({q \in 1..(p - 1) : argv[q] \in Letters})
BY DEF SectionAt, SectionOf

LEMMA SectionGoesOn ==
  ASSUME NEW p \in Nat \ {0}, NEW q \in Nat, p <= q,
         \A x \in p..(q - 1) : argv[x] \notin Letters
  PROVE  SectionAt(q) = SectionAt(p)
<1>1. {x \in 1..(q - 1) : argv[x] \in Letters} = {x \in 1..(p - 1) : argv[x] \in Letters}
  OBVIOUS
<1> QED
  BY <1>1, SectionAtIs

LEMMA LastIs ==
  ASSUME NEW S \in SUBSET Nat, NEW q \in S, \A y \in S : y <= q
  PROVE  (CHOOSE x \in S : \A y \in S : y <= x) = q
<1>1. PICK last : last = CHOOSE x \in S : \A y \in S : y <= x
  OBVIOUS
<1>2. last \in S /\ \A y \in S : y <= last
  BY <1>1
<1>3. last \in Nat /\ q \in Nat /\ last <= q /\ q <= last
  BY <1>2
<1>4. last = q
  BY <1>3
<1> QED
  BY <1>1, <1>4

LEMMA SectionStarts ==
  ASSUME NEW q \in Nat \ {0}, argv[q] \in Letters, NEW p \in Nat, q < p,
         \A x \in (q + 1)..(p - 1) : argv[x] \notin Letters
  PROVE  SectionAt(p) = [id |-> argv[q],
                         name |-> IF argv[q + 1] \in Words THEN argv[q + 1] ELSE NoName]
<1>1. PICK starts : starts = {x \in 1..(p - 1) : argv[x] \in Letters}
  OBVIOUS
<1>2. starts \in SUBSET Nat /\ q \in starts /\ \A y \in starts : y <= q
  BY <1>1
<1>3. (CHOOSE x \in starts : \A y \in starts : y <= x) = q
  BY <1>2, LastIs
<1>4. PICK last : last = CHOOSE x \in starts : \A y \in starts : y <= x
  OBVIOUS
<1>5. SectionOf(starts) = [id |-> argv[last], 
        name |-> IF argv[last + 1] \in Words THEN argv[last + 1] ELSE NoName]
  BY <1>2, <1>4 DEF SectionOf
<1>6. SectionAt(p) = SectionOf(starts)
  BY <1>1, SectionAtIs
<1>7. last = q
  BY <1>3, <1>4
<1> QED
  BY <1>5, <1>6, <1>7

GivenBefore(j, s, n, o) ==
  {p \in 1..(j - 1) : argv[p] = o /\ SectionAt(p) = [id |-> s, name |-> n]}
MeantOf(at) ==
  [found |-> Cardinality(at),
   arg |-> IF at = {} THEN NoArg ELSE ArgAt(CHOOSE p \in at : \A q \in at : q <= p)]
MeantIn(s) == [n \in Names |-> [o \in Options |-> Meant(s, n, o)]]

LEMMA MeantIs ==
  \A s, n, o : Meant(s, n, o) = MeantOf(GivenBefore(i, s, n, o))
BY DEF Meant, MeantOf, GivenBefore, GivenAt

LEMMA MeantFacts ==
  ASSUME NEW j \in Nat \ {0}, NEW at \in SUBSET (1..(j - 1))
  PROVE  /\ MeantOf(at) \in OptionArg /\ MeantOf(at).found \in 0..(j - 1)
         /\ MeantOf(at).found = 0 <=> at = {}
         /\ \A o \in Options : MeantOf({}) = Unfound[o]
         /\ MeantOf(at \cup {j}) = [found |-> MeantOf(at).found + 1, arg |-> ArgAt(j)]
<1>1. 1 \in Int /\ j - 1 \in Int
  OBVIOUS
<1>2. IsFiniteSet(1..(j - 1)) /\ Cardinality(1..(j - 1)) = j - 1
  <2>1. Cardinality(1..(j - 1)) = IF 1 > j - 1 THEN 0 ELSE (j - 1) - 1 + 1
    BY <1>1, FS_Interval
  <2> QED
    BY <1>1, <2>1, FS_Interval
<1>3. IsFiniteSet(at) /\ Cardinality(at) <= j - 1
  BY <1>2, FS_Subset
<1>4. Cardinality(at) \in Nat /\ (Cardinality(at) = 0 <=> at = {})
  BY <1>3, FS_CardinalityType, FS_EmptySet
<1>5. \A p : ArgAt(p) \in Given \cup {NoArg}
  BY DEF ArgAt
<1>6. MeantOf(at) \in OptionArg /\ MeantOf(at).found \in 0..(j - 1)
      /\ (MeantOf(at).found = 0 <=> at = {})
  BY <1>3, <1>4, <1>5 DEF MeantOf, OptionArg
<1>7. \A o \in Options : MeantOf({}) = Unfound[o]
  BY FS_EmptySet DEF MeantOf, Unfound
<1>8. MeantOf(at \cup {j}) = [found |-> MeantOf(at).found + 1, arg |-> ArgAt(j)]
  <2>1. j \notin at /\ at \cup {j} \in SUBSET Nat /\ \A p \in at \cup {j} : p <= j
    OBVIOUS
  <2>2. Cardinality(at \cup {j}) = Cardinality(at) + 1
    BY <1>3, <2>1, FS_AddElement
  <2>3. (CHOOSE p \in at \cup {j} : \A q \in at \cup {j} : q <= p) = j
    BY <2>1, LastIs
  <2>4. at \cup {j} # {}
    OBVIOUS
  <2> QED
    BY <2>2, <2>3, <2>4, Zenon DEF MeantOf
<1> QED
  BY <1>6, <1>7, <1>8

LEMMA MeaningsType ==
  ASSUME i \in Nat \ {0}
  PROVE  \A s : MeantIn(s) \in Meanings
<1>1. ASSUME NEW s, NEW n, NEW o PROVE Meant(s, n, o) \in OptionArg
  <2>1. GivenBefore(i, s, n, o) \in SUBSET (1..(i - 1))
    BY DEF GivenBefore
  <2> QED
    BY <2>1, MeantFacts, MeantIs
<1> QED
  BY <1>1 DEF MeantIn, Meanings

\* What is meant after a step that reads up to i'.
LEMMA MeantNext ==
  ASSUME argv' = argv
  PROVE  /\ \A p : SectionAt(p)' = SectionAt(p)
         /\ \A s, n, o : Meant(s, n, o)' = MeantOf(GivenBefore(i', s, n, o))
         /\ \A s : MeantIn(s)' = [n \in Names |-> [o \in Options |->
                                    MeantOf(GivenBefore(i', s, n, o))]]
<1>1. \A p : SectionAt(p)' = SectionAt(p)
  BY DEF SectionAt
<1>2. \A p : ArgAt(p)' = ArgAt(p)
  BY DEF ArgAt
<1>3. ASSUME NEW s, NEW n, NEW o
      PROVE  Meant(s, n, o)' = MeantOf(GivenBefore(i', s, n, o))
  <2>1. GivenAt(s, n, o)' = GivenBefore(i', s, n, o)
    BY <1>1 DEF GivenAt, GivenBefore
  <2> QED
    BY <1>2, <2>1 DEF Meant, MeantOf
<1>4. ASSUME NEW s
      PROVE  MeantIn(s)' = [n \in Names |-> [o \in Options |->
                              MeantOf(GivenBefore(i', s, n, o))]]
  BY <1>3 DEF MeantIn
<1> QED
  BY <1>1, <1>3, <1>4

LEMMA MeantKept ==
  ASSUME UNCHANGED <<argv, i>>
  PROVE  \A s : MeantIn(s)' = MeantIn(s)
<1>1. ASSUME NEW s, NEW n, NEW o PROVE Meant(s, n, o)' = Meant(s, n, o)
  <2>1. Meant(s, n, o)' = MeantOf(GivenBefore(i', s, n, o))
    BY MeantNext
  <2>2. GivenBefore(i', s, n, o) = GivenBefore(i, s, n, o)
    OBVIOUS
  <2> QED
    BY <2>1, <2>2, MeantIs
<1> QED
  BY <1>1 DEF MeantIn

\* What one more argument, or it and what follows it, adds.
LEMMA GivenOn ==
  ASSUME NEW j \in Nat \ {0}, NEW k \in Nat, NEW o \in Options, NEW s, NEW n,
         k = j + 1 \/ (k = j + 2 /\ argv[j + 1] \notin Options)
  PROVE  GivenBefore(k, s, n, o) =
           IF argv[j] = o /\ SectionAt(j) = [id |-> s, name |-> n]
           THEN GivenBefore(j, s, n, o) \cup {j} ELSE GivenBefore(j, s, n, o)
<1>1. ASSUME NEW p \in 1..(k - 1), argv[p] = o PROVE p = j \/ p \in 1..(j - 1)
  BY <1>1
<1>2. j \in 1..(k - 1) /\ 1..(j - 1) \subseteq 1..(k - 1)
  OBVIOUS
<1> QED
  BY <1>1, <1>2 DEF GivenBefore

----------------------------------------------------------------------------
(* The invariant of the argument manager.                                  *)

\* A name that insertion cannot make an entry for.
NoRoomFor(t, n) == Filled(t) /\ \A p \in T!Live(t) : t.cells[p] # n

OptionsIn(args) ==
  args # NoArgs => \A k \in 1..Len(args) : args[k].option \in Options

\* What args_register answers to args, if the command line says M.
Answer(args, ok, got, M) ==
  LET declared == IF args = NoArgs THEN {} ELSE {args[k] : k \in 1..Len(args)}
      there == {x \in declared : M[x.option].found > 0}
      handed == {[option |-> x.option, arg |-> M[x.option].arg, found |-> M[x.option].found] :
                   x \in there}
  IN /\ ok <=> \A x \in there : Binds(x, M[x.option])
     /\ IF ok THEN got = handed ELSE got \subseteq handed

PositionInv ==
  /\ argv \in Seq(Tokens) /\ i \in 1..(Len(argv) + 1)
  /\ section \in Sections /\ name \in Names
  /\ parsed \in {"no", "OK", "FAIL", "fini"}
  /\ parsed = "no" /\ i <= Len(argv) => SectionAt(i) = [id |-> section, name |-> name]

SectionsInv ==
  /\ sectab = [s \in Sections |-> sectab[s]]
  /\ usrargs \in [Sections -> UsrArgs]
  /\ \A s \in Sections :
       /\ Kept(sectab[s])
       /\ parsed # "fini" => Tally(sectab[s], usrargs[s], MeantIn(s))
       /\ parsed = "fini" => \A p \in SecSlots : usrargs[s][p] = Unfound

CallInv ==
  /\ calls \in 0..Calls
  /\ parsed = "no" => calls = 0
  /\ parsed # "fini" /\ calls > 0 =>
       /\ call.section \in Sections /\ call.name \in Names /\ OptionsIn(call.args)
       /\ \/ NoRoomFor(sectab[call.section], call.name)
          \/ Answer(call.args, call.ok, call.got, MeantIn(call.section)[call.name])

ArgsInv == PositionInv /\ SectionsInv /\ CallInv

----------------------------------------------------------------------------
(* It holds at the start, and through parse_args.                          *)

LEMMA ArgsInit ==
  ASSUME argv \in Seq(Tokens), ArgsStart
  PROVE  ArgsInv
<1> USE DEF ArgsStart
<1>1. SectionAt(1) = [id |-> Main, name |-> NoName]
  <2>1. {q \in 1..(1 - 1) : argv[q] \in Letters} = {}
    OBVIOUS
  <2> QED
    BY <2>1, SectionAtIs DEF SectionOf
<1>2. Len(argv) \in Nat
  OBVIOUS
<1>3. PositionInv
  BY <1>1, <1>2 DEF PositionInv, Sections, Names
<1>4. CallInv
  BY ArgsAssumption DEF CallInv
<1>5. usrargs \in [Sections -> UsrArgs]
  BY DEF UsrArgs, OptionArg, Unfound
<1>6. ASSUME NEW s \in Sections
      PROVE  Kept(sectab[s]) /\ Tally(sectab[s], usrargs[s], MeantIn(s))
  <2>1. sectab[s] = T!NoTable /\ \A p \in SecSlots : usrargs[s][p] = Unfound
    OBVIOUS
  <2>2. T!Live(sectab[s]) = {}
    BY <2>1 DEF T!Live, T!IsEmpty, T!NoTable
  <2>3. ASSUME NEW n \in Names, NEW o \in Options PROVE MeantIn(s)[n][o] = Unfound[o]
    <3>1. GivenBefore(1, s, n, o) = {}
      BY DEF GivenBefore
    <3>2. 1 \in Nat \ {0} /\ {} \in SUBSET (1..(1 - 1))
      OBVIOUS
    <3>3. MeantOf({}) = Unfound[o]
      BY <3>2, MeantFacts
    <3> QED
      BY <3>1, <3>3, MeantIs DEF MeantIn
  <2> QED
    BY <2>1, <2>2, <2>3 DEF Kept, Tally
<1>7. SectionsInv
  BY <1>5, <1>6 DEF SectionsInv
<1> QED
  BY <1>3, <1>4, <1>7 DEF ArgsInv

LEMMA StartSectionStep ==
  ASSUME ArgsInv, NEW s \in Letters, StartSection(s)
  PROVE  ArgsInv'
<1> USE DEF ArgsInv
<1>1. /\ argv' = argv /\ parsed' = parsed /\ section' = s /\ UNCHANGED <<sectionVars, call, calls>>
      /\ parsed = "no" /\ i <= Len(argv) /\ argv[i] = s
      /\ IF i < Len(argv) /\ argv[i + 1] \in Words
         THEN name' = argv[i + 1] /\ i' = i + 2
         ELSE i' = i + 1 /\ name' = IF i < Len(argv) THEN NoName ELSE name
  BY DEF StartSection, Parsing, More
<1>2. /\ argv \in Seq(Tokens) /\ Len(argv) \in Nat /\ i \in Nat \ {0}
      /\ name \in Names /\ i \in 1..(Len(argv) + 1)
  BY DEF PositionInv
<1>3. i' \in {i + 1, i + 2} /\ i' \in 1..(Len(argv) + 1) /\ i' \in Nat
  BY <1>1, <1>2
<1>4. i' = i + 2 => argv[i + 1] \in Words
  BY <1>1, <1>2
<1>5. i' = i + 2 => argv[i + 1] \notin Options /\ argv[i + 1] \notin Letters
  BY <1>4, Kinds DEF Given
<1>6. ASSUME i' <= Len(argv)
      PROVE  SectionAt(i') = [id |-> s, name |-> name']
  <2>1. SectionAt(i') = [id |-> argv[i],
                         name |-> IF argv[i + 1] \in Words THEN argv[i + 1] ELSE NoName]
    <3>1. i < i' /\ \A x \in (i + 1)..(i' - 1) : argv[x] \notin Letters
      <4>1. CASE i' = i + 1
        BY <1>2, <4>1
      <4>2. CASE i' = i + 2
        <5>1. \A x \in (i + 1)..(i' - 1) : x = i + 1
          BY <1>2, <4>2
        <5> QED
          BY <1>2, <1>5, <4>2, <5>1
      <4> QED
        BY <1>3, <4>1, <4>2
    <3> QED
      BY <1>1, <1>2, <1>3, <3>1, SectionStarts
  <2>2. name' = IF argv[i + 1] \in Words THEN argv[i + 1] ELSE NoName
    BY <1>1, <1>2, <1>3, <1>6
  <2> QED
    BY <1>1, <2>1, <2>2
<1>7. \A p : SectionAt(p)' = SectionAt(p)
  BY <1>1, MeantNext
<1>8. PositionInv'
  <2>1. SectionAt(i)' = SectionAt(i')
    BY <1>1 DEF SectionAt
  <2>2. name' \in Names /\ s \in Sections
    BY <1>1, <1>2 DEF Names, Sections
  <2> QED
    BY <1>1, <1>2, <1>3, <1>6, <2>1, <2>2 DEF PositionInv
<1>9. ASSUME NEW x PROVE MeantIn(x)' = MeantIn(x)
  <2>1. ASSUME NEW n, NEW o \in Options
        PROVE  GivenBefore(i', x, n, o) = GivenBefore(i, x, n, o)
    <3>1. argv[i] # o
      BY <1>1, Kinds
    <3>2. i \in Nat \ {0} /\ i' \in {i + 1, i + 2} /\ (i' = i + 2 => argv[i + 1] \notin Options)
      BY <1>2, <1>3, <1>5
    <3>3. PICK j, k : j = i /\ k = i'
      OBVIOUS
    <3>4. /\ j \in Nat \ {0} /\ k \in Nat
          /\ k = j + 1 \/ (k = j + 2 /\ argv[j + 1] \notin Options)
      BY <3>2, <3>3
    <3>5. argv[j] # o
      BY <3>1, <3>3
    <3>6. GivenBefore(k, x, n, o) = GivenBefore(j, x, n, o)
      BY <3>4, <3>5, GivenOn
    <3> QED
      BY <3>3, <3>6
  <2>2. \A n, o : Meant(x, n, o) = MeantOf(GivenBefore(i, x, n, o))
    BY MeantIs
  <2>3. MeantIn(x)' = [n \in Names |-> [o \in Options |-> MeantOf(GivenBefore(i', x, n, o))]]
    BY <1>1, MeantNext
  <2> QED
    BY <2>1, <2>2, <2>3 DEF MeantIn
<1>10. SectionsInv'
  BY <1>1, <1>9 DEF SectionsInv, sectionVars
<1>11. CallInv'
  BY <1>1, <1>9 DEF CallInv, sectionVars
<1> QED
  BY <1>8, <1>10, <1>11

LEMMA FoundOptionStep ==
  ASSUME ArgsInv, NEW o \in Options, FoundOption(o)
  PROVE  ArgsInv'
<1> USE DEF ArgsInv
<1>1. PICK a : a = ArgAt(i)
  OBVIOUS
<1>2. /\ argv' = argv /\ parsed' = parsed /\ section' = section /\ name' = name
      /\ UNCHANGED <<sysargs, call, calls>>
      /\ parsed = "no" /\ i <= Len(argv) /\ argv[i] = o
  BY DEF FoundOption, Parsing
<1>3. /\ argv \in Seq(Tokens) /\ Len(argv) \in Nat /\ i \in Nat \ {0} /\ i' \in {i + 1, i + 2}
      /\ section \in Sections /\ name \in Names
      /\ (i' = i + 2 => i < Len(argv))
      /\ SectionAt(i) = [id |-> section, name |-> name]
  BY <1>2 DEF PositionInv, FoundOption, More
<1>4. /\ a \in Given \cup {NoArg}
      /\ (i' = i + 2 => argv[i + 1] \in Given)
      /\ InsertArgs(o, a)
  <2>1. CASE More /\ ~DashFirst(argv[i + 1])
    <3>1. argv[i + 1] \in Given
      BY <1>3, <2>1, Kinds DEF More
    <3>2. a = argv[i + 1]
      BY <1>1, <2>1, <3>1 DEF ArgAt, More
    <3> QED
      BY <2>1, <3>1, <3>2 DEF FoundOption
  <2>2. CASE ~(More /\ ~DashFirst(argv[i + 1]))
    <3>1. ~(i < Len(argv) /\ argv[i + 1] \in Given)
      BY <2>2, Kinds DEF More
    <3>2. a = NoArg
      BY <1>1, <3>1 DEF ArgAt
    <3> QED
      BY <1>3, <2>2, <3>2 DEF FoundOption
  <2> QED
    BY <2>1, <2>2
<1>5. PICK r \in T!Insert(Section(section), name) :
        /\ sectab' = [sectab EXCEPT ![section] = r.t]
        /\ usrargs' = IF r.ok THEN [usrargs EXCEPT ![section][r.at] = Found(@, o, a)]
                      ELSE usrargs
  BY <1>4 DEF InsertArgs
<1>6. i' = i + 2 => argv[i + 1] \notin Options /\ argv[i + 1] \notin Letters
  BY <1>4, Kinds
<1>7. \A p : SectionAt(p)' = SectionAt(p)
  BY <1>2, MeantNext
<1>8. PositionInv'
  <2>1. SectionAt(i)' = SectionAt(i')
    BY <1>2 DEF SectionAt
  <2>2. SectionAt(i') = SectionAt(i)
    <3>1. \A x \in i..(i' - 1) : argv[x] \notin Letters
      <4>1. \A x \in i..(i' - 1) : x = i \/ (x = i + 1 /\ i' = i + 2)
        <5>1. CASE i' = i + 1
          BY <1>3, <5>1
        <5>2. CASE i' = i + 2
          BY <1>3, <5>2
        <5> QED
          BY <1>3, <5>1, <5>2
      <4>2. argv[i] \notin Letters
        BY <1>2, Kinds
      <4> QED
        BY <1>6, <4>1, <4>2
    <3>2. PICK j, k : j = i /\ k = i'
      OBVIOUS
    <3>3. SectionAt(k) = SectionAt(j)
      <4>1. j \in Nat \ {0} /\ k \in Nat /\ j <= k
        BY <1>3, <3>2
      <4>2. \A x \in j..(k - 1) : argv[x] \notin Letters
        BY <3>1, <3>2
      <4> QED
        BY <4>1, <4>2, SectionGoesOn, Zenon
    <3> QED
      BY <3>2, <3>3
  <2>3. i' \in 1..(Len(argv) + 1)
    BY <1>2, <1>3
  <2> QED
    BY <1>2, <1>3, <2>1, <2>2, <2>3 DEF PositionInv
<1>9. ASSUME NEW s, NEW n, NEW x \in Options
      PROVE  GivenBefore(i', s, n, x) =
               IF x = o /\ s = section /\ n = name
               THEN GivenBefore(i, s, n, x) \cup {i} ELSE GivenBefore(i, s, n, x)
  <2>1. PICK j, k : j = i /\ k = i'
    OBVIOUS
  <2>2. /\ j \in Nat \ {0} /\ k \in Nat
        /\ k = j + 1 \/ (k = j + 2 /\ argv[j + 1] \notin Options)
    BY <1>3, <1>6, <2>1
  <2>3. GivenBefore(k, s, n, x) =
          IF argv[j] = x /\ SectionAt(j) = [id |-> s, name |-> n]
          THEN GivenBefore(j, s, n, x) \cup {j} ELSE GivenBefore(j, s, n, x)
    BY <2>2, GivenOn
  <2>4. SectionAt(i) = [id |-> s, name |-> n] <=> s = section /\ n = name
    BY <1>3
  <2> QED
    BY <1>2, <2>1, <2>3, <2>4
<1>10. \A s : MeantIn(s)' = [n \in Names |-> [x \in Options |->
                               MeantOf(GivenBefore(i', s, n, x))]]
  BY <1>2, MeantNext
<1>11. \A s : MeantIn(s) = [n \in Names |-> [x \in Options |->
                               MeantOf(GivenBefore(i, s, n, x))]]
  BY MeantIs DEF MeantIn
<1>12. ASSUME NEW s, s # section PROVE MeantIn(s)' = MeantIn(s)
  BY <1>9, <1>10, <1>11, <1>12
<1>13. PICK sec, M : sec = section /\ M = MeantIn(sec)
  OBVIOUS
<1>14. M \in Meanings
  BY <1>3, <1>13, MeaningsType
<1>15. MeantIn(sec)' = [M EXCEPT ![name] = Found(M[name], o, a)]
  <2>1. PICK at : at = GivenBefore(i, sec, name, o)
    OBVIOUS
  <2>2. at \in SUBSET (1..(i - 1))
    BY <2>1 DEF GivenBefore
  <2>3. MeantOf(at \cup {i}) = [found |-> MeantOf(at).found + 1, arg |-> a]
    BY <1>1, <1>3, <2>2, MeantFacts
  <2>4. M[name][o] = MeantOf(at)
    BY <1>3, <1>11, <1>13, <2>1
  <2>5. Found(M[name], o, a) = [M[name] EXCEPT ![o] = MeantOf(at \cup {i})]
    BY <1>3, <1>14, <2>3, <2>4 DEF Found, Meanings
  <2>6. PICK N : N = MeantIn(sec)'
    OBVIOUS
  <2>7. N = [n \in Names |-> [x \in Options |-> MeantOf(GivenBefore(i', sec, n, x))]]
    BY <1>10, <2>6
  <2>8. ASSUME NEW n \in Names, n # name PROVE N[n] = M[n]
    BY <1>9, <1>11, <1>13, <2>7, <2>8
  <2>9. N[name] = [M[name] EXCEPT ![o] = MeantOf(at \cup {i})]
    <3>1. \A x \in Options : N[name][x] = IF x = o THEN MeantOf(at \cup {i}) ELSE M[name][x]
      BY <1>3, <1>9, <1>11, <1>13, <2>1, <2>7
    <3>2. N[name] = [x \in Options |-> N[name][x]]
      BY <1>3, <2>7
    <3> QED
      BY <1>3, <1>14, <3>1, <3>2 DEF Meanings
  <2>10. N = [M EXCEPT ![name] = N[name]]
    BY <1>3, <1>14, <2>7, <2>8 DEF Meanings
  <2> QED
    BY <2>5, <2>6, <2>9, <2>10
<1>16. PICK t, usr : t = sectab[section] /\ usr = usrargs[section]
  OBVIOUS
<1>17. Kept(t) /\ usr \in UsrArgs /\ Tally(t, usr, M) /\ r \in T!Insert(Opened(t), name)
  BY <1>2, <1>3, <1>5, <1>13, <1>16 DEF SectionsInv, Section, Opened
<1>18. PICK now : now = IF r.ok THEN [usr EXCEPT ![r.at] = Found(usr[r.at], o, a)] ELSE usr
  OBVIOUS
<1>19. now \in UsrArgs /\ Tally(r.t, now, [M EXCEPT ![name] = Found(M[name], o, a)])
  BY <1>3, <1>4, <1>14, <1>17, <1>18, TallyInsert
<1>20. Kept(r.t)
  BY <1>3, <1>17, KeptInsert
<1>21. usrargs' = [usrargs EXCEPT ![section] = now] /\ usrargs \in [Sections -> UsrArgs]
  BY <1>3, <1>5, <1>16, <1>18 DEF SectionsInv
<1>22. sectab' = [s \in Sections |-> IF s = section THEN r.t ELSE sectab[s]]
  BY <1>5 DEF SectionsInv
<1>23. SectionsInv'
  <2>1. sectab' = [s \in Sections |-> sectab'[s]]
    BY <1>22
  <2>2. usrargs' \in [Sections -> UsrArgs]
    BY <1>3, <1>19, <1>21
  <2>3. ASSUME NEW s \in Sections
        PROVE  Kept(sectab'[s]) /\ Tally(sectab'[s], usrargs'[s], MeantIn(s)')
    <3>1. CASE s = section
      <4>1. sectab'[s] = r.t /\ usrargs'[s] = now
        BY <1>3, <1>21, <1>22, <3>1
      <4> QED
        BY <1>13, <1>15, <1>19, <1>20, <3>1, <4>1
    <3>2. CASE s # section
      <4>1. sectab'[s] = sectab[s] /\ usrargs'[s] = usrargs[s] /\ MeantIn(s)' = MeantIn(s)
        BY <1>12, <1>21, <1>22, <3>2
      <4> QED
        BY <1>2, <4>1 DEF SectionsInv
    <3> QED
      BY <3>1, <3>2
  <2> QED
    BY <1>2, <2>1, <2>2, <2>3 DEF SectionsInv
<1>24. CallInv'
  BY <1>2 DEF CallInv
<1> QED
  BY <1>8, <1>23, <1>24

LEMMA ParsedStep ==
  ASSUME ArgsInv, EndParsing \/ Invalid
  PROVE  ArgsInv'
<1>1. /\ UNCHANGED <<argv, i, section, name, sectab, usrargs, call, calls>>
      /\ parsed = "no" /\ parsed' \in {"OK", "FAIL"}
  BY DEF EndParsing, Invalid, Parsed, Parsing, sectionVars
<1>2. \A s : MeantIn(s)' = MeantIn(s)
  BY <1>1, MeantKept
<1>3. PositionInv'
  BY <1>1 DEF ArgsInv, PositionInv
<1>4. SectionsInv'
  BY <1>1, <1>2 DEF ArgsInv, SectionsInv
<1>5. CallInv'
  BY <1>1, <1>2 DEF ArgsInv, CallInv
<1> QED
  BY <1>3, <1>4, <1>5 DEF ArgsInv

LEMMA ArgsFiniStep ==
  ASSUME ArgsInv, ArgsFini
  PROVE  ArgsInv'
<1>1. /\ UNCHANGED <<argv, i, section, name, call, calls>> /\ parsed' = "fini"
      /\ sectab' = [s \in Sections |-> T!NoTable]
      /\ usrargs' = [s \in Sections |-> [p \in SecSlots |-> Unfound]]
  BY DEF ArgsFini
<1>2. PositionInv'
  BY <1>1 DEF ArgsInv, PositionInv
<1>3. usrargs' \in [Sections -> UsrArgs]
  BY <1>1 DEF UsrArgs, OptionArg, Unfound
<1>4. \A s \in Sections : sectab'[s] = T!NoTable /\ Kept(T!NoTable)
  BY <1>1 DEF Kept
<1>5. SectionsInv'
  BY <1>1, <1>3, <1>4 DEF SectionsInv
<1>6. CallInv'
  BY <1>1 DEF ArgsInv, CallInv
<1> QED
  BY <1>2, <1>5, <1>6 DEF ArgsInv

----------------------------------------------------------------------------
(* And through the calls of those who register.                            *)

\* What a call may leave of a section.
SectionSettled(s, t) ==
  /\ Kept(t) /\ Tally(t, usrargs[s], MeantIn(s))
  /\ \A n : NoRoomFor(sectab[s], n) => NoRoomFor(t, n)

LEMMA SettledStep ==
  ASSUME ArgsInv, parsed = "OK", UNCHANGED <<parseVars, usrargs>>,
         NEW s \in Sections, NEW t, SectionSettled(s, t),
         sectab' = [sectab EXCEPT ![s] = t],
         \/ UNCHANGED <<call, calls>>
         \/ /\ calls' \in 0..Calls /\ call'.section = s /\ call'.name \in Names
            /\ OptionsIn(call'.args)
            /\ \/ NoRoomFor(t, call'.name)
               \/ Answer(call'.args, call'.ok, call'.got, MeantIn(s)[call'.name])
  PROVE  ArgsInv'
<1>1. UNCHANGED <<argv, i, section, name, parsed>>
  BY DEF parseVars
<1>2. \A x : MeantIn(x)' = MeantIn(x)
  BY <1>1, MeantKept
<1>3. PositionInv'
  BY <1>1 DEF ArgsInv, PositionInv
<1>4. sectab' = [x \in Sections |-> IF x = s THEN t ELSE sectab[x]]
  BY DEF ArgsInv, SectionsInv
<1>5. SectionsInv'
  <2>1. sectab' = [x \in Sections |-> sectab'[x]]
    BY <1>4
  <2>2. ASSUME NEW x \in Sections
        PROVE  Kept(sectab'[x]) /\ Tally(sectab'[x], usrargs[x], MeantIn(x))
    BY <1>4 DEF ArgsInv, SectionsInv, SectionSettled
  <2> QED
    BY <1>1, <1>2, <2>1, <2>2 DEF ArgsInv, SectionsInv
<1>6. \A x \in Sections, n \in Names : NoRoomFor(sectab[x], n) => NoRoomFor(sectab'[x], n)
  BY <1>4 DEF SectionSettled
<1>7. CallInv'
  <2>1. CASE UNCHANGED <<call, calls>>
    BY <1>1, <1>2, <1>6, <2>1 DEF ArgsInv, CallInv, OptionsIn
  <2>2. CASE ~UNCHANGED <<call, calls>>
    <3>1. sectab'[s] = t
      BY <1>4
    <3> QED
      BY <1>1, <1>2, <2>2, <3>1 DEF CallInv, OptionsIn
  <2> QED
    BY <2>1, <2>2
<1> QED
  BY <1>3, <1>5, <1>7 DEF ArgsInv

\* bind_args, on an entry whose options are those that are meant
LEMMA BoundAnswers ==
  ASSUME NEW usr, NEW M, NEW args, args # NoArgs,
         \A k \in 1..Len(args) : args[k].option \in Options,
         \A o \in Options : usr[o] = M[o]
  PROVE  Answer(args, Bound(usr, args).ok, Bound(usr, args).got, M)
<1>1. PICK there : there = {k \in 1..Len(args) : usr[args[k].option].found > 0}
  OBVIOUS
<1>2. PICK wrong : wrong = {k \in there : ~Binds(args[k], usr[args[k].option])}
  OBVIOUS
<1>3. PICK passed : passed = {k \in there : \A w \in wrong : k < w}
  OBVIOUS
<1>4. PICK hand : hand = [k \in 1..Len(args) |->
        [option |-> args[k].option, arg |-> M[args[k].option].arg,
         found |-> M[args[k].option].found]]
  OBVIOUS
<1>5. \A k \in 1..Len(args) : usr[args[k].option] = M[args[k].option]
  OBVIOUS
<1>6. PICK b : b = Bound(usr, args)
  OBVIOUS
<1>7. b.ok = (wrong = {}) /\ b.got = {hand[k] : k \in passed}
  <2>1. b = [ok |-> wrong = {},
             got |-> {[option |-> args[k].option, arg |-> usr[args[k].option].arg,
                       found |-> usr[args[k].option].found] : k \in passed}]
    BY <1>1, <1>2, <1>3, <1>6, Zenon DEF Bound
  <2>2. b.ok = (wrong = {})
    BY <2>1, Zenon
  <2>3. passed \subseteq 1..Len(args)
    BY <1>1, <1>3
  <2>4. b.got = {[option |-> args[k].option, arg |-> usr[args[k].option].arg,
                  found |-> usr[args[k].option].found] : k \in passed}
    BY <2>1, Zenon
  <2>5. ASSUME NEW k \in passed
        PROVE  hand[k] = [option |-> args[k].option, arg |-> usr[args[k].option].arg,
                          found |-> usr[args[k].option].found]
    BY <1>4, <1>5, <2>3
  <2>6. b.got = {hand[k] : k \in passed}
    <3>1. ASSUME NEW x PROVE x \in b.got <=> \E k \in passed : x = hand[k]
      BY <2>4, <2>5
    <3> QED
      BY <3>1
  <2> QED
    BY <2>2, <2>6
<1>8. PICK meant : meant = {k \in 1..Len(args) : M[args[k].option].found > 0}
  OBVIOUS
<1>9. there = meant
  BY <1>1, <1>5, <1>8
<1>10. wrong = {} <=> \A x \in {args[k] : k \in meant} : Binds(x, M[x.option])
  <2>1. wrong = {} <=> \A k \in there : Binds(args[k], usr[args[k].option])
    BY <1>2
  <2>2. \A k \in there : usr[args[k].option] = M[args[k].option]
    BY <1>1, <1>5
  <2>3. wrong = {} <=> \A k \in meant : Binds(args[k], M[args[k].option])
    BY <1>9, <2>1, <2>2
  <2> QED
    BY <2>3
<1>11. /\ {hand[k] : k \in passed} \subseteq {hand[k] : k \in meant}
       /\ wrong = {} => {hand[k] : k \in passed} = {hand[k] : k \in meant}
  BY <1>3, <1>9
<1>12. PICK declared : declared = {args[k] : k \in 1..Len(args)}
  OBVIOUS
<1>13. {x \in declared : M[x.option].found > 0} = {args[k] : k \in meant}
  BY <1>8, <1>12
<1>14. {hand[k] : k \in meant} =
         {[option |-> x.option, arg |-> M[x.option].arg, found |-> M[x.option].found] :
            x \in {args[k] : k \in meant}}
  BY <1>4, <1>8
<1>15. /\ b.ok <=> \A x \in {args[k] : k \in meant} : Binds(x, M[x.option])
       /\ b.got \subseteq {hand[k] : k \in meant}
       /\ b.ok => b.got = {hand[k] : k \in meant}
  BY <1>7, <1>10, <1>11
<1>16. Answer(args, b.ok, b.got, M)
  BY <1>12, <1>13, <1>14, <1>15 DEF Answer
<1> QED
  BY <1>6, <1>16

\* args_register
LEMMA RegisterSettles ==
  ASSUME ArgsInv, parsed = "OK", NEW s \in Sections, NEW n \in Names, NEW args,
         OptionsIn(args),
         NEW r \in Registered(s, n, args)
  PROVE  /\ SectionSettled(s, r.t)
         /\ \/ NoRoomFor(r.t, n) /\ ~r.ok /\ r.got = {}
            \/ Answer(args, r.ok, r.got, MeantIn(s)[n])
<1>1. PICK t, usr, M : t = sectab[s] /\ usr = usrargs[s] /\ M = MeantIn(s)
  OBVIOUS
<1>2. Kept(t) /\ usr \in UsrArgs /\ M \in Meanings /\ Tally(t, usr, M)
  <2>1. i \in Nat \ {0}
    BY DEF ArgsInv, PositionInv
  <2>2. M \in Meanings
    BY <1>1, <2>1, MeaningsType
  <2> QED
    BY <1>1, <2>2 DEF ArgsInv, SectionsInv
<1>3. PICK q \in T!Insert(Section(s), n) :
        r = IF ~q.ok THEN [t |-> q.t, sysargs |-> sysargs[s], ok |-> FALSE, got |-> {}]
            ELSE LET bound == IF args = NoArgs THEN [ok |-> TRUE, got |-> {}]
                              ELSE Bound(usrargs[s][EntryOf(q.t)], args)
                 IN [t |-> q.t, ok |-> bound.ok, got |-> bound.got,
                     sysargs |-> IF args = NoArgs THEN sysargs[s]
                                 ELSE [sysargs[s] EXCEPT ![q.at] = args]]
  BY Zenon DEF Registered
<1>4. q \in T!Insert(Opened(t), n)
  BY <1>1, <1>3 DEF Section, Opened
<1>5. /\ Kept(q.t) /\ Tally(q.t, usr, M)
      /\ IF q.ok THEN \A o \in Options : usr[EntryOf(q.t)][o] = M[n][o]
         ELSE Filled(q.t) /\ \A p \in T!Live(q.t) : q.t.cells[p] # n
  BY <1>2, <1>4, TallyRegister
<1>6. ASSUME NEW x, NoRoomFor(t, x) PROVE NoRoomFor(q.t, x)
  <2>1. /\ T!Exists(q.t) /\ \A p \in T!Live(t) : q.t.cells[p] = t.cells[p]
        /\ Filled(t) => T!Live(q.t) = T!Live(t)
    BY <1>2, <1>4, KeptInsert
  <2> QED
    BY <1>6, <2>1 DEF NoRoomFor, Filled
<1>7. r.t = q.t
  BY <1>3
<1>8. CASE ~q.ok
  <2>1. NoRoomFor(r.t, n)
    BY <1>5, <1>7, <1>8 DEF NoRoomFor
  <2>2. r.ok = FALSE /\ r.got = {}
    BY <1>3, <1>8, Zenon
  <2> QED
    BY <1>1, <1>5, <1>6, <1>7, <2>1, <2>2 DEF SectionSettled
<1>9. CASE q.ok /\ args = NoArgs
  <2>1. r.ok = TRUE /\ r.got = {}
    BY <1>3, <1>9, Zenon
  <2>2. Answer(args, TRUE, {}, M[n])
    BY <1>9 DEF Answer
  <2> QED
    BY <1>1, <1>5, <1>6, <1>7, <2>1, <2>2 DEF SectionSettled
<1>10. CASE q.ok /\ args # NoArgs
  <2>1. PICK ur : ur = usrargs[s][EntryOf(q.t)]
    OBVIOUS
  <2>2. r.ok = Bound(ur, args).ok /\ r.got = Bound(ur, args).got
    BY <1>3, <1>10, <2>1, Zenon
  <2>3. PICK mn : mn = M[n]
    OBVIOUS
  <2>4. \A o \in Options : ur[o] = mn[o]
    BY <1>1, <1>5, <1>10, <2>1, <2>3
  <2>5. Answer(args, Bound(ur, args).ok, Bound(ur, args).got, mn)
    BY <1>10, <2>4, BoundAnswers DEF OptionsIn
  <2>6. Answer(args, r.ok, r.got, MeantIn(s)[n])
    BY <1>1, <2>2, <2>3, <2>5, Zenon
  <2> QED
    BY <1>1, <1>5, <1>6, <1>7, <2>6 DEF SectionSettled
<1> QED
  BY <1>8, <1>9, <1>10

\* args_unregister
LEMMA UnregisterSettles ==
  ASSUME NEW s, NEW t, SectionSettled(s, t), NEW n, NEW sys,
         NEW u, u = Unregistered(t, sys, n)
  PROVE  /\ SectionSettled(s, u.t)
         /\ \A x : NoRoomFor(t, x) => NoRoomFor(u.t, x)
<1>1. PICK f : f = T!Search(t, n)
  OBVIOUS
<1>2. u.t = f.t
  BY <1>1 DEF Unregistered
<1>3. Kept(f.t) /\ Tally(f.t, usrargs[s], MeantIn(s))
  BY <1>1, TallySearch DEF SectionSettled
<1>4. \A x : NoRoomFor(t, x) => NoRoomFor(f.t, x)
  <2>1. /\ T!Live(f.t) = T!Live(t) /\ f.t.cells = t.cells
        /\ T!Exists(f.t) = T!Exists(t)
    BY <1>1, KeptSearch DEF SectionSettled
  <2> QED
    BY <2>1 DEF NoRoomFor, Filled
<1> QED
  BY <1>2, <1>3, <1>4 DEF SectionSettled

LEMMA SettledNow ==
  ASSUME ArgsInv, parsed = "OK", NEW s \in Sections
  PROVE  SectionSettled(s, sectab[s])
BY DEF ArgsInv, SectionsInv, SectionSettled

LEMMA ArgsRegisterStep ==
  ASSUME ArgsInv, NEW c \in Callers, ArgsRegister(c)
  PROVE  ArgsInv'
<1>1. PICK r \in Registered(c.section, c.name, c.args) :
        /\ Called(c.section, c.name, c.args, r)
        /\ sectab' = [sectab EXCEPT ![c.section] = r.t]
  BY DEF ArgsRegister
<1>2. parsed = "OK" /\ UNCHANGED <<parseVars, usrargs>>
  BY DEF ArgsRegister
<1>3. c.section \in Sections /\ c.name \in Names /\ OptionsIn(c.args)
  BY ArgsAssumption DEF OptionsIn
<1>4. /\ SectionSettled(c.section, r.t)
      /\ NoRoomFor(r.t, c.name) \/ Answer(c.args, r.ok, r.got, MeantIn(c.section)[c.name])
  BY <1>1, <1>2, <1>3, RegisterSettles
<1>5. /\ calls' \in 0..Calls /\ call'.section = c.section /\ call'.name = c.name
      /\ call'.args = c.args /\ call'.ok = r.ok /\ call'.got = r.got
  <2>1. calls \in 0..Calls /\ Calls \in Nat /\ calls < Calls /\ calls' = calls + 1
    BY <1>1, ArgsAssumption DEF ArgsInv, CallInv, Called
  <2>2. call' = [section |-> c.section, name |-> c.name, args |-> c.args, ok |-> r.ok,
                 got |-> r.got]
    BY <1>1 DEF Called
  <2>3. call'.ok = r.ok
    BY <2>2, Zenon
  <2> QED
    BY <2>1, <2>2, <2>3
<1> QED
  BY <1>1, <1>2, <1>3, <1>4, <1>5, SettledStep

LEMMA ArgsUnregisterStep ==
  ASSUME ArgsInv, NEW c \in Callers, ArgsUnregister(c)
  PROVE  ArgsInv'
<1>1. PICK u : u = Unregistered(sectab[c.section], sysargs[c.section], c.name)
  OBVIOUS
<1>2. /\ parsed = "OK" /\ UNCHANGED <<parseVars, usrargs>> /\ UNCHANGED <<call, calls>>
      /\ sectab' = [sectab EXCEPT ![c.section] = u.t]
  BY <1>1 DEF ArgsUnregister
<1>3. c.section \in Sections
  BY ArgsAssumption
<1>4. SectionSettled(c.section, u.t)
  BY <1>1, <1>2, <1>3, SettledNow, UnregisterSettles
<1> QED
  BY <1>2, <1>3, <1>4, SettledStep

LEMMA ArgsStep ==
  ASSUME ArgsInv, NEW callers \in SUBSET Callers, ArgsNext(callers)
  PROVE  ArgsInv'
<1>1. ASSUME NEW s \in Letters, StartSection(s) PROVE ArgsInv'
  BY <1>1, StartSectionStep
<1>2. ASSUME NEW o \in Options, FoundOption(o) PROVE ArgsInv'
  BY <1>2, FoundOptionStep
<1>3. ASSUME EndParsing \/ Invalid PROVE ArgsInv'
  BY <1>3, ParsedStep
<1>4. ASSUME ArgsFini PROVE ArgsInv'
  BY <1>4, ArgsFiniStep
<1>5. ASSUME NEW c \in callers, ArgsRegister(c) PROVE ArgsInv'
  BY <1>5, ArgsRegisterStep
<1>6. ASSUME NEW c \in callers, ArgsUnregister(c) PROVE ArgsInv'
  BY <1>6, ArgsUnregisterStep
<1> QED
  BY <1>1, <1>2, <1>3, <1>4, <1>5, <1>6 DEF ArgsNext, ParseNext

LEMMA ArgsStutter ==
  ASSUME ArgsInv, UNCHANGED <<argv, i, section, name, parsed, sectab, usrargs, call, calls>>
  PROVE  ArgsInv'
<1>1. \A s : MeantIn(s)' = MeantIn(s)
  BY MeantKept
<1>2. PositionInv'
  <2>1. SectionAt(i)' = SectionAt(i)
    BY DEF SectionAt
  <2> QED
    BY <2>1 DEF ArgsInv, PositionInv
<1>3. SectionsInv'
  BY <1>1 DEF ArgsInv, SectionsInv
<1>4. CallInv'
  BY <1>1 DEF ArgsInv, CallInv
<1> QED
  BY <1>2, <1>3, <1>4 DEF ArgsInv

----------------------------------------------------------------------------
(* What the invariant says of the command line.                            *)

LEMMA InvTypeOK ==
  ASSUME ArgsInv PROVE ArgsTypeOK
<1>1. /\ argv \in Seq(Tokens) /\ i \in 1..(Len(argv) + 1) /\ i \in Nat \ {0} /\ Len(argv) \in Nat
      /\ section \in Sections /\ name \in Names
      /\ parsed \in {"no", "OK", "FAIL", "fini"} /\ calls \in 0..Calls
  BY DEF ArgsInv, PositionInv, CallInv
<1>2. sectab \in [Sections -> T!Table]
  <2>1. \A s \in Sections : sectab[s] \in T!Table
    BY KeptFacts, TAgrees DEF ArgsInv, SectionsInv
  <2> QED
    BY <2>1 DEF ArgsInv, SectionsInv
<1>3. ASSUME NEW s \in Sections, NEW p \in SecSlots, NEW o \in Options
      PROVE  usrargs[s][p][o] \in [found : 0..Len(argv), arg : Given \cup {NoArg}]
  <2>1. usrargs[s][p][o] \in OptionArg
    BY DEF ArgsInv, SectionsInv, UsrArgs
  <2>2. usrargs[s][p][o].found \in 0..Len(argv)
    <3>1. CASE usrargs[s][p] = Unfound
      BY <1>1, <3>1 DEF Unfound
    <3>2. CASE usrargs[s][p] # Unfound
      <4>1. Kept(sectab[s]) /\ Tally(sectab[s], usrargs[s], MeantIn(s))
        BY <3>2 DEF ArgsInv, SectionsInv
      <4>2. PICK n : n = sectab[s].cells[p]
        OBVIOUS
      <4>3. p \in T!Live(sectab[s]) /\ n \in Names
        BY <3>2, <4>1, <4>2, KeptFacts DEF Tally
      <4>4. usrargs[s][p][o] = MeantIn(s)[n][o]
        BY <4>1, <4>2, <4>3 DEF Tally
      <4>5. PICK at : at = GivenBefore(i, s, n, o)
        OBVIOUS
      <4>6. at \in SUBSET (1..(i - 1))
        BY <4>5 DEF GivenBefore
      <4>7. MeantOf(at).found \in 0..(i - 1)
        BY <1>1, <4>6, MeantFacts
      <4>8. MeantIn(s)[n][o] = MeantOf(at)
        BY <4>3, <4>5, MeantIs DEF MeantIn
      <4> QED
        BY <1>1, <4>4, <4>7, <4>8
    <3> QED
      BY <3>1, <3>2
  <2> QED
    BY <2>1, <2>2 DEF OptionArg
<1> QED
  BY <1>1, <1>2, <1>3 DEF ArgsTypeOK

LEMMA InvTally ==
  ASSUME ArgsInv PROVE SectionsTally
<1> SUFFICES ASSUME parsed # "fini", NEW s \in Sections, NEW n \in Names
             PROVE  /\ Cardinality(Entries(s, n)) <= 1
                    /\ \A p \in Entries(s, n), o \in Options :
                         usrargs[s][p][o] = Meant(s, n, o)
                    /\ Entries(s, n) = {} =>
                         Full(s) \/ \A o \in Options : GivenAt(s, n, o) = {}
  BY DEF SectionsTally
<1>1. Kept(sectab[s]) /\ Tally(sectab[s], usrargs[s], MeantIn(s)) /\ i \in Nat \ {0}
  BY DEF ArgsInv, SectionsInv, PositionInv
<1>2. Full(s) = Filled(sectab[s])
  BY DEF Full, Filled
<1>3. Cardinality(Entries(s, n)) <= 1
  <2>1. CASE Entries(s, n) = {}
    BY <2>1, FS_EmptySet
  <2>2. ASSUME NEW p \in Entries(s, n) PROVE Cardinality(Entries(s, n)) <= 1
    <3>1. Entries(s, n) = {p}
      BY <1>1, <2>2 DEF Entries, Tally
    <3> QED
      BY <3>1, FS_Singleton
  <2> QED
    BY <2>1, <2>2
<1>4. ASSUME NEW p \in Entries(s, n), NEW o \in Options
      PROVE  usrargs[s][p][o] = Meant(s, n, o)
  <2>1. PICK t, usr, M : t = sectab[s] /\ usr = usrargs[s] /\ M = MeantIn(s)
    OBVIOUS
  <2>2. p \in T!Live(t) /\ t.cells[p] = n
    BY <1>4, <2>1 DEF Entries
  <2>3. usr[p][o] = M[t.cells[p]][o]
    BY <1>1, <1>4, <2>1, <2>2 DEF Tally
  <2>4. M[n][o] = Meant(s, n, o)
    BY <1>4, <2>1 DEF MeantIn
  <2> QED
    BY <2>1, <2>2, <2>3, <2>4
<1>5. ASSUME Entries(s, n) = {}, ~Full(s), NEW o \in Options
      PROVE  GivenAt(s, n, o) = {}
  <2>1. \A p \in T!Live(sectab[s]) : sectab[s].cells[p] # n
    BY <1>5 DEF Entries
  <2>2. MeantIn(s)[n][o] = Unfound[o]
    BY <1>1, <1>2, <1>5, <2>1 DEF Tally
  <2>3. PICK at : at = GivenBefore(i, s, n, o)
    OBVIOUS
  <2>4. at \in SUBSET (1..(i - 1)) /\ at = GivenAt(s, n, o)
    BY <2>3 DEF GivenBefore, GivenAt
  <2>5. MeantOf(at).found = 0 <=> at = {}
    BY <1>1, <2>4, MeantFacts
  <2>6. MeantOf(at) = Unfound[o]
    BY <2>2, <2>3, MeantIs DEF MeantIn
  <2> QED
    BY <2>4, <2>5, <2>6 DEF Unfound
<1> QED
  BY <1>3, <1>4, <1>5

LEMMA InvBound ==
  ASSUME ArgsInv PROVE BoundAsGiven
<1>1. PICK s, n, args : s = call.section /\ n = call.name /\ args = call.args
  OBVIOUS
<1> SUFFICES ASSUME parsed # "fini", calls > 0, ~(Full(s) /\ Entries(s, n) = {})
             PROVE  BoundAsGiven
  BY <1>1 DEF BoundAsGiven
<1>2. PICK M : M = MeantIn(s)[n]
  OBVIOUS
<1>3. /\ s \in Sections /\ n \in Names /\ OptionsIn(args)
      /\ NoRoomFor(sectab[s], n) \/ Answer(args, call.ok, call.got, M)
  BY <1>1, <1>2 DEF ArgsInv, CallInv
<1>4. ~NoRoomFor(sectab[s], n)
  BY DEF NoRoomFor, Filled, Full, Entries
<1>5. PICK declared : declared = IF args = NoArgs THEN {} ELSE {args[k] : k \in 1..Len(args)}
  OBVIOUS
<1>6. \A x \in declared : M[x.option] = Meant(s, n, x.option)
  BY <1>2, <1>3, <1>5 DEF OptionsIn, MeantIn
<1>7. PICK there : there = {x \in declared : M[x.option].found > 0}
  OBVIOUS
<1>8. PICK handed : handed =
        {[option |-> x.option, arg |-> M[x.option].arg, found |-> M[x.option].found] :
           x \in there}
  OBVIOUS
<1>9. /\ call.ok <=> \A x \in there : Binds(x, M[x.option])
      /\ IF call.ok THEN call.got = handed ELSE call.got \subseteq handed
  BY <1>3, <1>4, <1>5, <1>7, <1>8, Zenon DEF Answer
<1>10. there = {x \in declared : Meant(s, n, x.option).found > 0}
  BY <1>6, <1>7
<1>11. handed = {[option |-> x.option, arg |-> Meant(s, n, x.option).arg,
                  found |-> Meant(s, n, x.option).found] : x \in there}
  BY <1>6, <1>7, <1>8
<1>12. ASSUME NEW x \in there
       PROVE  Binds(x, M[x.option]) <=>
                /\ x.lone => Cardinality(GivenAt(s, n, x.option)) = 1
                /\ Meant(s, n, x.option).arg = NoArg => ~x.needs
                /\ Meant(s, n, x.option).arg # NoArg =>
                     x.takes /\ Meant(s, n, x.option).arg \notin x.refuses
  <2>1. PICK m, c : m = M[x.option] /\ c = Cardinality(GivenAt(s, n, x.option))
    OBVIOUS
  <2>2. m = Meant(s, n, x.option) /\ m.found = c
    <3>1. Meant(s, n, x.option).found = Cardinality(GivenAt(s, n, x.option))
      BY Zenon DEF Meant
    <3> QED
      BY <1>6, <1>7, <2>1, <3>1
  <2>3. c \in Nat /\ c > 0
    <3>1. i \in Nat \ {0}
      BY DEF ArgsInv, PositionInv
    <3>2. PICK at : at = GivenBefore(i, s, n, x.option)
      OBVIOUS
    <3>3. at \in SUBSET (1..(i - 1))
      BY <3>2 DEF GivenBefore
    <3>4. MeantOf(at) \in OptionArg
      BY <3>1, <3>3, MeantFacts
    <3> QED
      BY <1>7, <2>1, <2>2, <3>2, <3>4, MeantIs DEF OptionArg
  <2>4. m.found <= 1 <=> c = 1
    BY <2>2, <2>3
  <2>5. Binds(x, m) <=> /\ x.lone => c = 1
                        /\ m.arg = NoArg => ~x.needs
                        /\ m.arg # NoArg => x.takes /\ m.arg \notin x.refuses
    BY <2>4, Zenon DEF Binds
  <2> QED
    BY <2>1, <2>2, <2>5, Zenon
<1>13. call.ok <=> \A x \in there :
         /\ x.lone => Cardinality(GivenAt(s, n, x.option)) = 1
         /\ Meant(s, n, x.option).arg = NoArg => ~x.needs
         /\ Meant(s, n, x.option).arg # NoArg =>
              x.takes /\ Meant(s, n, x.option).arg \notin x.refuses
  BY <1>9, <1>12, Zenon
<1> QED
  BY <1>1, <1>5, <1>9, <1>10, <1>11, <1>13 DEF BoundAsGiven
=============================================================================
