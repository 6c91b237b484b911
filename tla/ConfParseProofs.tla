--------------------------- MODULE ConfParseProofs ---------------------------
(***************************************************************************)
(* The arguments and the configuration together: what the sections hold,   *)
(* which file is read, whose memory is whose and what is read in it, for   *)
(* any command line, declarations and file and whoever registers.          *)
(***************************************************************************)
EXTENDS ConfParse, ArgsSectionsProofs

----------------------------------------------------------------------------
(* The file.                                                               *)

FileMeant == MeantIn(ConfLetter)[NoName][FileOption].arg
FileInv ==
  /\ conf \in {"closed", "open"}
  /\ parsed = "no" => conf = "closed" /\ file = DefaultFile
  /\ file = DefaultFile \/ (FileMeant # NoArg /\ file = FileMeant)
  /\ conf = "open" => file = IF FileMeant = NoArg THEN DefaultFile ELSE FileMeant

WorldInv == world \in Worlds
FilesInv == WorldInv /\ ArgsInv /\ FileInv

\* What the names of section C are.
LEMMA ConfNames ==
  /\ ConfLetter \in Sections /\ NoName \in Names /\ FileOption \in Options
  /\ OptionsIn(LArgs)
<1>1. Len(LArgs) = 1 /\ LArgs[1].option = FileOption
  BY DEF LArgs
<1> QED
  BY <1>1, ConfAssumption DEF Sections, Names, OptionsIn

LEMMA FilesInit == Init => FilesInv
<1> SUFFICES ASSUME Init PROVE FilesInv
  OBVIOUS
<1>1. world \in Worlds /\ argv \in Seq(Tokens) /\ ArgsStart
  BY ConfAssumption DEF Init
<1>2. ArgsInv
  BY <1>1, ArgsInit
<1> QED
  BY <1>1, <1>2 DEF Init, FilesInv, WorldInv, FileInv

\* The answer to conf_init gives the file.
LEMMA AnswerGivesFile ==
  ASSUME NEW ok, NEW got, NEW M, M[FileOption] \in OptionArg,
         M[FileOption].found = 0 => M[FileOption].arg = NoArg,
         Answer(LArgs, ok, got, M)
  PROVE  LET arg == M[FileOption].arg IN
         /\ FileGiven(got) = file \/ (arg # NoArg /\ FileGiven(got) = arg)
         /\ ok => FileGiven(got) = IF arg = NoArg THEN file ELSE arg
<1>1. PICK x : x = LArgs[1]
  OBVIOUS
<1>2. Len(LArgs) = 1 /\ x.option = FileOption /\ {LArgs[k] : k \in 1..Len(LArgs)} = {x}
  <2>1. Len(LArgs) = 1 /\ x.option = FileOption
    BY <1>1 DEF LArgs
  <2>2. 1..Len(LArgs) = {1}
    BY <2>1
  <2> QED
    BY <1>1, <2>1, <2>2
<1>3. PICK m, there : m = M[FileOption] /\ there = {y \in {x} : M[y.option].found > 0}
  OBVIOUS
<1>4. PICK h : h = [option |-> FileOption, arg |-> m.arg, found |-> m.found]
  OBVIOUS
<1>5. /\ got \subseteq {h} /\ (m.found = 0 => got = {})
      /\ ok /\ m.found > 0 => got = {h}
  <2>1. PICK handed : handed = {[option |-> y.option, arg |-> M[y.option].arg,
                                 found |-> M[y.option].found] : y \in there}
    OBVIOUS
  <2>2. IF ok THEN got = handed ELSE got \subseteq handed
    BY <1>2, <1>3, <2>1, ConfAssumption DEF Answer
  <2>3. handed = IF m.found > 0 THEN {h} ELSE {}
    BY <1>2, <1>3, <1>4, <2>1
  <2>4. m.found \in Nat
    BY <1>3 DEF OptionArg
  <2> QED
    BY <2>2, <2>3, <2>4
<1>6. PICK with : with = {g \in got : g.arg # NoArg}
  OBVIOUS
<1>7. with = {} \/ (with = {h} /\ m.arg # NoArg)
  BY <1>4, <1>5, <1>6
<1>8. ok => (with = {} <=> m.arg = NoArg)
  BY <1>3, <1>4, <1>5, <1>6 DEF OptionArg
<1>9. with = {} => FileGiven(got) = file
  BY <1>6 DEF FileGiven
<1>10. with = {h} => FileGiven(got) = m.arg
  <2> SUFFICES ASSUME with = {h} PROVE FileGiven(got) = m.arg
    OBVIOUS
  <2>1. PICK c : c = CHOOSE g \in with : TRUE
    OBVIOUS
  <2>2. c = h
    BY <2>1
  <2>3. FileGiven(got) = c.arg
    BY <1>6, <2>1 DEF FileGiven
  <2> QED
    BY <1>4, <2>2, <2>3
<1> QED
  BY <1>3, <1>7, <1>8, <1>9, <1>10

\* What the section of the configuration means for -f is kept once parsing is done.
LEMMA FileMeantKept ==
  ASSUME UNCHANGED <<argv, i>> PROVE FileMeant' = FileMeant
<1>1. PICK C : C = ConfLetter
  OBVIOUS
<1>2. MeantIn(C)' = MeantIn(C)
  BY MeantKept
<1> QED
  BY <1>1, <1>2 DEF FileMeant

LEMMA FileMeantType ==
  ASSUME ArgsInv
  PROVE  LET m == MeantIn(ConfLetter)[NoName][FileOption] IN
         m \in OptionArg /\ (m.found = 0 => m.arg = NoArg)
<1>1. i \in Nat \ {0}
  BY DEF ArgsInv, PositionInv
<1>2. PICK at : at = GivenBefore(i, ConfLetter, NoName, FileOption)
  OBVIOUS
<1>3. at \in SUBSET (1..(i - 1))
  BY <1>2 DEF GivenBefore
<1>4. MeantIn(ConfLetter)[NoName][FileOption] = MeantOf(at)
  BY <1>2, MeantIs, ConfNames DEF MeantIn
<1>5. /\ MeantOf(at) \in OptionArg /\ (MeantOf(at).found = 0 <=> at = {})
      /\ MeantOf({}) = Unfound[FileOption]
  BY <1>1, <1>3, MeantFacts, ConfNames
<1> QED
  BY <1>4, <1>5, ConfNames DEF Unfound

LEMMA FilesStep == FilesInv /\ [Next]_vars => FilesInv'
<1> SUFFICES ASSUME FilesInv, [Next]_vars PROVE FilesInv'
  OBVIOUS
<1> USE DEF FilesInv
<1>1. CASE Arguments
  <2>1. ArgsNext(world.callers) /\ UNCHANGED <<world, conf, file>>
    BY <1>1 DEF Arguments, confVars
  <2>2. world.callers \in SUBSET Callers
    BY ConfAssumption DEF WorldInv
  <2>3. ArgsInv'
    BY <2>1, <2>2, ArgsStep
  <2>4. CASE parsed = "no"
    <3>1. parsed' = "no" => conf' = "closed" /\ file' = DefaultFile
      BY <2>1, <2>4 DEF FileInv
    <3> QED
      BY <2>1, <2>3, <2>4 DEF FileInv, WorldInv
  <2>5. CASE parsed # "no"
    <3>1. UNCHANGED <<argv, i>> /\ parsed' # "no"
      BY <2>1, <2>5 DEF ArgsNext, ParseNext, StartSection, FoundOption, EndParsing, Invalid,
         Parsing, Parsed, ArgsFini, ArgsRegister, ArgsUnregister, parseVars
    <3>2. FileMeant' = FileMeant
      BY <3>1, FileMeantKept
    <3> QED
      BY <2>1, <2>3, <3>1, <3>2 DEF FileInv, WorldInv
  <2> QED
    BY <2>4, <2>5
<1>2. CASE ConfInit
  <2>1. PICK r \in Registered(ConfLetter, NoName, LArgs) :
          LET undone == Unregistered(r.t, r.sysargs, NoName) IN
          /\ Called(ConfLetter, NoName, LArgs, r)
          /\ file' = FileGiven(r.got)
          /\ \/ r.ok /\ conf' = "open" /\ sectab' = [sectab EXCEPT ![ConfLetter] = r.t]
             \/ r.ok /\ conf' = "closed" /\ sectab' = [sectab EXCEPT ![ConfLetter] = undone.t]
             \/ ~r.ok /\ conf' = "closed" /\ sectab' = [sectab EXCEPT ![ConfLetter] = r.t]
    BY <1>2 DEF ConfInit
  <2>2. parsed = "OK" /\ UNCHANGED <<parseVars, usrargs, world>>
    BY <1>2 DEF ConfInit, Idle
  <2>3. UNCHANGED <<argv, i, parsed>>
    BY <2>2 DEF parseVars
  <2>4. /\ SectionSettled(ConfLetter, r.t)
        /\ \/ NoRoomFor(r.t, NoName) /\ ~r.ok /\ r.got = {}
           \/ Answer(LArgs, r.ok, r.got, MeantIn(ConfLetter)[NoName])
    BY <2>1, <2>2, ConfNames, RegisterSettles
  <2>5. PICK u : u = Unregistered(r.t, r.sysargs, NoName)
    OBVIOUS
  <2>6. SectionSettled(ConfLetter, u.t) /\ \A x : NoRoomFor(r.t, x) => NoRoomFor(u.t, x)
    BY <2>4, <2>5, UnregisterSettles
  <2>7. /\ calls' \in 0..Calls /\ call'.section = ConfLetter /\ call'.name = NoName
        /\ call'.args = LArgs /\ call'.ok = r.ok /\ call'.got = r.got
    <3>1. calls \in 0..Calls /\ Calls \in Nat /\ calls < Calls /\ calls' = calls + 1
      BY <2>1, ArgsAssumption DEF ArgsInv, CallInv, Called
    <3>2. call' = [section |-> ConfLetter, name |-> NoName, args |-> LArgs, ok |-> r.ok,
                   got |-> r.got]
      BY <2>1 DEF Called
    <3>3. call'.ok = r.ok
      BY <3>2, Zenon
    <3> QED
      BY <3>1, <3>2, <3>3
  <2>8. PICK t \in {r.t, u.t} : sectab' = [sectab EXCEPT ![ConfLetter] = t]
    BY <2>1, <2>5
  <2>9. /\ SectionSettled(ConfLetter, t)
        /\ \/ NoRoomFor(t, NoName)
           \/ Answer(LArgs, r.ok, r.got, MeantIn(ConfLetter)[NoName])
    BY <2>4, <2>6, <2>8
  <2>10. ArgsInv'
    BY <2>2, <2>7, <2>8, <2>9, ConfNames, SettledStep
  <2>11. FileMeant' = FileMeant
    BY <2>3, FileMeantKept
  <2>12. FileInv'
    <3>1. CASE NoRoomFor(r.t, NoName) /\ ~r.ok /\ r.got = {}
      <4>1. {g \in r.got : g.arg # NoArg} = {}
        BY <3>1
      <4>2. file' = file
        BY <2>1, <4>1 DEF FileGiven
      <4>3. conf' = "closed"
        BY <2>1, <3>1
      <4> QED
        BY <2>2, <2>3, <2>11, <4>2, <4>3 DEF FileInv
    <3>2. CASE Answer(LArgs, r.ok, r.got, MeantIn(ConfLetter)[NoName])
      <4>1. PICK M : M = MeantIn(ConfLetter)[NoName]
        OBVIOUS
      <4>2. /\ M[FileOption] \in OptionArg /\ (M[FileOption].found = 0 => M[FileOption].arg = NoArg)
            /\ FileMeant = M[FileOption].arg
        BY <4>1, FileMeantType DEF FileMeant
      <4>3. PICK fm : fm = FileMeant
        OBVIOUS
      <4>4. /\ file' = file \/ (fm # NoArg /\ file' = fm)
            /\ r.ok => file' = IF fm = NoArg THEN file ELSE fm
        BY <2>1, <3>2, <4>1, <4>2, <4>3, AnswerGivesFile
      <4>5. conf' \in {"closed", "open"} /\ (conf' = "open" => r.ok)
        BY <2>1
      <4>6. fm = NoArg => file = DefaultFile
        BY <4>3 DEF FileInv
      <4>7. file = DefaultFile \/ (fm # NoArg /\ file = fm)
        BY <4>3 DEF FileInv
      <4>8. parsed' # "no" /\ FileMeant' = fm
        BY <2>2, <2>3, <2>11, <4>3
      <4> QED
        BY <4>4, <4>5, <4>6, <4>7, <4>8 DEF FileInv
    <3> QED
      BY <2>4, <3>1, <3>2
  <2> QED
    BY <2>2, <2>10, <2>12 DEF WorldInv
<1>3. CASE ConfFini
  <2>1. PICK u : u = Unregistered(sectab[ConfLetter], sysargs[ConfLetter], NoName)
    OBVIOUS
  <2>2. /\ parsed = "OK" /\ UNCHANGED <<parseVars, usrargs, call, calls, world, file>>
        /\ conf' = "closed" /\ sectab' = [sectab EXCEPT ![ConfLetter] = u.t]
    BY <1>3, <2>1 DEF ConfFini, Idle
  <2>3. SectionSettled(ConfLetter, u.t)
    BY <2>1, <2>2, ConfNames, SettledNow, UnregisterSettles
  <2>4. ArgsInv'
    BY <2>2, <2>3, ConfNames, SettledStep
  <2>5. UNCHANGED <<argv, i, parsed>>
    BY <2>2 DEF parseVars
  <2>6. FileMeant' = FileMeant
    BY <2>5, FileMeantKept
  <2> QED
    BY <2>2, <2>4, <2>5, <2>6 DEF FileInv, WorldInv
<1>4. CASE ParseCall \/ ParseDecl \/ ConfRelease \/ UNCHANGED vars
  <2>1. UNCHANGED <<argsVars, world, confVars>>
    BY <1>4 DEF ParseCall, ParseDecl, ConfRelease, Quiet, vars
  <2>2. UNCHANGED <<argv, i, section, name, parsed, sectab, usrargs, call, calls, world,
                    conf, file>>
    BY <2>1 DEF argsVars, parseVars, sectionVars, confVars
  <2>3. ArgsInv' /\ FileMeant' = FileMeant
    BY <2>2, ArgsStutter, FileMeantKept
  <2> QED
    BY <2>2, <2>3 DEF FileInv, WorldInv
<1> QED
  BY <1>1, <1>2, <1>3, <1>4 DEF Next

LEMMA FilesAlways == Spec => []FilesInv
BY FilesInit, FilesStep, PTL DEF Spec

\* Each name of a section has one entry, with what the command line read so far
\* gives it, for command lines of any length and tables of any size.
\* (parse_args, insert_args, update_on_constrains)
THEOREM SectionsTallyAlways == Spec => []SectionsTally
<1>1. FilesInv => SectionsTally
  BY InvTally DEF FilesInv
<1> QED
  BY <1>1, FilesAlways, PTL

\* Whoever registers gets what the command line gives to its section and name,
\* whatever was registered before. (args_register, bind_args)
THEOREM BoundAsGivenAlways == Spec => []BoundAsGiven
<1>1. FilesInv => BoundAsGiven
  BY InvBound DEF FilesInv
<1> QED
  BY <1>1, FilesAlways, PTL

\* The file that is read is the last that -f names in the section of the
\* configuration, or the default. (conf_init, get_args_conf_file)
THEOREM FileIsLastGivenAlways == Spec => []FileIsLastGiven
<1>1. FilesInv => FileIsLastGiven
  <2> SUFFICES ASSUME FilesInv PROVE FileIsLastGiven
    OBVIOUS
  <2>1. FileMeant = Meant(ConfLetter, NoName, FileOption).arg
    BY ConfNames DEF FileMeant, MeantIn
  <2> QED
    BY <2>1 DEF FilesInv, FileInv, FileIsLastGiven
<1> QED
  BY <1>1, FilesAlways, PTL

----------------------------------------------------------------------------
(* Numbers.                                                                *)

\* 2^n
Runs(p, j) == p = [k \in 0..j |-> IF k = 0 THEN 1 ELSE 2 * p[k - 1]]

LEMMA TwoToIs ==
  ASSUME NEW n \in Nat
  PROVE  \E p : Runs(p, n) /\ TwoTo(n) = p[n]
<1> DEFINE Reached == {j \in Nat : \E p : Runs(p, j)}
<1>1. 0 \in Reached
  <2> DEFINE p == [k \in 0..0 |-> 1]
  <2>1. Runs(p, 0)
    BY DEF Runs
  <2> HIDE DEF p
  <2> QED
    BY <2>1
<1>2. ASSUME NEW j \in Reached PROVE j + 1 \in Reached
  <2>1. PICK p : Runs(p, j)
    OBVIOUS
  <2> DEFINE q == [k \in 0..(j + 1) |-> IF k = j + 1 THEN 2 * p[j] ELSE p[k]]
  <2>2. j \in Nat /\ q = [k \in 0..(j + 1) |-> q[k]]
    OBVIOUS
  <2>3. ASSUME NEW k \in 0..(j + 1) PROVE q[k] = IF k = 0 THEN 1 ELSE 2 * q[k - 1]
    <3>1. CASE k = j + 1
      <4>1. k # 0 /\ k - 1 = j /\ j \in 0..(j + 1) /\ j # j + 1
        BY <2>2, <3>1
      <4> QED
        BY <3>1, <4>1
    <3>2. CASE k # j + 1
      <4>1. k \in 0..j /\ q[k] = p[k]
        BY <2>2, <3>2
      <4>2. k # 0 => q[k - 1] = p[k - 1]
        BY <2>2, <4>1
      <4>3. p[k] = IF k = 0 THEN 1 ELSE 2 * p[k - 1]
        BY <2>1, <4>1 DEF Runs
      <4> HIDE DEF q
      <4> QED
        BY <4>1, <4>2, <4>3
    <3> QED
      BY <3>1, <3>2
  <2> HIDE DEF q
  <2>4. Runs(q, j + 1)
    BY <2>2, <2>3 DEF Runs
  <2> QED
    BY <2>4
<1> HIDE DEF Reached
<1>3. Reached = Nat
  <2>1. Reached \in SUBSET Nat
    BY DEF Reached
  <2> QED
    BY <1>1, <1>2, <2>1, TableConstants, TP!AllNaturals
<1>4. PICK p : p = CHOOSE q : Runs(q, n)
  OBVIOUS
<1>5. Runs(p, n)
  BY <1>3, <1>4 DEF Reached
<1>6. TwoTo(n) = p[n]
  BY <1>4 DEF TwoTo, Runs
<1> QED
  BY <1>5, <1>6

LEMMA TwoToType == \A n \in Nat : TwoTo(n) \in Nat \ {0}
<1> SUFFICES ASSUME NEW n \in Nat PROVE TwoTo(n) \in Nat \ {0}
  OBVIOUS
<1>1. PICK p : Runs(p, n) /\ TwoTo(n) = p[n]
  BY TwoToIs
<1> DEFINE S == {j \in Nat : j <= n => p[j] \in Nat \ {0}}
<1>2. 0 \in S
  BY <1>1 DEF Runs
<1>3. ASSUME NEW j \in S PROVE j + 1 \in S
  <2>1. j + 1 <= n => p[j + 1] = 2 * p[j]
    BY <1>1 DEF Runs
  <2> QED
    BY <2>1
<1>4. S = Nat
  <2> HIDE DEF S
  <2>1. S \in SUBSET Nat
    BY DEF S
  <2> QED
    BY <1>2, <1>3, <2>1, TableConstants, TP!AllNaturals
<1> QED
  BY <1>1, <1>4

\* check_num lets through what the bytes hold.
LEMMA StoredFits ==
  ASSUME NEW d, d.type \in NumTypes, NEW num, Fits(d, num)
  PROVE  Stored(d, num) \in 0..(TwoTo(Width[d.type]) - 1)
<1>1. PICK w, v : w = TwoTo(Width[d.type]) /\ v = TwoTo(Width[d.type] - 1)
  OBVIOUS
<1>2. w \in Nat \ {0} /\ v \in Nat \ {0}
  <2>1. Width[d.type] \in Nat /\ Width[d.type] - 1 \in Nat
    BY ConfAssumption
  <2> QED
    BY <1>1, <2>1, TwoToType
<1>3. num \in Int
  BY <1>1, <1>2 DEF Fits
<1>4. num % w \in 0..(w - 1)
  BY <1>2, <1>3
<1> QED
  BY <1>1, <1>4 DEF Stored

LEMMA TwoToDouble ==
  ASSUME NEW n \in Nat \ {0}
  PROVE  TwoTo(n) = 2 * TwoTo(n - 1)
<1>1. PICK p : Runs(p, n) /\ TwoTo(n) = p[n]
  BY TwoToIs
<1>2. PICK q : Runs(q, n - 1) /\ TwoTo(n - 1) = q[n - 1]
  BY TwoToIs
<1> DEFINE S == {j \in Nat : j <= n - 1 => p[j] = q[j]}
<1>3. 0 \in S
  BY <1>1, <1>2 DEF Runs
<1>4. ASSUME NEW j \in S PROVE j + 1 \in S
  <2>1. j + 1 <= n - 1 => p[j + 1] = 2 * p[j] /\ q[j + 1] = 2 * q[j]
    BY <1>1, <1>2 DEF Runs
  <2> QED
    BY <2>1
<1>5. S = Nat
  <2>1. S \in SUBSET Nat
    OBVIOUS
  <2> HIDE DEF S
  <2> QED
    BY <1>3, <1>4, <2>1, TableConstants, TP!AllNaturals
<1>6. p[n - 1] = q[n - 1]
  <2>1. n - 1 \in S
    BY <1>5
  <2> QED
    BY <2>1
<1>7. p[n] = 2 * p[n - 1]
  BY <1>1 DEF Runs
<1> QED
  BY <1>1, <1>2, <1>6, <1>7

\* What was put down is read back, whatever the width and the sign.
LEMMA ReadBackFits ==
  ASSUME NEW d, d.type \in NumTypes, NEW num, Fits(d, num)
  PROVE  ReadBack(d, Stored(d, num)) = num
<1>1. PICK w, v : w = TwoTo(Width[d.type]) /\ v = TwoTo(Width[d.type] - 1)
  OBVIOUS
<1>2. w = 2 * v /\ v \in Nat \ {0} /\ w \in Nat \ {0}
  <2>1. Width[d.type] \in Nat \ {0} /\ Width[d.type] - 1 \in Nat
    BY ConfAssumption
  <2> QED
    BY <1>1, <2>1, TwoToType, TwoToDouble
<1>3. num \in Int
  BY <1>1, <1>2 DEF Fits
<1>4. CASE num >= 0
  <2>1. num < w
    BY <1>1, <1>2, <1>3 DEF Fits
  <2>2. num % w = num
    BY <1>2, <1>3, <1>4, <2>1
  <2>3. ~d.uns => num < v
    BY <1>1, <1>2, <1>3 DEF Fits
  <2> QED
    BY <1>1, <1>2, <1>3, <2>2, <2>3 DEF ReadBack, Stored
<1>5. CASE num < 0
  <2>1. ~d.uns /\ num >= -v
    BY <1>1, <1>2, <1>3, <1>5 DEF Fits
  <2>2. num % w = num + w
    BY <1>2, <1>3, <1>5, <2>1
  <2> QED
    BY <1>1, <1>2, <1>3, <2>1, <2>2 DEF ReadBack, Stored
<1> QED
  BY <1>3, <1>4, <1>5

----------------------------------------------------------------------------
(* The table of a list.  Its cells may hold zero bytes, so what is proved  *)
(* of the tables of chunks does not tell of it.                            *)

\* A list that only grew, by its tail.
Line(t) ==
  /\ LT!Exists(t) /\ t.head = "live" /\ t.mask = {} /\ t.fragCount = 0
  /\ t.size \in 1..ListMax /\ t.cells = [p \in 0..(t.size - 1) |-> t.cells[p]]
  /\ t.count \in Nat /\ t.last \in Nat /\ t.tail = t.last /\ t.last < t.size
  /\ IF t.count = 0 THEN t.last = 0 ELSE t.count = t.last + 1
  /\ t = [flags |-> t.flags, head |-> t.head, size |-> t.size, pos |-> t.pos,
          last |-> t.last, tail |-> t.tail, count |-> t.count,
          fragCount |-> t.fragCount, mask |-> t.mask, cells |-> t.cells]

LEMMA LineLive ==
  ASSUME NEW t, Line(t)
  PROVE  LT!Live(t) = 0..(t.count - 1) /\ LT!Live(t) \subseteq 0..t.last
<1>1. CASE t.count = 0
  BY <1>1 DEF Line, LT!Live, LT!IsEmpty
<1>2. CASE t.count # 0
  BY <1>2 DEF Line, LT!Live, LT!IsEmpty
<1> QED
  BY <1>1, <1>2

LEMMA NoTableLive == LT!Live(LT!NoTable) = {}
BY DEF LT!Live, LT!IsEmpty, LT!Exists, LT!NoTable

LEMMA LineTake ==
  ASSUME NEW t, Line(t), t.count = 0 \/ t.last + 1 < t.size,
         NEW r, r = LT!TakeTail(t)
  PROVE  /\ Line(r.t) /\ r.ok /\ r.at = t.count /\ r.t.count = t.count + 1
         /\ r.t.cells = t.cells /\ r.t.size = t.size
<1>1. CASE t.count = 0
  <2>1. r = LT!Done(0, [t EXCEPT !.tail = 0, !.count = @ + 1])
    BY <1>1 DEF LT!TakeTail, LT!IsEmpty
  <2>2. r.t = [t EXCEPT !.tail = 0, !.count = 1] /\ r.at = 0 /\ r.ok
    BY <1>1, <2>1 DEF LT!Done
  <2>3. /\ r.t.tail = 0 /\ r.t.last = t.last /\ r.t.pos = t.pos /\ r.t.count = 1
        /\ r.t.flags = t.flags /\ r.t.head = t.head /\ r.t.size = t.size /\ r.t.mask = t.mask
        /\ r.t.fragCount = t.fragCount /\ r.t.cells = t.cells
        /\ r.t = [flags |-> r.t.flags, head |-> r.t.head, size |-> r.t.size, pos |-> r.t.pos,
                  last |-> r.t.last, tail |-> r.t.tail, count |-> r.t.count,
                  fragCount |-> r.t.fragCount, mask |-> r.t.mask, cells |-> r.t.cells]
    <3>1. t = [flags |-> t.flags, head |-> t.head, size |-> t.size, pos |-> t.pos,
               last |-> t.last, tail |-> t.tail, count |-> t.count,
               fragCount |-> t.fragCount, mask |-> t.mask, cells |-> t.cells]
      BY DEF Line
    <3>2. r.t = [t EXCEPT !.tail = 0, !.count = 1]
      BY <2>2
    <3> QED
      BY <3>1, <3>2
  <2> QED
    BY <1>1, <2>2, <2>3 DEF Line, LT!Exists
<1>2. CASE t.count # 0
  <2>1. r = LT!Done(t.tail + 1, [t EXCEPT !.tail = @ + 1, !.last = @ + 1,
                                          !.pos = t.last + 1, !.count = @ + 1])
    BY <1>2 DEF LT!TakeTail, LT!IsEmpty, Line
  <2>2. /\ r.t = [t EXCEPT !.tail = t.last + 1, !.last = t.last + 1, !.pos = t.last + 1,
                           !.count = t.count + 1]
        /\ r.at = t.last + 1 /\ r.ok
    BY <2>1 DEF LT!Done, Line
  <2>3. /\ r.t.tail = t.last + 1 /\ r.t.last = t.last + 1 /\ r.t.pos = t.last + 1
        /\ r.t.count = t.count + 1
        /\ r.t.flags = t.flags /\ r.t.head = t.head /\ r.t.size = t.size /\ r.t.mask = t.mask
        /\ r.t.fragCount = t.fragCount /\ r.t.cells = t.cells
        /\ r.t = [flags |-> r.t.flags, head |-> r.t.head, size |-> r.t.size, pos |-> r.t.pos,
                  last |-> r.t.last, tail |-> r.t.tail, count |-> r.t.count,
                  fragCount |-> r.t.fragCount, mask |-> r.t.mask, cells |-> r.t.cells]
    BY <2>2 DEF Line
  <2> QED
    BY <1>2, <2>2, <2>3 DEF Line, LT!Exists
<1> QED
  BY <1>1, <1>2

LEMMA LineGrow ==
  ASSUME NEW t, Line(t), t.last + 1 >= t.size, NEW r \in LT!ReallocAndMove(t),
         r.ok \/ r.t.head # "freed"
  PROVE  \/ r = LT!Failed(t)
         \/ /\ Line(r.t) /\ r.ok /\ r.t.size > t.size /\ r.t.last = t.last
            /\ r.t.count = t.count /\ \A p \in 0..t.last : r.t.cells[p] = t.cells[p]
<1>1. PICK n : n = LT!GrownSize(t)
  OBVIOUS
<1>2. n \in Nat /\ n <= ListMax /\ t.size \in Nat /\ t.last = t.size - 1
  <2>1. ListMax \in Nat
    BY ConfAssumption DEF Line
  <2>2. t.size \in Nat /\ t.size \div 2 \in Nat
    BY DEF Line
  <2>3. n \in Nat /\ n <= ListMax
    BY <1>1, <2>1, <2>2 DEF LT!GrownSize
  <2> QED
    BY <2>1, <2>2, <2>3 DEF Line
<1> SUFFICES ASSUME r # LT!Failed(t)
             PROVE  /\ Line(r.t) /\ r.ok /\ r.t.size > t.size /\ r.t.last = t.last
                    /\ r.t.count = t.count /\ \A p \in 0..t.last : r.t.cells[p] = t.cells[p]
  OBVIOUS
<1>3. n > t.size
  BY <1>1, <1>2 DEF LT!ReallocAndMove
<1>4. PICK moved \in BOOLEAN, dirt \in SUBSET LT!DirtyBits(t, n) :
        r = LT!Done(LT!Null, LT!Grown(t, n, moved, dirt))
  <2>1. PICK half : half = [t EXCEPT !.head = "freed"]
    OBVIOUS
  <2>2. LT!Failed(half).t = half /\ LT!Failed(half).ok = FALSE
    BY Zenon DEF LT!Failed
  <2>3. half.head = "freed"
    BY <2>1 DEF Line
  <2>4. r # LT!Failed(half)
    BY <2>2, <2>3
  <2> QED
    BY <1>1, <1>2, <1>3, <2>1, <2>4 DEF LT!ReallocAndMove
<1>5. dirt = {}
  BY <1>4 DEF LT!DirtyBits
<1>6. PICK g : g = LT!Grown(t, n, moved, dirt)
  OBVIOUS
<1>7. r.t = g /\ r.ok
  BY <1>4, <1>6 DEF LT!Done
<1>8. PICK cells : cells = [p \in 0..(n - 1) |->
                 IF p \in (t.last + 1)..(t.last + n - t.size) THEN 0
                 ELSE IF p < t.size THEN t.cells[p] ELSE Junk]
  OBVIOUS
<1>9. g = [t EXCEPT !.size = n, !.tail = t.last, !.mask = {}, !.cells = cells]
  <2>1. (IF moved THEN t.last ELSE t.tail) = t.last /\ t.mask = {}
    BY DEF Line
  <2>2. (t.mask \ LT!ClearedBits(t, n)) \cup dirt = {}
    BY <1>5, <2>1
  <2> QED
    BY <1>6, <1>8, <2>1, <2>2 DEF LT!Grown
<1>10. /\ g.size = n /\ g.tail = t.last /\ g.mask = {} /\ g.cells = cells
       /\ g.flags = t.flags /\ g.head = t.head /\ g.pos = t.pos /\ g.last = t.last
       /\ g.count = t.count /\ g.fragCount = t.fragCount
       /\ g = [flags |-> g.flags, head |-> g.head, size |-> g.size, pos |-> g.pos,
               last |-> g.last, tail |-> g.tail, count |-> g.count,
               fragCount |-> g.fragCount, mask |-> g.mask, cells |-> g.cells]
  BY <1>9 DEF Line
<1>11. cells = [p \in 0..(n - 1) |-> cells[p]]
  BY <1>8
<1>12. Line(g)
  BY <1>2, <1>3, <1>10, <1>11 DEF Line, LT!Exists
<1>13. \A p \in 0..t.last : cells[p] = t.cells[p]
  BY <1>2, <1>3, <1>8
<1> QED
  BY <1>2, <1>3, <1>7, <1>10, <1>12, <1>13

\* RATT_TABLE_GET_TAIL_NEXT: the new slot is the one after the last.
LEMMA LineTail ==
  ASSUME NEW t, Line(t), HalfFaults = FALSE, NEW r \in Whole(LT!GetTailNext(t))
  PROVE  /\ Line(r.t) /\ \A p \in LT!Live(t) : r.t.cells[p] = t.cells[p]
         /\ r.ok \in BOOLEAN
         /\ IF r.ok THEN r.at = t.count /\ r.t.count = t.count + 1
            ELSE r.t = t
         /\ t.count < t.size => r.ok /\ r.t.size = t.size
<1>0. r \in LT!GetTailNext(t) /\ r.t.head # "freed"
  BY DEF Whole
<1>1. LT!Live(t) \subseteq 0..t.last
  BY LineLive
<1>2. t.count \in Nat /\ t.last \in Nat /\ t.size \in Nat /\ t.last < t.size
      /\ IF t.count = 0 THEN t.last = 0 ELSE t.count = t.last + 1
  BY DEF Line
<1>3. CASE LT!IsEmpty(t) \/ t.last + 1 < t.size
  <2>1. r = LT!TakeTail(t) /\ (t.count = 0 \/ t.last + 1 < t.size)
    BY <1>0, <1>3 DEF LT!GetTailNext, LT!IsEmpty, Line
  <2>2. r.ok = TRUE
    BY <2>1, Zenon DEF LT!TakeTail, LT!Done
  <2> QED
    BY <2>1, <2>2, LineTake
<1>4. CASE ~(LT!IsEmpty(t) \/ t.last + 1 < t.size)
  <2>1. t.count # 0 /\ ~(t.count < t.size) /\ t.last + 1 >= t.size
    BY <1>2, <1>4 DEF LT!IsEmpty
  <2>2. LT!Failed(t).t = t /\ LT!Failed(t).ok = FALSE
    BY Zenon DEF LT!Failed
  <2>3. CASE r = LT!Failed(t)
    BY <2>1, <2>2, <2>3
  <2>4. CASE r # LT!Failed(t)
    <3>1. PICK g \in LT!ReallocAndMove(t) : r = IF g.ok THEN LT!TakeTail(g.t) ELSE g
      BY <1>0, <1>4, <2>4 DEF LT!GetTailNext
    <3>2. g # LT!Failed(t)
      BY <2>2, <2>4, <3>1
    <3>3. /\ Line(g.t) /\ g.ok /\ g.t.size > t.size /\ g.t.last = t.last
          /\ g.t.count = t.count /\ \A p \in 0..t.last : g.t.cells[p] = t.cells[p]
      <4>1. g.ok \/ g.t.head # "freed"
        BY <1>0, <3>1
      <4> QED
        BY <2>1, <3>2, <4>1, LineGrow
    <3>4. r = LT!TakeTail(g.t)
      BY <3>1, <3>3
    <3>5. r.ok = TRUE
      BY <3>4, Zenon DEF LT!TakeTail, LT!Done
    <3>6. g.t.last + 1 < g.t.size
      BY <1>2, <2>1, <3>3 DEF Line
    <3>7. PICK u : u = g.t
      OBVIOUS
    <3>8. /\ Line(r.t) /\ r.at = u.count /\ r.t.count = u.count + 1 /\ r.t.cells = u.cells
      BY <3>3, <3>4, <3>6, <3>7, LineTake
    <3> QED
      BY <1>1, <2>1, <3>3, <3>5, <3>7, <3>8
  <2> QED
    BY <2>3, <2>4
<1> QED
  BY <1>3, <1>4

----------------------------------------------------------------------------
(* Memory.                                                                 *)

IsStr(k) == world.decls[k].type = "str"
IsList(k) == world.decls[k].list

\* What a value's bytes may hold.
Bytes(k) == IF IsStr(k) THEN 0..Blocks ELSE 0..(TwoTo(Width[world.decls[k].type]) - 1)

MemShape(m) ==
  /\ m = [value |-> m.value, list |-> m.list, heap |-> m.heap, twice |-> m.twice]
  /\ m.value = [k \in Decls |-> m.value[k]] /\ m.list = [k \in Decls |-> m.list[k]]
  /\ DOMAIN m.heap \subseteq 1..Blocks /\ m.twice \in BOOLEAN
  /\ \A k \in Decls : m.value[k] \in Bytes(k)

\* A pointer to block b, at the value of k or in slot p of its list
PointsTo(m, k, p, b) ==
  /\ k \in Decls /\ IsStr(k) /\ b # 0
  /\ IF IsList(k) THEN p \in LT!Live(m.list[k]) /\ b = m.list[k].cells[p]
     ELSE p = LT!Null /\ b = m.value[k]

Accounted(m) ==
  /\ \A k, p, b : PointsTo(m, k, p, b) => b \in DOMAIN m.heap
  /\ \A b \in DOMAIN m.heap : \E k, p : PointsTo(m, k, p, b)
  /\ \A k, p, l, q, b : PointsTo(m, k, p, b) /\ PointsTo(m, l, q, b) => k = l /\ p = q

Tidy(m) ==
  /\ m.twice = FALSE /\ Accounted(m)
  /\ \A k \in Decls : m.list[k] = LT!NoTable \/ (IsList(k) /\ Line(m.list[k]))

\* What holds of mem at every step, if no table is left half allocated.
Sane(m) == MemShape(m) /\ Tidy(m)

\* Nothing but declaration k is touched.
Only(m, m2, k) ==
  \A c \in Decls : c # k => m2.value[c] = m.value[c] /\ m2.list[c] = m.list[c]
HeapKept(m, m2) ==
  \A b \in DOMAIN m.heap : b \in DOMAIN m2.heap /\ m2.heap[b] = m.heap[b]

Clear(m, k) == m.list[k] = LT!NoTable /\ (IsStr(k) /\ ~IsList(k) => m.value[k] = 0)

\* A value can be set.
Ready(m, k) == IF IsList(k) THEN Line(m.list[k]) ELSE Clear(m, k)

Put(t, slot, bits) == [t EXCEPT !.cells[slot] = bits]

LEMMA StrdupFacts ==
  ASSUME NEW m, MemShape(m), NEW str, NEW s \in Strdup(m, str)
  PROVE  \/ s.at = 0 /\ s.heap = m.heap
         \/ /\ s.at \in 1..Blocks /\ s.at \notin DOMAIN m.heap
            /\ DOMAIN s.heap = DOMAIN m.heap \cup {s.at} /\ s.heap[s.at] = str
            /\ \A b \in DOMAIN m.heap : s.heap[b] = m.heap[b]
<1>1. PICK H : H = DOMAIN m.heap
  OBVIOUS
<1>2. CASE s = [at |-> 0, heap |-> m.heap]
  BY <1>2
<1>3. CASE s # [at |-> 0, heap |-> m.heap]
  <2>1. PICK f : f = Fresh(m.heap)
    OBVIOUS
  <2>2. /\ H # 1..Blocks
        /\ s = [at |-> f,
                heap |-> [b \in H \cup {f} |-> IF b \in H THEN m.heap[b] ELSE str]]
    BY <1>1, <1>3, <2>1 DEF Strdup
  <2>3. PICK free : free = (1..Blocks) \ H
    OBVIOUS
  <2>4. free \in SUBSET Nat /\ free # {}
    <3>1. H \subseteq 1..Blocks /\ H # 1..Blocks
      BY <1>1, <2>2 DEF MemShape
    <3>2. free # {}
      BY <2>3, <3>1
    <3> QED
      BY <2>3, <3>2, ConfAssumption
  <2>5. PICK b \in free : \A c \in free : b <= c
    <3>1. PICK b : b = TP!Least(free)
      OBVIOUS
    <3> QED
      BY <2>4, <3>1, TableConstants, TP!LeastIn
  <2>6. b \in 1..Blocks /\ b \notin H /\ \A c \in 1..(b - 1) : c \in H
    BY <2>3, <2>5, ConfAssumption
  <2>7. f \in 1..Blocks /\ f \notin H
    BY <1>1, <2>1, <2>6 DEF Fresh
  <2> QED
    BY <1>1, <2>2, <2>7
<1> QED
  BY <1>2, <1>3

LEMMA WriteFacts ==
  ASSUME NEW m, MemShape(m), NEW k \in Decls, NEW slot, NEW bits \in Bytes(k),
         NEW w, w = Write(m, k, slot, bits)
  PROVE  /\ MemShape(w) /\ w.heap = m.heap /\ w.twice = m.twice /\ Only(m, w, k)
         /\ slot = LT!Null => w.value[k] = bits /\ w.list = m.list
         /\ slot # LT!Null =>
              w.value = m.value /\ w.list[k] = Put(m.list[k], slot, bits)
<1>1. CASE slot = LT!Null
  <2>1. w = [m EXCEPT !.value[k] = bits]
    BY <1>1 DEF Write
  <2>2. /\ w.value = [m.value EXCEPT ![k] = bits] /\ w.list = m.list /\ w.heap = m.heap
        /\ w.twice = m.twice
        /\ w = [value |-> w.value, list |-> w.list, heap |-> w.heap, twice |-> w.twice]
    BY <2>1 DEF MemShape
  <2>3. w.value[k] = bits /\ \A c \in Decls : c # k => w.value[c] = m.value[c]
    BY <2>2 DEF MemShape
  <2>4. w.value = [c \in Decls |-> w.value[c]]
    BY <2>2 DEF MemShape
  <2> QED
    BY <1>1, <2>2, <2>3, <2>4 DEF MemShape, Only
<1>2. CASE slot # LT!Null
  <2>1. w = [m EXCEPT !.list[k].cells[slot] = bits]
    BY <1>2 DEF Write
  <2>2. /\ w.list = [m.list EXCEPT ![k] = [@ EXCEPT !.cells[slot] = bits]]
        /\ w.value = m.value /\ w.heap = m.heap /\ w.twice = m.twice
        /\ w = [value |-> w.value, list |-> w.list, heap |-> w.heap, twice |-> w.twice]
    BY <2>1 DEF MemShape
  <2>3. /\ w.list[k] = Put(m.list[k], slot, bits)
        /\ \A c \in Decls : c # k => w.list[c] = m.list[c]
        /\ w.list = [c \in Decls |-> w.list[c]]
    BY <2>2 DEF MemShape, Put
  <2> QED
    BY <1>2, <2>2, <2>3 DEF MemShape, Only
<1> QED
  BY <1>1, <1>2

\* The table of a declaration changes.
LEMMA ListFacts ==
  ASSUME NEW m, MemShape(m), NEW k \in Decls, NEW t, NEW w, w = [m EXCEPT !.list[k] = t]
  PROVE  /\ MemShape(w) /\ w.heap = m.heap /\ w.twice = m.twice /\ Only(m, w, k)
         /\ w.value = m.value /\ w.list[k] = t
<1>1. /\ w.list = [m.list EXCEPT ![k] = t]
      /\ w.value = m.value /\ w.heap = m.heap /\ w.twice = m.twice
      /\ w = [value |-> w.value, list |-> w.list, heap |-> w.heap, twice |-> w.twice]
  BY DEF MemShape
<1>2. /\ w.list[k] = t /\ \A c \in Decls : c # k => w.list[c] = m.list[c]
      /\ w.list = [c \in Decls |-> w.list[c]]
  BY <1>1 DEF MemShape
<1> QED
  BY <1>1, <1>2 DEF MemShape, Only

----------------------------------------------------------------------------
(* set_value.                                                              *)

\* The value at which src was put down.
Placed(m, o, k, src, bits) ==
  IF IsStr(k)
  THEN \/ ~o.ok /\ bits = 0 /\ DOMAIN o.m.heap = DOMAIN m.heap
       \/ /\ o.ok /\ bits \in 1..Blocks /\ bits \notin DOMAIN m.heap
          /\ DOMAIN o.m.heap = DOMAIN m.heap \cup {bits} /\ o.m.heap[bits] = src
  ELSE /\ o.ok /\ bits = Stored(world.decls[k], src) /\ Fits(world.decls[k], src)
       /\ DOMAIN o.m.heap = DOMAIN m.heap

\* A list got one more value.
Grew(t, u, bits) ==
  /\ Line(u) /\ u.count = t.count + 1 /\ u.cells[t.count] = bits
  /\ \A p \in LT!Live(t) : u.cells[p] = t.cells[p]
  /\ t.count < t.size => u.size = t.size

LEMMA DeclFacts ==
  ASSUME WorldInv, NEW k \in Decls
  PROVE  LET d == world.decls[k] IN
         /\ d.type \in NumTypes <=> ~IsStr(k)
         /\ d.list \in BOOLEAN /\ Len(d.defval) \in Nat /\ (~d.list => Len(d.defval) <= 1)
         /\ Len(world.conf[d.path].elems) \in Nat
         /\ Len(world.decls) \in Nat \ {0} /\ k \in Nat \ {0} /\ k <= Len(world.decls)
<1>1. LET d == world.decls[k] IN
        /\ d.type \in NumTypes \cup {"str"} /\ d.list \in BOOLEAN
        /\ Len(d.defval) \in Nat /\ (~d.list => Len(d.defval) <= 1)
        /\ Len(world.conf[d.path].elems) \in Nat
        /\ Len(world.decls) \in Nat \ {0}
  BY ConfAssumption DEF WorldInv, Decls
<1>2. "str" \notin NumTypes
  BY DEF NumTypes
<1> QED
  BY <1>1, <1>2 DEF IsStr, Decls

LEMMA SetAtFacts ==
  ASSUME WorldInv, NEW m, MemShape(m), NEW k \in Decls, NEW slot, NEW src,
         ~IsStr(k) => Fits(world.decls[k], src), NEW o \in SetAt(m, k, slot, src)
  PROVE  /\ MemShape(o.m) /\ o.m.twice = m.twice /\ Only(m, o.m, k) /\ HeapKept(m, o.m)
         /\ o.ok \in BOOLEAN
         /\ \E bits \in Bytes(k) :
              /\ Placed(m, o, k, src, bits)
              /\ slot = LT!Null => o.m.value[k] = bits /\ o.m.list = m.list
              /\ slot # LT!Null =>
                   /\ o.m.value = m.value
                   /\ o.m.list[k] = Put(m.list[k], slot, bits)
<1>1. CASE ~IsStr(k)
  <2>1. PICK bits : bits = Stored(world.decls[k], src)
    OBVIOUS
  <2>2. o = Good(Write(m, k, slot, bits))
    BY <1>1, <2>1, DeclFacts DEF SetAt
  <2>3. bits \in Bytes(k)
    BY <1>1, <2>1, DeclFacts, StoredFits DEF Bytes
  <2>4. PICK w : w = Write(m, k, slot, bits)
    OBVIOUS
  <2>5. o.m = w /\ o.ok = TRUE
    BY <2>2, <2>4, Zenon DEF Good
  <2>6. /\ MemShape(w) /\ w.heap = m.heap /\ w.twice = m.twice /\ Only(m, w, k)
        /\ slot = LT!Null => w.value[k] = bits /\ w.list = m.list
        /\ slot # LT!Null =>
             w.value = m.value /\ w.list[k] = Put(m.list[k], slot, bits)
    BY <2>3, <2>4, WriteFacts
  <2>7. Placed(m, o, k, src, bits) /\ HeapKept(m, o.m)
    BY <1>1, <2>1, <2>5, <2>6 DEF Placed, HeapKept
  <2> QED
    BY <2>3, <2>5, <2>6, <2>7
<1>2. CASE IsStr(k)
  <2>1. PICK s \in Strdup(m, src) :
          o = [ok |-> s.at # 0, m |-> [Write(m, k, slot, s.at) EXCEPT !.heap = s.heap]]
    BY <1>2, DeclFacts DEF SetAt
  <2>2. PICK bits, w : bits = s.at /\ w = Write(m, k, slot, bits)
    OBVIOUS
  <2>3. \/ bits = 0 /\ s.heap = m.heap
        \/ /\ bits \in 1..Blocks /\ bits \notin DOMAIN m.heap
           /\ DOMAIN s.heap = DOMAIN m.heap \cup {bits} /\ s.heap[bits] = src
           /\ \A b \in DOMAIN m.heap : s.heap[b] = m.heap[b]
    BY <2>1, <2>2, StrdupFacts
  <2>4. bits \in Bytes(k)
    BY <1>2, <2>3, ConfAssumption DEF Bytes
  <2>5. /\ MemShape(w) /\ w.heap = m.heap /\ w.twice = m.twice /\ Only(m, w, k)
        /\ slot = LT!Null => w.value[k] = bits /\ w.list = m.list
        /\ slot # LT!Null =>
             w.value = m.value /\ w.list[k] = Put(m.list[k], slot, bits)
    BY <2>2, <2>4, WriteFacts
  <2>6. o.m = [w EXCEPT !.heap = s.heap]
    BY <2>1, <2>2
  <2>7. o.ok = (bits # 0)
    BY <2>1, <2>2, Zenon
  <2>8. /\ o.m.heap = s.heap /\ o.m.value = w.value /\ o.m.list = w.list
        /\ o.m.twice = w.twice
        /\ o.m = [value |-> o.m.value, list |-> o.m.list, heap |-> o.m.heap,
                  twice |-> o.m.twice]
    BY <2>5, <2>6 DEF MemShape
  <2>9. DOMAIN s.heap \subseteq 1..Blocks
    BY <2>3 DEF MemShape
  <2>10. MemShape(o.m)
    BY <2>5, <2>8, <2>9 DEF MemShape
  <2>11. Placed(m, o, k, src, bits) /\ HeapKept(m, o.m)
    <3>1. CASE bits = 0 /\ s.heap = m.heap
      BY <1>2, <2>7, <2>8, <3>1 DEF Placed, HeapKept
    <3>2. CASE /\ bits \in 1..Blocks /\ bits \notin DOMAIN m.heap
               /\ DOMAIN s.heap = DOMAIN m.heap \cup {bits} /\ s.heap[bits] = src
               /\ \A b \in DOMAIN m.heap : s.heap[b] = m.heap[b]
      <4>1. bits # 0
        BY <3>2, ConfAssumption
      <4>2. o.ok
        BY <2>7, <4>1
      <4> QED
        BY <1>2, <2>8, <3>2, <4>2 DEF Placed, HeapKept
    <3> QED
      BY <2>3, <3>1, <3>2
  <2>12. Only(m, o.m, k)
    BY <2>5, <2>8 DEF Only
  <2> QED
    BY <2>4, <2>5, <2>7, <2>8, <2>10, <2>11, <2>12
<1> QED
  BY <1>1, <1>2

\* Whatever the state of the tables.
LEMMA SetValueShape ==
  ASSUME WorldInv, NEW m, MemShape(m), NEW k \in Decls, NEW src, NEW o \in SetValue(m, k, src)
  PROVE  MemShape(o.m) /\ Only(m, o.m, k) /\ o.ok \in BOOLEAN
<1>1. CASE ~IsStr(k) /\ ~Fits(world.decls[k], src)
  <2>1. o = Bad(m)
    BY <1>1, DeclFacts DEF SetValue
  <2>2. o.m = m /\ o.ok = FALSE
    BY <2>1, Zenon DEF Bad
  <2> QED
    BY <2>2 DEF Only
<1>2. CASE ~(~IsStr(k) /\ ~Fits(world.decls[k], src)) /\ ~IsList(k)
  <2>1. o \in SetAt(m, k, LT!Null, src)
    BY <1>2, DeclFacts DEF SetValue, IsList
  <2> QED
    BY <1>2, <2>1, SetAtFacts
<1>3. CASE ~(~IsStr(k) /\ ~Fits(world.decls[k], src)) /\ IsList(k)
  <2>1. PICK r \in Whole(LT!GetTailNext(m.list[k])) :
          o \in IF r.ok THEN SetAt([m EXCEPT !.list[k] = r.t], k, r.at, src)
                ELSE {Bad([m EXCEPT !.list[k] = r.t])}
    BY <1>3, DeclFacts, Zenon DEF SetValue, IsList
  <2>2. PICK w : w = [m EXCEPT !.list[k] = r.t]
    OBVIOUS
  <2>3. MemShape(w) /\ Only(m, w, k)
    BY <2>2, ListFacts
  <2>4. CASE r.ok
    <3>1. o \in SetAt(w, k, r.at, src)
      BY <2>1, <2>2, <2>4
    <3>2. MemShape(o.m) /\ Only(w, o.m, k) /\ o.ok \in BOOLEAN
      BY <1>3, <2>3, <3>1, SetAtFacts
    <3> QED
      BY <2>3, <3>2 DEF Only
  <2>5. CASE ~r.ok
    <3>1. o = Bad(w)
      BY <2>1, <2>2, <2>5
    <3>2. o.m = w /\ o.ok = FALSE
      BY <3>1, Zenon DEF Bad
    <3> QED
      BY <2>3, <3>2
  <2> QED
    BY <2>4, <2>5
<1> QED
  BY <1>1, <1>2, <1>3

\* What set_value does: nothing, or to put src down at the value or at the tail.
Refused(m, o, k, src) ==
  /\ ~o.ok /\ o.m = m
  /\ \/ ~IsStr(k) /\ ~Fits(world.decls[k], src)
     \/ IsList(k) /\ ~(m.list[k].count < m.list[k].size)
PutDown(m, o, k, src, bits) ==
  /\ Placed(m, o, k, src, bits)
  /\ IF IsList(k)
     THEN o.m.value = m.value /\ Grew(m.list[k], o.m.list[k], bits)
     ELSE o.m.value[k] = bits /\ o.m.list = m.list

LEMMA SetValueFacts ==
  ASSUME WorldInv, HalfFaults = FALSE, NEW m, MemShape(m), NEW k \in Decls, Ready(m, k),
         NEW src, NEW o \in SetValue(m, k, src)
  PROVE  /\ MemShape(o.m) /\ Only(m, o.m, k) /\ HeapKept(m, o.m) /\ o.m.twice = m.twice
         /\ o.ok \in BOOLEAN
         /\ Refused(m, o, k, src) \/ \E bits \in Bytes(k) : PutDown(m, o, k, src, bits)
<1>0. MemShape(o.m) /\ Only(m, o.m, k) /\ o.ok \in BOOLEAN
  BY SetValueShape
<1>1. CASE ~IsStr(k) /\ ~Fits(world.decls[k], src)
  <2>1. o = Bad(m)
    BY <1>1, DeclFacts DEF SetValue
  <2>2. o.m = m /\ o.ok = FALSE
    BY <2>1, Zenon DEF Bad
  <2> QED
    BY <1>0, <1>1, <2>2 DEF HeapKept, Refused
<1>2. CASE ~(~IsStr(k) /\ ~Fits(world.decls[k], src)) /\ ~IsList(k)
  <2>1. o \in SetAt(m, k, LT!Null, src)
    BY <1>2, DeclFacts DEF SetValue, IsList
  <2>2. PICK slot : slot = LT!Null
    OBVIOUS
  <2>3. /\ o.m.twice = m.twice /\ HeapKept(m, o.m)
        /\ \E bits \in Bytes(k) :
             /\ Placed(m, o, k, src, bits)
             /\ slot = LT!Null => o.m.value[k] = bits /\ o.m.list = m.list
             /\ slot # LT!Null =>
                  /\ o.m.value = m.value
                  /\ o.m.list[k] = Put(m.list[k], slot, bits)
    BY <1>2, <2>1, <2>2, SetAtFacts
  <2> QED
    BY <1>0, <1>2, <2>2, <2>3 DEF PutDown
<1>3. CASE ~(~IsStr(k) /\ ~Fits(world.decls[k], src)) /\ IsList(k)
  <2>1. PICK r \in Whole(LT!GetTailNext(m.list[k])) :
          o \in IF r.ok THEN SetAt([m EXCEPT !.list[k] = r.t], k, r.at, src)
                ELSE {Bad([m EXCEPT !.list[k] = r.t])}
    BY <1>3, DeclFacts, Zenon DEF SetValue, IsList
  <2>2. PICK t, w : t = m.list[k] /\ w = [m EXCEPT !.list[k] = r.t]
    OBVIOUS
  <2>3. /\ MemShape(w) /\ Only(m, w, k) /\ w.heap = m.heap /\ w.twice = m.twice
        /\ w.value = m.value /\ w.list[k] = r.t
    BY <2>2, ListFacts
  <2>4. /\ Line(t) /\ Line(r.t) /\ \A p \in LT!Live(t) : r.t.cells[p] = t.cells[p]
        /\ r.ok \in BOOLEAN
        /\ IF r.ok THEN r.at = t.count /\ r.t.count = t.count + 1 ELSE r.t = t
        /\ t.count < t.size => r.ok /\ r.t.size = t.size
    <3>1. Line(t) /\ r \in Whole(LT!GetTailNext(t))
      BY <1>3, <2>1, <2>2 DEF Ready
    <3> QED
      BY <3>1, LineTail
  <2>5. CASE r.ok
    <3>1. o \in SetAt(w, k, r.at, src)
      BY <2>1, <2>2, <2>5
    <3>2. r.at # LT!Null /\ r.at \in 0..(r.t.size - 1) /\ r.at \notin LT!Live(t)
      <4>1. LT!Live(t) = 0..(t.count - 1)
        BY <2>4, LineLive
      <4>2. /\ t.count \in Nat /\ r.t.count = t.count + 1 /\ r.at = t.count
            /\ r.t.last \in Nat /\ r.t.size \in Nat /\ r.t.last < r.t.size
            /\ r.t.count = r.t.last + 1
        BY <2>4, <2>5 DEF Line
      <4> QED
        BY <4>1, <4>2 DEF LT!Null
    <3>3. /\ HeapKept(w, o.m) /\ o.m.twice = w.twice
          /\ \E bits \in Bytes(k) :
               /\ Placed(w, o, k, src, bits)
               /\ o.m.value = w.value
               /\ o.m.list[k] = Put(w.list[k], r.at, bits)
      <4>1. PICK slot : slot = r.at
        OBVIOUS
      <4>2. /\ HeapKept(w, o.m) /\ o.m.twice = w.twice
            /\ \E bits \in Bytes(k) :
                 /\ Placed(w, o, k, src, bits)
                 /\ slot = LT!Null => o.m.value[k] = bits /\ o.m.list = w.list
                 /\ slot # LT!Null =>
                      /\ o.m.value = w.value
                      /\ o.m.list[k] = Put(w.list[k], slot, bits)
        BY <1>3, <2>3, <3>1, <4>1, SetAtFacts
      <4> QED
        BY <3>2, <4>1, <4>2
    <3>4. PICK bits \in Bytes(k) :
               /\ Placed(w, o, k, src, bits)
               /\ o.m.value = w.value
               /\ o.m.list[k] = Put(w.list[k], r.at, bits)
      BY <3>3
    <3>5. Placed(m, o, k, src, bits)
      BY <2>3, <3>4 DEF Placed
    <3>6. PICK u : u = o.m.list[k]
      OBVIOUS
    <3>7. u = [r.t EXCEPT !.cells[r.at] = bits]
      BY <2>3, <3>4, <3>6 DEF Put
    <3>8. /\ u.cells = [r.t.cells EXCEPT ![r.at] = bits]
          /\ u.flags = r.t.flags /\ u.head = r.t.head /\ u.size = r.t.size /\ u.pos = r.t.pos
          /\ u.last = r.t.last /\ u.tail = r.t.tail /\ u.count = r.t.count
          /\ u.fragCount = r.t.fragCount /\ u.mask = r.t.mask
          /\ u = [flags |-> u.flags, head |-> u.head, size |-> u.size, pos |-> u.pos,
                  last |-> u.last, tail |-> u.tail, count |-> u.count,
                  fragCount |-> u.fragCount, mask |-> u.mask, cells |-> u.cells]
      BY <2>4, <3>7 DEF Line
    <3>9. /\ u.cells[r.at] = bits /\ u.cells = [p \in 0..(u.size - 1) |-> u.cells[p]]
          /\ \A p \in LT!Live(t) : u.cells[p] = r.t.cells[p]
      <4>1. r.t.cells = [p \in 0..(r.t.size - 1) |-> r.t.cells[p]]
        BY <2>4 DEF Line
      <4>2. \A p \in LT!Live(t) : p # r.at
        BY <3>2
      <4>3. LT!Live(t) \subseteq 0..(r.t.size - 1)
        <5>1. LT!Live(t) = 0..(t.count - 1)
          BY <2>4, LineLive
        <5>3. t.count \in Nat /\ r.t.size \in Nat
          BY <2>4 DEF Line
        <5>2. t.count < r.t.size
          BY <2>4, <2>5, <3>2, <5>3
        <5> QED
          BY <5>1, <5>2, <5>3
      <4> QED
        BY <3>2, <3>8, <4>1, <4>2, <4>3
    <3>10. Line(u)
      BY <2>4, <3>8, <3>9 DEF Line, LT!Exists
    <3>11. Grew(t, u, bits)
      BY <2>4, <2>5, <3>8, <3>9, <3>10 DEF Grew
    <3>12. PutDown(m, o, k, src, bits)
      BY <1>3, <2>2, <2>3, <3>4, <3>5, <3>6, <3>11 DEF PutDown
    <3> QED
      BY <1>0, <2>3, <3>3, <3>4, <3>12 DEF HeapKept
  <2>6. CASE ~r.ok
    <3>1. o = Bad(w)
      BY <2>1, <2>2, <2>6
    <3>2. o.m = w /\ o.ok = FALSE
      BY <3>1, Zenon DEF Bad
    <3>3. w = m
      BY <2>2, <2>4, <2>6 DEF MemShape
    <3> QED
      BY <1>0, <1>3, <2>2, <2>4, <2>6, <3>2, <3>3 DEF HeapKept, Refused
  <2> QED
    BY <2>4, <2>5, <2>6
<1> QED
  BY <1>1, <1>2, <1>3

\* One pointer more, to a block that is fresh.
PointerAdded(m, w, k, p, b) ==
  \A c, q, x : PointsTo(w, c, q, x) <=>
    PointsTo(m, c, q, x) \/ (c = k /\ q = p /\ x = b)

LEMMA AccountedMore ==
  ASSUME NEW m, Accounted(m), NEW w, NEW k, NEW p, NEW b, b \notin DOMAIN m.heap,
         DOMAIN w.heap = DOMAIN m.heap \cup {b}, PointerAdded(m, w, k, p, b)
  PROVE  Accounted(w)
<1> USE DEF PointerAdded
<1>1. \A c, q, x : PointsTo(w, c, q, x) => x \in DOMAIN w.heap
  BY DEF Accounted
<1>2. ASSUME NEW x \in DOMAIN w.heap PROVE \E c, q : PointsTo(w, c, q, x)
  BY DEF Accounted
<1>3. ASSUME NEW c, NEW q, NEW l, NEW r, NEW x, PointsTo(w, c, q, x), PointsTo(w, l, r, x)
      PROVE  c = l /\ q = r
  BY <1>3 DEF Accounted
<1> QED
  BY <1>1, <1>2, <1>3 DEF Accounted

LEMMA AccountedSame ==
  ASSUME NEW m, Accounted(m), NEW w, DOMAIN w.heap = DOMAIN m.heap,
         \A c, q, x : PointsTo(w, c, q, x) <=> PointsTo(m, c, q, x)
  PROVE  Accounted(w)
BY DEF Accounted

\* The pointers of one declaration less, and the blocks that they point to.
LEMMA AccountedLess ==
  ASSUME NEW m, Accounted(m), NEW w, NEW k,
         DOMAIN w.heap = {b \in DOMAIN m.heap : ~\E p : PointsTo(m, k, p, b)},
         \A c, q, x : PointsTo(w, c, q, x) <=> PointsTo(m, c, q, x) /\ c # k
  PROVE  Accounted(w)
<1>1. ASSUME NEW c, NEW q, NEW x, PointsTo(w, c, q, x) PROVE x \in DOMAIN w.heap
  BY <1>1 DEF Accounted
<1>2. ASSUME NEW x \in DOMAIN w.heap PROVE \E c, q : PointsTo(w, c, q, x)
  <2>1. PICK c, q : PointsTo(m, c, q, x)
    BY DEF Accounted
  <2> QED
    BY <2>1
<1>3. ASSUME NEW c, NEW q, NEW l, NEW r, NEW x, PointsTo(w, c, q, x), PointsTo(w, l, r, x)
      PROVE  c = l /\ q = r
  BY <1>3 DEF Accounted
<1> QED
  BY <1>1, <1>2, <1>3 DEF Accounted

LEMMA OnlyPoints ==
  ASSUME NEW m, NEW w, NEW k, Only(m, w, k), NEW c, c # k, NEW p, NEW b
  PROVE  PointsTo(w, c, p, b) <=> PointsTo(m, c, p, b)
<1>1. CASE c \in Decls
  <2>1. w.value[c] = m.value[c] /\ w.list[c] = m.list[c]
    BY <1>1 DEF Only
  <2> QED
    BY <2>1 DEF PointsTo
<1>2. CASE c \notin Decls
  BY <1>2 DEF PointsTo
<1> QED
  BY <1>1, <1>2

LEMMA SetValueSane ==
  ASSUME WorldInv, HalfFaults = FALSE, NEW m, Sane(m), NEW k \in Decls, Ready(m, k),
         NEW src, NEW o \in SetValue(m, k, src)
  PROVE  /\ Sane(o.m) /\ Only(m, o.m, k) /\ HeapKept(m, o.m) /\ o.ok \in BOOLEAN
         /\ IsList(k) => Ready(o.m, k)
<1>1. MemShape(m) /\ Tidy(m) /\ Accounted(m)
  BY DEF Sane, Tidy
<1>2. /\ MemShape(o.m) /\ Only(m, o.m, k) /\ HeapKept(m, o.m) /\ o.m.twice = m.twice
      /\ o.ok \in BOOLEAN
      /\ Refused(m, o, k, src) \/ \E bits \in Bytes(k) : PutDown(m, o, k, src, bits)
  BY <1>1, SetValueFacts
<1>3. CASE Refused(m, o, k, src)
  BY <1>2, <1>3 DEF Refused
<1>4. CASE ~Refused(m, o, k, src)
  <2>1. PICK bits \in Bytes(k) :
              /\ Placed(m, o, k, src, bits)
              /\ IF IsList(k)
                 THEN o.m.value = m.value /\ Grew(m.list[k], o.m.list[k], bits)
                 ELSE o.m.value[k] = bits /\ o.m.list = m.list
    BY <1>2, <1>4 DEF PutDown
  <2>2. PICK w, at : w = o.m /\ at = IF IsList(k) THEN m.list[k].count ELSE LT!Null
    OBVIOUS
  <2>3. \A c \in Decls : w.list[c] = LT!NoTable \/ (IsList(c) /\ Line(w.list[c]))
    <3>1. ASSUME NEW c \in Decls, c # k PROVE w.list[c] = m.list[c]
      BY <1>2, <2>2, <3>1 DEF Only
    <3>2. w.list[k] = LT!NoTable \/ (IsList(k) /\ Line(w.list[k]))
      BY <1>1, <2>1, <2>2 DEF Grew, Tidy
    <3> QED
      BY <1>1, <3>1, <3>2 DEF Tidy
  <2>4. ASSUME NEW p, NEW b
        PROVE  PointsTo(w, k, p, b) <=>
                 PointsTo(m, k, p, b) \/ (IsStr(k) /\ p = at /\ b = bits /\ b # 0)
    <3>1. CASE IsList(k)
      <4>1. PICK t, u : t = m.list[k] /\ u = w.list[k]
        OBVIOUS
      <4>2. /\ Line(t) /\ Line(u) /\ u.count = t.count + 1 /\ u.cells[t.count] = bits
            /\ \A q \in LT!Live(t) : u.cells[q] = t.cells[q]
        BY <2>1, <2>2, <3>1, <4>1 DEF Grew, Ready
      <4>3. LT!Live(t) = 0..(t.count - 1) /\ LT!Live(u) = 0..(u.count - 1) /\ t.count \in Nat
        <5>1. t.count \in Nat
          BY <4>2 DEF Line
        <5> QED
          BY <4>2, <5>1, LineLive
      <4>4. LT!Live(u) = LT!Live(t) \cup {at} /\ at = t.count
        BY <2>2, <3>1, <4>1, <4>2, <4>3
      <4> QED
        BY <3>1, <4>1, <4>2, <4>4 DEF PointsTo
    <3>2. CASE ~IsList(k)
      <4>1. w.value[k] = bits /\ (IsStr(k) => m.value[k] = 0)
        BY <2>1, <2>2, <3>2 DEF Ready, Clear
      <4> QED
        BY <2>2, <3>2, <4>1 DEF PointsTo
    <3> QED
      BY <3>1, <3>2
  <2>5. \A c, p, b : c # k => (PointsTo(w, c, p, b) <=> PointsTo(m, c, p, b))
    BY <1>2, <2>2, OnlyPoints
  <2>6. Accounted(w)
    <3>1. CASE IsStr(k) /\ bits # 0
      <4>1. bits \notin DOMAIN m.heap /\ DOMAIN w.heap = DOMAIN m.heap \cup {bits}
        BY <2>1, <2>2, <3>1 DEF Placed
      <4>2. PointerAdded(m, w, k, at, bits)
        BY <2>4, <2>5, <3>1 DEF PointerAdded
      <4> QED
        BY <1>1, <4>1, <4>2, AccountedMore
    <3>2. CASE ~(IsStr(k) /\ bits # 0)
      <4>1. DOMAIN w.heap = DOMAIN m.heap
        <5>1. 0 \notin 1..Blocks
          BY ConfAssumption
        <5> QED
          BY <2>1, <2>2, <3>2, <5>1 DEF Placed
      <4>2. \A c, p, b : PointsTo(w, c, p, b) <=> PointsTo(m, c, p, b)
        BY <2>4, <2>5, <3>2
      <4> QED
        BY <1>1, <4>1, <4>2, AccountedSame
    <3> QED
      BY <3>1, <3>2
  <2>7. IsList(k) => Ready(w, k)
    BY <2>1, <2>2 DEF Ready, Grew
  <2>8. Tidy(w)
    BY <1>1, <1>2, <2>2, <2>3, <2>6 DEF Tidy
  <2> QED
    BY <1>2, <2>2, <2>7, <2>8 DEF Sane
<1> QED
  BY <1>3, <1>4

----------------------------------------------------------------------------
(* decl_release.                                                           *)

LEMMA FreedFacts ==
  ASSUME NEW m, MemShape(m), NEW b \in DOMAIN m.heap, NEW w, w = Freed(m, b)
  PROVE  /\ MemShape(w) /\ w.value = m.value /\ w.list = m.list /\ w.twice = m.twice
         /\ DOMAIN w.heap = DOMAIN m.heap \ {b}
<1>1. PICK h : h = [c \in DOMAIN m.heap \ {b} |-> m.heap[c]]
  OBVIOUS
<1>2. w = [m EXCEPT !.heap = h]
  BY <1>1 DEF Freed
<1>3. /\ w.value = m.value /\ w.list = m.list /\ w.twice = m.twice /\ w.heap = h
      /\ w = [value |-> w.value, list |-> w.list, heap |-> w.heap, twice |-> w.twice]
  BY <1>2 DEF MemShape
<1>4. DOMAIN h = DOMAIN m.heap \ {b}
  BY <1>1
<1> QED
  BY <1>3, <1>4 DEF MemShape

\* The loop of list_destroy is a function of the slot that it has come to.
FreeTurn(t, f, p) ==
  IF p \in LT!Live(t) /\ t.cells[p] # 0 THEN Freed(f, t.cells[p]) ELSE f
FreeRuns(m, t, f, j) ==
  f = [p \in -1..j |-> IF p = -1 THEN m
                       ELSE IF p \in LT!Live(t) /\ t.cells[p] # 0
                       THEN Freed(f[p - 1], t.cells[p]) ELSE f[p - 1]]

LEMMA FreeRunsExist ==
  ASSUME NEW m, NEW t, NEW last \in Nat
  PROVE  \E f : FreeRuns(m, t, f, last)
<1> DEFINE Reached == {j \in Nat : \E f : FreeRuns(m, t, f, j - 1)}
<1>1. 0 \in Reached
  <2> DEFINE f == [p \in -1..(0 - 1) |-> m]
  <2>1. \A p \in -1..(0 - 1) : p = -1
    OBVIOUS
  <2>2. FreeRuns(m, t, f, 0 - 1)
    BY <2>1 DEF FreeRuns
  <2> HIDE DEF f
  <2> QED
    BY <2>2
<1>2. ASSUME NEW j \in Reached PROVE j + 1 \in Reached
  <2>1. PICK f : FreeRuns(m, t, f, j - 1)
    OBVIOUS
  <2> DEFINE g == [p \in -1..j |-> IF p = j THEN FreeTurn(t, f[j - 1], j) ELSE f[p]]
  <2>2. j \in Nat /\ g = [p \in -1..j |-> g[p]] /\ (j + 1) - 1 = j
    OBVIOUS
  <2>3. ASSUME NEW p \in -1..j
        PROVE  g[p] = IF p = -1 THEN m
                      ELSE IF p \in LT!Live(t) /\ t.cells[p] # 0
                      THEN Freed(g[p - 1], t.cells[p]) ELSE g[p - 1]
    <3>1. CASE p = j
      <4>1. p # -1 /\ j - 1 \in -1..j /\ j - 1 # j
        BY <2>2, <3>1
      <4>2. g[p] = FreeTurn(t, f[j - 1], j) /\ g[p - 1] = f[j - 1]
        BY <3>1, <4>1
      <4> HIDE DEF g
      <4> QED
        BY <3>1, <4>1, <4>2 DEF FreeTurn
    <3>2. CASE p # j
      <4>1. p \in -1..(j - 1) /\ g[p] = f[p]
        BY <2>2, <3>2
      <4>2. p # -1 => g[p - 1] = f[p - 1]
        BY <2>2, <4>1
      <4>3. f[p] = IF p = -1 THEN m
                   ELSE IF p \in LT!Live(t) /\ t.cells[p] # 0
                   THEN Freed(f[p - 1], t.cells[p]) ELSE f[p - 1]
        BY <2>1, <4>1 DEF FreeRuns
      <4> HIDE DEF g
      <4> QED
        BY <4>1, <4>2, <4>3
    <3> QED
      BY <3>1, <3>2
  <2> HIDE DEF g
  <2>4. FreeRuns(m, t, g, j)
    BY <2>2, <2>3 DEF FreeRuns
  <2> QED
    BY <2>2, <2>4
<1> HIDE DEF Reached
<1>3. Reached = Nat
  <2>1. Reached \in SUBSET Nat
    BY DEF Reached
  <2> QED
    BY <1>1, <1>2, <2>1, TableConstants, TP!AllNaturals
<1>4. last + 1 \in Reached /\ (last + 1) - 1 = last
  BY <1>3
<1> QED
  BY <1>4 DEF Reached

\* The blocks that a list points to up to slot j
UpTo(t, j) == {t.cells[q] : q \in {p \in LT!Live(t) : p <= j /\ t.cells[p] # 0}}

LEMMA FreedLoop ==
  ASSUME NEW m, Sane(m), NEW k \in Decls, IsStr(k), IsList(k),
         NEW t, t = m.list[k], Line(t), NEW f, FreeRuns(m, t, f, t.last), NEW w, w = f[t.last]
  PROVE  /\ MemShape(w) /\ w.value = m.value /\ w.list = m.list /\ w.twice = m.twice
         /\ DOMAIN w.heap = DOMAIN m.heap \ UpTo(t, t.last)
<1> DEFINE P(x, j) == /\ MemShape(x) /\ x.value = m.value /\ x.list = m.list /\ x.twice = m.twice
                      /\ DOMAIN x.heap = DOMAIN m.heap \ UpTo(t, j)
           S == {j \in Nat : j <= t.last + 1 => P(f[j - 1], j - 1)}
<1>1. t.last \in Nat /\ LT!Live(t) = 0..(t.count - 1) /\ t.count \in Nat
      /\ LT!Live(t) \subseteq 0..t.last
  BY LineLive DEF Line
<1>2. ASSUME NEW p \in 0..t.last
      PROVE  f[p] = FreeTurn(t, f[p - 1], p)
  <2>1. p \in -1..t.last /\ p # -1
    BY <1>1
  <2> QED
    BY <2>1 DEF FreeRuns, FreeTurn
<1>3. f[-1] = m
  <2>1. -1 \in -1..t.last
    BY <1>1
  <2> QED
    BY <2>1 DEF FreeRuns
<1>4. P(f[0 - 1], 0 - 1)
  <2>1. UpTo(t, -1) = {}
    BY <1>1 DEF UpTo
  <2> QED
    BY <1>3, <2>1 DEF Sane
<1>5. ASSUME NEW j \in Nat, j <= t.last, P(f[j - 1], j - 1) PROVE P(f[j], j)
  <2>1. PICK x, y : x = f[j - 1] /\ y = f[j]
    OBVIOUS
  <2>2. y = FreeTurn(t, x, j) /\ P(x, j - 1)
    BY <1>1, <1>2, <1>5, <2>1
  <2>3. CASE j \in LT!Live(t) /\ t.cells[j] # 0
    <3>1. PICK b : b = t.cells[j]
      OBVIOUS
    <3>2. y = Freed(x, b)
      BY <2>2, <2>3, <3>1 DEF FreeTurn
    <3>3. PointsTo(m, k, j, b)
      BY <2>3, <3>1 DEF PointsTo
    <3>4. ASSUME NEW q \in LT!Live(t), q <= j - 1, t.cells[q] # 0 PROVE t.cells[q] # b
      <4>1. PointsTo(m, k, q, t.cells[q]) /\ q # j
        BY <1>1, <1>5, <3>4 DEF PointsTo
      <4> QED
        BY <3>3, <4>1 DEF Sane, Tidy, Accounted
    <3>5. b \in DOMAIN m.heap /\ b \notin UpTo(t, j - 1)
      BY <3>3, <3>4 DEF Sane, Tidy, Accounted, UpTo
    <3>6. UpTo(t, j) = UpTo(t, j - 1) \cup {b}
      <4>1. \A q \in LT!Live(t) : q <= j <=> (q <= j - 1 \/ q = j)
        BY <1>1, <1>5
      <4> QED
        BY <2>3, <3>1, <4>1 DEF UpTo
    <3>7. b \in DOMAIN x.heap /\ MemShape(x)
      BY <2>2, <3>5
    <3>8. /\ MemShape(y) /\ y.value = x.value /\ y.list = x.list /\ y.twice = x.twice
          /\ DOMAIN y.heap = DOMAIN x.heap \ {b}
      BY <3>2, <3>7, FreedFacts
    <3> QED
      BY <2>1, <2>2, <3>6, <3>8
  <2>4. CASE ~(j \in LT!Live(t) /\ t.cells[j] # 0)
    <3>1. y = x
      BY <2>2, <2>4 DEF FreeTurn
    <3>2. UpTo(t, j) = UpTo(t, j - 1)
      <4>1. \A q \in LT!Live(t) : t.cells[q] # 0 => (q <= j <=> q <= j - 1)
        BY <1>1, <1>5, <2>4
      <4> QED
        BY <4>1 DEF UpTo
    <3> QED
      BY <2>1, <2>2, <3>1, <3>2
  <2> QED
    BY <2>3, <2>4
<1> HIDE DEF P
<1>6. 0 \in S
  BY <1>4
<1>7. ASSUME NEW j \in S PROVE j + 1 \in S
  <2>1. j \in Nat /\ (j + 1) - 1 = j
    OBVIOUS
  <2>2. CASE j + 1 <= t.last + 1
    <3>1. j <= t.last /\ P(f[j - 1], j - 1)
      BY <1>1, <2>1, <2>2
    <3>2. P(f[j], j)
      BY <1>5, <2>1, <3>1
    <3> QED
      BY <2>1, <3>2
  <2>3. CASE ~(j + 1 <= t.last + 1)
    BY <2>1, <2>3
  <2> QED
    BY <2>2, <2>3
<1>8. S = Nat
  <2>1. S \in SUBSET Nat
    OBVIOUS
  <2> HIDE DEF S
  <2> QED
    BY <1>6, <1>7, <2>1, TableConstants, TP!AllNaturals
<1>9. P(f[(t.last + 1) - 1], (t.last + 1) - 1)
  <2>1. t.last + 1 \in S
    BY <1>1, <1>8
  <2> QED
    BY <1>1, <2>1
<1>10. (t.last + 1) - 1 = t.last
  BY <1>1
<1> QED
  BY <1>9, <1>10 DEF P

\* What releasing declaration k leaves
Released(m, w, k) ==
  /\ MemShape(w) /\ w.twice = m.twice /\ Only(m, w, k) /\ Clear(w, k)
  /\ DOMAIN w.heap = {b \in DOMAIN m.heap : ~\E p : PointsTo(m, k, p, b)}

LEMMA ReleasedSane ==
  ASSUME NEW m, Sane(m), NEW k \in Decls, NEW w, Released(m, w, k)
  PROVE  Sane(w)
<1>1. \A p, b : ~PointsTo(w, k, p, b)
  BY NoTableLive DEF Released, Clear, PointsTo
<1>2. \A c, p, b : c # k => (PointsTo(w, c, p, b) <=> PointsTo(m, c, p, b))
  BY OnlyPoints DEF Released
<1>3. \A c, p, b : PointsTo(w, c, p, b) <=> PointsTo(m, c, p, b) /\ c # k
  BY <1>1, <1>2
<1>4. DOMAIN w.heap = {b \in DOMAIN m.heap : ~\E p : PointsTo(m, k, p, b)}
  BY DEF Released
<1>5. Accounted(w)
  BY <1>3, <1>4, AccountedLess DEF Sane, Tidy
<1>6. \A c \in Decls : w.list[c] = LT!NoTable \/ (IsList(c) /\ Line(w.list[c]))
  BY DEF Released, Clear, Only, Sane, Tidy
<1> QED
  BY <1>5, <1>6 DEF Released, Sane, Tidy

----------------------------------------------------------------------------
(* conf_release.                                                           *)

WithList(m, k, t) == [m EXCEPT !.list[k] = t]
LEMMA ListSet ==
  ASSUME NEW m, MemShape(m), NEW k \in Decls, NEW t, NEW w, w = WithList(m, k, t)
  PROVE  /\ MemShape(w) /\ w.heap = m.heap /\ w.twice = m.twice /\ Only(m, w, k)
         /\ w.value = m.value /\ w.list[k] = t
BY ListFacts DEF WithList

Torn(m, k, t) ==
  [m EXCEPT !.list[k] = LT!Destroy(t).t, !.twice = @ \/ t.head = "freed"]

LEMMA ListDestroyFacts ==
  ASSUME WorldInv, NEW m, Sane(m), NEW k \in Decls, IsList(k), NEW w, w = ListDestroy(m, k)
  PROVE  Released(m, w, k)
<1>1. PICK t : t = m.list[k]
  OBVIOUS
<1>2. t = LT!NoTable \/ Line(t)
  BY <1>1 DEF Sane, Tidy
<1>3. t.last \in Nat /\ LT!Destroy(t).t = LT!NoTable /\ t.head # "freed"
  <2>1. CASE t = LT!NoTable
    BY <2>1 DEF LT!NoTable, LT!Destroy, LT!Failed
  <2>2. CASE Line(t)
    BY <2>2 DEF Line, LT!Destroy, LT!Done
  <2> QED
    BY <1>2, <2>1, <2>2
<1>4. PICK f : f = CHOOSE g : FreeRuns(m, m.list[k], g, m.list[k].last)
  OBVIOUS
<1>5. FreeRuns(m, t, f, t.last)
  BY <1>1, <1>3, <1>4, FreeRunsExist
<1>6. PICK left : left = IF IsStr(k) THEN f[t.last] ELSE m
  OBVIOUS
<1>7. w = [left EXCEPT !.list[k] = LT!Destroy(t).t, !.twice = @ \/ t.head = "freed"]
  <2>1. w = Torn(IF world.decls[k].type = "str"
                 THEN (CHOOSE g : FreeRuns(m, m.list[k], g, m.list[k].last))[m.list[k].last]
                 ELSE m, k, m.list[k])
    BY DEF ListDestroy, FreeRuns, Torn
  <2>2. w = Torn(left, k, t)
    BY <1>1, <1>4, <1>6, <2>1 DEF IsStr
  <2> QED
    BY <2>2 DEF Torn
<1>8. /\ MemShape(left) /\ left.value = m.value /\ left.list = m.list /\ left.twice = m.twice
      /\ DOMAIN left.heap = {b \in DOMAIN m.heap : ~\E p : PointsTo(m, k, p, b)}
  <2>1. CASE ~IsStr(k)
    BY <1>6, <2>1 DEF PointsTo, Sane
  <2>2. CASE IsStr(k) /\ t = LT!NoTable
    <3>1. t.last = 0 /\ LT!Live(t) = {}
      BY <2>2, NoTableLive DEF LT!NoTable
    <3>2. f[0] = m
      <4>1. 0 \in -1..0 /\ -1 \in -1..0 /\ 0 # -1 /\ 0 - 1 = -1
        OBVIOUS
      <4>2. f[-1] = m
        BY <1>5, <3>1, <4>1 DEF FreeRuns
      <4>3. f[0] = f[0 - 1]
        BY <1>5, <3>1, <4>1 DEF FreeRuns
      <4> QED
        BY <4>1, <4>2, <4>3
    <3>3. \A p, b : ~PointsTo(m, k, p, b)
      BY <1>1, <3>1 DEF PointsTo
    <3> QED
      BY <1>6, <2>2, <3>1, <3>2, <3>3 DEF Sane
  <2>3. CASE IsStr(k) /\ Line(t)
    <3>1. /\ MemShape(left) /\ left.value = m.value /\ left.list = m.list /\ left.twice = m.twice
          /\ DOMAIN left.heap = DOMAIN m.heap \ UpTo(t, t.last)
      BY <1>1, <1>5, <1>6, <2>3, FreedLoop
    <3>2. UpTo(t, t.last) = {b \in UpTo(t, t.last) : \E p : PointsTo(m, k, p, b)}
      BY <1>1, <2>3 DEF UpTo, PointsTo
    <3>3. ASSUME NEW p, NEW b, PointsTo(m, k, p, b) PROVE b \in UpTo(t, t.last)
      <4>1. p \in LT!Live(t) /\ b = t.cells[p] /\ b # 0
        BY <1>1, <3>3 DEF PointsTo
      <4>2. LT!Live(t) \subseteq 0..t.last
        BY <2>3, LineLive
      <4>3. p <= t.last
        BY <1>3, <4>1, <4>2
      <4> QED
        BY <4>1, <4>3 DEF UpTo
    <3> QED
      BY <3>1, <3>2, <3>3
  <2> QED
    BY <1>2, <2>1, <2>2, <2>3
<1>9. PICK v : v = WithList(left, k, LT!NoTable)
  OBVIOUS
<1>10. /\ MemShape(v) /\ v.heap = left.heap /\ v.twice = left.twice /\ Only(left, v, k)
       /\ v.value = left.value /\ v.list[k] = LT!NoTable
  BY <1>8, <1>9, ListSet
<1>11. w = v
  <2>1. left.twice = FALSE /\ (left.twice \/ t.head = "freed") = FALSE
    BY <1>3, <1>8 DEF Sane, Tidy
  <2>2. w = [left EXCEPT !.list[k] = LT!NoTable, !.twice = FALSE]
    BY <1>3, <1>7, <2>1
  <2> QED
    BY <1>8, <1>9, <2>1, <2>2 DEF MemShape, WithList
<1> QED
  BY <1>8, <1>10, <1>11 DEF Released, Only, Clear

LEMMA UnsetFacts ==
  ASSUME WorldInv, NEW m, Sane(m), NEW k \in Decls, ~IsList(k), IsStr(k), NEW w, w = Unset(m, k)
  PROVE  Released(m, w, k)
<1>1. PICK b : b = m.value[k]
  OBVIOUS
<1>2. m.list[k] = LT!NoTable /\ b \in 0..Blocks /\ MemShape(m) /\ m.twice = FALSE
  BY <1>1 DEF Sane, Tidy, MemShape, Bytes
<1>3. \A p, x : PointsTo(m, k, p, x) <=> p = LT!Null /\ x = b /\ b # 0
  BY <1>1 DEF PointsTo
<1>4. CASE b = 0
  <2>1. w = m
    BY <1>1, <1>4 DEF Unset
  <2> QED
    BY <1>1, <1>2, <1>3, <1>4, <2>1 DEF Released, Only, Clear
<1>5. CASE b # 0
  <2>1. b \in DOMAIN m.heap
    BY <1>3, <1>5 DEF Sane, Tidy, Accounted
  <2>2. PICK f : f = Freed(m, b)
    OBVIOUS
  <2>3. /\ MemShape(f) /\ f.value = m.value /\ f.list = m.list /\ f.twice = m.twice
        /\ DOMAIN f.heap = DOMAIN m.heap \ {b}
    BY <1>2, <2>1, <2>2, FreedFacts
  <2>4. w = [f EXCEPT !.value[k] = 0]
    BY <1>1, <1>5, <2>2 DEF Unset
  <2>5. w = Write(f, k, LT!Null, 0)
    BY <2>4 DEF Write
  <2>6. 0 \in Bytes(k)
    BY ConfAssumption DEF Bytes
  <2>7. /\ w.value = [f.value EXCEPT ![k] = 0] /\ w.list = f.list /\ w.heap = f.heap
        /\ w.twice = f.twice
        /\ w = [value |-> w.value, list |-> w.list, heap |-> w.heap, twice |-> w.twice]
    BY <2>3, <2>4 DEF MemShape
  <2>8. /\ w.value[k] = 0 /\ w.value = [c \in Decls |-> w.value[c]]
        /\ \A c \in Decls : c # k => w.value[c] = f.value[c]
    BY <2>3, <2>7 DEF MemShape
  <2>9. MemShape(w)
    BY <2>3, <2>6, <2>7, <2>8 DEF MemShape
  <2>10. DOMAIN w.heap = {x \in DOMAIN m.heap : ~\E p : PointsTo(m, k, p, x)}
    BY <1>3, <1>5, <2>3, <2>7
  <2> QED
    BY <1>2, <2>3, <2>7, <2>8, <2>9, <2>10 DEF Released, Only, Clear
<1> QED
  BY <1>4, <1>5

\* decl_release
LEMMA ReleaseFacts ==
  ASSUME WorldInv, NEW m, Sane(m), NEW k \in Decls, NEW w, w = Release(m, k)
  PROVE  Sane(w) /\ Only(m, w, k) /\ Clear(w, k)
<1>1. Released(m, w, k)
  <2>1. CASE IsList(k)
    BY <2>1, ListDestroyFacts DEF Release, IsList
  <2>2. CASE ~IsList(k) /\ IsStr(k)
    BY <2>2, UnsetFacts DEF Release, IsList, IsStr
  <2>3. CASE ~IsList(k) /\ ~IsStr(k)
    <3>1. w = m
      BY <2>3 DEF Release, IsList, IsStr
    <3> QED
      BY <2>3, <3>1 DEF Released, Only, Clear, Sane, Tidy, PointsTo
  <2> QED
    BY <2>1, <2>2, <2>3
<1> QED
  BY <1>1, ReleasedSane DEF Released

\* The loop of conf_release_reverse is a function of the declarations released.
ReleaseRuns(m, f, j) ==
  f = [k \in 0..j |-> IF k = 0 THEN m ELSE Release(f[k - 1], k)]

LEMMA ReleaseRunsExist ==
  ASSUME NEW m, NEW last \in Nat
  PROVE  \E f : ReleaseRuns(m, f, last)
<1> DEFINE Reached == {j \in Nat : \E f : ReleaseRuns(m, f, j)}
<1>1. 0 \in Reached
  <2> DEFINE f == [k \in 0..0 |-> m]
  <2>1. ReleaseRuns(m, f, 0)
    BY DEF ReleaseRuns
  <2> HIDE DEF f
  <2> QED
    BY <2>1
<1>2. ASSUME NEW j \in Reached PROVE j + 1 \in Reached
  <2>1. PICK f : ReleaseRuns(m, f, j)
    OBVIOUS
  <2> DEFINE g == [k \in 0..(j + 1) |-> IF k = j + 1 THEN Release(f[j], k) ELSE f[k]]
  <2>2. j \in Nat /\ g = [k \in 0..(j + 1) |-> g[k]]
    OBVIOUS
  <2>3. ASSUME NEW k \in 0..(j + 1) PROVE g[k] = IF k = 0 THEN m ELSE Release(g[k - 1], k)
    <3>1. CASE k = j + 1
      <4>1. k # 0 /\ k - 1 = j /\ j \in 0..(j + 1) /\ j # j + 1
        BY <2>2, <3>1
      <4>2. g[k] = Release(f[j], k) /\ g[k - 1] = f[j]
        BY <3>1, <4>1
      <4> HIDE DEF g
      <4> QED
        BY <4>1, <4>2
    <3>2. CASE k # j + 1
      <4>1. k \in 0..j /\ g[k] = f[k]
        BY <2>2, <3>2
      <4>2. k # 0 => g[k - 1] = f[k - 1]
        BY <2>2, <4>1
      <4>3. f[k] = IF k = 0 THEN m ELSE Release(f[k - 1], k)
        BY <2>1, <4>1 DEF ReleaseRuns
      <4> HIDE DEF g
      <4> QED
        BY <4>1, <4>2, <4>3
    <3> QED
      BY <3>1, <3>2
  <2> HIDE DEF g
  <2>4. ReleaseRuns(m, g, j + 1)
    BY <2>2, <2>3 DEF ReleaseRuns
  <2> QED
    BY <2>2, <2>4
<1> HIDE DEF Reached
<1>3. Reached = Nat
  <2>1. Reached \in SUBSET Nat
    BY DEF Reached
  <2> QED
    BY <1>1, <1>2, <2>1, TableConstants, TP!AllNaturals
<1> QED
  BY <1>3 DEF Reached

\* What is left of m when the declarations up to j are released
LeftAt(m, w, j) ==
  /\ Sane(w) /\ \A c \in Decls : c <= j => Clear(w, c)
  /\ \A c \in Decls : c > j => w.value[c] = m.value[c] /\ w.list[c] = m.list[c]

\* conf_release_reverse, or conf_release
LEMMA ReleaseAllFacts ==
  ASSUME WorldInv, NEW m, Sane(m), NEW upto \in {0} \cup Decls, NEW w, w = ReleaseAll(m, upto)
  PROVE  LeftAt(m, w, upto)
<1>1. PICK n : n = Len(world.decls)
  OBVIOUS
<1>2. n \in Nat /\ Decls = 1..n /\ upto \in 0..n
  BY <1>1, ConfAssumption DEF WorldInv, Decls
<1>3. PICK f : f = CHOOSE g : ReleaseRuns(m, g, upto)
  OBVIOUS
<1>4. ReleaseRuns(m, f, upto)
  BY <1>2, <1>3, ReleaseRunsExist
<1>5. w = f[upto]
  BY <1>3 DEF ReleaseAll, ReleaseRuns
<1> DEFINE S == {j \in Nat : j <= upto => LeftAt(m, f[j], j)}
<1>6. 0 \in S
  <2>1. f[0] = m
    BY <1>2, <1>4 DEF ReleaseRuns
  <2> QED
    BY <1>2, <2>1 DEF LeftAt
<1>7. ASSUME NEW j \in S PROVE j + 1 \in S
  <2> SUFFICES ASSUME j + 1 <= upto PROVE LeftAt(m, f[j + 1], j + 1)
    OBVIOUS
  <2>1. j \in Nat /\ j <= upto /\ j + 1 \in Decls /\ (j + 1) - 1 = j /\ j + 1 # 0
    BY <1>2
  <2>2. LeftAt(m, f[j], j)
    BY <2>1
  <2>3. f[j + 1] = Release(f[j], j + 1)
    BY <1>2, <1>4, <2>1 DEF ReleaseRuns
  <2>4. PICK v, u, k : v = f[j] /\ u = f[j + 1] /\ k = j + 1
    OBVIOUS
  <2>5. Sane(u) /\ Only(v, u, k) /\ Clear(u, k)
    BY <2>1, <2>2, <2>3, <2>4, ReleaseFacts DEF LeftAt
  <2>6. ASSUME NEW c \in Decls, c <= k PROVE Clear(u, c)
    <3>1. CASE c = k
      BY <2>5, <3>1
    <3>2. CASE c # k
      <4>1. c <= j
        BY <1>2, <2>1, <2>4, <2>6, <3>2
      <4> QED
        BY <2>2, <2>4, <2>5, <3>2, <4>1 DEF LeftAt, Only, Clear
    <3> QED
      BY <3>1, <3>2
  <2>7. ASSUME NEW c \in Decls, c > k PROVE u.value[c] = m.value[c] /\ u.list[c] = m.list[c]
    <3>1. c # k /\ c > j
      BY <1>2, <2>1, <2>4, <2>7
    <3> QED
      BY <2>2, <2>4, <2>5, <3>1 DEF LeftAt, Only
  <2> QED
    BY <2>4, <2>5, <2>6, <2>7 DEF LeftAt
<1>8. S = Nat
  <2>1. S \in SUBSET Nat
    OBVIOUS
  <2> HIDE DEF S
  <2> QED
    BY <1>6, <1>7, <2>1, TableConstants, TP!AllNaturals
<1> QED
  BY <1>2, <1>5, <1>8

----------------------------------------------------------------------------
(* decl_use_default_value and decl_use_config_value.                       *)

\* What an outcome of giving declaration k its value leaves
Outcome(m, k, o) ==
  /\ Sane(o.m) /\ Only(m, o.m, k) /\ HeapKept(m, o.m) /\ o.ok \in BOOLEAN
  /\ IsList(k) /\ o.ok => Line(o.m.list[k])

LEMMA CreatedLine ==
  ASSUME NEW n \in 1..ListMax
  PROVE  LET t == LT!Created(n, {}) IN Line(t) /\ t.count = 0 /\ t.size = n
<1>1. PICK t : t = LT!Created(n, {})
  OBVIOUS
<1>0. PICK c, fl : c = [p \in 0..(n - 1) |-> 0] /\ fl = {"XIS"}
  OBVIOUS
<1>2. ListMax \in Nat
  BY ConfAssumption
<1>3. /\ t.flags = {"XIS"} /\ t.head = "live" /\ t.size = n /\ t.pos = 0 /\ t.last = 0
      /\ t.tail = 0 /\ t.count = 0 /\ t.fragCount = 0 /\ t.mask = {}
      /\ t.cells = [p \in 0..(n - 1) |-> 0]
      /\ t = [flags |-> t.flags, head |-> t.head, size |-> t.size, pos |-> t.pos,
              last |-> t.last, tail |-> t.tail, count |-> t.count,
              fragCount |-> t.fragCount, mask |-> t.mask, cells |-> t.cells]
  <2>1. t = [flags |-> fl, head |-> "live", size |-> n, pos |-> 0, last |-> 0, tail |-> 0,
             count |-> 0, fragCount |-> 0, mask |-> {}, cells |-> c]
    <3>1. {"XIS"} \cup {} = fl
      BY <1>0
    <3> QED
      BY <1>0, <1>1, <3>1 DEF LT!Created
  <2> QED
    BY <1>0, <2>1
<1>4. t.cells = [p \in 0..(n - 1) |-> t.cells[p]]
  BY <1>3
<1>5. /\ t.size \in 1..ListMax /\ t.last < t.size /\ t.count \in Nat /\ t.last \in Nat
      /\ t.count = 0 /\ t.last = 0
  BY <1>2, <1>3
<1>6. LT!Exists(t)
  BY <1>3 DEF LT!Exists
<1>7. /\ t.head = "live" /\ t.mask = {} /\ t.fragCount = 0 /\ t.tail = t.last
  BY <1>3
<1>8. Line(t)
  BY <1>3, <1>4, <1>5, <1>6, <1>7 DEF Line
<1> QED
  BY <1>1, <1>3, <1>5, <1>8

\* list_create
LEMMA ListCreateFacts ==
  ASSUME WorldInv, HalfFaults = FALSE, NEW m, Sane(m), NEW k \in Decls, IsList(k),
         m.list[k] = LT!NoTable, NEW cnt \in Nat, NEW o \in ListCreate(m, k, cnt)
  PROVE  /\ Outcome(m, k, o)
         /\ o.ok => o.m.list[k].count = 0 /\ (cnt # 0 => o.m.list[k].size = cnt)
<1>1. PICK n : n = IF cnt = 0 THEN ListSize ELSE cnt
  OBVIOUS
<1>2. PICK r \in Whole(LT!Create(m.list[k], n, {})) : o = [ok |-> r.ok, m |-> [m EXCEPT !.list[k] = r.t]]
  BY <1>1 DEF ListCreate
<1>3. PICK t : t = r.t
  OBVIOUS
<1>4. PICK w : w = WithList(m, k, t)
  OBVIOUS
<1>5. o.m = w /\ o.ok = r.ok
  BY <1>2, <1>3, <1>4, Zenon DEF WithList
<1>6. n \in Nat /\ ListMax \in Nat
  BY <1>1, ConfAssumption
<1>7. \/ r.ok = FALSE /\ t = LT!NoTable
      \/ r.ok = TRUE /\ Line(t) /\ t.count = 0 /\ t.size = n
  <2>1. CASE r = LT!Failed(LT!NoTable)
    BY <1>3, <2>1, Zenon DEF LT!Failed
  <2>2. CASE r # LT!Failed(LT!NoTable)
    <3>1. n \in 1..ListMax /\ r = LT!Done(LT!Null, LT!Created(n, {}))
      <4>1. PICK half : half = [LT!NoTable EXCEPT !.head = "freed"]
        OBVIOUS
      <4>2. LT!Failed(half).t = half
        BY Zenon DEF LT!Failed
      <4>3. half.head = "freed"
        BY <4>1 DEF LT!NoTable
      <4>4. r \in LT!Create(LT!NoTable, n, {}) /\ r # LT!Failed(half)
        BY <1>2, <4>2, <4>3 DEF Whole
      <4> QED
        BY <1>6, <2>2, <4>1, <4>4 DEF LT!Create, LT!MinSize
    <3>2. r.ok = TRUE /\ t = LT!Created(n, {})
      BY <1>3, <3>1, Zenon DEF LT!Done
    <3> QED
      BY <3>1, <3>2, CreatedLine
  <2> QED
    BY <2>1, <2>2
<1>8. LT!Live(t) = {} /\ LT!Live(m.list[k]) = {}
  <2>1. CASE t.count = 0
    BY <2>1, NoTableLive DEF LT!Live, LT!IsEmpty
  <2>2. CASE t = LT!NoTable
    BY <2>2, NoTableLive
  <2> QED
    BY <1>7, <2>1, <2>2, NoTableLive
<1>9. /\ MemShape(w) /\ w.heap = m.heap /\ w.twice = m.twice /\ Only(m, w, k)
      /\ w.value = m.value /\ w.list[k] = t
  BY <1>4, ListSet DEF Sane
<1>10. \A c, p, b : PointsTo(w, c, p, b) <=> PointsTo(m, c, p, b)
  <2>1. \A p, b : ~PointsTo(w, k, p, b) /\ ~PointsTo(m, k, p, b)
    BY <1>8, <1>9 DEF PointsTo
  <2>2. \A c, p, b : c # k => (PointsTo(w, c, p, b) <=> PointsTo(m, c, p, b))
    BY <1>9, OnlyPoints
  <2> QED
    BY <2>1, <2>2
<1>11. Accounted(w)
  BY <1>9, <1>10, AccountedSame DEF Sane, Tidy
<1>12. \A c \in Decls : w.list[c] = LT!NoTable \/ (IsList(c) /\ Line(w.list[c]))
  BY <1>7, <1>9 DEF Only, Sane, Tidy
<1>13. Sane(w)
  BY <1>9, <1>11, <1>12 DEF Sane, Tidy
<1> QED
  BY <1>1, <1>5, <1>7, <1>9, <1>13 DEF Outcome, HeapKept

LEMMA OnlyTwice ==
  ASSUME NEW m, NEW n, NEW w, NEW k, Only(m, n, k), Only(n, w, k)
  PROVE  Only(m, w, k)
BY DEF Only

LEMMA HeapKeptTwice ==
  ASSUME NEW m, NEW n, NEW w, HeapKept(m, n), HeapKept(n, w)
  PROVE  HeapKept(m, w)
BY DEF HeapKept

\* set_value, on what an earlier one left
LEMMA OutcomeSet ==
  ASSUME WorldInv, HalfFaults = FALSE, NEW m, NEW k \in Decls, NEW o, Outcome(m, k, o),
         Ready(o.m, k), NEW src, NEW s \in SetValue(o.m, k, src)
  PROVE  Outcome(m, k, s) /\ (IsList(k) => Line(s.m.list[k]))
<1>1. PICK n : n = o.m
  OBVIOUS
<1>2. Sane(n) /\ Only(m, n, k) /\ HeapKept(m, n) /\ Ready(n, k)
  BY <1>1 DEF Outcome
<1>3. /\ Sane(s.m) /\ Only(n, s.m, k) /\ HeapKept(n, s.m) /\ s.ok \in BOOLEAN
      /\ IsList(k) => Ready(s.m, k)
  BY <1>1, <1>2, SetValueSane
<1>4. Only(m, s.m, k) /\ HeapKept(m, s.m)
  BY <1>2, <1>3, OnlyTwice, HeapKeptTwice
<1> QED
  BY <1>3, <1>4 DEF Outcome, Ready

----------------------------------------------------------------------------
(* What is read after set_value.                                           *)

\* Bits that a part of the program reads as v: in one place, or in a list of the
\* file's, of which a string may be missing.
Exact(m, k, bits, v) ==
  IF IsStr(k) THEN bits # 0 /\ bits \in DOMAIN m.heap /\ m.heap[bits] = v
  ELSE ReadBack(world.decls[k], bits) = v
Lost(k, bits) ==
  IsStr(k) /\ IsList(k) /\ bits = 0 /\ world.conf[world.decls[k].path].is = "array"
Lists(m, k, n, want) ==
  /\ Line(m.list[k]) /\ m.list[k].count = n
  /\ \A p \in 0..(n - 1) :
       Exact(m, k, m.list[k].cells[p], want[p + 1]) \/ Lost(k, m.list[k].cells[p])

LEMMA ListsKept ==
  ASSUME NEW m, NEW w, NEW k \in Decls, NEW n, NEW want, Lists(m, k, n, want),
         HeapKept(m, w), w.list[k] = m.list[k]
  PROVE  Lists(w, k, n, want)
<1>1. \A b, v : Exact(m, k, b, v) => Exact(w, k, b, v)
  BY DEF Exact, HeapKept
<1> QED
  BY <1>1 DEF Lists

\* The list got src at its tail, or a NULL in place of it.
Appended(m, o, k, src) ==
  LET t == m.list[k]
      u == o.m.list[k]
  IN /\ Line(u) /\ u.count = t.count + 1 /\ (t.count < t.size => u.size = t.size)
     /\ \A p \in 0..(t.count - 1) : u.cells[p] = t.cells[p]
     /\ \/ o.ok /\ Exact(o.m, k, u.cells[t.count], src)
        \/ ~o.ok /\ IsStr(k) /\ u.cells[t.count] = 0
     /\ IsStr(k) \/ Fits(world.decls[k], src)

\* What is read after set_value
LEMMA SetValueReads ==
  ASSUME WorldInv, HalfFaults = FALSE, NEW m, Sane(m), NEW k \in Decls, Ready(m, k),
         NEW src, NEW o \in SetValue(m, k, src)
  PROVE  /\ HeapKept(m, o.m)
         /\ IsList(k) => Refused(m, o, k, src) \/ Appended(m, o, k, src)
         /\ ~IsList(k) /\ o.ok => Exact(o.m, k, o.m.value[k], src)
<1>1. /\ HeapKept(m, o.m)
      /\ Refused(m, o, k, src) \/ \E bits \in Bytes(k) : PutDown(m, o, k, src, bits)
  BY SetValueFacts DEF Sane
<1>2. CASE Refused(m, o, k, src)
  BY <1>1, <1>2 DEF Refused
<1>3. ASSUME NEW bits \in Bytes(k), PutDown(m, o, k, src, bits)
      PROVE  /\ IsList(k) => Appended(m, o, k, src)
             /\ ~IsList(k) /\ o.ok => Exact(o.m, k, o.m.value[k], src)
  <2>1. \/ o.ok /\ Exact(o.m, k, bits, src)
        \/ ~o.ok /\ IsStr(k) /\ bits = 0
    <3>1. CASE IsStr(k)
      <4>1. 0 \notin 1..Blocks
        BY ConfAssumption
      <4>2. \/ ~o.ok /\ bits = 0
            \/ /\ o.ok /\ bits \in 1..Blocks
               /\ DOMAIN o.m.heap = DOMAIN m.heap \cup {bits} /\ o.m.heap[bits] = src
        BY <1>3, <3>1 DEF PutDown, Placed
      <4> QED
        BY <3>1, <4>1, <4>2 DEF Exact
    <3>2. CASE ~IsStr(k)
      <4>1. /\ o.ok /\ bits = Stored(world.decls[k], src) /\ Fits(world.decls[k], src)
        BY <1>3, <3>2 DEF PutDown, Placed
      <4>2. ReadBack(world.decls[k], bits) = src
        <5>1. world.decls[k].type \in NumTypes
          BY <3>2, DeclFacts
        <5>2. PICK d : d = world.decls[k]
          OBVIOUS
        <5> QED
          BY <4>1, <5>1, <5>2, ReadBackFits
      <4> QED
        BY <3>2, <4>1, <4>2 DEF Exact
    <3> QED
      BY <3>1, <3>2
  <2>2. CASE IsList(k)
    <3>1. PICK t, u : t = m.list[k] /\ u = o.m.list[k]
      OBVIOUS
    <3>2. Line(t) /\ Grew(t, u, bits)
      BY <1>3, <2>2, <3>1 DEF PutDown, Ready
    <3>3. LT!Live(t) = 0..(t.count - 1)
      BY <3>2, LineLive
    <3>4. /\ Line(u) /\ u.count = t.count + 1 /\ (t.count < t.size => u.size = t.size)
          /\ \A p \in 0..(t.count - 1) : u.cells[p] = t.cells[p]
          /\ u.cells[t.count] = bits
      BY <3>2, <3>3 DEF Grew
    <3>5. IsStr(k) \/ Fits(world.decls[k], src)
      BY <1>3 DEF PutDown, Placed
    <3> QED
      BY <2>1, <2>2, <3>1, <3>4, <3>5 DEF Appended
  <2>3. CASE ~IsList(k)
    <3>1. o.m.value[k] = bits
      BY <1>3, <2>3 DEF PutDown
    <3> QED
      BY <2>1, <2>3, <3>1
  <2> QED
    BY <2>2, <2>3
<1> QED
  BY <1>1, <1>2, <1>3

\* A list that got one more of the values that are wanted
LEMMA ListsMore ==
  ASSUME NEW m, NEW o, NEW k \in Decls, NEW n \in Nat, NEW want, Lists(m, k, n, want),
         NEW src, Appended(m, o, k, src), HeapKept(m, o.m), NEW more,
         \A q \in 1..n : more[q] = want[q], more[n + 1] = src,
         o.ok \/ world.conf[world.decls[k].path].is = "array", IsList(k)
  PROVE  Lists(o.m, k, n + 1, more)
<1>1. PICK t, u, w : t = m.list[k] /\ u = o.m.list[k] /\ w = o.m
  OBVIOUS
<1>2. /\ Line(u) /\ t.count = n /\ u.count = n + 1
      /\ \A p \in 0..(n - 1) : u.cells[p] = t.cells[p]
      /\ Exact(w, k, u.cells[n], src) \/ Lost(k, u.cells[n])
  BY <1>1 DEF Appended, Lists, Lost
<1>3. \A b, v : Exact(m, k, b, v) => Exact(w, k, b, v)
  BY <1>1 DEF Exact, HeapKept
<1>4. ASSUME NEW p \in 0..((n + 1) - 1)
      PROVE  Exact(w, k, u.cells[p], more[p + 1]) \/ Lost(k, u.cells[p])
  <2>1. CASE p = n
    BY <1>2, <2>1
  <2>2. CASE p # n
    <3>1. p \in 0..(n - 1) /\ p + 1 \in 1..n
      BY <2>2
    <3>2. Exact(m, k, t.cells[p], want[p + 1]) \/ Lost(k, t.cells[p])
      BY <1>1, <3>1 DEF Lists
    <3>3. more[p + 1] = want[p + 1] /\ u.cells[p] = t.cells[p]
      BY <1>2, <3>1
    <3> QED
      BY <1>3, <3>2, <3>3
  <2> QED
    BY <2>1, <2>2
<1> QED
  BY <1>1, <1>2, <1>4 DEF Lists

----------------------------------------------------------------------------
(* Defaults and values of the file, which set a declaration that is clear. *)

\* The loop of decl_use_default_value, by the defaults that it has come to
DefaultTurn(S, k, n) ==
  UNION {IF o.ok THEN SetValue(o.m, k, Default(world.decls[k], n)) ELSE {o} : o \in S}
DefaultRuns(m, k, f, j) ==
  f = [n \in 0..j |->
         IF n = 0 THEN IF world.decls[k].list THEN ListCreate(m, k, 0) ELSE {Good(m)}
         ELSE UNION {IF o.ok THEN SetValue(o.m, k, Default(world.decls[k], n)) ELSE {o} :
                       o \in f[n - 1]}]

LEMMA DefaultRunsExist ==
  ASSUME NEW m, NEW k, NEW last \in Nat
  PROVE  \E f : DefaultRuns(m, k, f, last)
<1> DEFINE Start == IF world.decls[k].list THEN ListCreate(m, k, 0) ELSE {Good(m)}
<1> DEFINE Reached == {j \in Nat : \E f : DefaultRuns(m, k, f, j)}
<1>1. 0 \in Reached
  <2> DEFINE f == [n \in 0..0 |-> Start]
  <2>1. DefaultRuns(m, k, f, 0)
    BY DEF DefaultRuns
  <2> HIDE DEF f
  <2> QED
    BY <2>1
<1>2. ASSUME NEW j \in Reached PROVE j + 1 \in Reached
  <2>1. PICK f : DefaultRuns(m, k, f, j)
    OBVIOUS
  <2> DEFINE g == [n \in 0..(j + 1) |-> IF n = j + 1 THEN DefaultTurn(f[j], k, n) ELSE f[n]]
  <2>2. j \in Nat /\ g = [n \in 0..(j + 1) |-> g[n]]
    OBVIOUS
  <2>3. ASSUME NEW n \in 0..(j + 1)
        PROVE  g[n] = IF n = 0 THEN Start ELSE DefaultTurn(g[n - 1], k, n)
    <3>1. CASE n = j + 1
      <4>1. n # 0 /\ n - 1 = j /\ j \in 0..(j + 1) /\ j # j + 1
        BY <2>2, <3>1
      <4>2. g[n] = DefaultTurn(f[j], k, n) /\ g[n - 1] = f[j]
        BY <3>1, <4>1
      <4> HIDE DEF g
      <4> QED
        BY <4>1, <4>2
    <3>2. CASE n # j + 1
      <4>1. n \in 0..j /\ g[n] = f[n]
        BY <2>2, <3>2
      <4>2. n # 0 => g[n - 1] = f[n - 1]
        BY <2>2, <4>1
      <4>3. f[n] = IF n = 0 THEN Start ELSE DefaultTurn(f[n - 1], k, n)
        BY <2>1, <4>1 DEF DefaultRuns, DefaultTurn
      <4> HIDE DEF g
      <4> QED
        BY <4>1, <4>2, <4>3
    <3> QED
      BY <3>1, <3>2
  <2> HIDE DEF g
  <2>4. DefaultRuns(m, k, g, j + 1)
    BY <2>2, <2>3 DEF DefaultRuns, DefaultTurn
  <2> QED
    BY <2>2, <2>4
<1> HIDE DEF Reached
<1>3. Reached = Nat
  <2>1. Reached \in SUBSET Nat
    BY DEF Reached
  <2> QED
    BY <1>1, <1>2, <2>1, TableConstants, TP!AllNaturals
<1> QED
  BY <1>3 DEF Reached

\* decl_use_default_value
LEMMA UseDefaultReads ==
  ASSUME WorldInv, HalfFaults = FALSE, NEW m, Sane(m), NEW k \in Decls, Clear(m, k),
         NEW o \in UseDefault(m, k), NEW want,
         \A n \in 1..Len(world.decls[k].defval) : want[n] = Default(world.decls[k], n)
  PROVE  /\ Outcome(m, k, o)
         /\ o.ok => IF IsList(k) THEN Lists(o.m, k, Len(world.decls[k].defval), want)
                    ELSE \/ Len(world.decls[k].defval) = 0
                         \/ /\ Len(world.decls[k].defval) = 1
                            /\ Exact(o.m, k, o.m.value[k], want[1])
<1>1. PICK last : last = Len(world.decls[k].defval)
  OBVIOUS
<1>2. last \in Nat /\ (~IsList(k) => last <= 1)
  BY <1>1, ConfAssumption DEF WorldInv, Decls, IsList
<1>3. PICK f : f = CHOOSE g : DefaultRuns(m, k, g, Len(world.decls[k].defval))
  OBVIOUS
<1>4. DefaultRuns(m, k, f, last)
  BY <1>1, <1>2, <1>3, DefaultRunsExist
<1>5. o \in f[last]
  BY <1>1, <1>3 DEF UseDefault, DefaultRuns
<1> DEFINE Read(x, j) == IF IsList(k) THEN Lists(x.m, k, j, want)
                         ELSE IF j = 0 THEN Ready(x.m, k)
                         ELSE Exact(x.m, k, x.m.value[k], want[1])
           S == {j \in Nat : j <= last => \A x \in f[j] : Outcome(m, k, x) /\ (x.ok => Read(x, j))}
<1>6. 0 \in S
  <2>1. f[0] = IF IsList(k) THEN ListCreate(m, k, 0) ELSE {Good(m)}
    BY <1>2, <1>4 DEF DefaultRuns, IsList
  <2>2. ASSUME NEW x \in f[0] PROVE Outcome(m, k, x) /\ (x.ok => Read(x, 0))
    <3>1. CASE IsList(k)
      <4>0. /\ x \in ListCreate(m, k, 0) /\ 0 \in Nat
        BY <2>1, <2>2, <3>1
      <4>01. m.list[k] = LT!NoTable
        BY DEF Clear
      <4>02. PICK cnt \in Nat : x \in ListCreate(m, k, cnt)
        BY <4>0
      <4>1. Outcome(m, k, x) /\ (x.ok => x.m.list[k].count = 0)
        BY <3>1, <4>01, <4>02, ListCreateFacts
      <4>2. \A p : p \notin 0..(0 - 1)
        OBVIOUS
      <4>3. x.ok => Lists(x.m, k, 0, want)
        BY <3>1, <4>1, <4>2 DEF Outcome, Lists
      <4> QED
        BY <3>1, <4>1, <4>3
    <3>2. CASE ~IsList(k)
      <4>1. x = Good(m)
        BY <2>1, <2>2, <3>2
      <4>2. x.m = m /\ x.ok = TRUE
        BY <4>1, Zenon DEF Good
      <4> QED
        BY <3>2, <4>2 DEF Outcome, Ready, Only, HeapKept
    <3> QED
      BY <3>1, <3>2
  <2> QED
    BY <2>2
<1>7. ASSUME NEW j \in S PROVE j + 1 \in S
  <2> SUFFICES ASSUME j + 1 <= last, NEW x \in f[j + 1]
               PROVE  Outcome(m, k, x) /\ (x.ok => Read(x, j + 1))
    OBVIOUS
  <2>1. j \in Nat /\ j <= last /\ (j + 1) - 1 = j /\ j + 1 # 0 /\ j + 1 \in 0..last
        /\ j + 1 \in 1..last
    BY <1>2
  <2>2. f[j + 1] = DefaultTurn(f[j], k, j + 1)
    BY <1>4, <2>1 DEF DefaultRuns, DefaultTurn
  <2>3. PICK y \in f[j] : x \in IF y.ok THEN SetValue(y.m, k, Default(world.decls[k], j + 1))
                              ELSE {y}
    BY <2>2 DEF DefaultTurn
  <2>4. Outcome(m, k, y) /\ (y.ok => Read(y, j))
    BY <2>1
  <2>5. CASE ~y.ok
    BY <2>3, <2>4, <2>5
  <2>6. CASE y.ok
    <3>1. Ready(y.m, k)
      <4>1. CASE IsList(k)
        BY <2>4, <2>6, <4>1 DEF Outcome, Ready
      <4>2. CASE ~IsList(k)
        <5>1. j = 0
          BY <1>2, <2>1, <4>2
        <5> QED
          BY <2>4, <2>6, <4>2, <5>1
      <4> QED
        BY <4>1, <4>2
    <3>2. PICK src : src = Default(world.decls[k], j + 1)
      OBVIOUS
    <3>3. x \in SetValue(y.m, k, src) /\ src = want[j + 1]
      BY <1>1, <2>1, <2>3, <2>6, <3>2
    <3>4. Outcome(m, k, x)
      BY <2>4, <3>1, <3>3, OutcomeSet
    <3>5. PICK n : n = y.m
      OBVIOUS
    <3>6. /\ HeapKept(n, x.m)
          /\ IsList(k) => Refused(n, x, k, src) \/ Appended(n, x, k, src)
          /\ ~IsList(k) /\ x.ok => Exact(x.m, k, x.m.value[k], src)
      <4>1. Sane(n) /\ Ready(n, k) /\ x \in SetValue(n, k, src)
        BY <2>4, <3>1, <3>3, <3>5 DEF Outcome
      <4> QED
        BY <4>1, SetValueReads
    <3>7. ASSUME x.ok PROVE Read(x, j + 1)
      <4>1. CASE IsList(k)
        <5>1. Appended(n, x, k, src)
          BY <3>6, <3>7, <4>1 DEF Refused
        <5>2. Lists(n, k, j, want)
          BY <2>4, <2>6, <3>5, <4>1
        <5>3. Lists(x.m, k, j + 1, want)
          BY <2>1, <3>3, <3>6, <3>7, <4>1, <5>1, <5>2, ListsMore
        <5> QED
          BY <4>1, <5>3
      <4>2. CASE ~IsList(k)
        <5>1. j = 0 /\ j + 1 = 1
          BY <1>2, <2>1, <4>2
        <5> QED
          BY <2>1, <3>3, <3>6, <3>7, <4>2, <5>1
      <4> QED
        BY <4>1, <4>2
    <3> QED
      BY <3>4, <3>7
  <2> QED
    BY <2>5, <2>6
<1>8. S = Nat
  <2>1. S \in SUBSET Nat
    OBVIOUS
  <2> HIDE DEF S
  <2> QED
    BY <1>6, <1>7, <2>1, TableConstants, TP!AllNaturals
<1>9. Outcome(m, k, o) /\ (o.ok => Read(o, last))
  BY <1>2, <1>5, <1>8
<1>10. CASE IsList(k)
  BY <1>1, <1>9, <1>10
<1>11. CASE ~IsList(k)
  <2>1. last = 0 \/ last = 1
    BY <1>2, <1>11
  <2> QED
    BY <1>1, <1>9, <1>11, <2>1
<1> QED
  BY <1>10, <1>11

\* The loop that the elements of a list that fit are taken by
FittingRuns(d, elems, f, j) ==
  f = [n \in 0..j |->
         IF n = 0 THEN <<>>
         ELSE IF d.type = "str" \/ Fits(d, elems[n].num) THEN Append(f[n - 1], elems[n])
         ELSE f[n - 1]]
\* With element e, or without it if it is out of bounds
Took(d, s, e) == IF d.type = "str" \/ Fits(d, e.num) THEN Append(s, e) ELSE s

LEMMA FittingRunsExist ==
  ASSUME NEW d, NEW elems, NEW last \in Nat
  PROVE  \E f : FittingRuns(d, elems, f, last)
<1> DEFINE Reached == {j \in Nat : \E f : FittingRuns(d, elems, f, j)}
<1>1. 0 \in Reached
  <2> DEFINE f == [n \in 0..0 |-> <<>>]
  <2>1. FittingRuns(d, elems, f, 0)
    BY DEF FittingRuns
  <2> HIDE DEF f
  <2> QED
    BY <2>1
<1>2. ASSUME NEW j \in Reached PROVE j + 1 \in Reached
  <2>1. PICK f : FittingRuns(d, elems, f, j)
    OBVIOUS
  <2> DEFINE g == [n \in 0..(j + 1) |-> IF n = j + 1 THEN Took(d, f[j], elems[n]) ELSE f[n]]
  <2>2. j \in Nat /\ g = [n \in 0..(j + 1) |-> g[n]]
    OBVIOUS
  <2>3. ASSUME NEW n \in 0..(j + 1)
        PROVE  g[n] = IF n = 0 THEN <<>> ELSE Took(d, g[n - 1], elems[n])
    <3>1. CASE n = j + 1
      <4>1. n # 0 /\ n - 1 = j /\ j \in 0..(j + 1) /\ j # j + 1
        BY <2>2, <3>1
      <4>2. g[n] = Took(d, f[j], elems[n]) /\ g[n - 1] = f[j]
        BY <3>1, <4>1
      <4> HIDE DEF g
      <4> QED
        BY <4>1, <4>2
    <3>2. CASE n # j + 1
      <4>1. n \in 0..j /\ g[n] = f[n]
        BY <2>2, <3>2
      <4>2. n # 0 => g[n - 1] = f[n - 1]
        BY <2>2, <4>1
      <4>3. f[n] = IF n = 0 THEN <<>> ELSE Took(d, f[n - 1], elems[n])
        BY <2>1, <4>1 DEF FittingRuns, Took
      <4> HIDE DEF g
      <4> QED
        BY <4>1, <4>2, <4>3
    <3> QED
      BY <3>1, <3>2
  <2> HIDE DEF g
  <2>4. FittingRuns(d, elems, g, j + 1)
    BY <2>2, <2>3 DEF FittingRuns, Took
  <2> QED
    BY <2>2, <2>4
<1> HIDE DEF Reached
<1>3. Reached = Nat
  <2>1. Reached \in SUBSET Nat
    BY DEF Reached
  <2> QED
    BY <1>1, <1>2, <2>1, TableConstants, TP!AllNaturals
<1> QED
  BY <1>3 DEF Reached

\* What is taken of the first elements, and at last
FitsUpTo(d, elems, in, n) ==
  /\ in[n] \in Seq({elems[q] : q \in 1..Len(elems)}) /\ Len(in[n]) <= n
  /\ n = 0 => in[n] = <<>>
  /\ n # 0 => in[n] = Took(d, in[n - 1], elems[n])

LEMMA FittingIs ==
  ASSUME NEW d, NEW elems, Len(elems) \in Nat
  PROVE  \E in : /\ Fitting(d, elems) = in[Len(elems)]
                 /\ \A n \in 0..Len(elems) : FitsUpTo(d, elems, in, n)
<1>1. PICK f : f = CHOOSE g : FittingRuns(d, elems, g, Len(elems))
  OBVIOUS
<1>2. FittingRuns(d, elems, f, Len(elems))
  BY <1>1, FittingRunsExist
<1>3. Fitting(d, elems) = f[Len(elems)]
  BY <1>1 DEF Fitting, FittingRuns
<1>4. PICK last, E : last = Len(elems) /\ E = {elems[q] : q \in 1..Len(elems)}
  OBVIOUS
<1> DEFINE S == {j \in Nat : j <= last => f[j] \in Seq(E) /\ Len(f[j]) <= j}
<1>5. 0 \in S
  <2>1. f[0] = <<>>
    BY <1>2, <1>4 DEF FittingRuns
  <2>2. PICK s : s = f[0]
    OBVIOUS
  <2>3. s \in Seq(E) /\ Len(s) <= 0
    BY <2>1, <2>2
  <2>4. 0 \in Nat
    OBVIOUS
  <2> QED
    BY <2>2, <2>3, <2>4
<1>6. ASSUME NEW j \in S PROVE j + 1 \in S
  <2> SUFFICES ASSUME j + 1 <= last PROVE f[j + 1] \in Seq(E) /\ Len(f[j + 1]) <= j + 1
    OBVIOUS
  <2>1. j \in Nat /\ j <= last /\ (j + 1) - 1 = j /\ j + 1 # 0 /\ j + 1 \in 0..last
        /\ j + 1 \in 1..last
    BY <1>4
  <2>2. f[j + 1] = Took(d, f[j], elems[j + 1])
    BY <1>2, <1>4, <2>1 DEF FittingRuns, Took
  <2>3. PICK s, e : s = f[j] /\ e = elems[j + 1]
    OBVIOUS
  <2>4. s \in Seq(E) /\ Len(s) <= j /\ e \in E
    BY <1>4, <2>1, <2>3
  <2>5. Append(s, e) \in Seq(E) /\ Len(Append(s, e)) = Len(s) + 1 /\ Len(s) \in Nat
    BY <2>4
  <2> QED
    BY <2>1, <2>2, <2>3, <2>4, <2>5 DEF Took
<1>7. S = Nat
  <2>1. S \in SUBSET Nat
    OBVIOUS
  <2> HIDE DEF S
  <2> QED
    BY <1>5, <1>6, <2>1, TableConstants, TP!AllNaturals
<1>8. ASSUME NEW n \in 0..last PROVE FitsUpTo(d, elems, f, n)
  <2>1. f[n] \in Seq(E) /\ Len(f[n]) <= n
    <3>1. n \in Nat /\ n <= last
      BY <1>4
    <3>2. n \in S
      <4> HIDE DEF S
      <4> QED
        BY <1>7, <3>1
    <3> QED
      BY <3>1, <3>2
  <2>2. f[n] = IF n = 0 THEN <<>> ELSE Took(d, f[n - 1], elems[n])
    BY <1>2, <1>4 DEF FittingRuns, Took
  <2> QED
    BY <1>4, <2>1, <2>2 DEF FitsUpTo
<1> QED
  BY <1>3, <1>4, <1>8

\* What a sequence of settings is read as
Vals(d, s) == [q \in 1..Len(s) |-> Value(d, s[q])]

LEMMA ValsMore ==
  ASSUME NEW d, NEW E, NEW s \in Seq(E), NEW e \in E
  PROVE  /\ Len(s) \in Nat /\ Len(Append(s, e)) = Len(s) + 1
         /\ \A q \in 1..Len(s) : Vals(d, Append(s, e))[q] = Vals(d, s)[q]
         /\ Vals(d, Append(s, e))[Len(s) + 1] = Value(d, e)
<1>1. Len(s) \in Nat /\ Append(s, e) \in Seq(E) /\ Len(Append(s, e)) = Len(s) + 1
  OBVIOUS
<1>2. Append(s, e)[Len(s) + 1] = e /\ \A q \in 1..Len(s) : Append(s, e)[q] = s[q]
  OBVIOUS
<1>3. PICK u, n : u = Append(s, e) /\ n = Len(s)
  OBVIOUS
<1>4. n \in Nat /\ Len(u) = n + 1 /\ u[n + 1] = e /\ \A q \in 1..n : u[q] = s[q]
  BY <1>1, <1>2, <1>3
<1>5. /\ \A q \in 1..n : Vals(d, u)[q] = Vals(d, s)[q]
      /\ Vals(d, u)[n + 1] = Value(d, e)
  BY <1>3, <1>4 DEF Vals
<1> QED
  BY <1>3, <1>4, <1>5

\* A list of the file's of that size has what is wanted, n of its elements.
ListGot(x, k, size, want, n) ==
  x.ok => x.m.list[k].size = size /\ Lists(x.m, k, n, want)
\* set_value of one more element, on what the turns before it left
TurnFrom(m, k, size, E, s, e, y, r) ==
  /\ Outcome(m, k, y) /\ y.ok /\ s \in Seq(E) /\ e \in E /\ Len(s) < size
  /\ ListGot(y, k, size, Vals(world.decls[k], s), Len(s))
  /\ r \in SetValue(y.m, k, Value(world.decls[k], e))

LEMMA ListGotMore ==
  ASSUME WorldInv, HalfFaults = FALSE, NEW k \in Decls, IsList(k),
         world.conf[world.decls[k].path].is = "array",
         NEW m, NEW size, NEW E, NEW s, NEW e, NEW y, NEW r, TurnFrom(m, k, size, E, s, e, y, r)
  PROVE  /\ r.m.list[k].size = size
         /\ Lists(r.m, k, Len(Took(world.decls[k], s, e)),
                  Vals(world.decls[k], Took(world.decls[k], s, e)))
<1>1. PICK n, d, src, u : /\ n = y.m /\ d = world.decls[k] /\ src = Value(d, e)
                          /\ u = Took(d, s, e)
  OBVIOUS
<1>2. /\ Sane(n) /\ Ready(n, k) /\ n.list[k].size = size /\ Lists(n, k, Len(s), Vals(d, s))
      /\ s \in Seq(E) /\ e \in E /\ Len(s) < size
  BY <1>1 DEF Outcome, Ready, ListGot, TurnFrom
<1>3. HeapKept(n, r.m) /\ (Refused(n, r, k, src) \/ Appended(n, r, k, src))
  <2>1. r \in SetValue(n, k, src)
    BY <1>1 DEF TurnFrom
  <2> QED
    BY <1>2, <2>1, SetValueReads
<1>4. n.list[k].count = Len(s)
  BY <1>2 DEF Lists
<1>5. ~IsStr(k) => src = e.num
  BY <1>1, DeclFacts DEF Value
<1>6. CASE Refused(n, r, k, src)
  <2>1. r.m = n /\ ~IsStr(k) /\ ~Fits(d, src)
    BY <1>1, <1>2, <1>4, <1>6 DEF Refused
  <2>2. u = s
    BY <1>1, <1>5, <2>1 DEF IsStr, Took
  <2> QED
    BY <1>1, <1>2, <2>1, <2>2
<1>7. CASE Appended(n, r, k, src)
  <2>1. r.m.list[k].size = size /\ (IsStr(k) \/ Fits(d, src))
    BY <1>1, <1>2, <1>4, <1>7 DEF Appended
  <2>2. u = Append(s, e)
    BY <1>1, <1>5, <2>1 DEF IsStr, Took
  <2>3. /\ Len(s) \in Nat /\ Len(u) = Len(s) + 1
        /\ \A q \in 1..Len(s) : Vals(d, u)[q] = Vals(d, s)[q]
        /\ Vals(d, u)[Len(s) + 1] = src
    BY <1>1, <1>2, <2>2, ValsMore
  <2>4. PICK a, want, more : a = Len(s) /\ want = Vals(d, s) /\ more = Vals(d, u)
    OBVIOUS
  <2>5. Lists(r.m, k, a + 1, more)
    <3>1. /\ a \in Nat /\ Lists(n, k, a, want) /\ more[a + 1] = src
          /\ \A q \in 1..a : more[q] = want[q]
      BY <1>2, <2>3, <2>4
    <3> QED
      BY <1>3, <1>7, <3>1, ListsMore
  <2> QED
    BY <1>1, <2>1, <2>3, <2>4, <2>5
<1> QED
  BY <1>3, <1>6, <1>7

\* The loop of decl_use_config_list, by the elements that it has come to
ListTurn(S, k, elems, n) ==
  UNION {IF ~o.ok THEN {o}
         ELSE IF ~Suits(world.decls[k], elems[n]) THEN {Bad(o.m)}
         ELSE {Good(s.m) : s \in SetValue(o.m, k, Value(world.decls[k], elems[n]))} : o \in S}
ListRuns(m, k, elems, f, j) ==
  f = [n \in 0..j |->
         IF n = 0 THEN ListCreate(m, k, Len(elems))
         ELSE UNION {IF ~o.ok THEN {o}
                     ELSE IF ~Suits(world.decls[k], elems[n]) THEN {Bad(o.m)}
                     ELSE {Good(s.m) : s \in SetValue(o.m, k, Value(world.decls[k], elems[n]))} :
                       o \in f[n - 1]}]

LEMMA ListRunsExist ==
  ASSUME NEW m, NEW k, NEW elems, NEW last \in Nat
  PROVE  \E f : ListRuns(m, k, elems, f, last)
<1> DEFINE Start == ListCreate(m, k, Len(elems))
<1> DEFINE Reached == {j \in Nat : \E f : ListRuns(m, k, elems, f, j)}
<1>1. 0 \in Reached
  <2> DEFINE f == [n \in 0..0 |-> Start]
  <2>1. ListRuns(m, k, elems, f, 0)
    BY DEF ListRuns
  <2> HIDE DEF f
  <2> QED
    BY <2>1
<1>2. ASSUME NEW j \in Reached PROVE j + 1 \in Reached
  <2>1. PICK f : ListRuns(m, k, elems, f, j)
    OBVIOUS
  <2> DEFINE g == [n \in 0..(j + 1) |-> IF n = j + 1 THEN ListTurn(f[j], k, elems, n) ELSE f[n]]
  <2>2. j \in Nat /\ g = [n \in 0..(j + 1) |-> g[n]]
    OBVIOUS
  <2>3. ASSUME NEW n \in 0..(j + 1)
        PROVE  g[n] = IF n = 0 THEN Start ELSE ListTurn(g[n - 1], k, elems, n)
    <3>1. CASE n = j + 1
      <4>1. n # 0 /\ n - 1 = j /\ j \in 0..(j + 1) /\ j # j + 1
        BY <2>2, <3>1
      <4>2. g[n] = ListTurn(f[j], k, elems, n) /\ g[n - 1] = f[j]
        BY <3>1, <4>1
      <4> HIDE DEF g
      <4> QED
        BY <4>1, <4>2
    <3>2. CASE n # j + 1
      <4>1. n \in 0..j /\ g[n] = f[n]
        BY <2>2, <3>2
      <4>2. n # 0 => g[n - 1] = f[n - 1]
        BY <2>2, <4>1
      <4>3. f[n] = IF n = 0 THEN Start ELSE ListTurn(f[n - 1], k, elems, n)
        BY <2>1, <4>1 DEF ListRuns, ListTurn
      <4> HIDE DEF g
      <4> QED
        BY <4>1, <4>2, <4>3
    <3> QED
      BY <3>1, <3>2
  <2> HIDE DEF g
  <2>4. ListRuns(m, k, elems, g, j + 1)
    BY <2>2, <2>3 DEF ListRuns, ListTurn
  <2> QED
    BY <2>2, <2>4
<1> HIDE DEF Reached
<1>3. Reached = Nat
  <2>1. Reached \in SUBSET Nat
    BY DEF Reached
  <2> QED
    BY <1>1, <1>2, <2>1, TableConstants, TP!AllNaturals
<1> QED
  BY <1>3 DEF Reached

LEMMA OutcomeAgain ==
  ASSUME NEW m, NEW k, NEW o, Outcome(m, k, o), NEW x,
         x = Bad(o.m) \/ (x = Good(o.m) /\ (IsList(k) => Line(o.m.list[k])))
  PROVE  Outcome(m, k, x)
<1>1. CASE x = Bad(o.m)
  <2>1. x.m = o.m /\ x.ok = FALSE
    BY <1>1, Zenon DEF Bad
  <2> QED
    BY <2>1 DEF Outcome
<1>2. CASE x = Good(o.m) /\ (IsList(k) => Line(o.m.list[k]))
  <2>1. x.m = o.m /\ x.ok = TRUE
    BY <1>2, Zenon DEF Good
  <2> QED
    BY <1>2, <2>1 DEF Outcome
<1> QED
  BY <1>1, <1>2

\* decl_use_config_list
LEMMA UseListReads ==
  ASSUME WorldInv, HalfFaults = FALSE, NEW m, Sane(m), NEW k \in Decls, IsList(k), Clear(m, k),
         world.conf[world.decls[k].path].is = "array",
         NEW elems, Len(elems) \in Nat, NEW o \in UseList(m, k, elems), NEW s,
         s = Fitting(world.decls[k], elems)
  PROVE  Outcome(m, k, o) /\ (o.ok => Lists(o.m, k, Len(s), Vals(world.decls[k], s)))
<1>1. PICK last, d, E : /\ last = Len(elems) /\ d = world.decls[k]
                        /\ E = {elems[q] : q \in 1..Len(elems)}
  OBVIOUS
<1>2. CASE last = 0
  <2>1. o = Bad(m)
    BY <1>1, <1>2 DEF UseList
  <2>2. o.m = m /\ o.ok = FALSE
    BY <2>1, Zenon DEF Bad
  <2> QED
    BY <2>2 DEF Outcome, Only, HeapKept
<1>3. CASE last # 0
  <2>1. PICK f : f = CHOOSE g : ListRuns(m, k, elems, g, Len(elems))
    OBVIOUS
  <2>2. ListRuns(m, k, elems, f, last)
    BY <1>1, <2>1, ListRunsExist
  <2>3. o \in f[last]
    BY <1>1, <1>3, <2>1 DEF UseList, ListRuns
  <2>4. PICK in : /\ s = in[last]
                  /\ \A n \in 0..last : FitsUpTo(d, elems, in, n)
    BY <1>1, FittingIs
  <2> DEFINE S == {j \in Nat : j <= last => \A x \in f[j] :
                     Outcome(m, k, x) /\ ListGot(x, k, last, Vals(d, in[j]), Len(in[j]))}
  <2>5. 0 \in S
    <3>1. f[0] = ListCreate(m, k, last)
      BY <1>1, <2>2 DEF ListRuns
    <3>2. in[0] = <<>>
      <4>1. FitsUpTo(d, elems, in, 0)
        BY <1>1, <2>4
      <4> QED
        BY <4>1 DEF FitsUpTo
    <3>3. Len(in[0]) = 0
      BY <3>2
    <3>4. ASSUME NEW x \in f[0]
          PROVE  Outcome(m, k, x) /\ ListGot(x, k, last, Vals(d, in[0]), Len(in[0]))
      <4>1. m.list[k] = LT!NoTable /\ last \in Nat /\ x \in ListCreate(m, k, last)
        BY <1>1, <3>1, <3>4 DEF Clear
      <4>2. /\ Outcome(m, k, x)
            /\ x.ok => x.m.list[k].count = 0 /\ x.m.list[k].size = last
        BY <1>3, <4>1, ListCreateFacts
      <4>3. \A p : p \notin 0..(0 - 1)
        OBVIOUS
      <4> QED
        BY <3>3, <4>2, <4>3 DEF Outcome, Lists, ListGot
    <3> QED
      BY <3>4
  <2>6. ASSUME NEW j \in S PROVE j + 1 \in S
    <3> SUFFICES ASSUME j + 1 <= last, NEW x \in f[j + 1]
                 PROVE  /\ Outcome(m, k, x)
                        /\ ListGot(x, k, last, Vals(d, in[j + 1]), Len(in[j + 1]))
      OBVIOUS
    <3>1. j \in Nat /\ j <= last /\ (j + 1) - 1 = j /\ j + 1 # 0 /\ j + 1 \in 0..last
          /\ j + 1 \in 1..last /\ j \in 0..last
      BY <1>1
    <3>2. f[j + 1] = ListTurn(f[j], k, elems, j + 1)
      BY <2>2, <3>1 DEF ListRuns, ListTurn
    <3>3. PICK e, src : e = elems[j + 1] /\ src = Value(d, e)
      OBVIOUS
    <3>4. PICK y \in f[j] :
            x \in IF ~y.ok THEN {y}
                  ELSE IF ~Suits(d, e) THEN {Bad(y.m)}
                  ELSE {Good(r.m) : r \in SetValue(y.m, k, src)}
      BY <1>1, <3>2, <3>3 DEF ListTurn
    <3>5. Outcome(m, k, y) /\ ListGot(y, k, last, Vals(d, in[j]), Len(in[j]))
      BY <3>1
    <3>6. CASE (x = y /\ ~y.ok) \/ x = Bad(y.m)
      <4>1. Bad(y.m).ok = FALSE
        BY Zenon DEF Bad
      <4>2. ~x.ok
        BY <3>6, <4>1
      <4> QED
        BY <3>5, <3>6, <4>2, OutcomeAgain DEF ListGot
    <3>7. CASE ~((x = y /\ ~y.ok) \/ x = Bad(y.m))
      <4>1. y.ok /\ \E r \in SetValue(y.m, k, src) : x = Good(r.m)
        BY <3>4, <3>7
      <4>2. PICK r \in SetValue(y.m, k, src) : x = Good(r.m)
        BY <4>1
      <4>3. Ready(y.m, k)
        BY <3>5, <4>1 DEF Outcome, Ready
      <4>4. Outcome(m, k, r) /\ Line(r.m.list[k])
        BY <3>5, <4>3, OutcomeSet
      <4>5. Outcome(m, k, x)
        BY <4>2, <4>4, OutcomeAgain
      <4>6. PICK t, u : t = in[j] /\ u = in[j + 1]
        OBVIOUS
      <4>7. t \in Seq(E) /\ Len(t) <= j /\ e \in E
        BY <1>1, <2>4, <3>1, <3>3, <4>6 DEF FitsUpTo
      <4>8. u = Took(d, t, e)
        BY <2>4, <3>1, <3>3, <4>6 DEF FitsUpTo, Took
      <4>9. Len(t) < last
        <5>1. Len(t) \in Nat
          BY <4>7
        <5> QED
          BY <1>1, <3>1, <4>7, <5>1
      <4>10. r.m.list[k].size = last /\ Lists(r.m, k, Len(u), Vals(d, u))
        <5>1. TurnFrom(m, k, last, E, t, e, y, r)
          BY <1>1, <3>3, <3>5, <4>1, <4>6, <4>7, <4>9 DEF TurnFrom
        <5>2. /\ r.m.list[k].size = last
              /\ Lists(r.m, k, Len(Took(world.decls[k], t, e)),
                       Vals(world.decls[k], Took(world.decls[k], t, e)))
          BY <5>1, ListGotMore
        <5> QED
          BY <1>1, <4>8, <5>2
      <4>11. x.m = r.m
        BY <4>2, Zenon DEF Good
      <4> QED
        BY <4>5, <4>6, <4>10, <4>11 DEF ListGot
    <3> QED
      BY <3>6, <3>7
  <2>7. S = Nat
    <3>1. S \in SUBSET Nat
      OBVIOUS
    <3> HIDE DEF S
    <3> QED
      BY <2>5, <2>6, <3>1, TableConstants, TP!AllNaturals
  <2>8. Outcome(m, k, o) /\ ListGot(o, k, last, Vals(d, in[last]), Len(in[last]))
    <3>1. last \in S /\ last <= last
      BY <1>1, <2>7
    <3> QED
      BY <2>3, <3>1
  <2> QED
    BY <1>1, <2>4, <2>8 DEF ListGot
<1> QED
  BY <1>2, <1>3

LEMMA LenIs == ASSUME NEW n \in Nat, NEW f, f = [q \in 1..n |-> f[q]] PROVE Len(f) = n
  OBVIOUS

LEMMA FittingLen ==
  ASSUME NEW d, NEW elems, Len(elems) \in Nat
  PROVE  Len(Fitting(d, elems)) \in Nat
<1>1. PICK last, E : last = Len(elems) /\ E = {elems[q] : q \in 1..Len(elems)}
  OBVIOUS
<1>2. PICK in : Fitting(d, elems) = in[last] /\ \A n \in 0..last : FitsUpTo(d, elems, in, n)
  BY <1>1, FittingIs
<1>3. FitsUpTo(d, elems, in, last)
  BY <1>1, <1>2
<1>4. in[last] \in Seq(E)
  BY <1>1, <1>3 DEF FitsUpTo
<1> QED
  BY <1>2, <1>4

\* A declaration has the values that are wanted.
Got(m, k) ==
  IF IsList(k) THEN Lists(m, k, Len(Wanted(k)), Wanted(k))
  ELSE \/ Wanted(k) = <<>>
       \/ Len(Wanted(k)) = 1 /\ Exact(m, k, m.value[k], Wanted(k)[1])

\* decl_use_config_value
LEMMA UseConfigReads ==
  ASSUME WorldInv, HalfFaults = FALSE, NEW m, Sane(m), NEW k \in Decls, Clear(m, k),
         NEW sett, sett = world.conf[world.decls[k].path], sett.is # "none",
         NEW o \in UseConfig(m, k, sett)
  PROVE  Outcome(m, k, o) /\ (o.ok => Got(o.m, k))
<1>1. PICK d : d = world.decls[k]
  OBVIOUS
<1>2. Len(sett.elems) \in Nat
  BY DeclFacts
<1>3. CASE IsList(k) /\ sett.is = "array"
  <2>1. PICK s, n : s = Fitting(d, sett.elems) /\ n = Len(s)
    OBVIOUS
  <2>2. o \in UseList(m, k, sett.elems)
    BY <1>3 DEF UseConfig, IsList
  <2>3. Outcome(m, k, o) /\ (o.ok => Lists(o.m, k, n, Vals(d, s)))
    BY <1>1, <1>2, <1>3, <2>1, <2>2, UseListReads
  <2>4. n \in Nat
    BY <1>2, <2>1, FittingLen
  <2>5. Wanted(k) = Vals(d, s)
    BY <1>1, <1>3, <2>1 DEF Wanted, Vals
  <2>6. Len(Wanted(k)) = n
    <3>1. PICK v : v = Wanted(k)
      OBVIOUS
    <3>2. v = [q \in 1..n |-> v[q]]
      BY <2>1, <2>5, <3>1 DEF Vals
    <3> QED
      BY <2>4, <3>1, <3>2, LenIs
  <2> QED
    BY <1>3, <2>3, <2>5, <2>6 DEF Got
<1>4. CASE ~(IsList(k) /\ sett.is = "array")
  <2>1. PICK src : src = Value(d, sett)
    OBVIOUS
  <2>2. PICK y \in (IF IsList(k) THEN ListCreate(m, k, 1) ELSE {Good(m)}) :
          o \in IF ~y.ok THEN {y}
                ELSE IF ~Suits(d, sett) THEN {Bad(y.m)}
                ELSE SetValue(y.m, k, src)
    BY <1>1, <1>4, <2>1 DEF UseConfig, IsList
  <2>3. /\ Outcome(m, k, y) /\ (y.ok => Ready(y.m, k))
        /\ IsList(k) /\ y.ok => y.m.list[k].count = 0
    <3>1. CASE IsList(k)
      <4>1. PICK cnt \in Nat : y \in ListCreate(m, k, cnt)
        BY <2>2, <3>1
      <4>2. m.list[k] = LT!NoTable
        BY DEF Clear
      <4>3. Outcome(m, k, y) /\ (y.ok => y.m.list[k].count = 0)
        BY <3>1, <4>1, <4>2, ListCreateFacts
      <4> QED
        BY <3>1, <4>3 DEF Outcome, Ready
    <3>2. CASE ~IsList(k)
      <4>1. y = Good(m)
        BY <2>2, <3>2
      <4>2. y.m = m /\ y.ok = TRUE
        BY <4>1, Zenon DEF Good
      <4> QED
        BY <3>2, <4>2 DEF Outcome, Ready, Only, HeapKept
    <3> QED
      BY <3>1, <3>2
  <2>4. CASE (o = y /\ ~y.ok) \/ o = Bad(y.m)
    <3>1. Bad(y.m).ok = FALSE
      BY Zenon DEF Bad
    <3> QED
      BY <2>3, <2>4, <3>1, OutcomeAgain
  <2>5. CASE ~((o = y /\ ~y.ok) \/ o = Bad(y.m))
    <3>1. y.ok /\ o \in SetValue(y.m, k, src) /\ Suits(d, sett)
      BY <2>2, <2>5
    <3>2. Outcome(m, k, o)
      BY <2>3, <3>1, OutcomeSet
    <3>3. Wanted(k) = <<src>>
      <4>1. sett.is = "int" \/ sett.is = "str"
        BY <3>1 DEF Suits
      <4> QED
        BY <1>1, <2>1, <4>1 DEF Wanted
    <3>4. PICK v : v = Wanted(k)
      OBVIOUS
    <3>5. v = <<src>> /\ Len(v) = 1 /\ v[1] = src
      BY <3>3, <3>4
    <3>6. PICK n : n = y.m
      OBVIOUS
    <3>7. Sane(n) /\ Ready(n, k) /\ o \in SetValue(n, k, src)
      BY <2>3, <3>1, <3>6 DEF Outcome
    <3>8. /\ HeapKept(n, o.m)
          /\ IsList(k) => Refused(n, o, k, src) \/ Appended(n, o, k, src)
          /\ ~IsList(k) /\ o.ok => Exact(o.m, k, o.m.value[k], src)
      BY <3>7, SetValueReads
    <3>9. ASSUME o.ok, IsList(k) PROVE Lists(o.m, k, 1, v)
      <4>1. Appended(n, o, k, src)
        BY <3>8, <3>9 DEF Refused
      <4>2. PICK none : none = <<>>
        OBVIOUS
      <4>3. Lists(n, k, 0, none)
        <5>1. \A p : p \notin 0..(0 - 1)
          OBVIOUS
        <5> QED
          BY <2>3, <3>1, <3>6, <3>7, <3>9, <5>1 DEF Lists, Ready
      <4>4. Lists(o.m, k, 0 + 1, v)
        <5>1. \A q \in 1..0 : v[q] = none[q]
          OBVIOUS
        <5>2. v[0 + 1] = src /\ 0 \in Nat
          BY <3>5
        <5> QED
          BY <3>8, <3>9, <4>1, <4>3, <5>1, <5>2, ListsMore
      <4> QED
        BY <4>4
    <3> QED
      BY <3>2, <3>4, <3>5, <3>8, <3>9 DEF Got
  <2> QED
    BY <2>4, <2>5
<1> QED
  BY <1>3, <1>4

\* decl_use_default_value
LEMMA UseDefaultGot ==
  ASSUME WorldInv, HalfFaults = FALSE, NEW m, Sane(m), NEW k \in Decls, Clear(m, k),
         NEW o \in UseDefault(m, k)
  PROVE  /\ Outcome(m, k, o)
         /\ o.ok /\ world.conf[world.decls[k].path].is = "none" => Got(o.m, k)
<1>1. PICK n, v : /\ n = Len(world.decls[k].defval)
                  /\ v = [q \in 1..n |-> Default(world.decls[k], q)]
  OBVIOUS
<1>2. n \in Nat
  BY <1>1, DeclFacts
<1>3. world.conf[world.decls[k].path].is = "none" => Wanted(k) = v
  BY <1>1 DEF Wanted
<1>4. Len(v) = n /\ \A q \in 1..n : v[q] = Default(world.decls[k], q)
  BY <1>1, <1>2, LenIs
<1>5. n = 0 => v = <<>>
  BY <1>1
<1>6. /\ Outcome(m, k, o)
      /\ o.ok => IF IsList(k) THEN Lists(o.m, k, n, v)
                 ELSE n = 0 \/ (n = 1 /\ Exact(o.m, k, o.m.value[k], v[1]))
  BY <1>1, <1>4, UseDefaultReads
<1> QED
  BY <1>3, <1>4, <1>5, <1>6 DEF Got

LEMMA GotKept ==
  ASSUME NEW m, NEW w, NEW k \in Decls, Got(m, k), HeapKept(m, w),
         w.list[k] = m.list[k], w.value[k] = m.value[k]
  PROVE  Got(w, k)
<1>1. PICK v, n : v = Wanted(k) /\ n = Len(Wanted(k))
  OBVIOUS
<1>2. CASE IsList(k)
  BY <1>1, <1>2, ListsKept DEF Got
<1>3. CASE ~IsList(k)
  BY <1>3 DEF Got, Exact, HeapKept
<1> QED
  BY <1>2, <1>3

LEMMA GotReads ==
  ASSUME NEW m, NEW k \in Decls, Got(m, k)
  PROVE  ReadsAsWanted(m, k)
<1>1. PICK d, v : d = world.decls[k] /\ v = Wanted(k)
  OBVIOUS
<1>2. ASSUME NEW bits, NEW x, Exact(m, k, bits, x)
      PROVE  ReadOne(m, d, bits) = x /\ (IsStr(k) => bits # 0)
  BY <1>1, <1>2 DEF Exact, ReadOne, IsStr
<1>3. CASE ~IsList(k)
  <2>1. CASE v = <<>>
    BY <1>1, <1>3, <2>1 DEF ReadsAsWanted, IsList
  <2>2. CASE v # <<>>
    <3>1. Len(v) = 1 /\ Exact(m, k, m.value[k], v[1])
      BY <1>1, <1>3, <2>2 DEF Got
    <3>2. ReadOne(m, d, m.value[k]) = v[1] /\ (IsStr(k) => m.value[k] # 0)
      BY <1>2, <3>1
    <3>3. Reads(m, k) = <<v[1]>>
      BY <1>1, <1>3, <3>2 DEF Reads, IsList, IsStr
    <3>4. PICK r : r = Reads(m, k)
      OBVIOUS
    <3>5. Len(r) = 1 /\ r[1] = v[1]
      BY <3>3, <3>4
    <3> QED
      BY <1>1, <3>1, <3>4, <3>5 DEF ReadsAsWanted
  <2> QED
    BY <2>1, <2>2
<1>4. CASE IsList(k)
  <2>1. PICK n, t, r : n = Len(v) /\ t = m.list[k] /\ r = Reads(m, k)
    OBVIOUS
  <2>2. /\ Line(t) /\ t.count = n
        /\ \A p \in 0..(n - 1) : Exact(m, k, t.cells[p], v[p + 1]) \/ Lost(k, t.cells[p])
    BY <1>1, <1>4, <2>1 DEF Got, Lists
  <2>3. n \in Nat
    BY <2>2 DEF Line
  <2>4. Cardinality(LT!Live(t)) = n
    <3>1. LT!Live(t) = 0..(n - 1)
      BY <2>2, LineLive
    <3>2. Cardinality(0..(n - 1)) = n
      BY <2>3, FS_Interval
    <3> QED
      BY <3>1, <3>2
  <2>5. r = [q \in 1..n |-> ReadOne(m, d, t.cells[q - 1])]
    BY <1>1, <1>4, <2>1, <2>4 DEF Reads, IsList
  <2>6. Len(r) = n /\ \A q \in 1..n : r[q] = ReadOne(m, d, t.cells[q - 1])
    BY <2>3, <2>5, LenIs
  <2>7. ASSUME NEW q \in 1..n
        PROVE  \/ r[q] = v[q]
               \/ /\ d.list /\ d.type = "str" /\ t.cells[q - 1] = 0
                  /\ world.conf[d.path].is = "array"
    <3>1. q - 1 \in 0..(n - 1) /\ (q - 1) + 1 = q
      BY <2>3
    <3>2. Exact(m, k, t.cells[q - 1], v[q]) \/ Lost(k, t.cells[q - 1])
      BY <2>2, <3>1
    <3>3. CASE Exact(m, k, t.cells[q - 1], v[q])
      BY <1>2, <2>6, <3>3
    <3>4. CASE Lost(k, t.cells[q - 1])
      BY <1>1, <3>4 DEF Lost, IsStr, IsList
    <3> QED
      BY <3>2, <3>3, <3>4
  <2> QED
    BY <1>1, <2>1, <2>6, <2>7 DEF ReadsAsWanted
<1> QED
  BY <1>3, <1>4

----------------------------------------------------------------------------
(* conf_parse.                                                             *)

\* Between the turns of conf_parse, the declarations from decl on are not set;
\* outside of it nothing is, unless it returned OK.
ParseInv ==
  /\ Sane(mem)
  /\ decl \in {0} \cup Decls /\ retval \in {"OK", "FAIL"} /\ result \in {"none", "OK", "FAIL"}
  /\ parses \in 0..world.parses
  /\ decl # 0 => result # "OK" /\ \A c \in Decls : c >= decl => Clear(mem, c)
  /\ decl = 0 /\ result # "OK" => \A c \in Decls : Clear(mem, c)

MemInv == FilesInv /\ ParseInv

LEMMA SaneNext ==
  ASSUME UNCHANGED world, NEW w, w = mem', Sane(w)
  PROVE  Sane(mem)'
<1>1. \A k, p, b : PointsTo(mem, k, p, b)' <=> PointsTo(w, k, p, b)
  BY DEF PointsTo, IsStr, IsList, Decls
<1>2. Accounted(w) => Accounted(mem)'
  BY <1>1 DEF Accounted
<1>3. \A k \in Decls : k \in Decls' /\ Bytes(k)' = Bytes(k) /\ IsList(k)' = IsList(k)
  BY DEF Decls, Bytes, IsStr, IsList
<1>4. Decls' = Decls
  BY DEF Decls
<1>5. MemShape(w) => MemShape(mem)'
  BY <1>3, <1>4 DEF MemShape
<1> QED
  BY <1>2, <1>3, <1>4, <1>5 DEF Sane, Tidy

\* What the steps that touch memory have to show
After(w, d, res) ==
  /\ Sane(w) /\ d \in {0} \cup Decls
  /\ d # 0 => res # "OK" /\ \A c \in Decls : c >= d => Clear(w, c)
  /\ d = 0 /\ res # "OK" => \A c \in Decls : Clear(w, c)

LEMMA ParseInvNext ==
  ASSUME UNCHANGED world, retval' \in {"OK", "FAIL"}, result' \in {"none", "OK", "FAIL"},
         parses' \in 0..world.parses, NEW w, w = mem', NEW d, d = decl', NEW res, res = result',
         After(w, d, res)
  PROVE  ParseInv'
<1>1. Sane(mem)'
  BY SaneNext DEF After
<1>2. Decls' = Decls
  BY DEF Decls
<1>3. \A c \in Decls : Clear(w, c) => Clear(mem, c)'
  BY DEF Clear, IsStr, IsList
<1> QED
  BY <1>1, <1>2, <1>3 DEF After, ParseInv

LEMMA MemInit == Init => ParseInv
<1> SUFFICES ASSUME Init PROVE ParseInv
  OBVIOUS
<1>1. WorldInv
  BY DEF Init, WorldInv
<1>2. PICK m, val, lst : /\ m = mem /\ val = [d \in Decls |-> 0]
                         /\ lst = [d \in Decls |-> LT!NoTable]
  OBVIOUS
<1>3. /\ m = [value |-> val, list |-> lst, heap |-> NoHeap, twice |-> FALSE]
      /\ decl = 0 /\ retval = "OK" /\ result = "none" /\ parses = 0
  BY <1>2 DEF Init
<1>4. /\ m.value = val /\ m.list = lst /\ m.heap = NoHeap /\ m.twice = FALSE
      /\ m = [value |-> m.value, list |-> m.list, heap |-> m.heap, twice |-> m.twice]
  BY <1>3
<1>5. DOMAIN NoHeap = {}
  BY DEF NoHeap
<1>6. \A k \in Decls : m.value[k] = 0 /\ m.list[k] = LT!NoTable /\ 0 \in Bytes(k)
  <2> SUFFICES ASSUME NEW k \in Decls
               PROVE  m.value[k] = 0 /\ m.list[k] = LT!NoTable /\ 0 \in Bytes(k)
    OBVIOUS
  <2>1. 0 \in Bytes(k)
    <3>1. CASE IsStr(k)
      BY <3>1, ConfAssumption DEF Bytes
    <3>2. CASE ~IsStr(k)
      <4>1. world.decls[k].type \in NumTypes
        BY <1>1, <3>2, ConfAssumption DEF WorldInv, Decls, IsStr
      <4>2. Width[world.decls[k].type] \in Nat
        BY <4>1, ConfAssumption
      <4>3. TwoTo(Width[world.decls[k].type]) \in Nat \ {0}
        BY <4>2, TwoToType
      <4> QED
        BY <3>2, <4>3 DEF Bytes
    <3> QED
      BY <3>1, <3>2
  <2> QED
    BY <1>2, <1>4, <2>1
<1>7. MemShape(m)
  <2>1. m.value = [k \in Decls |-> m.value[k]] /\ m.list = [k \in Decls |-> m.list[k]]
    BY <1>2, <1>4
  <2> QED
    BY <1>4, <1>5, <1>6, <2>1 DEF MemShape
<1>8. \A k, p, b : ~PointsTo(m, k, p, b)
  BY <1>6, NoTableLive DEF PointsTo
<1>9. Accounted(m)
  BY <1>4, <1>5, <1>8 DEF Accounted
<1>10. Sane(m) /\ \A c \in Decls : Clear(m, c)
  BY <1>4, <1>6, <1>7, <1>9 DEF Sane, Tidy, Clear
<1>11. 0 \in 0..world.parses
  BY <1>1, ConfAssumption DEF WorldInv
<1> QED
  BY <1>2, <1>3, <1>10, <1>11 DEF ParseInv

\* The end of conf_parse at declaration k
LEMMA ReturnFacts ==
  ASSUME WorldInv, NEW m, Sane(m), NEW k \in Decls, \A c \in Decls : c > k => Clear(m, c),
         NEW r \in {"OK", "FAIL"}, NEW w, w = IF r = "OK" THEN m ELSE ReleaseAll(m, k)
  PROVE  After(w, 0, r)
<1>1. CASE r = "OK"
  BY <1>1 DEF After
<1>2. CASE r # "OK"
  <2>1. LeftAt(m, w, k)
    BY <1>2, ReleaseAllFacts
  <2>2. ASSUME NEW c \in Decls PROVE Clear(w, c)
    <3>1. CASE c <= k
      BY <2>1, <3>1 DEF LeftAt
    <3>2. CASE ~(c <= k)
      <4>1. c > k
        BY <3>2 DEF Decls
      <4>2. Clear(m, c)
        BY <4>1
      <4> QED
        BY <2>1, <4>1, <4>2 DEF LeftAt, Clear
    <3> QED
      BY <3>1, <3>2
  <2> QED
    BY <2>1, <2>2 DEF After, LeftAt
<1> QED
  BY <1>1, <1>2

LEMMA ParseDeclStep ==
  ASSUME WorldInv, HalfFaults = FALSE, ParseInv, ParseDecl
  PROVE  ParseInv'
<1>1. decl \in Decls /\ UNCHANGED <<world, parses>>
  BY DEF ParseInv, ParseDecl, Quiet
<1>2. PICK m, k, rv, n : m = mem /\ k = decl /\ rv = retval /\ n = Len(world.decls)
  OBVIOUS
<1>3. /\ Sane(m) /\ k \in Decls /\ rv \in {"OK", "FAIL"} /\ result # "OK"
      /\ \A c \in Decls : c >= k => Clear(m, c)
      /\ result \in {"none", "OK", "FAIL"} /\ parses \in 0..world.parses
  BY <1>1, <1>2 DEF ParseInv, ParseDecl
<1>4. n \in Nat /\ Decls = 1..n /\ k \in Nat /\ Clear(m, k) /\ \A c \in Decls : c > k => Clear(m, c)
  <2>1. n \in Nat /\ Decls = 1..n
    BY <1>2, ConfAssumption DEF WorldInv, Decls
  <2> QED
    BY <1>3, <2>1
<1>5. ASSUME NEW r \in {"OK", "FAIL"}, NEW x, Sane(x), \A c \in Decls : c > k => Clear(x, c),
             Return(r, x, k)
      PROVE  ParseInv'
  <2>1. PICK w : w = mem'
    OBVIOUS
  <2>2. /\ decl' = 0 /\ retval' = "OK" /\ result' = r
        /\ w = IF r = "OK" THEN x ELSE ReleaseAll(x, k)
    BY <1>5, <2>1 DEF Return
  <2>3. After(w, 0, r)
    BY <1>3, <1>5, <2>2, ReturnFacts
  <2> QED
    BY <1>1, <1>3, <2>1, <2>2, <2>3, ParseInvNext
<1>6. CASE TooLong(k)
  <2>1. Return(rv, m, k)
    BY <1>2, <1>6 DEF ParseDecl
  <2> QED
    BY <1>3, <1>4, <1>5, <2>1
<1>7. CASE ~TooLong(k)
  <2>1. PICK sett \in Lookup(k) :
          IF Missing(k, sett) THEN Return(rv, m, k)
          ELSE \E o \in IF sett.is = "none" THEN UseDefault(m, k) ELSE UseConfig(m, k, sett) :
                 IF ~o.ok THEN Return("FAIL", o.m, k)
                 ELSE IF k = n THEN Return("OK", o.m, k)
                 ELSE decl' = k + 1 /\ retval' = "OK" /\ mem' = o.m /\ UNCHANGED result
    BY <1>2, <1>7 DEF ParseDecl
  <2>2. CASE Missing(k, sett)
    <3>1. Return(rv, m, k)
      BY <2>1, <2>2
    <3> QED
      BY <1>3, <1>4, <1>5, <3>1
  <2>3. CASE ~Missing(k, sett)
    <3>1. PICK o \in IF sett.is = "none" THEN UseDefault(m, k) ELSE UseConfig(m, k, sett) :
            IF ~o.ok THEN Return("FAIL", o.m, k)
            ELSE IF k = n THEN Return("OK", o.m, k)
            ELSE decl' = k + 1 /\ retval' = "OK" /\ mem' = o.m /\ UNCHANGED result
      BY <2>1, <2>3
    <3>2. Outcome(m, k, o)
      <4>1. CASE sett.is = "none"
        BY <1>3, <1>4, <3>1, <4>1, UseDefaultGot
      <4>2. CASE sett.is # "none"
        <5>1. sett = world.conf[world.decls[k].path]
          <6>1. sett = world.conf[world.decls[k].path] \/ sett = NoSetting
            BY <2>1 DEF Lookup
          <6>2. NoSetting.is = "none"
            BY DEF NoSetting
          <6> QED
            BY <4>2, <6>1, <6>2
        <5>2. o \in UseConfig(m, k, sett)
          BY <3>1, <4>2
        <5> QED
          BY <1>3, <1>4, <4>2, <5>1, <5>2, UseConfigReads
      <4> QED
        BY <4>1, <4>2
    <3>3. PICK x : x = o.m
      OBVIOUS
    <3>4. Sane(x) /\ Only(m, x, k) /\ o.ok \in BOOLEAN
      BY <3>2, <3>3 DEF Outcome
    <3>5. ASSUME NEW c \in Decls, c > k PROVE Clear(x, c)
      <4>1. c # k /\ Clear(m, c)
        BY <1>4, <3>5
      <4> QED
        BY <3>4, <4>1 DEF Only, Clear
    <3>6. CASE ~o.ok
      <4>1. Return("FAIL", x, k)
        BY <3>1, <3>3, <3>6
      <4> QED
        BY <1>5, <3>4, <3>5, <4>1
    <3>7. CASE o.ok /\ k = n
      <4>1. Return("OK", x, k)
        BY <3>1, <3>3, <3>7
      <4> QED
        BY <1>5, <3>4, <3>5, <4>1
    <3>8. CASE o.ok /\ k # n
      <4>1. decl' = k + 1 /\ retval' = "OK" /\ mem' = x /\ UNCHANGED result
        BY <3>1, <3>3, <3>8
      <4>2. PICK res, d : res = result /\ d = k + 1
        OBVIOUS
      <4>3. d \in Decls /\ d # 0 /\ \A c \in Decls : c >= d => c > k
        BY <1>3, <1>4, <3>8, <4>2
      <4>4. After(x, d, res)
        BY <1>3, <3>4, <3>5, <4>2, <4>3 DEF After
      <4> QED
        BY <1>1, <1>3, <4>1, <4>2, <4>4, ParseInvNext
    <3> QED
      BY <3>6, <3>7, <3>8
  <2> QED
    BY <2>2, <2>3
<1> QED
  BY <1>6, <1>7

LEMMA ConfReleaseStep ==
  ASSUME WorldInv, ParseInv, ConfRelease
  PROVE  ParseInv'
<1>1. PICK m, n, w : m = mem /\ n = Len(world.decls) /\ w = mem'
  OBVIOUS
<1>2. /\ w = ReleaseAll(m, n) /\ result' = "none" /\ decl = 0
      /\ UNCHANGED <<decl, retval, parses, world>>
  BY <1>1 DEF ConfRelease, Idle, Quiet
<1>3. n \in Decls /\ \A c \in Decls : c <= n
  BY <1>1, ConfAssumption DEF WorldInv, Decls
<1>4. LeftAt(m, w, n)
  BY <1>1, <1>2, <1>3, ReleaseAllFacts DEF ParseInv
<1>5. After(w, 0, "none")
  BY <1>3, <1>4 DEF After, LeftAt
<1> QED
  BY <1>1, <1>2, <1>5, ParseInvNext DEF ParseInv

LEMMA ParseCallStep ==
  ASSUME WorldInv, ParseInv, ParseCall
  PROVE  ParseInv'
<1>1. PICK w, d, res : w = mem' /\ d = decl' /\ res = result'
  OBVIOUS
<1>2. /\ w = mem /\ decl = 0 /\ result # "OK" /\ UNCHANGED world
      /\ \/ d = 0 /\ res = "FAIL" /\ UNCHANGED retval
         \/ d = 1 /\ res = result /\ retval' \in {"OK", "FAIL"}
  BY <1>1 DEF ParseCall, Idle, Quiet
<1>3. parses' \in 0..world.parses
  <2>1. world.parses \in Nat /\ parses \in 0..world.parses /\ parses < world.parses
        /\ parses' = parses + 1
    BY ConfAssumption DEF WorldInv, ParseInv, ParseCall
  <2> QED
    BY <2>1
<1>4. 1 \in Decls
  BY ConfAssumption DEF WorldInv, Decls
<1>5. Sane(w) /\ \A c \in Decls : Clear(w, c)
  BY <1>2 DEF ParseInv
<1>6. After(w, d, res)
  BY <1>2, <1>4, <1>5 DEF After
<1> QED
  BY <1>1, <1>2, <1>3, <1>6, ParseInvNext DEF ParseInv

LEMMA ParseStutter ==
  ASSUME ParseInv, UNCHANGED <<world, decl, retval, result, mem, parses>>
  PROVE  ParseInv'
<1>1. PICK w, d, res : w = mem /\ d = decl /\ res = result
  OBVIOUS
<1>2. After(w, d, res)
  BY <1>1 DEF ParseInv, After
<1> QED
  BY <1>1, <1>2, ParseInvNext DEF ParseInv

LEMMA MemStep == HalfFaults = FALSE /\ MemInv /\ [Next]_vars => MemInv'
<1> SUFFICES ASSUME HalfFaults = FALSE, MemInv, [Next]_vars PROVE MemInv'
  OBVIOUS
<1>1. FilesInv' /\ WorldInv /\ ParseInv
  BY FilesStep DEF MemInv, FilesInv
<1>2. CASE Arguments \/ ConfInit \/ ConfFini \/ UNCHANGED vars
  <2>1. UNCHANGED <<world, decl, retval, result, mem, parses>>
    BY <1>2 DEF Arguments, ConfInit, ConfFini, vars, declVars
  <2> QED
    BY <1>1, <2>1, ParseStutter DEF MemInv
<1>3. CASE ParseCall
  BY <1>1, <1>3, ParseCallStep DEF MemInv
<1>4. CASE ParseDecl
  BY <1>1, <1>4, ParseDeclStep DEF MemInv
<1>5. CASE ConfRelease
  BY <1>1, <1>5, ConfReleaseStep DEF MemInv
<1> QED
  BY <1>2, <1>3, <1>4, <1>5 DEF Next

LEMMA MemAlways == ASSUME HalfFaults = FALSE PROVE Spec => []MemInv
<1>1. Init => MemInv
  BY FilesInit, MemInit DEF MemInv
<1>2. MemInv /\ [Next]_vars => MemInv'
  BY MemStep
<1> QED
  BY <1>1, <1>2, PTL DEF Spec

LEMMA PointersAre ==
  \A x : x \in Pointers <=> \E k, p, b : x = <<k, p, b>> /\ PointsTo(mem, k, p, b)
<1> SUFFICES ASSUME NEW x
             PROVE  x \in Pointers <=> \E k, p, b : x = <<k, p, b>> /\ PointsTo(mem, k, p, b)
  OBVIOUS
<1>1. ASSUME x \in Pointers PROVE \E k, p, b : x = <<k, p, b>> /\ PointsTo(mem, k, p, b)
  <2>1. x[3] # 0 /\ world.decls[x[1]].type = "str"
    BY <1>1 DEF Pointers
  <2>2. CASE x \in {<<k, LT!Null, mem.value[k]>> : k \in {c \in Decls : ~world.decls[c].list}}
    <3>1. PICK k \in Decls : ~world.decls[k].list /\ x = <<k, LT!Null, mem.value[k]>>
      BY <2>2
    <3>2. x[1] = k /\ x[3] = mem.value[k]
      BY <3>1
    <3>3. PointsTo(mem, k, LT!Null, mem.value[k])
      BY <2>1, <3>1, <3>2 DEF PointsTo, IsStr, IsList
    <3> QED
      BY <3>1, <3>3
  <2>3. CASE x \in UNION {{<<k, p, mem.list[k].cells[p]>> : p \in LT!Live(mem.list[k])} :
                            k \in {c \in Decls : world.decls[c].list}}
    <3>1. PICK k \in Decls : /\ world.decls[k].list
                             /\ \E p \in LT!Live(mem.list[k]) : x = <<k, p, mem.list[k].cells[p]>>
      BY <2>3
    <3>2. PICK p \in LT!Live(mem.list[k]) : x = <<k, p, mem.list[k].cells[p]>>
      BY <3>1
    <3>3. x[1] = k /\ x[3] = mem.list[k].cells[p]
      BY <3>2
    <3>4. PointsTo(mem, k, p, mem.list[k].cells[p])
      BY <2>1, <3>1, <3>2, <3>3 DEF PointsTo, IsStr, IsList
    <3> QED
      BY <3>2, <3>4
  <2> QED
    BY <1>1, <2>2, <2>3 DEF Pointers
<1>2. ASSUME NEW k, NEW p, NEW b, x = <<k, p, b>>, PointsTo(mem, k, p, b) PROVE x \in Pointers
  <2>1. x[1] = k /\ x[3] = b
    BY <1>2
  <2>2. k \in Decls /\ IsStr(k) /\ b # 0
    BY <1>2 DEF PointsTo
  <2>3. CASE ~IsList(k)
    <3>1. p = LT!Null /\ b = mem.value[k] /\ ~world.decls[k].list
      BY <1>2, <2>3 DEF PointsTo, IsList
    <3> QED
      BY <1>2, <2>1, <2>2, <3>1 DEF Pointers, IsStr
  <2>4. CASE IsList(k)
    <3>1. p \in LT!Live(mem.list[k]) /\ b = mem.list[k].cells[p] /\ world.decls[k].list
      BY <1>2, <2>4 DEF PointsTo, IsList
    <3> QED
      BY <1>2, <2>1, <2>2, <3>1 DEF Pointers, IsStr
  <2> QED
    BY <2>3, <2>4
<1> QED
  BY <1>1, <1>2

LEMMA ParseInvAccounted == ParseInv => MemoryAccounted
<1> SUFFICES ASSUME ParseInv PROVE MemoryAccounted
  OBVIOUS
<1>1. PICK m : m = mem
  OBVIOUS
<1>2. Sane(m) /\ Accounted(m) /\ ~m.twice
  BY <1>1 DEF ParseInv, Sane, Tidy
<1>3. \A x : x \in Pointers <=> \E k, p, b : x = <<k, p, b>> /\ PointsTo(m, k, p, b)
  BY <1>1, PointersAre
<1>4. \A k, p, b : <<k, p, b>>[1] = k /\ <<k, p, b>>[2] = p /\ <<k, p, b>>[3] = b
  OBVIOUS
<1>5. {x[3] : x \in Pointers} = DOMAIN m.heap
  <2>1. ASSUME NEW x \in Pointers PROVE x[3] \in DOMAIN m.heap
    BY <1>2, <1>3 DEF Accounted
  <2>2. ASSUME NEW b \in DOMAIN m.heap PROVE b \in {x[3] : x \in Pointers}
    <3>1. PICK k, p : PointsTo(m, k, p, b)
      BY <1>2 DEF Accounted
    <3>2. <<k, p, b>> \in Pointers
      BY <1>3, <3>1
    <3> QED
      BY <1>4, <3>2
  <2> QED
    BY <2>1, <2>2
<1>6. ASSUME NEW x \in Pointers, NEW y \in Pointers, x[3] = y[3] PROVE x = y
  <2>1. PICK k, p, b : x = <<k, p, b>> /\ PointsTo(m, k, p, b)
    BY <1>3
  <2>2. PICK l, q, c : y = <<l, q, c>> /\ PointsTo(m, l, q, c)
    BY <1>3
  <2>3. b = c
    BY <1>6, <2>1, <2>2
  <2>4. k = l /\ p = q
    BY <1>2, <2>1, <2>2, <2>3 DEF Accounted
  <2> QED
    BY <2>1, <2>2, <2>3, <2>4
<1>7. ASSUME decl = 0, result # "OK"
      PROVE  DOMAIN m.heap = {} /\ \A k \in Decls : m.list[k] = LT!NoTable
  <2>1. \A c \in Decls : Clear(m, c)
    BY <1>1, <1>7 DEF ParseInv
  <2>2. ASSUME NEW k, NEW p, NEW b PROVE ~PointsTo(m, k, p, b)
    BY <2>1, NoTableLive DEF PointsTo, Clear
  <2> QED
    BY <1>2, <2>1, <2>2 DEF Accounted, Clear
<1> QED
  BY <1>1, <1>2, <1>5, <1>6, <1>7 DEF MemoryAccounted

LEMMA MemInvTypeOK == MemInv => ConfTypeOK
<1> SUFFICES ASSUME MemInv PROVE ConfTypeOK
  OBVIOUS
<1>1. ArgsTypeOK
  BY InvTypeOK DEF MemInv, FilesInv
<1>2. file \in Given \cup {DefaultFile}
  <2>1. FileMeant \in Given \cup {NoArg}
    BY FileMeantType DEF FileMeant, MemInv, FilesInv, OptionArg
  <2> QED
    BY <2>1 DEF MemInv, FilesInv, FileInv
<1>3. PICK m : m = mem
  OBVIOUS
<1>4. MemShape(m)
  BY <1>3 DEF MemInv, ParseInv, Sane
<1>5. \A k \in Decls :
        IF world.decls[k].type = "str" THEN m.value[k] \in 0..Blocks
        ELSE m.value[k] \in 0..(TwoTo(Width[world.decls[k].type]) - 1)
  BY <1>4 DEF MemShape, Bytes, IsStr
<1> QED
  BY <1>1, <1>2, <1>3, <1>4, <1>5 DEF ConfTypeOK, MemInv, ParseInv, FilesInv, FileInv, MemShape

\* At each step of a parse, whichever declaration fails and however far it got,
\* each allocated string is pointed to from one place, nothing is freed twice, and
\* nothing is kept unless conf_parse returned OK, for any declarations and file and
\* whichever strdup, creation or growth of a list fails, except that the second of
\* a table's two allocations fails alone. (conf_release_reverse, decl_release,
\* list_destroy)
THEOREM MemoryAccountedAlways ==
  ASSUME HalfFaults = FALSE PROVE Spec => []MemoryAccounted
<1>1. MemInv => MemoryAccounted
  BY ParseInvAccounted DEF MemInv
<1>2. Spec => []MemInv
  BY MemAlways
<1> QED
  BY <1>1, <1>2, PTL

\* Type correctness of the configuration, on the same condition; a number stays
\* in the width of its type. (set_value, check_num)
THEOREM ConfTypeOKAlways ==
  ASSUME HalfFaults = FALSE PROVE Spec => []ConfTypeOK
<1>1. MemInv => ConfTypeOK
  BY MemInvTypeOK
<1>2. Spec => []MemInv
  BY MemAlways
<1> QED
  BY <1>1, <1>2, PTL

----------------------------------------------------------------------------
(* The values that conf_parse has set.                                     *)

\* conf_parse ends at the declaration without a failure of its own.
Stops(k) == TooLong(k) \/ Missing(k, world.conf[world.decls[k].path])
\* The declarations before upto have their values, and the others none.
SetBefore(m, upto) ==
  \A c \in Decls : IF c < upto THEN ~Stops(c) /\ Got(m, c) ELSE Clear(m, c)
\* A parse has come to declaration d, or the last one returned res.
ReadAt(m, d, res) ==
  /\ d # 0 => SetBefore(m, d)
  /\ res = "OK" => \E upto \in 1..(Len(world.decls) + 1) :
                     SetBefore(m, upto) /\ (upto \in Decls => Stops(upto))
ReadInv == ReadAt(mem, decl, result)

LEMMA ReadInvNext ==
  ASSUME UNCHANGED world, NEW w, w = mem', NEW d, d = decl', NEW res, res = result',
         ReadAt(w, d, res)
  PROVE  ReadInv'
<1>1. Decls' = Decls
  BY DEF Decls
<1>2. \A c \in Decls : Clear(w, c) => Clear(mem, c)'
  BY DEF Clear, IsStr, IsList
<1>3. \A c \in Decls : Stops(c)' = Stops(c)
  BY DEF Stops, TooLong, Missing
<1>4. \A c \in Decls : Got(w, c) => Got(mem, c)'
  <2>1. \A c : Wanted(c)' = Wanted(c) /\ IsList(c)' = IsList(c) /\ IsStr(c)' = IsStr(c)
    BY DEF Wanted, IsList, IsStr
  <2>2. \A c, b, v : Exact(w, c, b, v) => Exact(mem, c, b, v)'
    BY <2>1 DEF Exact
  <2>3. \A c, b : Lost(c, b)' = Lost(c, b)
    BY <2>1 DEF Lost
  <2>4. \A c, n, v : Lists(w, c, n, v) => Lists(mem, c, n, v)'
    BY <2>2, <2>3 DEF Lists
  <2> QED
    BY <2>1, <2>2, <2>4 DEF Got
<1>5. \A u : SetBefore(w, u) => SetBefore(mem, u)'
  BY <1>1, <1>2, <1>3, <1>4 DEF SetBefore
<1> QED
  BY <1>1, <1>3, <1>5 DEF ReadAt, ReadInv

\* The turn of a declaration that is set
LEMMA SetBeforeMore ==
  ASSUME WorldInv, NEW m, NEW k \in Decls, SetBefore(m, k), NEW o, Outcome(m, k, o),
         ~Stops(k), Got(o.m, k)
  PROVE  SetBefore(o.m, k + 1)
<1>1. PICK w : w = o.m
  OBVIOUS
<1>2. Only(m, w, k) /\ HeapKept(m, w)
  BY <1>1 DEF Outcome
<1> SUFFICES ASSUME NEW c \in Decls
             PROVE  IF c < k + 1 THEN ~Stops(c) /\ Got(w, c) ELSE Clear(w, c)
  BY <1>1 DEF SetBefore
<1>3. c \in Int /\ k \in Int
  BY DEF Decls
<1>4. CASE c < k
  <2>1. ~Stops(c) /\ Got(m, c) /\ c # k /\ c < k + 1
    BY <1>3, <1>4 DEF SetBefore
  <2>2. w.list[c] = m.list[c] /\ w.value[c] = m.value[c]
    BY <1>2, <2>1 DEF Only
  <2> QED
    BY <1>2, <2>1, <2>2, GotKept
<1>5. CASE c = k
  BY <1>1, <1>3, <1>5
<1>6. CASE c > k
  <2>1. Clear(m, c) /\ c # k /\ ~(c < k + 1)
    BY <1>3, <1>6 DEF SetBefore
  <2> QED
    BY <1>2, <2>1 DEF Only, Clear
<1> QED
  BY <1>3, <1>4, <1>5, <1>6

LEMMA ReadReturn ==
  ASSUME WorldInv, NEW m, NEW k \in Decls, SetBefore(m, k), Stops(k), NEW r, Return(r, m, k),
         UNCHANGED world
  PROVE  ReadInv'
<1>1. PICK w, d, res : w = mem' /\ d = decl' /\ res = result'
  OBVIOUS
<1>2. d = 0 /\ res = r /\ (r = "OK" => w = m)
  BY <1>1 DEF Return
<1>3. k \in 1..(Len(world.decls) + 1)
  BY DeclFacts
<1>4. ReadAt(w, d, res)
  BY <1>2, <1>3 DEF ReadAt
<1> QED
  BY <1>1, <1>4, ReadInvNext

LEMMA ReadDeclStep ==
  ASSUME WorldInv, HalfFaults = FALSE, ParseInv, ReadInv, PathTerminated, ParseDecl
  PROVE  ReadInv'
<1>1. decl \in Decls /\ decl # 0 /\ UNCHANGED world
  BY DEF ParseInv, ParseDecl, Quiet
<1>2. PICK m, k, rv, n : m = mem /\ k = decl /\ rv = retval /\ n = Len(world.decls)
  OBVIOUS
<1>3. Sane(m) /\ k \in Decls /\ Clear(m, k) /\ SetBefore(m, k) /\ result # "OK"
  <2>1. k \in Int
    BY <1>1, <1>2 DEF Decls
  <2> QED
    BY <1>1, <1>2, <2>1 DEF ParseInv, ReadInv, ReadAt
<1>4. CASE TooLong(k)
  <2>1. Return(rv, m, k) /\ Stops(k)
    BY <1>2, <1>4 DEF ParseDecl, Stops
  <2> QED
    BY <1>1, <1>3, <2>1, ReadReturn
<1>5. CASE ~TooLong(k)
  <2>1. PICK sett \in Lookup(k) :
          IF Missing(k, sett) THEN Return(rv, m, k)
          ELSE \E o \in IF sett.is = "none" THEN UseDefault(m, k) ELSE UseConfig(m, k, sett) :
                 IF ~o.ok THEN Return("FAIL", o.m, k)
                 ELSE IF k = n THEN Return("OK", o.m, k)
                 ELSE decl' = k + 1 /\ retval' = "OK" /\ mem' = o.m /\ UNCHANGED result
    BY <1>2, <1>5 DEF ParseDecl
  <2>2. sett = world.conf[world.decls[k].path]
    <3>1. Cardinality(Lookup(k)) = 1
      BY <1>1, <1>2 DEF PathTerminated
    <3>2. PICK a, b : a = world.conf[world.decls[k].path] /\ b = NoSetting
      OBVIOUS
    <3>3. a \in Lookup(k) /\ Lookup(k) \subseteq {a, b}
      BY <3>2 DEF Lookup
    <3>4. a # b => Cardinality({a, b}) = 2
      <4>1. IsFiniteSet({a}) /\ Cardinality({a}) = 1
        BY FS_Singleton
      <4>2. a # b => Cardinality({a} \cup {b}) = 2
        BY <4>1, FS_AddElement
      <4>3. {a} \cup {b} = {a, b}
        OBVIOUS
      <4> QED
        BY <4>2, <4>3
    <3>5. CASE sett # a
      <4>1. Lookup(k) = {a, b} /\ a # b
        BY <2>1, <3>3, <3>5
      <4> QED
        BY <3>1, <3>4, <4>1
    <3> QED
      BY <3>2, <3>5
  <2>3. CASE Missing(k, sett)
    <3>1. Return(rv, m, k) /\ Stops(k)
      BY <2>1, <2>2, <2>3 DEF Stops
    <3> QED
      BY <1>1, <1>3, <3>1, ReadReturn
  <2>4. CASE ~Missing(k, sett)
    <3>1. PICK o \in IF sett.is = "none" THEN UseDefault(m, k) ELSE UseConfig(m, k, sett) :
            IF ~o.ok THEN Return("FAIL", o.m, k)
            ELSE IF k = n THEN Return("OK", o.m, k)
            ELSE decl' = k + 1 /\ retval' = "OK" /\ mem' = o.m /\ UNCHANGED result
      BY <2>1, <2>4
    <3>2. Outcome(m, k, o) /\ (o.ok => Got(o.m, k))
      <4>1. CASE sett.is = "none"
        BY <1>3, <2>2, <3>1, <4>1, UseDefaultGot
      <4>2. CASE sett.is # "none"
        <5>1. o \in UseConfig(m, k, sett)
          BY <3>1, <4>2
        <5> QED
          BY <1>3, <2>2, <4>2, <5>1, UseConfigReads
      <4> QED
        BY <4>1, <4>2
    <3>3. PICK w, d, res : w = mem' /\ d = decl' /\ res = result'
      OBVIOUS
    <3>4. CASE ~o.ok
      <4>1. d = 0 /\ res = "FAIL"
        BY <3>1, <3>3, <3>4 DEF Return
      <4>2. ReadAt(w, d, res)
        BY <4>1 DEF ReadAt
      <4> QED
        BY <1>1, <3>3, <4>2, ReadInvNext
    <3>5. CASE o.ok
      <4>1. SetBefore(o.m, k + 1)
        BY <1>3, <1>5, <2>2, <2>4, <3>2, <3>5, SetBeforeMore DEF Stops
      <4>2. n \in Nat /\ Decls = 1..n /\ k \in Nat
        BY <1>2, <1>3, DeclFacts DEF Decls
      <4>3. CASE k = n
        <5>1. d = 0 /\ res = "OK" /\ w = o.m
          BY <3>1, <3>3, <3>5, <4>3 DEF Return
        <5>2. n + 1 \in 1..(n + 1) /\ n + 1 \notin Decls
          BY <4>2
        <5>3. ReadAt(w, d, res)
          BY <1>2, <4>1, <4>3, <5>1, <5>2 DEF ReadAt
        <5> QED
          BY <1>1, <3>3, <5>3, ReadInvNext
      <4>4. CASE k # n
        <5>1. d = k + 1 /\ w = o.m /\ res # "OK"
          BY <1>3, <3>1, <3>3, <3>5, <4>4
        <5>2. ReadAt(w, d, res)
          BY <4>1, <5>1 DEF ReadAt
        <5> QED
          BY <1>1, <3>3, <5>2, ReadInvNext
      <4> QED
        BY <4>3, <4>4
    <3> QED
      BY <3>4, <3>5
  <2> QED
    BY <2>3, <2>4
<1> QED
  BY <1>4, <1>5

LEMMA ReadInit == Init => ReadInv
  BY DEF Init, ReadInv, ReadAt

LEMMA ReadStep ==
  HalfFaults = FALSE /\ MemInv /\ ReadInv /\ PathTerminated /\ [Next]_vars => ReadInv'
<1> SUFFICES ASSUME HalfFaults = FALSE, MemInv, ReadInv, PathTerminated, [Next]_vars
             PROVE  ReadInv'
  OBVIOUS
<1>1. WorldInv /\ ParseInv
  BY DEF MemInv, FilesInv
<1>2. PICK w, d, res : w = mem' /\ d = decl' /\ res = result'
  OBVIOUS
<1>3. CASE Arguments \/ ConfInit \/ ConfFini \/ UNCHANGED vars
  <2>1. UNCHANGED <<world, decl, retval, result, mem, parses>>
    BY <1>3 DEF Arguments, ConfInit, ConfFini, vars, declVars
  <2>2. w = mem /\ d = decl /\ res = result
    BY <1>2, <2>1
  <2>3. ReadAt(w, d, res)
    BY <2>2 DEF ReadInv
  <2> QED
    BY <1>2, <2>1, <2>3, ReadInvNext
<1>4. CASE ParseCall
  <2>1. /\ w = mem /\ decl = 0 /\ result # "OK" /\ UNCHANGED world
        /\ (d = 0 /\ res = "FAIL") \/ (d = 1 /\ res = result)
    BY <1>2, <1>4 DEF ParseCall, Idle, Quiet
  <2>2. \A c \in Decls : Clear(w, c)
    BY <1>1, <2>1 DEF ParseInv
  <2>3. SetBefore(w, 1)
    <3>1. \A c \in Decls : ~(c < 1)
      BY DEF Decls
    <3> QED
      BY <2>2, <3>1 DEF SetBefore
  <2>4. ReadAt(w, d, res)
    BY <2>1, <2>3 DEF ReadAt
  <2> QED
    BY <1>2, <2>1, <2>4, ReadInvNext
<1>5. CASE ParseDecl
  BY <1>1, <1>5, ReadDeclStep
<1>6. CASE ConfRelease
  <2>1. d = 0 /\ res = "none" /\ UNCHANGED world
    BY <1>2, <1>6 DEF ConfRelease, Idle, Quiet
  <2>2. ReadAt(w, d, res)
    BY <2>1 DEF ReadAt
  <2> QED
    BY <1>2, <2>1, <2>2, ReadInvNext
<1> QED
  BY <1>3, <1>4, <1>5, <1>6 DEF Next

LEMMA ReadInvDeclared == WorldInv /\ ReadInv => ParsedAsDeclared
<1> SUFFICES ASSUME WorldInv, ReadInv, result = "OK" PROVE ParsedAsDeclared
  BY DEF ParsedAsDeclared
<1>1. PICK m, n : m = mem /\ n = Len(world.decls)
  OBVIOUS
<1>2. n \in Nat /\ Decls = 1..n
  BY <1>1, ConfAssumption DEF WorldInv, Decls
<1>3. PICK upto \in 1..(n + 1) : SetBefore(m, upto) /\ (upto \in Decls => Stops(upto))
  BY <1>1 DEF ReadInv, ReadAt
<1>4. PICK stop : stop = {k \in Decls : Stops(k)}
  OBVIOUS
<1>5. PICK before : before = {k \in Decls : \A c \in stop : k < c}
  OBVIOUS
<1>6. ASSUME NEW k \in Decls PROVE k \in before <=> k < upto
  <2>1. k \in Int /\ upto \in Int
    BY <1>2
  <2>2. ASSUME k < upto, NEW c \in stop PROVE k < c
    <3>1. c \in Int /\ ~(c < upto)
      BY <1>2, <1>3, <1>4 DEF SetBefore
    <3> QED
      BY <2>1, <2>2, <3>1
  <2>3. ASSUME ~(k < upto) PROVE upto \in stop
    <3>1. upto \in Decls
      BY <1>2, <2>3
    <3> QED
      BY <1>3, <1>4, <3>1
  <2> QED
    BY <1>5, <2>1, <2>2, <2>3
<1>7. ASSUME NEW k \in before PROVE ReadsAsWanted(m, k)
  <2>1. k \in Decls /\ Got(m, k)
    BY <1>3, <1>5, <1>6 DEF SetBefore
  <2> QED
    BY <2>1, GotReads
<1>8. ASSUME NEW k \in Decls \ before
      PROVE  m.list[k] = LT!NoTable /\ \A x \in Pointers : x[1] # k
  <2>1. Clear(m, k)
    BY <1>3, <1>6 DEF SetBefore
  <2>2. ASSUME NEW x \in Pointers, x[1] = k PROVE FALSE
    <3>1. PICK c, p, b : x = <<c, p, b>> /\ PointsTo(m, c, p, b)
      BY <1>1, PointersAre
    <3>2. c = k
      BY <2>2, <3>1
    <3> QED
      BY <2>1, <3>1, <3>2, NoTableLive DEF PointsTo, Clear
  <2> QED
    BY <2>1, <2>2 DEF Clear
<1> QED
  BY <1>1, <1>4, <1>5, <1>7, <1>8 DEF ParsedAsDeclared, Stops

\* When conf_parse has returned OK, and until the values are released, each
\* declaration reads as the file or its default has it, up to the first that is
\* mandatory and missing or whose path is too long, and nothing is set from that
\* one on, for any declarations and file, as long as each path that is looked up
\* ends in a NULL byte, whichever allocation fails except the second of a table's
\* two alone. (conf_parse)
THEOREM ParsedAsDeclaredAlways ==
  ASSUME HalfFaults = FALSE PROVE Spec /\ []PathTerminated => []ParsedAsDeclared
<1>1. Init => MemInv /\ ReadInv
  BY FilesInit, MemInit, ReadInit DEF MemInv
<1>2. MemInv /\ ReadInv /\ PathTerminated /\ [Next]_vars => MemInv' /\ ReadInv'
  BY MemStep, ReadStep
<1>3. MemInv /\ ReadInv => ParsedAsDeclared
  BY ReadInvDeclared DEF MemInv, FilesInv
<1> QED
  BY <1>1, <1>2, <1>3, PTL DEF Spec
=============================================================================
