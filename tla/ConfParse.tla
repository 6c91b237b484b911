------------------------------ MODULE ConfParse ------------------------------
(***************************************************************************)
(* The configuration (modules/conf), on top of the arguments.  conf_init   *)
(* registers the option -f in section C and reads the file it names;       *)
(* conf_parse then gives each declaration of a part of the program the     *)
(* value that the file holds for it or its default, in memory that         *)
(* conf_release returns.  libconfig is the function from paths to settings *)
(* in world.conf; strdup is a heap of numbered blocks.  One thread.        *)
(***************************************************************************)
EXTENDS ArgsSections

CONSTANTS
  ConfLetter, FileOption, DefaultFile, \* 'C', 'f', CONF_FILEPATH
  LongPaths,     \* arguments of PATH_MAX characters or more
  PathMax,       \* CONF_SETTPATHMAX
  ListSize,      \* CONF_LSTTABSIZ
  ListMax,       \* RATTTABSIZMAX
  Width,         \* the bits of "num8", "num16" and "num32": 8, 16 and 32
  Atoi,          \* atoi() of a default that is given for a number
  Worlds,        \* what the program may be started with: [argv, callers, decls, conf,
                 \* parlen, parses], the last the calls of conf_parse at most
  Blocks,        \* strings that are allocated at the same time, at most
  AllocFaults,   \* may strdup(), calloc() and realloc() fail
  HalfFaults     \* may the second allocation for a table fail after the first

\* A declaration is [path, len, type, list, req, uns, defval]: its path and the
\* length of it, its type and its three flags, and its sequence of defaults, at
\* most one for a single value (RATT_CONF_DEFVAL).
\* A setting is [is, num, str, elems]: "int" with its number, "str" with its
\* string, "array" with a sequence of settings, "other", or "none" if the file
\* has no such path.
NumTypes == {"num8", "num16", "num32"}
NoSetting == [is |-> "none", num |-> 0, str |-> "", elems |-> <<>>]

LArgs == <<[option |-> FileOption, lone |-> FALSE, needs |-> FALSE,
            takes |-> TRUE, refuses |-> LongPaths]>>

ASSUME ConfAssumption ==
  /\ ConfLetter \in Letters /\ FileOption \in Options /\ LArgs # NoArgs
  /\ LongPaths \subseteq Given /\ DefaultFile \notin LongPaths
  /\ \A type \in NumTypes : Width[type] \in Nat \ {0}
  /\ ListMax \in Nat /\ ListSize \in 1..ListMax
  /\ AllocFaults \in BOOLEAN /\ HalfFaults \in BOOLEAN
  /\ Blocks \in Nat
  /\ \A w \in Worlds :
       /\ w.argv \in Seq(Tokens) /\ w.callers \subseteq Callers
       /\ w.parlen \in Nat /\ w.parses \in Nat /\ Len(w.decls) \in Nat \ {0}
       /\ \A k \in 1..Len(w.decls) : LET d == w.decls[k] IN
            /\ d.type \in NumTypes \cup {"str"} /\ d.list \in BOOLEAN
            /\ Len(d.defval) \in Nat /\ (~d.list => Len(d.defval) <= 1)
            /\ Len(w.conf[d.path].elems) \in Nat

VARIABLES
  world,     \* what the program was started with
  conf,      \* is l_cfg "closed" or "open"
  file,      \* l_args_conf_file
  decl,      \* the declaration that conf_parse is at, 0 outside of it
  retval,    \* its retval, which starts with any value
  result,    \* what the last conf_parse returned, "none" if it was released
  mem,       \* [value, list, heap, twice]: what each declaration's value points
             \* to, read as a scalar and as a list, the allocated strings, and
             \* was anything freed that was not allocated
  parses     \* calls of conf_parse

confVars == <<conf, file>>
declVars == <<decl, retval, result, mem>>
vars == <<argsVars, world, confVars, declVars, parses>>

LT == INSTANCE TableOps WITH
  SlotBits <- 8, MaxSize <- ListMax, Matches <- SameName, Chunks <- 1..Blocks,
  Zero <- 0, Constrained <- FALSE, OnConstrains <- "unset",
  AllocFaults <- AllocFaults, DirtyHeap <- FALSE

\* Of the outcomes for a table, those that do not leave it half allocated, with
\* a head that may have been freed, unless such are asked for.
Whole(outs) == {r \in outs : HalfFaults \/ r.t.head # "freed"}

Decls == 1..Len(world.decls)
NoHeap == [b \in {} |-> ""]

Init ==
  /\ world \in Worlds /\ argv = world.argv /\ ArgsStart
  /\ conf = "closed" /\ file = DefaultFile
  /\ decl = 0 /\ retval = "OK" /\ result = "none"
  /\ mem = [value |-> [d \in Decls |-> 0], list |-> [d \in Decls |-> LT!NoTable],
            heap |-> NoHeap, twice |-> FALSE]
  /\ parses = 0

----------------------------------------------------------------------------
(* Single values.  A pointer is the number of its block, NULL is 0; memory *)
(* that is cleared holds 0.                                                *)

TwoTo(n) == LET p[k \in 0..n] == IF k = 0 THEN 1 ELSE 2 * p[k - 1] IN p[n]

\* Mutant of Fits: the flag of unsigned values is not looked at.
FitsEither(d, num) == num \in (-TwoTo(Width[d.type] - 1))..(TwoTo(Width[d.type]) - 1)

\* check_num
Fits(d, num) ==
  IF d.uns THEN num \in 0..(TwoTo(Width[d.type]) - 1)
  ELSE num \in (-TwoTo(Width[d.type] - 1))..(TwoTo(Width[d.type] - 1) - 1)

\* Mutant of Stored: the sign is extended past the low bytes.
StoredWhole(d, num) == num

\* memcpy of the first bytes, which are the low ones on a little-endian machine,
\* the only kind that is modelled; and what a reader of that type finds there
Stored(d, num) == num % TwoTo(Width[d.type])
ReadBack(d, bits) ==
  IF ~d.uns /\ bits >= TwoTo(Width[d.type] - 1) THEN bits - TwoTo(Width[d.type]) ELSE bits

\* Outcomes of an operation on mem.
Good(m) == [ok |-> TRUE, m |-> m]
Bad(m) == [ok |-> FALSE, m |-> m]

Fresh(heap) == CHOOSE b \in 1..Blocks : b \notin DOMAIN heap
                 /\ \A c \in 1..(b - 1) : c \in DOMAIN heap
Strdup(m, str) ==
  LET room == DOMAIN m.heap # 1..Blocks IN
  (IF room
   THEN {[at |-> Fresh(m.heap),
          heap |-> [b \in DOMAIN m.heap \cup {Fresh(m.heap)} |->
                     IF b \in DOMAIN m.heap THEN m.heap[b] ELSE str]]}
   ELSE {})
  \cup (IF AllocFaults \/ ~room THEN {[at |-> 0, heap |-> m.heap]} ELSE {})

\* The writes of set_value at a declaration's value, or at the list's new tail.
Write(m, k, slot, bits) ==
  IF slot = LT!Null THEN [m EXCEPT !.value[k] = bits] ELSE [m EXCEPT !.list[k].cells[slot] = bits]
SetAt(m, k, slot, src) ==
  LET d == world.decls[k] IN
  IF d.type \in NumTypes THEN {Good(Write(m, k, slot, Stored(d, src)))}
  ELSE {[ok |-> s.at # 0, m |-> [Write(m, k, slot, s.at) EXCEPT !.heap = s.heap]] :
          s \in Strdup(m, src)}

\* set_value
SetValue(m, k, src) ==
  LET d == world.decls[k] IN
  IF d.type \in NumTypes /\ ~Fits(d, src) THEN {Bad(m)}
  ELSE IF ~d.list THEN SetAt(m, k, LT!Null, src)
  ELSE UNION {IF r.ok THEN SetAt([m EXCEPT !.list[k] = r.t], k, r.at, src)
              ELSE {Bad([m EXCEPT !.list[k] = r.t])} : r \in Whole(LT!GetTailNext(m.list[k]))}

\* free() of a block
Freed(m, bits) ==
  IF bits \in DOMAIN m.heap
  THEN [m EXCEPT !.heap = [b \in DOMAIN m.heap \ {bits} |-> m.heap[b]]]
  ELSE [m EXCEPT !.twice = TRUE]

\* unset_value of a string
Unset(m, k) ==
  IF m.value[k] = 0 THEN m ELSE [Freed(m, m.value[k]) EXCEPT !.value[k] = 0]

\* list_destroy
ListDestroy(m, k) ==
  LET t == m.list[k]
      freed[p \in -1..t.last] ==
        IF p = -1 THEN m
        ELSE IF p \in LT!Live(t) /\ t.cells[p] # 0 THEN Freed(freed[p - 1], t.cells[p])
        ELSE freed[p - 1]
      left == IF world.decls[k].type = "str" THEN freed[t.last] ELSE m
  IN [left EXCEPT !.list[k] = LT!Destroy(t).t, !.twice = @ \/ t.head = "freed"]

\* decl_release
Release(m, k) ==
  IF world.decls[k].list THEN ListDestroy(m, k)
  ELSE IF world.decls[k].type = "str" THEN Unset(m, k)
  ELSE m

ReleaseAll(m, upto) ==
  LET left[k \in 0..upto] == IF k = 0 THEN m ELSE Release(left[k - 1], k) IN left[upto]
----------------------------------------------------------------------------
(* Declarations.  Each operator is the set of the outcomes.                *)

\* list_create, a number of values that is not known being 0
ListCreate(m, k, cnt) ==
  {[ok |-> r.ok, m |-> [m EXCEPT !.list[k] = r.t]] :
     r \in Whole(LT!Create(m.list[k], IF cnt = 0 THEN ListSize ELSE cnt, {}))}

Default(d, n) == IF d.type \in NumTypes THEN Atoi[d.defval[n]] ELSE d.defval[n]

\* decl_use_default_value
UseDefault(m, k) ==
  LET d == world.decls[k]
      outs[n \in 0..Len(d.defval)] ==
        IF n = 0 THEN IF d.list THEN ListCreate(m, k, 0) ELSE {Good(m)}
        ELSE UNION {IF o.ok THEN SetValue(o.m, k, Default(d, n)) ELSE {o} : o \in outs[n - 1]}
  IN outs[Len(d.defval)]

Value(d, sett) == IF d.type \in NumTypes THEN sett.num ELSE sett.str
Suits(d, sett) == sett.is = IF d.type \in NumTypes THEN "int" ELSE "str"

\* decl_use_config_list: what set_value returns is not looked at.
UseList(m, k, elems) ==
  LET d == world.decls[k]
      outs[n \in 0..Len(elems)] ==
        IF n = 0 THEN ListCreate(m, k, Len(elems))
        ELSE UNION {IF ~o.ok THEN {o}
                    ELSE IF ~Suits(d, elems[n]) THEN {Bad(o.m)}
                    ELSE {Good(s.m) : s \in SetValue(o.m, k, Value(d, elems[n]))} :
                      o \in outs[n - 1]}
  IN IF Len(elems) = 0 THEN {Bad(m)} ELSE outs[Len(elems)]

\* decl_use_config_value
UseConfig(m, k, sett) ==
  LET d == world.decls[k]
      start == IF d.list THEN ListCreate(m, k, 1) ELSE {Good(m)}
  IN IF d.list /\ sett.is = "array" THEN UseList(m, k, sett.elems)
     ELSE UNION {IF ~o.ok THEN {o}
                 ELSE IF ~Suits(d, sett) THEN {Bad(o.m)}
                 ELSE SetValue(o.m, k, Value(d, sett)) : o \in start}

\* A path that fills the buffer has no NULL byte after it, and what is looked
\* up is that path and whatever follows the buffer.
Lookup(k) ==
  LET d == world.decls[k] IN
  {world.conf[d.path]}
    \cup (IF world.parlen > 0 /\ world.parlen + 1 + d.len = PathMax THEN {NoSetting} ELSE {})

\* strlen(decl->path) > declmaxsiz
TooLong(k) == world.parlen > 0 /\ world.decls[k].len > PathMax - 1 - world.parlen

----------------------------------------------------------------------------
(* conf_parse: one action for the call and one for each turn of its loop.  *)

Idle == decl = 0 /\ parsed = "OK"
Quiet == UNCHANGED <<argsVars, world, confVars>>

\* Values are bound once before they are released, as all callers do.
ParseCall ==
  /\ Idle /\ conf = "open" /\ result # "OK" /\ parses < world.parses
  /\ parses' = parses + 1
  /\ IF world.parlen >= PathMax
     THEN result' = "FAIL" /\ UNCHANGED <<decl, retval>>
     ELSE decl' = 1 /\ retval' \in {"OK", "FAIL"} /\ UNCHANGED result
  /\ UNCHANGED mem /\ Quiet

\* Mutant of Return: the declaration that failed is not released.
ReturnButLast(r, m, k) ==
  /\ decl' = 0 /\ retval' = "OK" /\ result' = r
  /\ mem' = IF r = "OK" THEN m ELSE ReleaseAll(m, k - 1)

\* The end of conf_parse, at declaration k: conf_release_reverse from there to
\* the first, unless retval is OK.
Return(r, m, k) ==
  /\ decl' = 0 /\ retval' = "OK" /\ result' = r
  /\ mem' = IF r = "OK" THEN m ELSE ReleaseAll(m, k)

Missing(k, sett) == sett.is = "none" /\ world.decls[k].req

ParseDecl ==
  /\ decl # 0
  /\ IF TooLong(decl) THEN Return(retval, mem, decl)
     ELSE \E sett \in Lookup(decl) :
       IF Missing(decl, sett) THEN Return(retval, mem, decl)
       ELSE \E o \in IF sett.is = "none" THEN UseDefault(mem, decl)
                     ELSE UseConfig(mem, decl, sett) :
              IF ~o.ok THEN Return("FAIL", o.m, decl)
              ELSE IF decl = Len(world.decls) THEN Return("OK", o.m, decl)
              ELSE /\ decl' = decl + 1 /\ retval' = "OK" /\ mem' = o.m
                   /\ UNCHANGED result
  /\ UNCHANGED parses /\ Quiet

\* conf_release, once or again
ConfRelease ==
  /\ Idle
  /\ mem' = ReleaseAll(mem, Len(world.decls)) /\ result' = "none"
  /\ UNCHANGED <<decl, retval, parses>> /\ Quiet

----------------------------------------------------------------------------
(* conf_init and conf_fini.                                                *)

\* get_args_conf_file is called if -f was found with an argument.
FileGiven(got) ==
  LET with == {g \in got : g.arg # NoArg} IN
  IF with = {} THEN file ELSE (CHOOSE g \in with : TRUE).arg

\* conf_open fails if there is no such file, or it cannot be read.
ConfInit ==
  /\ Idle /\ conf = "closed"
  /\ \E r \in Registered(ConfLetter, NoName, LArgs) :
       LET undone == Unregistered(r.t, r.sysargs, NoName)
           left(t, sys) == /\ sectab' = [sectab EXCEPT ![ConfLetter] = t]
                           /\ sysargs' = [sysargs EXCEPT ![ConfLetter] = sys]
       IN /\ Called(ConfLetter, NoName, LArgs, r)
          /\ file' = FileGiven(r.got)
          /\ \/ r.ok /\ conf' = "open" /\ left(r.t, r.sysargs)
             \/ r.ok /\ conf' = "closed" /\ left(undone.t, undone.sysargs)
             \/ ~r.ok /\ conf' = "closed" /\ left(r.t, r.sysargs)
  /\ UNCHANGED <<parseVars, usrargs, world, declVars, parses>>

ConfFini ==
  LET left == Unregistered(sectab[ConfLetter], sysargs[ConfLetter], NoName) IN
  /\ Idle /\ conf = "open"
  /\ conf' = "closed"
  /\ sectab' = [sectab EXCEPT ![ConfLetter] = left.t]
  /\ sysargs' = [sysargs EXCEPT ![ConfLetter] = left.sysargs]
  /\ UNCHANGED <<parseVars, usrargs, call, calls, world, file, declVars, parses>>

\* The argument manager's own steps, between the others.
Arguments ==
  decl = 0 /\ ArgsNext(world.callers) /\ UNCHANGED <<world, confVars, declVars, parses>>

Next == Arguments \/ ConfInit \/ ConfFini \/ ParseCall \/ ParseDecl \/ ConfRelease

Spec == Init /\ [][Next]_vars
----------------------------------------------------------------------------
(* Properties.                                                             *)

ConfTypeOK ==
  /\ ArgsTypeOK
  /\ conf \in {"closed", "open"} /\ file \in Given \cup {DefaultFile}
  /\ decl \in {0} \cup Decls /\ retval \in {"OK", "FAIL"}
  /\ result \in {"none", "OK", "FAIL"} /\ parses \in 0..world.parses
  /\ DOMAIN mem.heap \subseteq 1..Blocks /\ mem.twice \in BOOLEAN
  /\ \A k \in Decls :
       IF world.decls[k].type = "str" THEN mem.value[k] \in 0..Blocks
       ELSE mem.value[k] \in 0..(TwoTo(Width[world.decls[k].type]) - 1)

\* The pointers to strings that release would free, by where they are.
Pointers ==
  {x \in {<<k, LT!Null, mem.value[k]>> : k \in {c \in Decls : ~world.decls[c].list}}
         \cup UNION {{<<k, p, mem.list[k].cells[p]>> : p \in LT!Live(mem.list[k])} :
                       k \in {c \in Decls : world.decls[c].list}} :
     x[3] # 0 /\ world.decls[x[1]].type = "str"}

\* At each step of a parse, whichever declaration fails and however far it got,
\* each allocated string is pointed to from one place and nothing else is; what
\* was freed is not freed again; and unless conf_parse returned OK, nothing is
\* kept.  (conf_release_reverse, decl_release, list_destroy, unset_value)
MemoryAccounted ==
  /\ ~mem.twice
  /\ {x[3] : x \in Pointers} = DOMAIN mem.heap
  /\ \A x, y \in Pointers : x[3] = y[3] => x = y
  /\ decl = 0 /\ result # "OK" =>
       DOMAIN mem.heap = {} /\ \A k \in Decls : mem.list[k] = LT!NoTable

\* What a part of the program reads in a declaration's value, "lost" being a
\* string of a list that could not be copied.
ReadOne(m, d, bits) ==
  IF d.type # "str" THEN ReadBack(d, bits) ELSE IF bits = 0 THEN "lost" ELSE m.heap[bits]
Reads(m, k) ==
  LET d == world.decls[k] IN
  IF d.list
  THEN [n \in 1..Cardinality(LT!Live(m.list[k])) |-> ReadOne(m, d, m.list[k].cells[n - 1])]
  ELSE IF d.type = "str" /\ m.value[k] = 0 THEN <<>> ELSE <<ReadOne(m, d, m.value[k])>>

\* What it should read: the file's values, without those of a list that are out
\* of bounds, or the defaults.
Fitting(d, elems) ==
  LET in[n \in 0..Len(elems)] ==
        IF n = 0 THEN <<>>
        ELSE IF d.type = "str" \/ Fits(d, elems[n].num) THEN Append(in[n - 1], elems[n])
        ELSE in[n - 1]
  IN in[Len(elems)]
Wanted(k) ==
  LET d == world.decls[k]
      sett == world.conf[d.path]
      in == Fitting(d, sett.elems)
  IN IF sett.is = "none" THEN [n \in 1..Len(d.defval) |-> Default(d, n)]
     ELSE IF sett.is = "array" THEN [n \in 1..Len(in) |-> Value(d, in[n])]
     ELSE <<Value(d, sett)>>

ReadsAsWanted(m, k) ==
  LET d == world.decls[k] IN
  \/ ~d.list /\ Wanted(k) = <<>>
  \/ /\ Len(Reads(m, k)) = Len(Wanted(k))
     /\ \A n \in 1..Len(Wanted(k)) :
          \/ Reads(m, k)[n] = Wanted(k)[n]
          \/ /\ d.list /\ d.type = "str" /\ m.list[k].cells[n - 1] = 0
             /\ world.conf[d.path].is = "array"

\* When conf_parse has returned OK, and until the values are released, also
\* after the file was closed, each declaration reads as the file or its default
\* has it, numbers in every width and sign and lists in order, up to the first
\* that is mandatory and missing or whose path is too long; from that one on
\* nothing is set.  (conf_parse, set_value, decl_use_*)
ParsedAsDeclared ==
  result = "OK" =>
    LET stop == {k \in Decls : TooLong(k) \/ Missing(k, world.conf[world.decls[k].path])}
        before == {k \in Decls : \A c \in stop : k < c}
    IN /\ \A k \in before : ReadsAsWanted(mem, k)
       /\ \A k \in Decls \ before : mem.list[k] = LT!NoTable /\ \A x \in Pointers : x[1] # k

\* The file that is read is the last that the command line names with -f in the
\* section of the configuration, not in another or in a named entry of it, or
\* the default if that -f has no argument.  (conf_init, get_args_conf_file)
FileIsLastGiven ==
  conf = "open" =>
    LET meant == Meant(ConfLetter, NoName, FileOption) IN
    file = IF meant.arg = NoArg THEN DefaultFile ELSE meant.arg

\* conf.c:582: a declaration "is mandatory"; without it parsing does not succeed.
MandatoryIsSet ==
  result = "OK" => \A k \in Decls :
    world.decls[k].req => world.conf[world.decls[k].path].is # "none"

\* conf.c:551: the path that is looked up has its "trailing NULL byte".
PathTerminated == decl # 0 => Cardinality(Lookup(decl)) = 1
=============================================================================
