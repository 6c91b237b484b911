---------------------------- MODULE ArgsSections ----------------------------
(***************************************************************************)
(* The argument manager (modules/args).  The command line is read before   *)
(* the parts of the program that its options are for exist: parse_args     *)
(* keeps them in sections, a table of named entries for each, and          *)
(* args_register later hands an entry's options to the part that declares  *)
(* them.  A module that uses this one adds the steps of those parts.       *)
(*                                                                         *)
(* The command line is a sequence of abstract arguments: a section letter  *)
(* stands for the argument "-X", an option for "-x".                       *)
(***************************************************************************)
EXTENDS Integers, Sequences, FiniteSets

CONSTANTS
  Letters,       \* sections, A to Z
  Options,       \* a to z
  Words,         \* arguments that start with a letter or a digit
  Others,        \* those that do not, nor with '-'
  Dashed,        \* those that start with '-' and are none of the ones above
  End,           \* "--"
  NoName, NoArg, NoArgs, \* NULL, as a name, an argument, a ratt_args_t
  Zero, Junk,
  SecTabSize, SecTabMax, \* ARGSSECTABSIZ, RATTTABSIZMAX
  Callers,       \* who registers: records [section, name, args], where args is
                 \* NoArgs or a sequence of [option, lone, needs, takes, refuses]:
                 \* its two flags, whether it has a get(), and what that refuses
  Calls          \* calls of args_register, at most

Main == "main"             \* ARGSSECMAIN
Sections == Letters \cup {Main}
Names == Words \cup {NoName}
Given == Words \cup Others \* what can be an option's argument
Tokens == Letters \cup Options \cup Given \cup Dashed \cup {End}

ASSUME ArgsAssumption ==
  /\ LET kinds == <<Letters, Options, Words, Others, Dashed, {End}>> IN
     \A j, k \in 1..6 : j # k => kinds[j] \cap kinds[k] = {}
  /\ Main \notin Letters /\ NoName \notin Words /\ NoArg \notin Given
  /\ Zero \notin Names /\ Junk \notin Names
  /\ SecTabMax \in Nat \ {0} /\ SecTabSize \in 1..SecTabMax
  /\ \A c \in Callers :
       /\ c.section \in Sections /\ c.name \in Names
       /\ c.args # NoArgs => \A k \in 1..Len(c.args) : c.args[k].option \in Options
  /\ Calls \in Nat

\* compare_entry_name; the name of a cleared entry is NULL
SameName(cell, name) == IF cell = Zero THEN name = NoName ELSE cell = name

T == INSTANCE TableOps WITH
  SlotBits <- 8, MaxSize <- SecTabMax, Chunks <- Names, Matches <- SameName,
  Constrained <- TRUE, OnConstrains <- "OK", AllocFaults <- FALSE,
  DirtyHeap <- FALSE

VARIABLES
  argv,      \* the command line, from argv[1] on
  i,         \* the next argument that parse_args looks at
  section,   \* the section it is in
  name,      \* and the entry in it
  parsed,    \* "no", "OK" or "FAIL", "fini" after args_fini
  sectab,    \* l_sectab; a chunk is named by the entry's name
  usrargs,   \* the usrargs of each entry
  sysargs,   \* the sysargs of each entry
  call,      \* the last call of args_register, and what it handed over
  calls      \* how many there were

parseVars == <<argv, i, section, name, parsed>>
sectionVars == <<sectab, usrargs, sysargs>>
argsVars == <<parseVars, sectionVars, call, calls>>

SecSlots == 0..(SecTabMax - 1)
Unfound == [o \in Options |-> [found |-> 0, arg |-> NoArg]]
NoCall == [section |-> Main, name |-> NoName, args |-> NoArgs, ok |-> TRUE,
           got |-> {}]

ArgsStart ==
  /\ i = 1 /\ section = Main /\ name = NoName /\ parsed = "no"
  /\ sectab = [s \in Sections |-> T!NoTable]
  /\ usrargs = [s \in Sections |-> [p \in SecSlots |-> Unfound]]
  /\ sysargs = [s \in Sections |-> [p \in SecSlots |-> NoArgs]]
  /\ call = NoCall /\ calls = 0

\* pointer_to_section and create_section
Section(s) ==
  IF T!Exists(sectab[s]) THEN sectab[s] ELSE T!Created(SecTabSize, {})

----------------------------------------------------------------------------
(* parse_args, one action for each kind of argument.                       *)

Parsing == parsed = "no" /\ i <= Len(argv)
More == i < Len(argv)
DashFirst(a) == a \in Letters \cup Options \cup Dashed \cup {End}

\* Mutant of StartSection: the name of the section before is kept.
StartSectionKeepsName(s) ==
  /\ Parsing /\ argv[i] = s
  /\ section' = s
  /\ IF More /\ argv[i + 1] \in Words
     THEN name' = argv[i + 1] /\ i' = i + 2
     ELSE i' = i + 1 /\ UNCHANGED name
  /\ UNCHANGED <<argv, parsed, sectionVars, call, calls>>

StartSection(s) ==
  /\ Parsing /\ argv[i] = s
  /\ section' = s
  /\ IF More /\ argv[i + 1] \in Words
     THEN name' = argv[i + 1] /\ i' = i + 2
     ELSE i' = i + 1 /\ name' = IF More THEN NoName ELSE name
  /\ UNCHANGED <<argv, parsed, sectionVars, call, calls>>

\* Mutant of Found: the first argument of an option is the one that counts.
FoundFirst(usr, o, a) ==
  [usr EXCEPT ![o] = [found |-> @.found + 1,
                      arg |-> IF @.found = 0 THEN a ELSE @.arg]]

\* update_on_constrains when the options of an entry are added to, and a new
\* entry's first option
Found(usr, o, a) == [usr EXCEPT ![o] = [found |-> @.found + 1, arg |-> a]]

\* insert_args; parse_args does not look at what it returns.
InsertArgs(o, a) ==
  \E r \in T!Insert(Section(section), name) :
    /\ sectab' = [sectab EXCEPT ![section] = r.t]
    /\ usrargs' = IF r.ok THEN [usrargs EXCEPT ![section][r.at] = Found(@, o, a)]
                  ELSE usrargs

FoundOption(o) ==
  /\ Parsing /\ argv[i] = o
  /\ IF More /\ ~DashFirst(argv[i + 1])
     THEN InsertArgs(o, argv[i + 1]) /\ i' = i + 2
     ELSE InsertArgs(o, NoArg) /\ i' = i + 1
  /\ UNCHANGED <<argv, section, name, parsed, sysargs, call, calls>>

Parsed(retval) ==
  /\ parsed' = retval
  /\ UNCHANGED <<argv, i, section, name, sectionVars, call, calls>>

EndParsing ==
  /\ parsed = "no" /\ (i <= Len(argv) => argv[i] = End)
  /\ Parsed("OK")

Invalid == Parsing /\ argv[i] \in Given \cup Dashed /\ Parsed("FAIL")

----------------------------------------------------------------------------
(* args_register and args_unregister.                                      *)

\* An option that was found passes the checks of bind_args, and its get() takes
\* its argument.
Binds(x, usr) ==
  /\ x.lone => usr.found <= 1
  /\ x.needs => usr.arg # NoArg
  /\ usr.arg # NoArg => x.takes /\ usr.arg \notin x.refuses

\* bind_args: whether it succeeds, and the options that were handed over
Bound(usr, args) ==
  LET there == {k \in 1..Len(args) : usr[args[k].option].found > 0}
      wrong == {k \in there : ~Binds(args[k], usr[args[k].option])}
      passed == {k \in there : \A w \in wrong : k < w}
  IN [ok |-> wrong = {},
      got |-> {[option |-> args[k].option, arg |-> usr[args[k].option].arg,
                found |-> usr[args[k].option].found] : k \in passed}]

\* Mutant of EntryOf: the options of the last entry are taken.
EntryOfLast(t) == T!Last(t).at

\* The entry that args_register binds is where insertion left the cursor.
EntryOf(t) == T!Current(t)

\* The outcomes of args_register: what it leaves in the section, and binds.
Registered(s, n, args) ==
  {IF ~r.ok THEN [t |-> r.t, sysargs |-> sysargs[s], ok |-> FALSE, got |-> {}]
   ELSE LET bound == IF args = NoArgs THEN [ok |-> TRUE, got |-> {}]
                     ELSE Bound(usrargs[s][EntryOf(r.t)], args)
        IN [t |-> r.t, ok |-> bound.ok, got |-> bound.got,
            sysargs |-> IF args = NoArgs THEN sysargs[s]
                        ELSE [sysargs[s] EXCEPT ![r.at] = args]] :
     r \in T!Insert(Section(s), n)}

\* args_unregister: what it leaves, nothing if there is no such section or entry
Unregistered(t, sys, n) ==
  LET found == T!Search(t, n) IN
  [t |-> found.t,
   sysargs |-> IF found.at = T!Null THEN sys ELSE [sys EXCEPT ![found.at] = NoArgs]]

Called(s, n, args, r) ==
  /\ calls < Calls /\ calls' = calls + 1
  /\ call' = [section |-> s, name |-> n, args |-> args, ok |-> r.ok, got |-> r.got]

ArgsRegister(c) ==
  /\ parsed = "OK"
  /\ \E r \in Registered(c.section, c.name, c.args) :
       /\ Called(c.section, c.name, c.args, r)
       /\ sectab' = [sectab EXCEPT ![c.section] = r.t]
       /\ sysargs' = [sysargs EXCEPT ![c.section] = r.sysargs]
  /\ UNCHANGED <<parseVars, usrargs>>

ArgsUnregister(c) ==
  LET left == Unregistered(sectab[c.section], sysargs[c.section], c.name) IN
  /\ parsed = "OK"
  /\ sectab' = [sectab EXCEPT ![c.section] = left.t]
  /\ sysargs' = [sysargs EXCEPT ![c.section] = left.sysargs]
  /\ UNCHANGED <<parseVars, usrargs, call, calls>>

ArgsFini ==
  /\ parsed \in {"OK", "FAIL"}
  /\ parsed' = "fini"
  /\ sectab' = [s \in Sections |-> T!NoTable]
  /\ usrargs' = [s \in Sections |-> [p \in SecSlots |-> Unfound]]
  /\ sysargs' = [s \in Sections |-> [p \in SecSlots |-> NoArgs]]
  /\ UNCHANGED <<argv, i, section, name, call, calls>>

ParseNext ==
  \/ \E s \in Letters : StartSection(s)
  \/ \E o \in Options : FoundOption(o)
  \/ EndParsing \/ Invalid

\* The argument manager and those who register with it
ArgsNext(callers) ==
  \/ ParseNext \/ ArgsFini
  \/ \E c \in callers : ArgsRegister(c) \/ ArgsUnregister(c)

----------------------------------------------------------------------------
(* Properties.                                                             *)

ArgsTypeOK ==
  /\ argv \in Seq(Tokens) /\ i \in 1..(Len(argv) + 1)
  /\ section \in Sections /\ name \in Names
  /\ parsed \in {"no", "OK", "FAIL", "fini"}
  /\ sectab \in [Sections -> T!Table]
  /\ \A s \in Sections, p \in SecSlots, o \in Options :
       usrargs[s][p][o] \in [found : 0..Len(argv), arg : Given \cup {NoArg}]
  /\ calls \in 0..Calls

\* What a command line means, by positions: the section an option is in, its
\* name, and the option's argument.
SectionAt(p) ==
  LET starts == {q \in 1..(p - 1) : argv[q] \in Letters} IN
  IF starts = {} THEN [id |-> Main, name |-> NoName]
  ELSE LET q == CHOOSE x \in starts : \A y \in starts : y <= x IN
       [id |-> argv[q], name |-> IF argv[q + 1] \in Words THEN argv[q + 1] ELSE NoName]
ArgAt(p) ==
  IF p < Len(argv) /\ argv[p + 1] \in Given THEN argv[p + 1] ELSE NoArg
GivenAt(s, n, o) ==
  {p \in 1..(i - 1) : argv[p] = o /\ SectionAt(p) = [id |-> s, name |-> n]}
Meant(s, n, o) ==
  LET at == GivenAt(s, n, o) IN
  [found |-> Cardinality(at),
   arg |-> IF at = {} THEN NoArg
           ELSE ArgAt(CHOOSE p \in at : \A q \in at : q <= p)]

Entries(s, n) == {p \in T!Live(sectab[s]) : sectab[s].cells[p] = n}
Full(s) == T!Exists(sectab[s]) /\ Cardinality(T!Live(sectab[s])) = SecTabMax

\* Whatever order sections, names and options come in, and however often they
\* come back: each name has one entry, whose options are those that the part of
\* the command line read so far gives it, counted, with their last arguments.
\* An option that has no entry is lost only to a table that is full.
\* (parse_args, insert_args, update_on_constrains)
SectionsTally ==
  parsed # "fini" => \A s \in Sections, n \in Names :
    /\ Cardinality(Entries(s, n)) <= 1
    /\ \A p \in Entries(s, n), o \in Options : usrargs[s][p][o] = Meant(s, n, o)
    /\ Entries(s, n) = {} =>
         Full(s) \/ \A o \in Options : GivenAt(s, n, o) = {}

\* A part of the program that registers its arguments gets exactly the options
\* that the command line gives to its section and name, wherever earlier calls
\* have left the cursor and the size of the table, and also when it registers
\* again; it is refused only if the table is full or one of them does not bind.
\* (args_register, bind_args)
BoundAsGiven ==
  LET s == call.section
      n == call.name
      meant(x) == Meant(s, n, x.option)
      declared == IF call.args = NoArgs THEN {}
                  ELSE {call.args[k] : k \in 1..Len(call.args)}
      there == {x \in declared : meant(x).found > 0}
      handed == {[option |-> x.option, arg |-> meant(x).arg, found |-> meant(x).found] :
                   x \in there}
  IN parsed # "fini" /\ calls > 0 /\ ~(Full(s) /\ Entries(s, n) = {}) =>
       /\ (call.ok <=> \A x \in there :
            /\ x.lone => Cardinality(GivenAt(s, n, x.option)) = 1
            /\ meant(x).arg = NoArg => ~x.needs
            /\ meant(x).arg # NoArg => x.takes /\ meant(x).arg \notin x.refuses)
       /\ IF call.ok THEN call.got = handed ELSE call.got \subseteq handed
=============================================================================
