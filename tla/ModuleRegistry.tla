--------------------------- MODULE ModuleRegistry ---------------------------
(***************************************************************************)
(* The module manager (src/module.c) and the two cores that hook modules,  *)
(* proc and debug.  l_modtab holds a copy of the entry of each registered  *)
(* module, l_cortab the cores that are attached, and each core has a table *)
(* of the modules that are hooked to it.  All of it runs in one thread.    *)
(* SIGSEGV ends the program (signal.c, handle_oops): so do OOPS() and a    *)
(* NULL pointer.                                                           *)
(***************************************************************************)
EXTENDS Integers, FiniteSets

CONSTANTS
  ProcModules, DebugModules, \* modules named proc_... and debug_...
  CoreModules,   \* modules with RATTMODFLCOR; the core has the module's name
  OneLetter,     \* modules whose name is one letter after the prefix
  Unhookable,    \* modules with no attach callback, or an unfit hook_size
  Zero, Junk, NoCore, Unknown,
  ModTabSize, ModTabMax,     \* MODULE_MODTABSIZ, RATTTABSIZMAX
  CorTabSize, CorTabMax,     \* MODULE_CORTABSIZ, RATTTABSIZMAX
  HookTabSize, HookTabMax,   \* MODULE_CHKTABSIZ, RATTTABSIZMAX
  Unregisters    \* modules that may be unregistered while the program runs

Modules == ProcModules \cup DebugModules \cup CoreModules
Cores == {"proc", "debug"} \cup CoreModules
Lone == {"proc"}           \* RATTMODCORFLONE

ASSUME RegistryAssumption ==
  /\ OneLetter \subseteq Modules /\ Unhookable \subseteq Modules
  /\ Unregisters \subseteq Modules
  /\ CoreModules \cap (ProcModules \cup DebugModules) = {}
  /\ ProcModules \cap DebugModules = {}
  /\ CoreModules \cap {"proc", "debug"} = {}
  /\ NoCore \notin Cores /\ Unknown # Zero
  /\ {Zero, Junk, Unknown} \cap (Modules \cup Cores) = {}
  /\ ModTabMax \in Nat \ {0} /\ ModTabSize \in 1..ModTabMax
  /\ CorTabMax \in Nat \ {0} /\ CorTabSize \in 1..CorTabMax
  /\ HookTabMax \in Nat \ {0} /\ HookTabSize \in 1..HookTabMax

Same(cell, x) == cell = x

\* l_modtab, l_cortab and the hook tables
M == INSTANCE TableOps WITH
  SlotBits <- 8, MaxSize <- ModTabMax, Chunks <- Modules, Matches <- Same,
  Constrained <- TRUE, OnConstrains <- "unset", AllocFaults <- FALSE,
  DirtyHeap <- FALSE
C == INSTANCE TableOps WITH
  SlotBits <- 8, MaxSize <- CorTabMax, Chunks <- Cores, Matches <- Same,
  Constrained <- TRUE, OnConstrains <- "unset", AllocFaults <- FALSE,
  DirtyHeap <- FALSE
H == INSTANCE TableOps WITH
  SlotBits <- 8, MaxSize <- HookTabMax, Chunks <- Modules, Matches <- Same,
  Constrained <- FALSE, OnConstrains <- "unset", AllocFaults <- FALSE,
  DirtyHeap <- FALSE

VARIABLES
  modtab,    \* l_modtab; a chunk is named by the module's name
  coreOf,    \* the core field of each entry of l_modtab
  cortab,    \* l_cortab
  hooks,     \* the hook_table of each core
  holds,     \* what a module was given when it was attached
  built,     \* modules whose constructor ran after their destructor did
  sysargs,   \* modules whose arguments are in the module section
  booting,   \* the core whose modules are being attached
  procHook,  \* l_proc_hook: the module it is the hook of
  ended      \* "no", "fini", or why the program crashed

regVars == <<modtab, coreOf, built, sysargs>>
coreVars == <<cortab, hooks, holds, booting, procHook>>
vars == <<regVars, coreVars, ended>>

ModSlots == 0..(ModTabMax - 1)
Resource == {"conf", "hook", "attached", "core"}

Init ==
  /\ modtab = M!NoTable /\ coreOf = [p \in ModSlots |-> NoCore]
  /\ cortab = C!NoTable /\ hooks = [c \in Cores |-> H!NoTable]
  /\ holds = [m \in Modules |-> {}]
  /\ built = {} /\ sysargs = {}
  /\ booting = NoCore /\ procHook = "null" /\ ended = "no"

Registered == {modtab.cells[p] : p \in M!Live(modtab)}
Hooked(c) == {hooks[c].cells[p] : p \in H!Live(hooks[c])}
Calm == ended = "no" /\ M!Exists(modtab) /\ booting = NoCore

\* When a step of it fails, the error paths leave no table, as before.  If the
\* user wants the list of modules, all of it is undone again and the program ends.
ModuleInit ==
  /\ ended = "no" /\ ~M!Exists(modtab)
  /\ \/ /\ modtab' = M!Created(ModTabSize, {}) /\ cortab' = C!Created(CorTabSize, {})
        /\ UNCHANGED ended
     \/ ended' = "fini" /\ UNCHANGED <<modtab, cortab>>
  /\ UNCHANGED <<coreOf, hooks, holds, built, sysargs, booting, procHook>>

Crash(why) == ended' = why /\ UNCHANGED <<regVars, coreVars>>

\* compare_module_name of the current chunk, which a search looks at first even
\* when it was deleted, finds no name.
NameMissing(t) == M!Current(t) # M!Null /\ t.cells[M!Current(t)] \notin Modules
----------------------------------------------------------------------------
(* ratt_module_register and ratt_module_unregister.                        *)

\* Mutant of HookTable: the flag of a lone core is not looked at.
HookTableForAll(c) == H!Created(HookTabSize, {})

\* A lone core has room for one hook.
HookTable(c) ==
  IF c \in Lone THEN H!Created(1, {"NRA"}) ELSE H!Created(HookTabSize, {})

\* module_core_attach
CoreAttached(c) ==
  {IF H!Exists(hooks[c]) THEN [ok |-> FALSE, cortab |-> cortab, hooks |-> hooks]
   ELSE IF r.ok
   THEN [ok |-> TRUE, cortab |-> r.t, hooks |-> [hooks EXCEPT ![c] = HookTable(c)]]
   ELSE [ok |-> FALSE, cortab |-> r.t, hooks |-> [hooks EXCEPT ![c] = H!NoTable]] :
     r \in C!Insert(cortab, c)}

\* module_core_register: the core may be too old.
CoreRegistered(c) ==
  CoreAttached(c) \cup {[ok |-> FALSE, cortab |-> cortab, hooks |-> hooks]}

\* ratt_table_del_current cleared the pointer that is dereferenced next.
CoreDetachCrashes(c) == C!Search(cortab, c).at # C!Null

\* module_unregister, of a module that is in the table; it does not look
\* whether the module is attached.
Deleted(m, t) == M!DelCurrent(M!Search(t, m).t).t

\* What follows when a module's entry is in the table at slot p: the core of a
\* core module is attached, or the entry is taken out again.
RegisterCore(m, t, p) ==
  \/ /\ m \notin CoreModules
     /\ modtab' = t /\ coreOf' = [coreOf EXCEPT ![p] = NoCore]
     /\ built' = built \cup {m} /\ sysargs' = sysargs \cup {m}
     /\ UNCHANGED <<cortab, hooks>>
  \/ /\ m \in CoreModules
     /\ \E r \in CoreRegistered(m) :
          /\ cortab' = r.cortab /\ hooks' = r.hooks
          /\ IF r.ok
             THEN /\ modtab' = t /\ coreOf' = [coreOf EXCEPT ![p] = m]
                  /\ built' = built \cup {m} /\ sysargs' = sysargs \cup {m}
             ELSE /\ modtab' = Deleted(m, t)
                  /\ coreOf' = [coreOf EXCEPT ![p] = NoCore]
                  /\ built' = built \ {m} /\ sysargs' = sysargs \ {m}

\* Mutant of InsertFailed: the constructor is not undone.
InsertFailedKeepsBuilt(m, t) ==
  /\ modtab' = t
  /\ built' = built \cup {m} /\ sysargs' = sysargs \ {m}
  /\ UNCHANGED <<coreOf, cortab, hooks>>

InsertFailed(m, t) ==
  /\ modtab' = t
  /\ built' = built \ {m} /\ sysargs' = sysargs \ {m}
  /\ UNCHANGED <<coreOf, cortab, hooks>>

\* The constructor may fail, or the arguments, which stay registered when they
\* do not bind.  Nothing looks whether the module is registered before the
\* table's constraint does, and the error paths destroy it then too.
Register(m) ==
  /\ Calm
  /\ \/ UNCHANGED <<regVars, coreVars, ended>>
     \/ /\ sysargs' \in {sysargs, sysargs \cup {m}}
        /\ built' = built \ {m}
        /\ UNCHANGED <<modtab, coreOf, coreVars, ended>>
     \/ NameMissing(modtab) /\ Crash("name")
     \/ /\ ~NameMissing(modtab)
        /\ \E r \in M!Insert(modtab, m) :
             IF r.ok THEN RegisterCore(m, r.t, r.at) ELSE InsertFailed(m, r.t)
        /\ UNCHANGED <<holds, booting, procHook, ended>>

Unregister(m) ==
  /\ Calm /\ m \in Unregisters
  /\ \/ m \in CoreModules /\ CoreDetachCrashes(m) /\ Crash("detach")
     \/ m \notin CoreModules /\ NameMissing(modtab) /\ Crash("name")
     \/ /\ m \notin CoreModules /\ ~NameMissing(modtab)
        /\ IF M!Search(modtab, m).at = M!Null
           THEN modtab' = M!Search(modtab, m).t /\ UNCHANGED <<coreOf, built, sysargs>>
           ELSE /\ modtab' = Deleted(m, modtab)
                /\ coreOf' = [coreOf EXCEPT ![M!Search(modtab, m).at] = NoCore]
                /\ built' = built \ {m} /\ sysargs' = sysargs \ {m}
        /\ UNCHANGED <<coreVars, ended>>

----------------------------------------------------------------------------
(* attach_module.                                                          *)

\* What the module was given when a stage fails, and what the error path of
\* that stage takes back.
Stages == {"conf_parse", "calloc", "attach", "version", "core_attach", "insert"}
Given(stage) ==
  CASE stage = "conf_parse" -> {}
    [] stage = "calloc" -> {"conf"}
    [] stage = "attach" -> {"conf", "hook"}
    [] stage \in {"version", "core_attach"} -> {"conf", "hook", "attached"}
    [] stage \in {"insert", "done"} -> Resource

\* Mutant of TakenBack: a module that chose not to attach keeps its hook.
TakenBackButHook(stage) ==
  CASE stage \in {"conf_parse", "done"} -> {}
    [] stage \in {"calloc", "attach"} -> {"conf"}
    [] stage \in {"version", "core_attach"} -> {"attached", "hook", "conf"}
    [] stage = "insert" -> {"core", "attached", "hook", "conf"}

TakenBack(stage) ==
  CASE stage \in {"conf_parse", "done"} -> {}
    [] stage = "calloc" -> {"conf"}
    [] stage = "attach" -> {"hook", "conf"}
    [] stage \in {"version", "core_attach"} -> {"attached", "hook", "conf"}
    [] stage = "insert" -> {"core", "attached", "hook", "conf"}

Stopped(m, stage) ==
  holds' = [holds EXCEPT ![m] = (@ \cup Given(stage)) \ TakenBack(stage)]

\* ratt_module_attach: a full name of the shortest length is given the prefix
\* once more, like one with the prefix of another core.
Resolved(c, m, full) ==
  LET named == CASE c = "proc" -> ProcModules [] c = "debug" -> DebugModules
                 [] OTHER -> {}
  IN IF m \in named /\ ~(full /\ m \in OneLetter) THEN m ELSE Unknown

Attachable(p) ==
  p # M!Null /\ coreOf[p] = NoCore /\ modtab.cells[p] \notin Unhookable

Hook(c, m, p) ==
  \E r \in H!Insert(hooks[c], m) :
    /\ hooks' = [hooks EXCEPT ![c] = r.t]
    /\ IF r.ok THEN Stopped(m, "done") /\ coreOf' = [coreOf EXCEPT ![p] = c]
       ELSE Stopped(m, "insert") /\ UNCHANGED coreOf

Attach(m, full) ==
  LET found == M!Search(modtab, Resolved(booting, m, full)) IN
  /\ ended = "no" /\ booting # NoCore
  /\ \/ NameMissing(modtab) /\ Crash("name")
     \/ /\ ~NameMissing(modtab) /\ modtab' = found.t
        /\ \/ ~Attachable(found.at) /\ UNCHANGED <<coreOf, hooks, holds>>
           \/ /\ Attachable(found.at)
              /\ \/ \E stage \in Stages \ {"insert"} : Stopped(m, stage)
                                                       /\ UNCHANGED <<coreOf, hooks>>
                 \/ Hook(booting, m, found.at)
        /\ UNCHANGED <<built, sysargs, cortab, booting, procHook, ended>>
----------------------------------------------------------------------------
(* The cores.                                                              *)

\* proc_attach and debug_init, up to the list of modules to attach
CoreBoot(c) ==
  /\ Calm /\ c \in {"proc", "debug"}
  /\ \E r \in CoreAttached(c) :
       /\ cortab' = r.cortab /\ hooks' = r.hooks
       /\ booting' = IF r.ok THEN c ELSE NoCore
  /\ UNCHANGED <<regVars, holds, procHook, ended>>

\* A chunk of a hook table is as long as a pointer: insertion keeps the module
\* of the hook, and what is read for the hook itself is the memory beyond.
HookBeyond == {"null", Junk}

\* The rest of them, when the list is through.  debug then makes a pipe and
\* forks, which may fail.
CoreBooted(c) ==
  LET first == H!First(hooks[c]) IN
  /\ ended = "no" /\ booting = c
  /\ \/ (first.at = H!Null \/ c = "debug") /\ CoreDetachCrashes(c) /\ Crash("detach")
     \/ /\ first.at # H!Null
        /\ booting' = NoCore
        /\ IF c = "proc"
           THEN procHook' \in HookBeyond /\ hooks' = [hooks EXCEPT ![c] = first.t]
           ELSE UNCHANGED <<procHook, hooks>>
        /\ UNCHANGED <<regVars, cortab, holds, ended>>

\* proc_detach and debug_fini
CoreDetach(c) ==
  /\ Calm /\ c \in {"proc", "debug"}
  /\ \/ CoreDetachCrashes(c) /\ Crash("detach")
     \/ /\ ~CoreDetachCrashes(c)
        /\ cortab' = C!Search(cortab, c).t
        /\ procHook' = IF c = "proc" THEN "null" ELSE procHook
        /\ UNCHANGED <<regVars, hooks, holds, booting, ended>>

\* unload_modules unregisters each entry, which the search finds under the
\* cursor, through a pointer to the table's own copy: once it is deleted, its args
\* and destructor are NULL.
Unloaded(t) == M!Swept(t, Modules).t

ModuleFini ==
  /\ Calm
  /\ IF Registered \cap CoreModules # {} THEN Crash("detach")
     ELSE /\ modtab' = M!Destroy(Unloaded(modtab)).t
          /\ coreOf' = [p \in ModSlots |-> NoCore]
          /\ cortab' = C!Destroy(cortab).t
          /\ ended' = "fini"
          /\ UNCHANGED <<hooks, holds, built, sysargs, booting, procHook>>

Next ==
  \/ ModuleInit \/ ModuleFini
  \/ \E m \in Modules : Register(m) \/ Unregister(m)
  \/ \E m \in Modules, full \in BOOLEAN : Attach(m, full)
  \/ \E c \in Cores : CoreBoot(c) \/ CoreBooted(c) \/ CoreDetach(c)

Spec == Init /\ [][Next]_vars

----------------------------------------------------------------------------
(* Properties.                                                             *)

TypeOK ==
  /\ modtab \in M!Table /\ coreOf \in [ModSlots -> Cores \cup {NoCore}]
  /\ cortab \in C!Table /\ hooks \in [Cores -> H!Table]
  /\ holds \in [Modules -> SUBSET Resource]
  /\ built \subseteq Modules /\ sysargs \subseteq Modules
  /\ booting \in {"proc", "debug", NoCore}
  /\ procHook \in {"null", Junk}
  /\ ended \in {"no", "fini", "name", "detach"}

\* Whatever step of a registration or an unregistration fails, also of a module
\* that is registered already, none is registered twice, what is built is
\* registered, and a core module's core is there just when the module is.
NothingLeftHalf ==
  ended # "fini" =>
    /\ built \subseteq Registered
    /\ Cardinality(Registered) = Cardinality(M!Live(modtab))
    /\ \A m \in CoreModules : H!Exists(hooks[m]) <=> m \in Registered

\* module.c:649-653 calls the destructor of a module once it is unregistered: one
\* that is registered is built.
RegisteredIsBuilt == ended # "fini" => Registered \subseteq built

\* Attachment is all or nothing, whichever of its stages fails: what a core has
\* hooked, once, has all that a hooked module holds, and knows its core while
\* it is registered; what no core has hooked holds nothing.
AttachedIsHooked ==
  /\ \A c \in Cores : Cardinality(Hooked(c)) = Cardinality(H!Live(hooks[c]))
  /\ \A m \in Modules : holds[m] =
       IF \E c \in Cores : m \in Hooked(c) THEN Resource ELSE {}
  /\ \A p \in M!Live(modtab), c \in Cores \ CoreModules :
       coreOf[p] = c <=> modtab.cells[p] \in Hooked(c)

\* The proc core has one module, the first of its list that attached.
LoneHasOne == \A c \in Lone : Cardinality(Hooked(c)) <= 1

\* module.c:212: OOPS(module->name), the entry that is compared has a name.
NamesPresent == ended # "name"

\* module.c:447-450: after "delete core" module_core_detach returns.
CoreDetachReturns == ended # "detach"

\* module.c:645-653: an unregistered module's arguments are unregistered and its
\* destructor is called.
UnloadDestroys == ended = "fini" => built = {} /\ sysargs = {}

\* proc.c:43: l_proc_hook is the hook of the "attached process module".
ProcHookIsModules ==
  "proc" \in {cortab.cells[p] : p \in C!Live(cortab)} /\ booting # "proc" =>
    procHook \in Hooked("proc")

\* module.c:733: a module is specified "by its full or relative name".
FullNameFound ==
  booting # NoCore =>
    \A m \in Registered : Resolved(booting, m, TRUE) = Resolved(booting, m, FALSE)
=============================================================================
