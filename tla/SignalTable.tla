---------------------------- MODULE SignalTable ----------------------------
(***************************************************************************)
(* The signal handler (modules/signal): a table of the signals that are    *)
(* waited for, each with a table of its handlers, and the dispatch of a    *)
(* signal to them, last registered first.  One thread waits for signals;   *)
(* the handlers that it runs may themselves register and unregister.       *)
(***************************************************************************)
EXTENDS Integers, FiniteSets

CONSTANTS
  Signals,       \* signal numbers that callers use
  Refused,       \* SIGSEGV, SIGKILL and the like, among them
  Handlers,
  Zero, Junk, Dangling,
  SigTabSize, SigTabMax,   \* SIGNAL_SIGTABSIZ, RATTTABSIZMAX
  EntTabSize, EntTabMax,   \* SIGNAL_ENTTABSIZ, RATTTABSIZMAX
  HandlerOps,    \* what handlers call: subset of {"register", "unregister",
                 \* "leave"}, the last for a handler that unregisters itself
  PushesEmptied, \* may a signal be registered after the last one was unregistered
  AllocFaults,   \* may calloc() and realloc() fail for a table, leaving it as it was
  Interrupts,    \* may sigwaitinfo() be interrupted
  Deliveries     \* signals delivered, at most

ASSUME SignalAssumption ==
  /\ Refused \subseteq Signals
  /\ Zero \notin Signals \cup Handlers /\ Junk \notin Signals \cup Handlers
  /\ Dangling \notin Nat
  /\ SigTabMax \in Nat \ {0} /\ SigTabSize \in 1..SigTabMax
  /\ EntTabMax \in Nat \ {0} /\ EntTabSize \in 1..EntTabMax
  /\ HandlerOps \subseteq {"register", "unregister", "leave"}
  /\ PushesEmptied \in BOOLEAN /\ AllocFaults \in BOOLEAN /\ Interrupts \in BOOLEAN
  /\ Deliveries \in Nat

Same(cell, x) == cell = x

\* l_sigtab, and the entry table of each of its chunks
ST == INSTANCE TableOps WITH
  SlotBits <- 8, MaxSize <- SigTabMax, Chunks <- Signals, Matches <- Same,
  Constrained <- FALSE, OnConstrains <- "unset", AllocFaults <- FALSE,
  DirtyHeap <- FALSE
ET == INSTANCE TableOps WITH
  SlotBits <- 8, MaxSize <- EntTabMax, Chunks <- Handlers, Matches <- Same,
  Constrained <- TRUE, OnConstrains <- "unset", AllocFaults <- FALSE,
  DirtyHeap <- FALSE

VARIABLES
  sigtab,    \* l_sigtab; a chunk is named by its signal number
  entry,     \* the entry table of each chunk of l_sigtab
  sigmask,   \* l_wait_sigmask
  signum,    \* the signal that is being handled, Zero if none is
  sig,       \* the chunk of l_sigtab whose entries it goes through
  running,   \* the handler that runs, Zero between two of them
  ran,       \* the handlers that ran for it
  called,    \* have they called back
  missed,    \* was a signal that is waited for "handled but not registered"
  delivered  \* signals delivered

tabVars == <<sigtab, entry, sigmask>>
handleVars == <<signum, sig, running, ran, called, missed, delivered>>
vars == <<tabVars, handleVars>>

SigSlots == 0..(SigTabMax - 1)

Init ==
  /\ sigtab = ST!NoTable /\ entry = [p \in SigSlots |-> ET!NoTable]
  /\ sigmask = {}
  /\ signum = Zero /\ sig = Dangling /\ running = Zero /\ ran = {}
  /\ called = FALSE /\ missed = FALSE /\ delivered = 0

\* When an allocation fails, signal_init leaves all as it was.
SignalInit ==
  /\ ~ST!Exists(sigtab)
  /\ sigtab' = ST!Created(SigTabSize, {})
  /\ sigmask' = {}
  /\ UNCHANGED <<entry, handleVars>>

----------------------------------------------------------------------------
(* Registration.                                                           *)

\* unregister_signal: a RATT_TABLE_FOREACH loop that deletes what matches
Unregistered(t, s) == ST!Swept(t, {s}).t

\* The chunks that the loop came to and deleted.
Gone(t, left, s) == {p \in DOMAIN t.cells : t.cells[p] = s /\ left.cells[p] # s}
WithoutTables(ents, S) == [p \in SigSlots |-> IF p \in S THEN ET!NoTable ELSE ents[p]]

\* Mutant of DropSignal: the signal is still waited for.
DropSignalKeepsMask(t, ents, mask, s) ==
  LET left == Unregistered(t, s) IN
  /\ sigtab' = left
  /\ entry' = WithoutTables(ents, Gone(t, left, s))
  /\ sigmask' = mask

\* Mutant of DropSignal: its entry table is not destroyed.
DropSignalKeepsEntries(t, ents, mask, s) ==
  LET left == Unregistered(t, s) IN
  /\ sigtab' = left /\ entry' = ents
  /\ sigmask' = IF Gone(t, left, s) = {} THEN mask ELSE mask \ {s}

DropSignal(t, ents, mask, s) ==
  LET left == Unregistered(t, s) IN
  /\ sigtab' = left
  /\ entry' = WithoutTables(ents, Gone(t, left, s))
  /\ sigmask' = IF Gone(t, left, s) = {} THEN mask ELSE mask \ {s}

\* register_signal: the table with the new signal, if it was not refused and
\* there was memory for its entry table and for its chunk.  The entry table of a
\* signal that l_sigtab refuses is destroyed at once.
Registered(t, s) ==
  LET again == ST!Search(t, s).t IN
  IF s \in Refused THEN {ST!Failed(t)}
  ELSE ST!Push(again, s) \cup (IF AllocFaults THEN {ST!Failed(again)} ELSE {})

\* Mutant of PushHandler: a handler that is registered is registered again.
PushHandlerTwice(t, h) == ET!WriteChunk(ET!Nowhere(t), h, ET!GetTailNext(t))

PushHandler(t, h) ==
  LET grows == ~ET!IsEmpty(t) /\ t.last + 1 >= t.size IN
  ET!Push(t, h)
    \cup (IF AllocFaults /\ grows THEN {ET!Failed(ET!Search(t, h).t)} ELSE {})

\* The rest of signal_register, when there is a chunk for the signal.  The
\* handler is pushed unless it is registered already.
AddHandler(t, ents, mask, p, h) ==
  \E r \in PushHandler(ents[p], h) :
    LET pushed == [ents EXCEPT ![p] = r.t] IN
    IF ~r.ok /\ ET!IsEmpty(r.t) THEN DropSignal(t, pushed, mask, t.cells[p])
    ELSE sigtab' = t /\ entry' = pushed /\ sigmask' = mask

Register(s, h) ==
  LET found == ST!Search(sigtab, s) IN
  /\ ST!Exists(sigtab)
  /\ IF found.at # ST!Null
     THEN AddHandler(found.t, entry, sigmask, found.at, h) /\ UNCHANGED sig
     ELSE /\ ST!IsEmpty(sigtab) /\ ST!Fragmented(sigtab) => PushesEmptied
          /\ \E r \in Registered(found.t, s) :
               IF ~r.ok
               THEN sigtab' = r.t /\ UNCHANGED <<entry, sigmask, sig>>
               ELSE LET at == ST!Current(r.t)
                        ents == [entry EXCEPT ![r.at] = ET!Created(EntTabSize, {})]
                    IN /\ ET!Exists(ents[at])
                       /\ AddHandler(r.t, ents, sigmask \cup {s}, at, h)
                       /\ \/ UNCHANGED sig
                          \/ r.t.size # sigtab.size /\ sig' = Dangling

\* signal_unregister; the last handler takes its signal with it.
Unregister(s, h) ==
  LET found == ST!Search(sigtab, s) IN
  /\ ST!Exists(sigtab)
  /\ IF found.at = ST!Null
     THEN sigtab' = found.t /\ UNCHANGED <<entry, sigmask>>
     ELSE LET e == ET!Search(entry[found.at], h)
              left == IF e.at = ET!Null THEN e.t ELSE ET!DelCurrent(e.t).t
              ents == [entry EXCEPT ![found.at] = left]
          IN IF e.at # ET!Null /\ ET!IsEmpty(left)
             THEN DropSignal(found.t, ents, sigmask, s)
             ELSE sigtab' = found.t /\ entry' = ents /\ UNCHANGED sigmask
  /\ UNCHANGED sig

HandlersIn(t) == {t.cells[q] : q \in ET!Live(t)}

\* The program registers and unregisters between two signals, a handler while
\* it runs.
MayRegister == signum = Zero \/ (running # Zero /\ "register" \in HandlerOps)
MayUnregister(s, h) ==
  \/ signum = Zero
  \/ running # Zero /\ "unregister" \in HandlerOps
  \/ /\ running = h /\ signum = s /\ "leave" \in HandlerOps
     /\ sig # Dangling /\ sigtab.cells[sig] = s /\ h \in HandlersIn(entry[sig])

CallRegister ==
  /\ MayRegister
  /\ \E s \in Signals, h \in Handlers : Register(s, h)
  /\ called' = (called \/ signum # Zero)
  /\ UNCHANGED <<signum, running, ran, missed, delivered>>

CallUnregister ==
  /\ \E s \in Signals, h \in Handlers : MayUnregister(s, h) /\ Unregister(s, h)
  /\ called' = (called \/ signum # Zero)
  /\ UNCHANGED <<signum, running, ran, missed, delivered>>

----------------------------------------------------------------------------
(* signal_wait and handle_signal.                                          *)

\* An entry's handler is called unless the entry is a hole.
Runs(t, at) ==
  IF at = ET!Null
  THEN signum' = Zero /\ sig' = Dangling /\ running' = Zero
  ELSE /\ running' = t.cells[at]
       /\ UNCHANGED <<signum, sig>>

\* sigwaitinfo returns a signal of the mask, or nothing when it is interrupted;
\* its result is not looked at, and si_signo is then whatever was there.
\* RATT_TABLE_FOREACH_REVERSE starts with the last entry.
Deliver(s) ==
  LET found == ST!Search(sigtab, s)
      last == ET!Last(entry[found.at])
  IN
  /\ ST!Exists(sigtab) /\ signum = Zero /\ delivered < Deliveries
  /\ s \in sigmask \/ Interrupts
  /\ delivered' = delivered + 1
  /\ sigtab' = found.t
  /\ ran' = {} /\ called' = FALSE
  /\ IF found.at = ST!Null
     THEN missed' = (missed \/ s \in sigmask) /\ UNCHANGED <<entry, signum, sig, running>>
     ELSE /\ signum' = s /\ sig' = found.at
          /\ entry' = [entry EXCEPT ![found.at] = last.t]
          /\ running' = last.t.cells[last.at]
          /\ UNCHANGED missed
  /\ UNCHANGED sigmask

\* Mutant of Before: the loop goes the other way.
BeforeForward(t) == ET!NextSlot(t)

\* Mutant of Before: the entry that the cursor is on is looked at again.
BeforeAgain(t) ==
  IF ET!Visible(t, {t.pos}) # {} /\ t.pos > 0 THEN ET!At(t.pos, t)
  ELSE ET!PrevSlot(t)

\* Mutant of Before: the end of the loop leaves the cursor off the table.
BeforeUnderflow(t) ==
  LET prev == ET!PrevSlot(t) IN
  [prev EXCEPT !.t.pos = IF prev.at = ET!Null THEN -1 ELSE prev.t.pos]

Before(t) == ET!PrevSlot(t)

\* A handler returns, or a hole is passed over: the loop steps back from where
\* the cursor is by then.  A sig that dangles has no defined next step.
NextHandler ==
  LET prev == Before(entry[sig]) IN
  /\ signum # Zero /\ sig # Dangling
  /\ ran' = IF running = Zero THEN ran ELSE ran \cup {running}
  /\ entry' = [entry EXCEPT ![sig] = prev.t]
  /\ Runs(prev.t, prev.at)
  /\ UNCHANGED <<sigtab, sigmask, called, missed, delivered>>

\* unregister_signal_all, and the table itself
SignalFini ==
  /\ ST!Exists(sigtab) /\ signum = Zero
  /\ sigtab' = ST!Destroy(sigtab).t
  /\ entry' = [p \in SigSlots |-> ET!NoTable]
  /\ sigmask' = {}
  /\ UNCHANGED handleVars

Next ==
  \/ SignalInit \/ SignalFini
  \/ CallRegister \/ CallUnregister
  \/ \E s \in Signals : Deliver(s)
  \/ NextHandler

Spec == Init /\ [][Next]_vars

\* A handler returns.
FairSpec == Spec /\ WF_vars(NextHandler)

----------------------------------------------------------------------------
(* Properties.                                                             *)

TypeOK ==
  /\ sigtab \in ST!Table
  /\ entry \in [SigSlots -> ET!Table]
  /\ sigmask \subseteq Signals
  /\ signum \in Signals \cup {Zero}
  /\ sig \in SigSlots \cup {Dangling}
  /\ running \in Handlers \cup {Zero}
  /\ ran \subseteq Handlers
  /\ called \in BOOLEAN /\ missed \in BOOLEAN /\ delivered \in 0..Deliveries

\* What is waited for is what is registered: each signal of the mask has one
\* chunk, with at least one handler, and no other has one.
MaskIsRegistered ==
  /\ sigmask = {sigtab.cells[p] : p \in ST!Live(sigtab)}
  /\ \A p, q \in ST!Live(sigtab) : sigtab.cells[p] = sigtab.cells[q] => p = q
  /\ \A p \in ST!Live(sigtab) : HandlersIn(entry[p]) # {}

\* Only a chunk that is in use has an entry table: no memory is lost when a
\* signal loses its last handler.
NoTableLost ==
  \A p \in SigSlots : ET!Exists(entry[p]) => p \in ST!Live(sigtab)

\* A handler is registered on a signal at most once, wherever searches and
\* dispatches have left the cursor of its entry table.
HandlerOnce ==
  \A p \in ST!Live(sigtab) : \A q, r \in ET!Live(entry[p]) :
    entry[p].cells[q] = entry[p].cells[r] => q = r

\* When a signal was handled and no handler called back, all its handlers ran.
AllHandlersRun ==
  [][signum # Zero /\ signum' = Zero /\ ~called => ran' = HandlersIn(entry[sig])]_vars

\* While handlers unregister themselves, the last one and its signal included,
\* one is started only if it is registered at that time on the signal that is
\* handled, and only if it has not run for this signal.
StartsRegistered ==
  [][running' # Zero /\ (running = Zero \/ ran' # ran) =>
       /\ sigtab'.cells[sig'] = signum'
       /\ running' \in HandlersIn(entry'[sig']) /\ running' \notin ran']_vars

\* While handlers unregister no other than themselves the handling of a signal
\* ends (a search for another one would move the cursor that the loop is at).
HandlingEnds == signum # Zero ~> signum = Zero

\* signal.c:97-98: a signal is not "handled but not registered".
HandledIsRegistered == ~missed
=============================================================================
