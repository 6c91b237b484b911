----------------------------- MODULE ProcWorker -----------------------------
(***************************************************************************)
(* The worker processor (modules/proc/worker): a pool of threads, each of  *)
(* which runs the processes of its own table round and round, and the main *)
(* thread, which registers and unregisters processes and starts, stops and *)
(* detaches the pool.  A process that a worker runs may itself register    *)
(* and unregister processes.                                               *)
(*                                                                         *)
(* Locks are explicit, and what a thread does between two of them is one   *)
(* step, except that each unlocked read of a registered process, and each  *)
(* read and write of the worker table's cursor, which on_start and on_stop *)
(* move without its lock, is a step.                                       *)
(***************************************************************************)
EXTENDS Integers, FiniteSets

CONSTANTS
  N,             \* worker/min-workers: the workers are 0..(N - 1)
  Procs,         \* what may be registered: [fn, attr, udata] records
  Locks,         \* the locks of processes that are not thread-safe
  NoAttr,        \* the attr of a process that is thread-safe
  Main, None, Gone, Dangling, Zero, Junk,
  ProcTabSize,   \* PROC_WORKER_PROCTABSIZ
  ProcTabMax,    \* RATTTABSIZMAX
  MainCalls,     \* calls that the main thread makes of MainOps, at most
  MainOps,       \* subset of {"register", "unregister"}
  ProcCalls,     \* calls that the processes of one worker make, at most
  ProcOps,       \* subset of {"register", "unregister"}
  Stops,         \* may the main thread stop the pool and detach it
  Restarts,      \* may it start the pool again after a stop
  CreateFaults   \* may the creation of a worker fail

Workers == 0..(N - 1)
Threads == Workers \cup {Main}

ASSUME PoolAssumption ==
  /\ N \in Nat \ {0}
  /\ \A p \in Procs : p = [fn |-> p.fn, attr |-> p.attr, udata |-> p.udata]
  /\ \A p \in Procs : p.attr \in Locks \cup {NoAttr} /\ p.udata \in BOOLEAN
  /\ NoAttr \notin Locks /\ Zero \notin Procs /\ Junk \notin Procs
  /\ ProcTabMax \in Nat \ {0} /\ ProcTabSize \in 1..ProcTabMax
  /\ Main \notin Workers /\ None \notin Threads /\ Gone \notin Threads
  /\ None # Gone /\ Dangling \notin Nat
  /\ MainOps \subseteq {"register", "unregister"}
  /\ ProcOps \subseteq {"register", "unregister"}
  /\ MainCalls \in Nat /\ ProcCalls \in Nat
  /\ Stops \in BOOLEAN /\ Restarts \in BOOLEAN /\ CreateFaults \in BOOLEAN

\* compare_process: when the process to find and the entry have the same user
\* data the test falls through to the one that wants the entry to have none.
CompareProcess(entry, find) ==
  /\ entry \in Procs
  /\ entry.fn = find.fn
  /\ ~entry.udata /\ ~find.udata
  /\ entry.attr = find.attr

PT == INSTANCE TableOps WITH
  SlotBits <- 8, MaxSize <- ProcTabMax, Chunks <- Procs,
  Matches <- CompareProcess, Constrained <- FALSE, OnConstrains <- "unset",
  AllocFaults <- FALSE, DirtyHeap <- FALSE

VARIABLES
  gstate,     \* l_proc_worker_state
  created,    \* workers in l_worktab
  attached,   \* has attach_module returned OK
  wpos,       \* the cursor of l_worktab
  rrpos,      \* the static round-robin position of on_register
  freed,      \* has worker_flush freed the workers
  wstate,     \* the state of each worker
  proctab,    \* the process table of each worker
  owner,      \* who holds each lock
  signalled,  \* has get_to_work been signalled since its worker waited
  cancelled,  \* has the worker been cancelled
  pc,         \* where worker_loop is
  ptr,        \* proc: the slot that each worker was given to run
  held,       \* the process lock its cleanup handler is to release
  job,        \* the process it is running
  call, at,   \* the call that each thread is in, and where
  arg, tgt,   \* its process, and the worker it is about
  cur,        \* the cursor of l_worktab as it was read
  calls       \* calls made

poolVars == <<gstate, created, attached, wpos, rrpos, freed>>
workerVars == <<wstate, proctab, signalled, cancelled>>
loopVars == <<pc, ptr, held, job>>
callVars == <<call, at, arg, tgt, cur, calls>>
vars == <<poolVars, workerVars, owner, loopVars, callVars>>

WorktabLock == <<"worktab", 0>>
WorkerLock(w) == <<"worker", w>>
ProctabLock(w) == <<"proctab", w>>
AttrLock(a) == <<"attr", a>>
AllLocks == {WorktabLock} \cup {WorkerLock(w) : w \in Workers}
            \cup {ProctabLock(w) : w \in Workers} \cup {AttrLock(a) : a \in Locks}

Init ==
  /\ gstate = "BOOT" /\ created = 0 /\ attached = FALSE
  /\ wpos = 0 /\ rrpos = 0 /\ freed = FALSE
  /\ wstate = [w \in Workers |-> "BOOT"]
  /\ proctab = [w \in Workers |-> PT!NoTable]
  /\ signalled = [w \in Workers |-> FALSE]
  /\ cancelled = [w \in Workers |-> FALSE]
  /\ owner = [l \in AllLocks |-> None]
  /\ pc = [w \in Workers |-> "unborn"]
  /\ ptr = [w \in Workers |-> Dangling]
  /\ held = [w \in Workers |-> NoAttr]
  /\ job = [w \in Workers |-> Zero]
  /\ call = [t \in Threads |-> IF t = Main THEN "attach" ELSE "none"]
  /\ at = [t \in Threads |-> IF t = Main THEN "create" ELSE "none"]
  /\ arg = [t \in Threads |-> Zero]
  /\ tgt = [t \in Threads |-> 0]
  /\ cur = [t \in Threads |-> 0]
  /\ calls = [t \in Threads |-> 0]

----------------------------------------------------------------------------
(* Locks.                                                                  *)

\* pthread_mutex_lock returns at once, and is ignored, on a destroyed mutex.
CanLock(l) == owner[l] \in {None, Gone}
Lock(t, l) == IF owner[l] = None THEN [owner EXCEPT ![l] = t] ELSE owner
\* pthread_mutex_unlock does not look at the owner.
Unlock(l) == IF owner[l] = Gone THEN owner ELSE [owner EXCEPT ![l] = None]

\* A thread goes on in a call, or returns from it.
Goes(t, where) == at' = [at EXCEPT ![t] = where]
Returns(t) ==
  /\ call' = [call EXCEPT ![t] = "none"]
  /\ at' = [at EXCEPT ![t] = "none"]
  /\ arg' = [arg EXCEPT ![t] = Zero]
  /\ tgt' = [tgt EXCEPT ![t] = 0]
  /\ cur' = [cur EXCEPT ![t] = 0]
  /\ UNCHANGED calls

\* Mutant of Signal: the condition is not signalled.
SignalNobody(w) == signalled

\* pthread_cond_signal reaches a worker that waits at the time.
Signal(w) == [signalled EXCEPT ![w] = pc[w] = "waiting"]

\* Once the memory of the workers is freed no thread that uses it has a
\* defined next step.
In(t, what, where) == call[t] \in what /\ at[t] = where /\ ~freed

----------------------------------------------------------------------------
(* attach_module: worker_create(l_conf_worker_min)                         *)

CreateWorker ==
  LET w == created IN
  /\ In(Main, {"attach"}, "create") /\ w < N
  /\ created' = w + 1
  /\ proctab' = [proctab EXCEPT ![w] = PT!Created(ProcTabSize, {})]
  /\ wstate' = [wstate EXCEPT ![w] = "STOP"]
  /\ pc' = [pc EXCEPT ![w] = "lock"]
  /\ wpos' = w    \* ratt_table_push(&l_worktab, &worker)
  /\ UNCHANGED <<gstate, attached, rrpos, freed, signalled, cancelled, owner,
                 ptr, held, job, callVars>>

\* ratt_table_create or pthread_create fails: the workers there are stay, and
\* nobody will ever start them.
CreateWorkerFails ==
  /\ In(Main, {"attach"}, "create") /\ created < N /\ CreateFaults
  /\ Returns(Main)
  /\ UNCHANGED <<poolVars, workerVars, owner, loopVars>>

\* pthread_create has started the worker when ratt_table_push fails, so that
\* it is cancelled and is in no table.
PushWorkerFails ==
  LET w == created IN
  /\ In(Main, {"attach"}, "create") /\ w < N /\ CreateFaults
  /\ proctab' = [proctab EXCEPT ![w] = PT!Created(ProcTabSize, {})]
  /\ wstate' = [wstate EXCEPT ![w] = "STOP"]
  /\ pc' = [pc EXCEPT ![w] = "lock"]
  /\ cancelled' = [cancelled EXCEPT ![w] = TRUE]
  /\ Returns(Main)
  /\ UNCHANGED <<poolVars, signalled, owner, ptr, held, job>>

AttachReturns ==
  /\ In(Main, {"attach"}, "create") /\ created = N
  /\ attached' = TRUE
  /\ Returns(Main)
  /\ UNCHANGED <<gstate, created, wpos, rrpos, freed, workerVars, owner, loopVars>>

----------------------------------------------------------------------------
(* The calls.  Registration and the like are made by the main thread or by *)
(* a process that a worker is running.                                     *)

MayCall(t, what) ==
  /\ call[t] = "none" /\ attached /\ ~freed
  /\ \/ t = Main /\ what \in MainOps /\ calls[t] < MainCalls
     \/ t \in Workers /\ pc[t] = "in" /\ what \in ProcOps /\ calls[t] < ProcCalls

Call(t, what) ==
  /\ MayCall(t, what)
  /\ \E p \in Procs : arg' = [arg EXCEPT ![t] = p]
  /\ call' = [call EXCEPT ![t] = what]
  /\ Goes(t, "worktab")
  /\ calls' = [calls EXCEPT ![t] = @ + 1]
  /\ UNCHANGED <<tgt, cur, poolVars, workerVars, owner, loopVars>>

\* Is the cursor of l_worktab at a worker.  Behind the last one the table has
\* NULL in the memory that is left, or none.
OnWorker == wpos \in 0..(created - 1)

\* Mutant of PastLast: off by one at the end of the table.
PastLastLate == rrpos > created

PastLast == rrpos > created - 1

\* on_register picks the next worker while it holds l_worktab_lock, which it
\* releases before it takes the worker's.  ratt_table_first returns the head.
PickFirst(t) ==
  /\ In(t, {"register"}, "worktab") /\ CanLock(WorktabLock)
  /\ PastLast
  /\ wpos' = 0 /\ rrpos' = 1
  /\ tgt' = [tgt EXCEPT ![t] = 0]
  /\ Goes(t, "lock")
  /\ UNCHANGED <<gstate, created, attached, freed, workerVars, owner, loopVars,
                 call, arg, cur, calls>>

\* ratt_table_chunk sets the cursor, and then reads it for what it returns; the
\* position goes on within the lock.
PickChunk(t) ==
  /\ In(t, {"register"}, "worktab") /\ CanLock(WorktabLock)
  /\ ~PastLast
  /\ wpos' = rrpos /\ rrpos' = rrpos + 1
  /\ owner' = Lock(t, WorktabLock)
  /\ Goes(t, "chunk")
  /\ UNCHANGED <<gstate, created, attached, freed, workerVars, loopVars,
                 call, arg, tgt, cur, calls>>

\* Without a worker the registration fails, or the memory is not the table's.
PickWorker(t) ==
  /\ In(t, {"register"}, "chunk")
  /\ owner' = Unlock(WorktabLock)
  /\ \/ /\ OnWorker
        /\ tgt' = [tgt EXCEPT ![t] = wpos]
        /\ Goes(t, "lock")
        /\ UNCHANGED <<call, arg, cur, calls>>
     \/ ~OnWorker /\ Returns(t)
     \/ ~OnWorker /\ Goes(t, "crashed") /\ UNCHANGED <<call, arg, tgt, cur, calls>>
  /\ UNCHANGED <<poolVars, workerVars, loopVars>>

\* on_register and on_start
LockWorker(t) ==
  /\ In(t, {"register", "start"}, "lock") /\ CanLock(WorkerLock(tgt[t]))
  /\ owner' = Lock(t, WorkerLock(tgt[t]))
  /\ Goes(t, IF call[t] = "start" THEN "set" ELSE "proctab")
  /\ UNCHANGED <<poolVars, workerVars, loopVars, call, arg, tgt, cur, calls>>

\* on_register and on_unregister
LockProctab(t) ==
  /\ In(t, {"register", "unregister"}, "proctab")
  /\ CanLock(ProctabLock(tgt[t]))
  /\ owner' = Lock(t, ProctabLock(tgt[t]))
  /\ Goes(t, IF call[t] = "register" THEN "insert" ELSE "delete")
  /\ UNCHANGED <<poolVars, workerVars, loopVars, call, arg, tgt, cur, calls>>

\* When the table grows the worker may be left with a pointer to the old one.
\* Both locks are released, the process table's first.
InsertProc(t) ==
  LET w == tgt[t] IN
  /\ In(t, {"register"}, "insert")
  /\ \E r \in PT!Insert(proctab[w], arg[t]) :
       /\ proctab' = [proctab EXCEPT ![w] = r.t]
       /\ \/ UNCHANGED ptr
          \/ r.t.size # proctab[w].size /\ ptr' = [ptr EXCEPT ![w] = Dangling]
       /\ IF r.ok /\ wstate[w] = "IDLE"
          THEN wstate' = [wstate EXCEPT ![w] = "RUN"] /\ signalled' = Signal(w)
          ELSE UNCHANGED <<wstate, signalled>>
  /\ owner' = [l \in AllLocks |->
                 IF l \in {WorkerLock(w), ProctabLock(w)} /\ owner[l] # Gone
                 THEN None ELSE owner[l]]
  /\ Returns(t)
  /\ UNCHANGED <<poolVars, cancelled, pc, held, job>>

\* on_unregister goes through the worker table with l_worktab_lock held.
LockWorktab(t) ==
  /\ In(t, {"unregister"}, "worktab") /\ CanLock(WorktabLock)
  /\ owner' = Lock(t, WorktabLock)
  /\ wpos' = 0
  /\ tgt' = [tgt EXCEPT ![t] = 0]
  /\ Goes(t, "proctab")
  /\ UNCHANGED <<gstate, created, attached, rrpos, freed, workerVars, loopVars,
                 call, arg, cur, calls>>

\* After each worker the loop tests a retval that nothing has set.
DeleteProc(t) ==
  LET w == tgt[t]
      s == PT!Search(proctab[w], arg[t])
  IN
  /\ In(t, {"unregister"}, "delete")
  /\ proctab' = [proctab EXCEPT
                   ![w] = IF s.at = PT!Null THEN s.t ELSE PT!DelCurrent(s.t).t]
  /\ owner' = Unlock(ProctabLock(w))
  /\ \E stop \in BOOLEAN : Goes(t, IF stop THEN "end" ELSE "load")
  /\ UNCHANGED <<poolVars, wstate, signalled, cancelled, loopVars, call, arg,
                 tgt, cur, calls>>

UnregisterReturns(t) ==
  /\ In(t, {"unregister"}, "end")
  /\ owner' = Unlock(WorktabLock)
  /\ Returns(t)
  /\ UNCHANGED <<poolVars, workerVars, loopVars>>

MoreWorkers(t) ==
  IF call[t] = "detach" THEN wpos # 0 ELSE wpos + 1 <= created - 1

\* RATT_TABLE_FOREACH over l_worktab in on_unregister, on_start and on_stop, and
\* backwards in worker_flush: ratt_table_next and ratt_table_prev test the
\* cursor, read it, write it back moved and read it again for what they return.
\* Only on_unregister holds the lock meanwhile.
TestCursor(t) ==
  /\ In(t, {"unregister", "start", "stop", "detach"}, "load")
  /\ CASE MoreWorkers(t) -> Goes(t, "step") /\ UNCHANGED <<call, arg, tgt, cur, calls>>
       [] ~MoreWorkers(t) /\ call[t] \in {"unregister", "detach"} ->
            Goes(t, "end") /\ UNCHANGED <<call, arg, tgt, cur, calls>>
       [] OTHER -> Returns(t)
  /\ UNCHANGED <<poolVars, workerVars, owner, loopVars>>

ReadCursor(t) ==
  /\ In(t, {"unregister", "start", "stop", "detach"}, "step")
  /\ cur' = [cur EXCEPT ![t] = IF call[t] = "detach" THEN wpos - 1 ELSE wpos + 1]
  /\ Goes(t, "store")
  /\ UNCHANGED <<poolVars, workerVars, owner, loopVars, call, arg, tgt, calls>>

WriteCursor(t) ==
  /\ In(t, {"unregister", "start", "stop", "detach"}, "store")
  /\ wpos' = cur[t]
  /\ Goes(t, "fetch")
  /\ UNCHANGED <<gstate, created, attached, rrpos, freed, workerVars, owner,
                 loopVars, call, arg, tgt, cur, calls>>

\* on_stop alone looks at the pointer that is there before it uses it.
FetchWorker(t) ==
  /\ In(t, {"unregister", "start", "stop", "detach"}, "fetch")
  /\ \/ /\ OnWorker
        /\ tgt' = [tgt EXCEPT ![t] = wpos]
        /\ Goes(t, CASE call[t] = "unregister" -> "proctab"
                     [] call[t] = "start" -> "lock"
                     [] call[t] = "stop" -> "cancel"
                     [] OTHER -> "flush")
     \/ ~OnWorker /\ Goes(t, "crashed") /\ UNCHANGED tgt
     \/ ~OnWorker /\ call[t] = "stop" /\ Goes(t, "load") /\ UNCHANGED tgt
  /\ UNCHANGED <<poolVars, workerVars, owner, loopVars, call, arg, cur, calls>>

\* on_start
StartCall ==
  /\ call[Main] = "none" /\ attached /\ ~freed
  /\ gstate = "BOOT" \/ (gstate = "STOP" /\ Restarts)
  /\ gstate' = "RUN" /\ wpos' = 0
  /\ call' = [call EXCEPT ![Main] = "start"]
  /\ Goes(Main, "lock")
  /\ UNCHANGED <<created, attached, rrpos, freed, workerVars, owner, loopVars,
                 arg, tgt, cur, calls>>

StartWorker ==
  LET w == tgt[Main] IN
  /\ In(Main, {"start"}, "set")
  /\ wstate' = [wstate EXCEPT ![w] = "RUN"]
  /\ signalled' = Signal(w)
  /\ owner' = Unlock(WorkerLock(w))
  /\ Goes(Main, "load")
  /\ UNCHANGED <<poolVars, proctab, cancelled, loopVars, call, arg, tgt, cur,
                 calls>>

\* on_stop
StopCall ==
  /\ Stops
  /\ call[Main] = "none" /\ attached /\ ~freed
  /\ gstate # "STOP"
  /\ gstate' = "STOP" /\ wpos' = 0
  /\ call' = [call EXCEPT ![Main] = "stop"]
  /\ Goes(Main, "cancel")
  /\ UNCHANGED <<created, attached, rrpos, freed, workerVars, owner, loopVars,
                 arg, tgt, cur, calls>>

CancelWorker ==
  /\ In(Main, {"stop"}, "cancel")
  /\ cancelled' = [cancelled EXCEPT ![tgt[Main]] = TRUE]
  /\ Goes(Main, "load")
  /\ UNCHANGED <<poolVars, wstate, proctab, signalled, owner, loopVars, call,
                 arg, tgt, cur, calls>>

\* detach_module: worker_flush goes through the worker table backwards, and
\* the first worker holds the memory of all.  The main thread makes no call of
\* the pool after this one.
DetachCall ==
  /\ Stops
  /\ call[Main] = "none" /\ attached /\ ~freed
  /\ wpos' = created - 1
  /\ call' = [call EXCEPT ![Main] = "detach"]
  /\ tgt' = [tgt EXCEPT ![Main] = created - 1]
  /\ Goes(Main, "flush")
  /\ UNCHANGED <<gstate, created, attached, rrpos, freed, workerVars, owner,
                 loopVars, arg, cur, calls>>

FlushWorker ==
  LET w == tgt[Main] IN
  /\ In(Main, {"detach"}, "flush")
  /\ proctab' = [proctab EXCEPT ![w] = PT!Destroy(@).t]
  /\ ptr' = [ptr EXCEPT ![w] = Dangling]
  /\ freed' = (w = 0)
  /\ Goes(Main, "load")
  /\ UNCHANGED <<gstate, created, attached, wpos, rrpos, wstate, signalled,
                 cancelled, owner, pc, held, job, call, arg, tgt, cur, calls>>

\* Nobody calls a pool that was detached.
DetachReturns ==
  /\ In(Main, {"detach"}, "end")
  /\ attached' = FALSE
  /\ Goes(Main, "over")
  /\ UNCHANGED <<gstate, created, wpos, rrpos, freed, workerVars, owner, loopVars,
                 call, arg, tgt, cur, calls>>

----------------------------------------------------------------------------
(* worker_loop                                                             *)

Steps(w, from) == pc[w] = from /\ call[w] = "none" /\ ~freed
Jumps(w, to) == pc' = [pc EXCEPT ![w] = to]

\* What a read through proc may find: after the table has moved, anything.
Reads(w) == IF ptr[w] = Dangling THEN Procs \cup {Zero}
            ELSE {proctab[w].cells[ptr[w]]}

LoopLock(w) ==
  /\ Steps(w, "lock") /\ CanLock(WorkerLock(w))
  /\ owner' = Lock(w, WorkerLock(w))
  /\ Jumps(w, "test")
  /\ UNCHANGED <<poolVars, workerVars, ptr, held, job, callVars>>

\* pthread_cond_wait releases the lock as it starts to wait.
LoopWait(w) ==
  /\ Steps(w, "test") /\ wstate[w] # "RUN"
  /\ owner' = Unlock(WorkerLock(w))
  /\ signalled' = [signalled EXCEPT ![w] = FALSE]
  /\ Jumps(w, "waiting")
  /\ UNCHANGED <<poolVars, wstate, proctab, cancelled, ptr, held, job, callVars>>

Wake(w) ==
  /\ Steps(w, "waiting") /\ CanLock(WorkerLock(w))
  /\ owner' = Lock(w, WorkerLock(w))
  /\ signalled' = [signalled EXCEPT ![w] = FALSE]
  /\ Jumps(w, "test")
  /\ UNCHANGED <<poolVars, wstate, proctab, cancelled, ptr, held, job, callVars>>

WakeSignalled(w) == signalled[w] /\ Wake(w)
\* A wait that has a cancellation to act on does not just end.
WakeSpuriously(w) == ~signalled[w] /\ ~cancelled[w] /\ Wake(w)

LoopLockProctab(w) ==
  /\ Steps(w, "test") /\ wstate[w] = "RUN" /\ CanLock(ProctabLock(w))
  /\ owner' = Lock(w, ProctabLock(w))
  /\ Jumps(w, "pick")
  /\ UNCHANGED <<poolVars, workerVars, ptr, held, job, callVars>>

\* Mutant of PickNext: always from the start of the table.
PickNextFromStart(w) == PT!FirstNext(proctab[w])

PickNext(w) == PT!CircularNext(proctab[w])

\* Mutant of LoopPick: the worker's lock is released as well.
LoopPickUnlocked(w) ==
  /\ Steps(w, "pick")
  /\ proctab' = [proctab EXCEPT ![w] = PickNext(w).t]
  /\ owner' = [owner EXCEPT ![ProctabLock(w)] = None, ![WorkerLock(w)] = None]
  /\ ptr' = [ptr EXCEPT ![w] = IF PickNext(w).at = PT!Null THEN Dangling
                               ELSE PickNext(w).at]
  /\ Jumps(w, IF PickNext(w).at = PT!Null THEN "idle" ELSE "release")
  /\ UNCHANGED <<poolVars, wstate, signalled, cancelled, held, job, callVars>>

\* The table's lock is released, and then, with the state set to idle when
\* there is nothing to run, the worker's.
LoopPick(w) ==
  LET next == PickNext(w) IN
  /\ Steps(w, "pick")
  /\ proctab' = [proctab EXCEPT ![w] = next.t]
  /\ owner' = Unlock(ProctabLock(w))
  /\ IF next.at = PT!Null
     THEN ptr' = [ptr EXCEPT ![w] = Dangling] /\ Jumps(w, "idle")
     ELSE ptr' = [ptr EXCEPT ![w] = next.at] /\ Jumps(w, "release")
  /\ UNCHANGED <<poolVars, wstate, signalled, cancelled, held, job, callVars>>

LoopIdle(w) ==
  /\ Steps(w, "idle")
  /\ wstate' = [wstate EXCEPT ![w] = "IDLE"]
  /\ owner' = Unlock(WorkerLock(w))
  /\ Jumps(w, "lock")
  /\ UNCHANGED <<poolVars, proctab, signalled, cancelled, ptr, held, job, callVars>>

\* Mutant of LoopRelease: the lock is kept while the process runs.
LoopReleaseNothing(w) ==
  /\ Steps(w, "release")
  /\ Jumps(w, "check")
  /\ UNCHANGED <<owner, poolVars, workerVars, ptr, held, job, callVars>>

LoopRelease(w) ==
  /\ Steps(w, "release")
  /\ owner' = Unlock(WorkerLock(w))
  /\ Jumps(w, "check")
  /\ UNCHANGED <<poolVars, workerVars, ptr, held, job, callVars>>

\* if (!proc->process): a ghost is passed over
LoopCheck(w) ==
  /\ Steps(w, "check")
  /\ \E e \in Reads(w) : Jumps(w, IF e = Zero THEN "lock" ELSE "attr")
  /\ UNCHANGED <<poolVars, workerVars, owner, ptr, held, job, callVars>>

\* Mutant of LoopAttr: no process is taken for one that is not thread-safe.
LoopAttrIgnored(w) ==
  /\ Steps(w, "attr")
  /\ Jumps(w, "call")
  /\ UNCHANGED <<poolVars, workerVars, owner, ptr, held, job, callVars>>

\* proc->attr && proc->attr->flags & RATTPROCFLNTS reads the attributes twice.
LoopAttr(w) ==
  /\ Steps(w, "attr")
  /\ \E e \in Reads(w) :
       Jumps(w, IF e # Zero /\ e.attr # NoAttr THEN "flags" ELSE "call")
  /\ UNCHANGED <<poolVars, workerVars, owner, ptr, held, job, callVars>>

\* By now the attributes may be gone, and the program with them.
LoopFlags(w) ==
  /\ Steps(w, "flags")
  /\ \E e \in Reads(w) :
       Jumps(w, IF e # Zero /\ e.attr # NoAttr THEN "push" ELSE "crashed")
  /\ UNCHANGED <<poolVars, workerVars, owner, ptr, held, job, callVars>>

\* proc->attr->lock is read for the cleanup handler, then again to be taken.
LoopPush(w) ==
  /\ Steps(w, "push")
  /\ \E e \in Reads(w) :
       IF e = Zero \/ e.attr = NoAttr
       THEN Jumps(w, "crashed") /\ UNCHANGED held
       ELSE Jumps(w, "attrlock") /\ held' = [held EXCEPT ![w] = e.attr]
  /\ UNCHANGED <<poolVars, workerVars, owner, ptr, job, callVars>>

LoopAttrLock(w) ==
  /\ Steps(w, "attrlock")
  /\ \E e \in Reads(w) :
       IF e = Zero \/ e.attr = NoAttr
       THEN Jumps(w, "crashed") /\ UNCHANGED owner
       ELSE /\ CanLock(AttrLock(e.attr))
            /\ owner' = Lock(w, AttrLock(e.attr))
            /\ Jumps(w, "call")
  /\ UNCHANGED <<poolVars, workerVars, ptr, held, job, callVars>>

LoopCall(w) ==
  /\ Steps(w, "call")
  /\ \E e \in Reads(w) :
       IF e = Zero
       THEN Jumps(w, "crashed") /\ UNCHANGED job
       ELSE Jumps(w, "in") /\ job' = [job EXCEPT ![w] = e]
  /\ UNCHANGED <<poolVars, workerVars, owner, ptr, held, callVars>>

\* The process returns: the lock the handler was given is released.
LoopReturn(w) ==
  /\ Steps(w, "in")
  /\ owner' = IF held[w] = NoAttr THEN owner ELSE Unlock(AttrLock(held[w]))
  /\ held' = [held EXCEPT ![w] = NoAttr]
  /\ job' = [job EXCEPT ![w] = Zero]
  /\ Jumps(w, "lock")
  /\ UNCHANGED <<poolVars, workerVars, ptr, callVars>>

\* Mutant of CancelWaiting: only a wait that a signal ends is cancelled.
CancelWaitingLate(w) ==
  /\ Steps(w, "waiting") /\ cancelled[w] /\ signalled[w] /\ CanLock(WorkerLock(w))
  /\ Jumps(w, "cleanup")
  /\ UNCHANGED <<poolVars, workerVars, owner, ptr, held, job, callVars>>

\* pthread_cond_wait is a cancellation point, and so may what a process calls
\* be; the handlers release the lock that is held at that point.
CancelWaiting(w) ==
  /\ Steps(w, "waiting") /\ cancelled[w] /\ CanLock(WorkerLock(w))
  /\ Jumps(w, "cleanup")
  /\ UNCHANGED <<poolVars, workerVars, owner, ptr, held, job, callVars>>

\* Mutant of CancelRunning: no handler releases the process's lock.
CancelRunningLocked(w) ==
  /\ Steps(w, "in") /\ cancelled[w]
  /\ held' = [held EXCEPT ![w] = NoAttr]
  /\ job' = [job EXCEPT ![w] = Zero]
  /\ Jumps(w, "cleanup")
  /\ UNCHANGED <<poolVars, workerVars, owner, ptr, callVars>>

CancelRunning(w) ==
  /\ Steps(w, "in") /\ cancelled[w]
  /\ owner' = IF held[w] = NoAttr THEN owner ELSE Unlock(AttrLock(held[w]))
  /\ held' = [held EXCEPT ![w] = NoAttr]
  /\ job' = [job EXCEPT ![w] = Zero]
  /\ Jumps(w, "cleanup")
  /\ UNCHANGED <<poolVars, workerVars, ptr, callVars>>

\* worker_cleanup: pthread_mutex_destroy leaves a mutex that is held alone.
Cleanup(w) ==
  /\ Steps(w, "cleanup")
  /\ owner' = [l \in AllLocks |->
                 IF l \in {WorkerLock(w), ProctabLock(w)} /\ owner[l] = None
                 THEN Gone ELSE owner[l]]
  /\ Jumps(w, "dead")
  /\ UNCHANGED <<poolVars, workerVars, ptr, held, job, callVars>>

----------------------------------------------------------------------------

MainNext ==
  \/ CreateWorker \/ CreateWorkerFails \/ PushWorkerFails \/ AttachReturns
  \/ StartCall \/ StartWorker \/ StopCall \/ CancelWorker
  \/ DetachCall \/ FlushWorker \/ DetachReturns

CallNext(t) ==
  \/ \E what \in {"register", "unregister"} : Call(t, what)
  \/ PickFirst(t) \/ PickChunk(t) \/ PickWorker(t)
  \/ LockWorker(t) \/ LockProctab(t) \/ InsertProc(t)
  \/ LockWorktab(t) \/ DeleteProc(t) \/ UnregisterReturns(t)
  \/ TestCursor(t) \/ ReadCursor(t) \/ WriteCursor(t) \/ FetchWorker(t)

LoopNext(w) ==
  \/ LoopLock(w) \/ LoopWait(w) \/ WakeSignalled(w) \/ WakeSpuriously(w)
  \/ LoopLockProctab(w) \/ LoopPick(w) \/ LoopIdle(w) \/ LoopRelease(w)
  \/ LoopCheck(w) \/ LoopAttr(w) \/ LoopFlags(w) \/ LoopPush(w) \/ LoopAttrLock(w)
  \/ LoopCall(w) \/ LoopReturn(w)
  \/ CancelWaiting(w) \/ CancelRunning(w) \/ Cleanup(w)

Next ==
  \/ MainNext
  \/ \E t \in Threads : CallNext(t)
  \/ \E w \in Workers : LoopNext(w)

Spec == Init /\ [][Next]_vars

\* Every thread goes on where it can: the main thread finishes the call it is
\* in, and a process returns.  No process need make a call, nor run into a
\* cancellation point, and no wait need end without a signal.
MainSteps ==
  \/ CreateWorker \/ AttachReturns \/ StartWorker
  \/ CancelWorker \/ FlushWorker \/ DetachReturns
CallSteps(t) ==
  \/ PickFirst(t) \/ PickChunk(t) \/ PickWorker(t)
  \/ LockWorker(t) \/ LockProctab(t) \/ InsertProc(t)
  \/ LockWorktab(t) \/ DeleteProc(t) \/ UnregisterReturns(t)
  \/ TestCursor(t) \/ ReadCursor(t) \/ WriteCursor(t) \/ FetchWorker(t)
LoopSteps(w) ==
  \/ LoopLock(w) \/ LoopWait(w) \/ WakeSignalled(w)
  \/ LoopLockProctab(w) \/ LoopPick(w) \/ LoopIdle(w) \/ LoopRelease(w)
  \/ LoopCheck(w) \/ LoopAttr(w) \/ LoopFlags(w) \/ LoopPush(w) \/ LoopAttrLock(w)
  \/ LoopCall(w) \/ LoopReturn(w) \/ CancelWaiting(w) \/ Cleanup(w)

Fairness ==
  /\ WF_vars(MainSteps)
  /\ \A t \in Threads : WF_vars(CallSteps(t))
  /\ \A w \in Workers : WF_vars(LoopSteps(w))

FairSpec == Spec /\ Fairness

----------------------------------------------------------------------------
(* Properties.                                                             *)

TypeOK ==
  /\ gstate \in {"BOOT", "RUN", "STOP"}
  /\ created \in 0..N /\ attached \in BOOLEAN /\ freed \in BOOLEAN
  /\ wpos \in Int /\ rrpos \in 0..N
  /\ wstate \in [Workers -> {"BOOT", "STOP", "IDLE", "RUN"}]
  /\ proctab \in [Workers -> PT!Table]
  /\ owner \in [AllLocks -> Threads \cup {None, Gone}]
  /\ signalled \in [Workers -> BOOLEAN] /\ cancelled \in [Workers -> BOOLEAN]
  /\ pc \in [Workers -> {"unborn", "lock", "test", "waiting", "pick", "idle",
               "release", "check", "attr", "flags", "push", "attrlock", "call", "in",
               "cleanup", "dead", "crashed"}]
  /\ ptr \in [Workers -> Nat \cup {Dangling}]
  /\ held \in [Workers -> Locks \cup {NoAttr}]
  /\ job \in [Workers -> Procs \cup {Zero}]
  /\ call \in [Threads -> {"none", "attach", "register", "unregister",
                           "start", "stop", "detach"}]
  /\ at \in [Threads -> {"none", "create", "worktab", "chunk", "lock", "proctab",
               "insert", "delete", "load", "step", "store", "fetch", "end", "set",
               "cancel", "flush", "over", "crashed"}]
  /\ arg \in [Threads -> Procs \cup {Zero}]
  /\ tgt \in [Threads -> Workers] /\ cur \in [Threads -> Int]
  /\ calls \in [Threads -> 0..(MainCalls + ProcCalls)]

Registered(w) == {proctab[w].cells[s] : s \in PT!Live(proctab[w])}

\* A worker that was told to run is not left waiting: on_register and on_start
\* set the state and signal with the worker's lock held, and worker_loop tests
\* the state again, with the lock held, whenever it is about to wait.
NoLostWakeup ==
  \A w \in Workers :
    pc[w] = "waiting" /\ wstate[w] = "RUN" => signalled[w]

\* A worker is idle only with nothing to run: between finding its table empty
\* and setting its state it lets no registration in.
IdleHasNoWork ==
  \A w \in Workers :
    wstate[w] = "IDLE" /\ owner[WorkerLock(w)] = None => Registered(w) = {}

\* The lock that a thread is about to take.
Wanted(t) ==
  IF call[t] # "none"
  THEN CASE at[t] = "worktab" -> {WorktabLock}
         [] at[t] = "lock" -> {WorkerLock(tgt[t])}
         [] at[t] = "proctab" -> {ProctabLock(tgt[t])}
         [] OTHER -> {}
  ELSE IF t = Main THEN {}
  ELSE CASE pc[t] \in {"lock", "waiting"} -> {WorkerLock(t)}
         [] pc[t] = "test" /\ wstate[t] = "RUN" -> {ProctabLock(t)}
         [] pc[t] = "attrlock" ->
              {AttrLock(e.attr) : e \in {r \in Reads(t) \ {Zero} : r.attr # NoAttr}}
         [] OTHER -> {}

WaitsFor(t, u) == \E l \in Wanted(t) : owner[l] = u

\* proc_worker.c:217: a worker holds none of its locks when it runs a process,
\* so that whatever the process registers or unregisters, on whichever worker,
\* no threads wait for each other in a circle.
NoDeadlock ==
  ~freed => \A S \in (SUBSET Threads) \ {{}} :
              \E t \in S : \A u \in S : ~WaitsFor(t, u)

\* Two workers never run at the same time processes that share the lock of
\* what is not thread-safe (proc_worker.c:229), until the pool is detached.
NTSExclusive ==
  call[Main] # "detach" /\ ~freed => \A v, w \in Workers :
    v # w /\ pc[v] = "in" /\ pc[w] = "in" /\ job[v].attr = job[w].attr
      => job[v].attr = NoAttr

\* A process's lock is held only by a worker that is about to run the process
\* or running it, and that will release that very lock when the process
\* returns or the worker is cancelled: none is left behind by a dead worker.
NTSLockReleased ==
  call[Main] # "detach" /\ ~freed => \A a \in Locks, w \in Workers :
    owner[AttrLock(a)] = w => pc[w] \in {"call", "in"} /\ held[w] = a

\* Registrations that have been given to a worker.
Assigned(w) ==
  proctab[w].count + Cardinality({t \in Threads :
    call[t] = "register" /\ tgt[t] = w /\ at[t] \in {"lock", "proctab", "insert"}})

\* "Round-robin selection of workers" (proc_worker.c:416): while nothing is
\* unregistered no worker is given two processes more than another.
AssignedEvenly ==
  attached /\ call[Main] # "detach" =>
    \A v, w \in Workers : Assigned(v) <= Assigned(w) + 1

\* When on_start has returned every worker has been told to run.
StartReachesAll ==
  gstate = "RUN" /\ call[Main] # "start" =>
    \A w \in Workers : wstate[w] \in {"RUN", "IDLE"}

\* proc_worker.c:433: "worker is gone; should not happen" of the pointer that
\* the round robin returns.
WorkerIsThere ==
  \A t \in Threads : call[t] = "register" /\ at[t] = "chunk" => OnWorker

\* proc_worker.c:227: a process pointer without a process is a "ghost process;
\* should not happen".
NoGhost ==
  \A w \in Workers : pc[w] = "check" => Zero \notin Reads(w)

\* The worker that on_register has picked is not one that has ended.
NoGoneWorker ==
  \A t \in Threads : call[t] = "register" /\ at[t] = "lock" => pc[tgt[t]] # "dead"

\* proc_worker.c:247: "worker_cleanup should have been called already" when a
\* worker is destroyed.
CleanedBeforeDestroy ==
  call[Main] = "detach" => pc[tgt[Main]] = "dead"

\* proc_worker.c:349-353: an entry with user data is no match for what has
\* none or other user data; one that is to be unregistered with the very data
\* it was registered with is found.
RegisteredIsFound ==
  \A w \in Workers : \A p \in Registered(w) :
    PT!Search(proctab[w], p).at # PT!Null

\* A process registered on a worker that was told to run is run, again and
\* again, until the worker is told to stop or the pool is detached.
RegisteredRuns ==
  \A w \in Workers, p \in Procs :
    (p \in Registered(w) /\ wstate[w] \in {"RUN", "IDLE"})
      ~> \/ pc[w] = "in" /\ job[w] = p
         \/ cancelled[w] \/ call[Main] = "detach"

\* A cancelled worker that has nothing to run ends, unless the pool is started
\* again before it waits.
IdleWorkerEnds ==
  \A w \in Workers :
    (cancelled[w] /\ Registered(w) = {})
      ~> (pc[w] = "dead" \/ Registered(w) # {} \/ gstate = "RUN" \/ freed)
=============================================================================
