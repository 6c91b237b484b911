-------------------------- MODULE ProcWorkerProofs --------------------------
(***************************************************************************)
(* Proofs about the worker processor, for any number of workers, any       *)
(* processes and locks, and any number of calls.                           *)
(***************************************************************************)
EXTENDS ProcWorker, TLAPS

PTP == INSTANCE TableOpsProofs WITH
  SlotBits <- 8, MaxSize <- ProcTabMax, Chunks <- Procs,
  Matches <- CompareProcess, Constrained <- FALSE, OnConstrains <- "unset",
  AllocFaults <- FALSE, DirtyHeap <- FALSE

----------------------------------------------------------------------------
(* The operations of the process tables.                                   *)

LEMMA TableAgrees ==
  /\ \A t : PT!Exists(t) = PTP!Exists(t)
  /\ \A t : PT!Live(t) = PTP!Live(t)
  /\ \A t : PT!CircularNext(t) = PTP!CircularNext(t)
  /\ \A t, d : PT!Search(t, d) = PTP!Search(t, d)
  /\ \A t : PT!DelCurrent(t) = PTP!DelCurrent(t)
  /\ \A t : PT!Destroy(t) = PTP!Destroy(t)
  /\ \A n, f : PT!Created(n, f) = PTP!Created(n, f)
  /\ PT!Table = PTP!Table /\ PT!NoTable = PTP!NoTable /\ PT!Null = PTP!Null
<1>1. \A t : /\ PT!Exists(t) = PTP!Exists(t) /\ PT!IsEmpty(t) = PTP!IsEmpty(t)
             /\ PT!Live(t) = PTP!Live(t)
  BY DEF PT!Exists, PTP!Exists, PT!IsEmpty, PTP!IsEmpty, PT!Live, PTP!Live
<1>2. PT!Null = PTP!Null /\ PT!NoTable = PTP!NoTable
  BY DEF PT!Null, PTP!Null, PT!NoTable, PTP!NoTable
<1>3. \A S : PT!Least(S) = PTP!Least(S)
  BY DEF PT!Least, PTP!Least
<1>4. \A t, S : PT!Visible(t, S) = PTP!Visible(t, S)
  BY <1>1 DEF PT!Visible, PTP!Visible, PT!Fragmented, PTP!Fragmented,
              PT!PosIsFrag, PTP!PosIsFrag
<1>5. \A t, p : PT!At(p, t) = PTP!At(p, t) /\ PT!Nowhere(t) = PTP!Nowhere(t)
  BY <1>2 DEF PT!At, PTP!At, PT!Nowhere, PTP!Nowhere
<1>6. \A t : PT!First(t) = PTP!First(t) /\ PT!Current(t) = PTP!Current(t)
  BY <1>1, <1>2, <1>5 DEF PT!First, PTP!First, PT!Current, PTP!Current
<1>7. \A t : PT!NextSlot(t) = PTP!NextSlot(t)
  BY <1>1, <1>3, <1>4, <1>5 DEF PT!NextSlot, PTP!NextSlot
<1>8. \A t : PT!FirstNext(t) = PTP!FirstNext(t)
  BY <1>2, <1>4, <1>6, <1>7 DEF PT!FirstNext, PTP!FirstNext
<1>9. \A t : PT!CircularNext(t) = PTP!CircularNext(t)
  BY <1>2, <1>7, <1>8 DEF PT!CircularNext, PTP!CircularNext
<1>10. \A t, d : PT!Search(t, d) = PTP!Search(t, d)
  BY <1>1, <1>3, <1>4, <1>5 DEF PT!Search, PTP!Search
<1>11. \A t : PT!DelCurrent(t) = PTP!DelCurrent(t)
  BY DEF PT!DelCurrent, PTP!DelCurrent, PT!Null, PTP!Null, PT!Current, PTP!Current,
         PT!IsEmpty, PTP!IsEmpty, PT!Exists, PTP!Exists, PT!Done, PTP!Done,
         PT!Failed, PTP!Failed
<1>12. /\ \A t : PT!Destroy(t) = PTP!Destroy(t)
       /\ \A n, f : PT!Created(n, f) = PTP!Created(n, f)
  BY <1>2 DEF PT!Destroy, PTP!Destroy, PT!Done, PTP!Done, PT!Failed, PTP!Failed,
              PT!Created, PTP!Created
<1>13. PT!Table = PTP!Table
  BY DEF PT!Table, PTP!Table, PT!Flag, PTP!Flag, PT!Contents, PTP!Contents,
         PT!Cell, PTP!Cell
<1> QED
  BY <1>1, <1>2, <1>9, <1>10, <1>11, <1>12, <1>13

LEMMA InsertAgrees == \A t, d : PT!Insert(t, d) = PTP!Insert(t, d)
<1>1. \A t : PT!ReallocAndMove(t) = PTP!ReallocAndMove(t)
  BY DEF PT!ReallocAndMove, PTP!ReallocAndMove, PT!Null, PTP!Null, PT!Done, PTP!Done,
         PT!Failed, PTP!Failed, PT!GrownSize, PTP!GrownSize, PT!Grown, PTP!Grown,
         PT!ClearedBits, PTP!ClearedBits, PT!DirtyBits, PTP!DirtyBits,
         PT!Bits, PTP!Bits, PT!MaskSize, PTP!MaskSize
<1>2. \A t, p : PT!Done(p, t) = PTP!Done(p, t) /\ PT!Failed(t) = PTP!Failed(t)
  BY DEF PT!Done, PTP!Done, PT!Failed, PTP!Failed, PT!Null, PTP!Null
<1>3. \A t : /\ PT!IsEmpty(t) = PTP!IsEmpty(t) /\ PT!Current(t) = PTP!Current(t)
             /\ PT!Fragmented(t) = PTP!Fragmented(t)
  BY DEF PT!IsEmpty, PTP!IsEmpty, PT!Exists, PTP!Exists, PT!Current, PTP!Current,
         PT!Null, PTP!Null, PT!Fragmented, PTP!Fragmented
<1>4. \A t : PT!TakeTail(t) = PTP!TakeTail(t)
  BY <1>2, <1>3 DEF PT!TakeTail, PTP!TakeTail
<1>5. \A t : PT!GetTailNext(t) = PTP!GetTailNext(t)
  BY <1>1, <1>2, <1>3, <1>4 DEF PT!GetTailNext, PTP!GetTailNext
<1>6. \A t : PT!SetPosFragFirst(t) = PTP!SetPosFragFirst(t)
  BY DEF PT!SetPosFragFirst, PTP!SetPosFragFirst, PT!Least, PTP!Least,
         PT!Bits, PTP!Bits
<1>7. \A t : PT!GetFragFirst(t) = PTP!GetFragFirst(t)
  BY <1>2, <1>3, <1>5, <1>6
     DEF PT!GetFragFirst, PTP!GetFragFirst, PT!Null, PTP!Null
<1>8. \A t, d : PT!Match(t, d) = PTP!Match(t, d)
  BY DEF PT!Match, PTP!Match, PT!Nowhere, PTP!Nowhere, PT!Null, PTP!Null
<1> QED
  BY <1>7, <1>8 DEF PT!Insert, PTP!Insert, PT!WriteChunk, PTP!WriteChunk,
                    PT!Null, PTP!Null

Plain(t) == PTP!Plain(t)

LEMMA PlainTable ==
  ASSUME NEW t, Plain(t)
  PROVE  /\ t \in PT!Table /\ t.size \in Nat /\ t.size <= ProcTabMax
         /\ ~PT!Exists(t) => PT!Live(t) = {}
         /\ PT!Live(t) \subseteq 0..(t.size - 1)
         /\ \A p \in 0..(t.size - 1) :
              IF p \in PT!Live(t) THEN t.cells[p] \in Procs ELSE t.cells[p] = Zero
BY PoolAssumption, PTP!PlainFacts, TableAgrees DEF Plain

LEMMA CreatedTable ==
  /\ Plain(PT!NoTable) /\ PT!Live(PT!NoTable) = {}
  /\ LET t == PT!Created(ProcTabSize, {}) IN
     Plain(t) /\ t.size = ProcTabSize /\ PT!Live(t) = {}
<1>1. Plain(PT!NoTable)
  BY PoolAssumption, PTP!PlainDestroyed, TableAgrees DEF Plain
<1>2. PT!Live(PT!NoTable) = {}
  BY DEF PT!Live, PT!NoTable, PT!IsEmpty, PT!Exists
<1> QED
  BY <1>1, <1>2, PoolAssumption, PTP!PlainCreated, TableAgrees DEF Plain

LEMMA DestroyedTable ==
  ASSUME NEW t, Plain(t)
  PROVE  Plain(PT!Destroy(t).t) /\ PT!Live(PT!Destroy(t).t) = {}
<1>1. PTP!Plain(PTP!Destroy(t).t) /\ PTP!Live(PTP!Destroy(t).t) = {}
  <2>1. /\ PTP!Plain(t) /\ 8 \in Nat \ {0} /\ ProcTabMax \in Nat \ {0}
        /\ Zero \notin Procs /\ Junk \notin Procs
        /\ FALSE \in BOOLEAN /\ "unset" \in {"unset", "OK", "FAIL"}
    BY PoolAssumption DEF Plain
  <2> QED
    BY <2>1, PTP!PlainDestroyed, ZenonT(30)
<1> QED
  BY <1>1, TableAgrees DEF Plain

LEMMA NextTable ==
  ASSUME NEW t, Plain(t)
  PROVE  LET n == PT!CircularNext(t) IN
         /\ Plain(n.t) /\ n.t.size = t.size
         /\ PT!Live(n.t) = PT!Live(t) /\ n.t.cells = t.cells
         /\ IF n.at = PT!Null THEN PT!Live(t) = {} ELSE n.at \in PT!Live(t)
BY PoolAssumption, PTP!PlainNext, TableAgrees DEF Plain

LEMMA DeletedTable ==
  ASSUME NEW t, Plain(t), NEW d
  PROVE  LET s == PT!Search(t, d)
             u == IF s.at = PT!Null THEN s.t ELSE PT!DelCurrent(s.t).t
         IN  Plain(u) /\ u.size = t.size /\ PT!Live(u) \subseteq PT!Live(t)
BY PoolAssumption, PTP!PlainDelete, TableAgrees DEF Plain

LEMMA InsertedTable ==
  ASSUME NEW t, Plain(t), NEW d \in Procs, NEW r \in PT!Insert(t, d)
  PROVE  /\ Plain(r.t) /\ r.ok \in BOOLEAN
         /\ t.size <= r.t.size /\ (t.size = ProcTabMax => r.t.size = t.size)
         /\ PT!Live(t) \subseteq PT!Live(r.t)
         /\ \A q \in PT!Live(t) : r.t.cells[q] = t.cells[q]
         /\ ~r.ok => PT!Live(r.t) = PT!Live(t)
BY PoolAssumption, PTP!PlainInsert, TableAgrees, InsertAgrees DEF Plain

----------------------------------------------------------------------------
(* The threads and the locks.                                              *)

LEMMA ThreadSets ==
  /\ N \in Nat \ {0} /\ 0 \in Workers
  /\ \A w : w \in Workers <=> w \in Nat /\ w < N
  /\ Main \in Threads /\ Main \notin Workers /\ Workers \subseteq Threads
  /\ \A t \in Threads : t = Main \/ t \in Workers
  /\ None \notin Threads /\ Gone \notin Threads /\ None # Gone
BY PoolAssumption DEF Threads, Workers

----------------------------------------------------------------------------
(* Where the threads are.                                                  *)

Spots == {"unborn", "lock", "test", "waiting", "pick", "idle", "release", "check",
          "attr", "flags", "push", "attrlock", "call", "in", "cleanup", "dead", "crashed"}

PoolTypes ==
  /\ gstate \in {"BOOT", "RUN", "STOP"}
  /\ created \in 0..N /\ attached \in BOOLEAN /\ freed \in BOOLEAN
  /\ wpos \in Int /\ rrpos \in 0..N
WorkerTypes ==
  /\ wstate \in [Workers -> {"BOOT", "STOP", "IDLE", "RUN"}]
  /\ signalled \in [Workers -> BOOLEAN] /\ cancelled \in [Workers -> BOOLEAN]
  /\ pc \in [Workers -> Spots]
LockTypes == owner \in [AllLocks -> Threads \cup {None, Gone}]
CallTypes ==
  /\ call \in [Threads -> {"none", "attach", "register", "unregister",
                           "start", "stop", "detach"}]
  /\ at \in [Threads -> {"none", "create", "worktab", "chunk", "lock", "proctab",
               "insert", "delete", "load", "step", "store", "fetch", "end", "set",
               "cancel", "flush", "over", "crashed"}]
  /\ arg \in [Threads -> Procs \cup {Zero}]
  /\ tgt \in [Threads -> Workers] /\ cur \in [Threads -> Int]
  /\ calls \in [Threads -> 0..(MainCalls + ProcCalls)]

\* Where a thread is in a loop over the worker table.
Turning == {"load", "step", "store", "fetch", "crashed"}

\* Where a thread may be in each call.
Place(t) ==
  \/ call[t] = "none" /\ at[t] = "none"
  \/ call[t] = "attach" /\ at[t] = "create"
  \/ /\ call[t] = "register" /\ arg[t] \in Procs
     /\ at[t] \in {"worktab", "chunk", "lock", "proctab", "insert", "crashed"}
  \/ /\ call[t] = "unregister"
     /\ at[t] \in {"worktab", "proctab", "delete", "end"} \cup Turning
  \/ call[t] = "start" /\ at[t] \in {"lock", "set"} \cup Turning
  \/ call[t] = "stop" /\ at[t] \in {"cancel"} \cup Turning
  \/ call[t] = "detach" /\ at[t] \in {"flush", "end", "over"} \cup Turning

\* No call but the one that attaches the pool is made before all workers are
\* there, and a worker makes calls only from a process that it runs.
Phase ==
  /\ \A t \in Threads : call[t] \notin {"none", "attach"} => created = N
  /\ \A w \in Workers :
       call[w] # "none" => pc[w] = "in" /\ call[w] \in {"register", "unregister"}
  /\ attached => created = N
  /\ call[Main] = "attach" =>
       /\ gstate = "BOOT" /\ ~attached /\ ~freed
       /\ \A w \in Workers : w >= created => pc[w] = "unborn"

Flow ==
  /\ PoolTypes /\ WorkerTypes /\ LockTypes /\ CallTypes
  /\ \A t \in Threads : Place(t)
  /\ Phase

LEMMA FlowInit == Init => Flow
<1> SUFFICES ASSUME Init PROVE Flow
  OBVIOUS
<1>1. PoolTypes
  <2>1. created \in 0..N /\ wpos \in Int /\ rrpos \in 0..N
    BY ThreadSets DEF Init
  <2> QED
    BY <2>1 DEF Init, PoolTypes
<1>2. WorkerTypes
  BY DEF Init, WorkerTypes, Spots
<1>3. LockTypes
  BY DEF Init, LockTypes
<1>4. CallTypes
  <2>1. 0 \in 0..(MainCalls + ProcCalls)
    BY PoolAssumption
  <2>2. calls \in [Threads -> 0..(MainCalls + ProcCalls)]
    BY <2>1 DEF Init
  <2>3. /\ arg \in [Threads -> Procs \cup {Zero}]
        /\ tgt \in [Threads -> Workers] /\ cur \in [Threads -> Int]
    BY ThreadSets DEF Init
  <2>4. /\ call \in [Threads -> {"none", "attach", "register", "unregister",
                                 "start", "stop", "detach"}]
        /\ at \in [Threads -> {"none", "create", "worktab", "chunk", "lock", "proctab",
                     "insert", "delete", "load", "step", "store", "fetch", "end", "set",
                     "cancel", "flush", "over", "crashed"}]
    BY DEF Init
  <2> QED
    BY <2>2, <2>3, <2>4 DEF CallTypes
<1>5. ASSUME NEW t \in Threads PROVE Place(t)
  BY <1>5 DEF Init, Place
<1>6. Phase
  BY ThreadSets DEF Init, Phase
<1> QED
  BY <1>1, <1>2, <1>3, <1>4, <1>5, <1>6 DEF Flow

LEMMA OwnerTypes ==
  ASSUME LockTypes
  PROVE  /\ \A t \in Threads : \A l :
              Lock(t, l) \in [AllLocks -> Threads \cup {None, Gone}]
         /\ \A l : Unlock(l) \in [AllLocks -> Threads \cup {None, Gone}]
BY DEF LockTypes, Lock, Unlock

\* A step of a worker that runs its loop.
LEMMA LoopFlow ==
  ASSUME Flow, NEW w \in Workers, UNCHANGED <<poolVars, callVars>>,
         call[w] = "none", pc[w] # "unborn",
         NEW x \in Spots, pc' = [pc EXCEPT ![w] = x],
         WorkerTypes', LockTypes'
  PROVE  Flow'
<1>1. PoolTypes' /\ CallTypes'
  BY DEF Flow, PoolTypes, CallTypes, poolVars, callVars
<1>2. ASSUME NEW t \in Threads PROVE Place(t)'
  BY <1>2 DEF Flow, Place, callVars
<1>3. \A v \in Workers : pc'[v] = IF v = w THEN x ELSE pc[v]
  BY DEF Flow, WorkerTypes
<1>4. Phase'
  BY <1>3, ThreadSets DEF Flow, Phase, poolVars, callVars
<1> QED
  BY <1>1, <1>2, <1>4 DEF Flow

\* A step of a thread that begins a call, goes on in it, or returns.
LEMMA CallFlow ==
  ASSUME Flow, NEW t \in Threads, UNCHANGED <<created, pc>>,
         PoolTypes', WorkerTypes', LockTypes', CallTypes', Place(t)',
         \/ call'[t] = "none"
         \/ /\ call'[t] # "attach" /\ created = N
            /\ t \in Workers => pc[t] = "in" /\ call'[t] \in {"register", "unregister"},
         attached' => created = N,
         call'[Main] = "attach" => UNCHANGED <<gstate, attached, freed>>,
         \A u \in Threads \ {t} :
           call'[u] = call[u] /\ at'[u] = at[u] /\ arg'[u] = arg[u]
  PROVE  Flow'
<1>1. ASSUME NEW u \in Threads PROVE Place(u)'
  BY <1>1 DEF Flow, Place
<1>2. Phase'
  BY ThreadSets DEF Flow, Phase
<1> QED
  BY <1>1, <1>2 DEF Flow

\* A thread that is in a call may go on in it.
LEMMA InCall ==
  ASSUME Flow, NEW t \in Threads, call[t] \notin {"none", "attach"}
  PROVE  /\ created = N
         /\ t \in Workers => pc[t] = "in" /\ call[t] \in {"register", "unregister"}
BY DEF Flow, Phase

LEMMA LoopFlowStep ==
  ASSUME Flow, NEW w \in Workers, LoopNext(w)
  PROVE  Flow'
<1>1. CASE LoopLock(w)
  BY <1>1, LoopFlow, OwnerTypes, ThreadSets
     DEF LoopLock, Steps, Jumps, Flow, workerVars, WorkerTypes, LockTypes, Spots
<1>2. CASE LoopWait(w)
  BY <1>2, LoopFlow, OwnerTypes, ThreadSets
     DEF LoopWait, Steps, Jumps, Flow, workerVars, WorkerTypes, LockTypes, Spots
<1>3. CASE WakeSignalled(w)
  BY <1>3, LoopFlow, OwnerTypes, ThreadSets
     DEF WakeSignalled, Wake, Steps, Jumps, Flow, workerVars, WorkerTypes, LockTypes, Spots
<1>4. CASE WakeSpuriously(w)
  BY <1>4, LoopFlow, OwnerTypes, ThreadSets
     DEF WakeSpuriously, Wake, Steps, Jumps, Flow, workerVars, WorkerTypes, LockTypes, Spots
<1>5. CASE LoopLockProctab(w)
  BY <1>5, LoopFlow, OwnerTypes, ThreadSets
     DEF LoopLockProctab, Steps, Jumps, Flow, workerVars, WorkerTypes, LockTypes, Spots
<1>6. CASE LoopPick(w)
  BY <1>6, LoopFlow, OwnerTypes, ThreadSets
     DEF LoopPick, Steps, Jumps, Flow, workerVars, WorkerTypes, LockTypes, Spots
<1>7. CASE LoopIdle(w)
  BY <1>7, LoopFlow, OwnerTypes, ThreadSets
     DEF LoopIdle, Steps, Jumps, Flow, workerVars, WorkerTypes, LockTypes, Spots
<1>8. CASE LoopRelease(w)
  BY <1>8, LoopFlow, OwnerTypes, ThreadSets
     DEF LoopRelease, Steps, Jumps, Flow, workerVars, WorkerTypes, LockTypes, Spots
<1>9. CASE LoopCheck(w)
  <2>1. PICK x \in Spots : Jumps(w, x)
    BY <1>9 DEF LoopCheck, Spots
  <2> QED
    BY <1>9, <2>1, LoopFlow
       DEF LoopCheck, Steps, Jumps, Flow, workerVars, WorkerTypes, LockTypes, Spots
<1>10. CASE LoopAttr(w)
  <2>1. PICK x \in Spots : Jumps(w, x)
    BY <1>10 DEF LoopAttr, Spots
  <2> QED
    BY <1>10, <2>1, LoopFlow
       DEF LoopAttr, Steps, Jumps, Flow, workerVars, WorkerTypes, LockTypes, Spots
<1>18. CASE LoopFlags(w)
  <2>1. PICK x \in Spots : Jumps(w, x)
    BY <1>18 DEF LoopFlags, Spots
  <2> QED
    BY <1>18, <2>1, LoopFlow
       DEF LoopFlags, Steps, Jumps, Flow, workerVars, WorkerTypes, LockTypes, Spots
<1>11. CASE LoopPush(w)
  BY <1>11, LoopFlow
     DEF LoopPush, Steps, Jumps, Flow, workerVars, WorkerTypes, LockTypes, Spots
<1>12. CASE LoopAttrLock(w)
  BY <1>12, LoopFlow, OwnerTypes, ThreadSets
     DEF LoopAttrLock, Steps, Jumps, Flow, workerVars, WorkerTypes, LockTypes, Spots
<1>13. CASE LoopCall(w)
  BY <1>13, LoopFlow
     DEF LoopCall, Steps, Jumps, Flow, workerVars, WorkerTypes, LockTypes, Spots
<1>14. CASE LoopReturn(w)
  BY <1>14, LoopFlow, OwnerTypes, ThreadSets
     DEF LoopReturn, Steps, Jumps, Flow, workerVars, WorkerTypes, LockTypes, Spots
<1>15. CASE CancelWaiting(w)
  BY <1>15, LoopFlow
     DEF CancelWaiting, Steps, Jumps, Flow, workerVars, WorkerTypes, LockTypes, Spots
<1>16. CASE CancelRunning(w)
  BY <1>16, LoopFlow, OwnerTypes, ThreadSets
     DEF CancelRunning, Steps, Jumps, Flow, workerVars, WorkerTypes, LockTypes, Spots
<1>17. CASE Cleanup(w)
  BY <1>17, LoopFlow
     DEF Cleanup, Steps, Jumps, Flow, workerVars, WorkerTypes, LockTypes, Spots
<1> QED
  BY <1>1, <1>2, <1>3, <1>4, <1>5, <1>6, <1>7, <1>8, <1>9, <1>10, <1>11, <1>12, <1>13, <1>14, <1>15, <1>16, <1>17, <1>18 DEF LoopNext

LEMMA ReturnTypes ==
  ASSUME CallTypes, NEW t \in Threads, Returns(t)
  PROVE  CallTypes' /\ call'[t] = "none" /\ Place(t)'
         /\ \A u \in Threads \ {t} :
              call'[u] = call[u] /\ at'[u] = at[u] /\ arg'[u] = arg[u]
<1>1. 0 \in Workers
  BY ThreadSets
<1> QED
  BY <1>1 DEF CallTypes, Returns, Place

LEMMA CallFlowStep ==
  ASSUME Flow, NEW t \in Threads, CallNext(t)
  PROVE  Flow'
<1> USE DEF In, Goes
<1>0. PoolTypes /\ WorkerTypes /\ LockTypes /\ CallTypes /\ Place(t)
  BY DEF Flow
<1>1. CASE \E what \in {"register", "unregister"} : Call(t, what)
  <2>1. PICK what \in {"register", "unregister"} : Call(t, what)
    BY <1>1
  <2>2. PICK p \in Procs : arg' = [arg EXCEPT ![t] = p]
    BY <2>1 DEF Call
  <2>3. calls[t] + 1 \in 0..(MainCalls + ProcCalls)
    BY <1>0, <2>1, PoolAssumption DEF Call, MayCall, CallTypes
  <2>4. CallTypes'
    BY <1>0, <2>1, <2>2, <2>3 DEF Call, CallTypes
  <2>5. PoolTypes' /\ WorkerTypes' /\ LockTypes'
    BY <1>0, <2>1 DEF Call, poolVars, workerVars, loopVars, PoolTypes, WorkerTypes,
                     LockTypes
  <2>6. call'[t] = what /\ Place(t)'
    BY <1>0, <2>1, <2>2 DEF Call, CallTypes, Place
  <2>7. attached /\ created = N /\ ~freed /\ (t \in Workers => pc[t] = "in")
    BY <2>1, ThreadSets DEF Call, MayCall, Flow, Phase
  <2>8. UNCHANGED <<gstate, created, attached, freed, pc>>
    BY <2>1 DEF Call, poolVars, loopVars
  <2>9. \A u \in Threads \ {t} :
           call'[u] = call[u] /\ at'[u] = at[u] /\ arg'[u] = arg[u]
    BY <1>0, <2>1, <2>2 DEF Call, CallTypes
  <2> QED
    BY <2>4, <2>5, <2>6, <2>7, <2>8, <2>9, CallFlow
<1>2. CASE PickFirst(t)
  <2>1. 1 \in 0..N
    BY ThreadSets
  <2>2. /\ UNCHANGED <<gstate, created, attached, freed, pc, owner>>
        /\ UNCHANGED <<wstate, signalled, cancelled, call, arg, cur, calls>>
        /\ call[t] = "register" /\ at' = [at EXCEPT ![t] = "lock"]
        /\ tgt' = [tgt EXCEPT ![t] = 0] /\ wpos' = 0 /\ rrpos' = 1
    BY <1>2 DEF PickFirst, workerVars, loopVars
  <2>3. PoolTypes' /\ WorkerTypes' /\ LockTypes'
    BY <1>0, <2>1, <2>2 DEF PoolTypes, WorkerTypes, LockTypes
  <2>4. CallTypes' /\ call'[t] = call[t] /\ Place(t)'
        /\ \A u \in Threads \ {t} :
             call'[u] = call[u] /\ at'[u] = at[u] /\ arg'[u] = arg[u]
    BY <1>0, <2>2, ThreadSets DEF CallTypes, Place
  <2> QED
    BY <2>2, <2>3, <2>4, InCall, CallFlow
<1>12. CASE PickChunk(t)
  <2>1. rrpos \in Int /\ rrpos + 1 \in 0..N
    BY <1>0, <1>12, InCall, ThreadSets DEF PickChunk, PoolTypes, PastLast
  <2> QED
    BY <1>0, <1>12, <2>1, OwnerTypes, InCall, CallFlow
       DEF PickChunk, poolVars, workerVars, loopVars, PoolTypes, WorkerTypes, LockTypes, CallTypes, Place
<1>13. CASE PickWorker(t)
  <2>1. UNCHANGED <<gstate, created, attached, freed, pc>> /\ UNCHANGED poolVars
        /\ call[t] = "register"
    BY <1>13 DEF PickWorker, poolVars, loopVars
  <2>2. PoolTypes' /\ WorkerTypes'
    BY <1>0, <1>13 DEF PickWorker, poolVars, workerVars, loopVars, PoolTypes, WorkerTypes
  <2>3. LockTypes'
    BY <1>0, <1>13, OwnerTypes DEF PickWorker, LockTypes
  <2>4. CASE Returns(t)
    BY <1>0, <2>1, <2>2, <2>3, <2>4, ReturnTypes, InCall, CallFlow
  <2>5. CASE ~Returns(t)
    <3>1. OnWorker => wpos \in Workers
      BY <1>0, ThreadSets DEF OnWorker, PoolTypes
    <3>2. CallTypes' /\ call' = call /\ arg' = arg
      BY <1>0, <1>13, <2>5, <3>1 DEF PickWorker, CallTypes
    <3>3. Place(t)' /\ \A u \in Threads \ {t} : at'[u] = at[u]
      BY <1>0, <1>13, <2>1, <2>5, <3>2 DEF PickWorker, CallTypes, Place
    <3> QED
      BY <2>1, <2>2, <2>3, <3>2, <3>3, InCall, CallFlow
  <2> QED
    BY <2>4, <2>5
<1>3. CASE LockWorker(t)
  <2>1. UNCHANGED <<gstate, created, attached, freed, pc>>
        /\ call[t] \notin {"none", "attach"}
    BY <1>3 DEF LockWorker, poolVars, loopVars
  <2>2. PoolTypes' /\ WorkerTypes'
    BY <1>0, <1>3, ThreadSets DEF LockWorker, poolVars, workerVars, loopVars, PoolTypes, WorkerTypes
  <2>3. LockTypes'
    BY <1>0, <1>3, OwnerTypes DEF LockWorker, LockTypes
  <2>4. CallTypes' /\ call'[t] \in {"none", call[t]} /\ Place(t)'
        /\ \A u \in Threads \ {t} :
             call'[u] = call[u] /\ at'[u] = at[u] /\ arg'[u] = arg[u]
    BY <1>0, <1>3, ThreadSets DEF LockWorker, CallTypes, Place
  <2> QED
    BY <2>1, <2>2, <2>3, <2>4, InCall, CallFlow
<1>4. CASE LockProctab(t)
  <2>1. UNCHANGED <<gstate, created, attached, freed, pc>>
        /\ call[t] \notin {"none", "attach"}
    BY <1>4 DEF LockProctab, poolVars, loopVars
  <2>2. PoolTypes' /\ WorkerTypes'
    BY <1>0, <1>4, ThreadSets DEF LockProctab, poolVars, workerVars, loopVars, PoolTypes, WorkerTypes
  <2>3. LockTypes'
    BY <1>0, <1>4, OwnerTypes DEF LockProctab, LockTypes
  <2>4. CallTypes' /\ call'[t] \in {"none", call[t]} /\ Place(t)'
        /\ \A u \in Threads \ {t} :
             call'[u] = call[u] /\ at'[u] = at[u] /\ arg'[u] = arg[u]
    BY <1>0, <1>4, ThreadSets DEF LockProctab, CallTypes, Place
  <2> QED
    BY <2>1, <2>2, <2>3, <2>4, InCall, CallFlow
<1>5. CASE InsertProc(t)
  <2>1. Returns(t) /\ UNCHANGED <<gstate, created, attached, freed, pc>>
        /\ call[t] \notin {"none", "attach"}
    BY <1>5 DEF InsertProc, poolVars, loopVars
  <2>2. PoolTypes'
    BY <1>0, <1>5 DEF InsertProc, poolVars, PoolTypes
  <2>3. WorkerTypes'
    BY <1>0, <1>5, <2>1 DEF InsertProc, workerVars, WorkerTypes, Signal
  <2>4. LockTypes'
    BY <1>0, <1>5, OwnerTypes DEF InsertProc, LockTypes
  <2> QED
    BY <1>0, <2>1, <2>2, <2>3, <2>4, ReturnTypes, InCall, CallFlow
<1>6. CASE LockWorktab(t)
  <2>1. UNCHANGED <<gstate, created, attached, freed, pc>>
        /\ call[t] \notin {"none", "attach"}
    BY <1>6 DEF LockWorktab, poolVars, loopVars
  <2>2. PoolTypes' /\ WorkerTypes'
    BY <1>0, <1>6, ThreadSets DEF LockWorktab, poolVars, workerVars, loopVars, PoolTypes, WorkerTypes
  <2>3. LockTypes'
    BY <1>0, <1>6, OwnerTypes DEF LockWorktab, LockTypes
  <2>4. CallTypes' /\ call'[t] \in {"none", call[t]} /\ Place(t)'
        /\ \A u \in Threads \ {t} :
             call'[u] = call[u] /\ at'[u] = at[u] /\ arg'[u] = arg[u]
    BY <1>0, <1>6, ThreadSets DEF LockWorktab, CallTypes, Place
  <2> QED
    BY <2>1, <2>2, <2>3, <2>4, InCall, CallFlow
<1>7. CASE DeleteProc(t)
  <2>1. UNCHANGED <<gstate, created, attached, freed, pc>>
        /\ call[t] \notin {"none", "attach"}
    BY <1>7 DEF DeleteProc, poolVars, loopVars
  <2>2. PoolTypes' /\ WorkerTypes'
    BY <1>0, <1>7, ThreadSets DEF DeleteProc, poolVars, workerVars, loopVars, PoolTypes, WorkerTypes
  <2>3. LockTypes'
    BY <1>0, <1>7, OwnerTypes DEF DeleteProc, LockTypes
  <2>4. CallTypes' /\ call'[t] \in {"none", call[t]} /\ Place(t)'
        /\ \A u \in Threads \ {t} :
             call'[u] = call[u] /\ at'[u] = at[u] /\ arg'[u] = arg[u]
    <3>1. /\ call[t] = "unregister" /\ UNCHANGED <<call, arg, tgt, cur, calls>>
          /\ at' = [at EXCEPT ![t] = "end"] \/ at' = [at EXCEPT ![t] = "load"]
      BY <1>7 DEF DeleteProc
    <3> QED
      BY <1>0, <3>1 DEF CallTypes, Place, Turning
  <2> QED
    BY <2>1, <2>2, <2>3, <2>4, InCall, CallFlow
<1>8. CASE UnregisterReturns(t)
  <2>1. Returns(t) /\ UNCHANGED <<gstate, created, attached, freed, pc>>
        /\ call[t] \notin {"none", "attach"}
    BY <1>8 DEF UnregisterReturns, poolVars, loopVars
  <2>2. PoolTypes'
    BY <1>0, <1>8 DEF UnregisterReturns, poolVars, PoolTypes
  <2>3. WorkerTypes'
    BY <1>0, <1>8, <2>1 DEF UnregisterReturns, workerVars, WorkerTypes, Signal
  <2>4. LockTypes'
    BY <1>0, <1>8, OwnerTypes DEF UnregisterReturns, LockTypes
  <2> QED
    BY <1>0, <2>1, <2>2, <2>3, <2>4, ReturnTypes, InCall, CallFlow
<1>9. CASE TestCursor(t)
  <2>1. UNCHANGED <<gstate, created, attached, freed, pc>>
        /\ call[t] \in {"unregister", "start", "stop", "detach"}
    BY <1>9 DEF TestCursor, poolVars, loopVars
  <2>2. PoolTypes' /\ WorkerTypes'
    BY <1>0, <1>9 DEF TestCursor, poolVars, workerVars, loopVars, PoolTypes, WorkerTypes
  <2>3. LockTypes'
    BY <1>0, <1>9 DEF TestCursor, LockTypes
  <2>4. CASE Returns(t)
    BY <1>0, <2>1, <2>2, <2>3, <2>4, ReturnTypes, InCall, CallFlow
  <2>5. CASE ~Returns(t)
    <3>1. /\ call' = call /\ arg' = arg /\ tgt' = tgt /\ cur' = cur /\ calls' = calls
          /\ \/ at' = [at EXCEPT ![t] = "step"]
             \/ call[t] \in {"unregister", "detach"} /\ at' = [at EXCEPT ![t] = "end"]
      BY <1>9, <2>5 DEF TestCursor
    <3>2. CallTypes'
      BY <1>0, <3>1 DEF CallTypes
    <3>3. Place(t)' /\ \A u \in Threads \ {t} : at'[u] = at[u]
      BY <1>0, <2>1, <3>1 DEF CallTypes, Place, Turning
    <3> QED
      BY <2>1, <2>2, <2>3, <3>1, <3>2, <3>3, InCall, CallFlow
  <2> QED
    BY <2>4, <2>5
<1>10. CASE ReadCursor(t)
  <2>1. UNCHANGED <<gstate, created, attached, freed, pc>>
        /\ call[t] \notin {"none", "attach"}
    BY <1>10 DEF ReadCursor, poolVars, loopVars
  <2>2. PoolTypes' /\ WorkerTypes'
    BY <1>0, <1>10, ThreadSets DEF ReadCursor, poolVars, workerVars, loopVars, PoolTypes, WorkerTypes,
                            CallTypes
  <2>3. LockTypes'
    BY <1>0, <1>10, OwnerTypes DEF ReadCursor, LockTypes
  <2>4. CallTypes' /\ call'[t] \in {"none", call[t]} /\ Place(t)'
        /\ \A u \in Threads \ {t} :
             call'[u] = call[u] /\ at'[u] = at[u] /\ arg'[u] = arg[u]
    <3>1. /\ call[t] \in {"unregister", "start", "stop", "detach"}
          /\ UNCHANGED <<call, arg, tgt, calls>>
          /\ at' = [at EXCEPT ![t] = "store"]
      BY <1>10 DEF ReadCursor
    <3>2. wpos - 1 \in Int /\ wpos + 1 \in Int
      BY DEF Flow, PoolTypes
    <3>3. cur' \in [Threads -> Int]
      BY <1>0, <1>10, <3>2 DEF ReadCursor, CallTypes
    <3> QED
      BY <1>0, <3>1, <3>3 DEF CallTypes, Place, Turning
  <2> QED
    BY <2>1, <2>2, <2>3, <2>4, InCall, CallFlow
<1>11. CASE WriteCursor(t)
  <2>1. UNCHANGED <<gstate, created, attached, freed, pc>>
        /\ call[t] \notin {"none", "attach"}
    BY <1>11 DEF WriteCursor, poolVars, loopVars
  <2>2. PoolTypes' /\ WorkerTypes'
    BY <1>0, <1>11, ThreadSets DEF WriteCursor, poolVars, workerVars, loopVars, PoolTypes, WorkerTypes,
                            CallTypes
  <2>3. LockTypes'
    BY <1>0, <1>11, OwnerTypes DEF WriteCursor, LockTypes
  <2>4. CallTypes' /\ call'[t] \in {"none", call[t]} /\ Place(t)'
        /\ \A u \in Threads \ {t} :
             call'[u] = call[u] /\ at'[u] = at[u] /\ arg'[u] = arg[u]
    BY <1>0, <1>11, ThreadSets DEF WriteCursor, CallTypes, Place, Turning
  <2> QED
    BY <2>1, <2>2, <2>3, <2>4, InCall, CallFlow
<1>14. CASE FetchWorker(t)
  <2>1. UNCHANGED <<gstate, created, attached, freed, pc>>
        /\ call[t] \in {"unregister", "start", "stop", "detach"}
        /\ call' = call /\ arg' = arg /\ cur' = cur /\ calls' = calls
    BY <1>14 DEF FetchWorker, poolVars, loopVars
  <2>2. PoolTypes' /\ WorkerTypes'
    BY <1>0, <1>14 DEF FetchWorker, poolVars, workerVars, loopVars, PoolTypes, WorkerTypes
  <2>3. LockTypes'
    BY <1>0, <1>14 DEF FetchWorker, LockTypes
  <2>4. OnWorker => wpos \in Workers
    BY <1>0, ThreadSets DEF OnWorker, PoolTypes
  <2>5. tgt' = tgt \/ (OnWorker /\ tgt' = [tgt EXCEPT ![t] = wpos])
    BY <1>14 DEF FetchWorker
  <2>6. \E x \in {"proctab", "lock", "cancel", "flush", "crashed", "load"} :
          /\ at' = [at EXCEPT ![t] = x]
          /\ x = "proctab" => call[t] = "unregister"
          /\ x = "lock" => call[t] = "start"
          /\ x = "cancel" => call[t] = "stop"
          /\ x = "flush" => call[t] = "detach"
    BY <1>14, <2>1 DEF FetchWorker
  <2>7. CallTypes'
    BY <1>0, <2>1, <2>4, <2>5, <2>6 DEF CallTypes
  <2>8. Place(t)' /\ \A u \in Threads \ {t} : at'[u] = at[u]
    BY <1>0, <2>1, <2>6 DEF CallTypes, Place, Turning
  <2> QED
    BY <2>1, <2>2, <2>3, <2>7, <2>8, InCall, CallFlow
<1> QED
  BY <1>1, <1>2, <1>3, <1>4, <1>5, <1>6, <1>7, <1>8, <1>9, <1>10, <1>11, <1>12,
     <1>13, <1>14 DEF CallNext

LEMMA MainFlowStep ==
  ASSUME Flow, MainNext
  PROVE  Flow'
<1> USE DEF In, Goes
<1>0. /\ PoolTypes /\ WorkerTypes /\ LockTypes /\ CallTypes /\ Place(Main)
      /\ Main \in Threads
  BY ThreadSets DEF Flow
<1>1. CASE CreateWorker
  <2>1. /\ created \in Workers /\ created + 1 \in 0..N
        /\ call[Main] = "attach"
    BY <1>0, <1>1, ThreadSets DEF CreateWorker, PoolTypes
  <2>2. PoolTypes' /\ WorkerTypes'
    BY <1>0, <1>1, <2>1 DEF CreateWorker, PoolTypes, WorkerTypes, Spots
  <2>3. LockTypes' /\ CallTypes' /\ UNCHANGED <<call, at, arg>>
    BY <1>0, <1>1 DEF CreateWorker, LockTypes, CallTypes, callVars
  <2>4. \A t \in Threads : Place(t)'
    BY <2>3 DEF Flow, Place
  <2>5. \A w \in Workers : w >= created + 1 => pc'[w] = "unborn"
    BY <1>0, <1>1, <2>1, ThreadSets DEF CreateWorker, Flow, Phase, WorkerTypes, PoolTypes
  <2>6. \A t \in Threads : call[t] \in {"none", "attach"}
    BY <1>0, <1>1, ThreadSets DEF CreateWorker, Flow, Phase, PoolTypes
  <2>7. Phase'
    BY <1>0, <1>1, <2>1, <2>3, <2>5, <2>6, ThreadSets DEF CreateWorker, Flow, Phase
  <2> QED
    BY <2>2, <2>3, <2>4, <2>7 DEF Flow
<1>2. CASE CreateWorkerFails
  <2>1. Returns(Main)
    BY <1>2 DEF CreateWorkerFails
  <2> QED
    BY <1>0, <1>2, <2>1, ReturnTypes, CallFlow
       DEF CreateWorkerFails, poolVars, workerVars, loopVars, PoolTypes, WorkerTypes,
           LockTypes, Flow, Phase
<1>3. CASE PushWorkerFails
  <2>1. Returns(Main) /\ created \in Workers /\ created < N
    BY <1>0, <1>3, ThreadSets DEF PushWorkerFails, PoolTypes
  <2>2. PoolTypes' /\ WorkerTypes' /\ LockTypes'
    BY <1>0, <1>3, <2>1 DEF PushWorkerFails, poolVars, PoolTypes, WorkerTypes, Spots,
                            LockTypes
  <2>3. CallTypes' /\ \A t \in Threads : Place(t)'
    BY <1>0, <2>1, ReturnTypes DEF Flow, Place
  <2>4. \A t \in Threads : call[t] \in {"none", "attach"}
    BY <1>0, <1>3, ThreadSets DEF PushWorkerFails, Flow, Phase, PoolTypes
  <2>5. \A t \in Threads : call'[t] = "none"
    BY <1>0, <2>1, <2>4, ThreadSets, ReturnTypes DEF Flow, Phase
  <2>6. Phase'
    BY <1>0, <1>3, <2>1, <2>5, ThreadSets DEF PushWorkerFails, poolVars, Flow, Phase
  <2> QED
    BY <2>2, <2>3, <2>6 DEF Flow
<1>4. CASE AttachReturns
  <2>1. Returns(Main) /\ created = N /\ ~freed'
    BY <1>4 DEF AttachReturns
  <2> QED
    BY <1>0, <1>4, <2>1, ReturnTypes, CallFlow
       DEF AttachReturns, workerVars, loopVars, PoolTypes, WorkerTypes, LockTypes
<1>5. CASE StartCall
  <2>1. /\ created = N /\ call' = [call EXCEPT ![Main] = "start"]
        /\ at' = [at EXCEPT ![Main] = "lock"]
        /\ UNCHANGED <<created, attached, rrpos, freed, wstate, signalled, cancelled,
                       owner, pc, arg, tgt, cur, calls>>
        /\ gstate' = "RUN" /\ wpos' = 0 /\ attached /\ ~freed
    BY <1>5 DEF StartCall, workerVars, loopVars, Flow, Phase
  <2>2. PoolTypes' /\ WorkerTypes' /\ LockTypes' /\ CallTypes' /\ Place(Main)'
    BY <1>0, <2>1, ThreadSets DEF PoolTypes, WorkerTypes, LockTypes, CallTypes, Place
  <2> QED
    BY <1>0, <2>1, <2>2, ThreadSets, CallFlow DEF CallTypes
<1>6. CASE StartWorker
  <2>1. /\ call[Main] = "start"
        /\ at' = [at EXCEPT ![Main] = "load"]
        /\ UNCHANGED <<gstate, created, attached, wpos, rrpos, freed, cancelled,
                       pc, call, arg, tgt, cur, calls>>
    BY <1>6 DEF StartWorker, poolVars, loopVars
  <2>2. PoolTypes' /\ WorkerTypes' /\ LockTypes' /\ CallTypes' /\ Place(Main)'
    BY <1>0, <1>6, <2>1, OwnerTypes
       DEF StartWorker, Signal, PoolTypes, WorkerTypes, LockTypes, CallTypes, Place,
           Turning
  <2> QED
    BY <1>0, <2>1, <2>2, ThreadSets, InCall, CallFlow DEF CallTypes
<1>7. CASE StopCall
  <2>1. /\ created = N /\ call' = [call EXCEPT ![Main] = "stop"]
        /\ at' = [at EXCEPT ![Main] = "cancel"]
        /\ UNCHANGED <<created, attached, rrpos, freed, wstate, signalled, cancelled,
                       owner, pc, arg, tgt, cur, calls>>
        /\ gstate' = "STOP" /\ wpos' = 0 /\ attached /\ ~freed
    BY <1>7 DEF StopCall, workerVars, loopVars, Flow, Phase
  <2>2. PoolTypes' /\ WorkerTypes' /\ LockTypes' /\ CallTypes' /\ Place(Main)'
    BY <1>0, <2>1, ThreadSets DEF PoolTypes, WorkerTypes, LockTypes, CallTypes, Place
  <2> QED
    BY <1>0, <2>1, <2>2, ThreadSets, CallFlow DEF CallTypes
<1>8. CASE CancelWorker
  <2>1. /\ call[Main] = "stop"
        /\ at' = [at EXCEPT ![Main] = "load"]
        /\ UNCHANGED <<gstate, created, attached, wpos, rrpos, freed, wstate, signalled,
                       owner, pc, call, arg, tgt, cur, calls>>
    BY <1>8 DEF CancelWorker, poolVars, loopVars
  <2>2. PoolTypes' /\ WorkerTypes' /\ LockTypes' /\ CallTypes' /\ Place(Main)'
    BY <1>0, <1>8, <2>1
       DEF CancelWorker, PoolTypes, WorkerTypes, LockTypes, CallTypes, Place, Turning
  <2> QED
    BY <1>0, <2>1, <2>2, ThreadSets, InCall, CallFlow DEF CallTypes
<1>9. CASE DetachCall
  <2>1. /\ created = N /\ call' = [call EXCEPT ![Main] = "detach"]
        /\ at' = [at EXCEPT ![Main] = "flush"]
        /\ tgt' = [tgt EXCEPT ![Main] = created - 1]
        /\ UNCHANGED <<gstate, created, attached, rrpos, freed, wstate, signalled,
                       cancelled, owner, pc, arg, cur, calls>>
        /\ wpos' = created - 1 /\ attached /\ ~freed
    BY <1>9 DEF DetachCall, workerVars, loopVars, Flow, Phase
  <2>2. created - 1 \in Workers
    BY <2>1, ThreadSets
  <2>3. PoolTypes' /\ WorkerTypes' /\ LockTypes' /\ CallTypes' /\ Place(Main)'
    BY <1>0, <2>1, <2>2 DEF PoolTypes, WorkerTypes, LockTypes, CallTypes, Place
  <2> QED
    BY <1>0, <2>1, <2>3, ThreadSets, CallFlow DEF CallTypes
<1>10. CASE FlushWorker
  <2>1. /\ call[Main] = "detach"
        /\ at' = [at EXCEPT ![Main] = "load"]
        /\ freed' \in BOOLEAN
        /\ UNCHANGED <<gstate, created, attached, wpos, rrpos, wstate, signalled,
                       cancelled, owner, pc, call, arg, tgt, cur, calls>>
    BY <1>10 DEF FlushWorker
  <2>2. PoolTypes' /\ WorkerTypes' /\ LockTypes' /\ CallTypes' /\ Place(Main)'
    BY <1>0, <2>1 DEF PoolTypes, WorkerTypes, LockTypes, CallTypes, Place, Turning
  <2>3. attached' => created = N
    BY <1>0, <2>1, InCall
  <2> QED
    BY <1>0, <2>1, <2>2, <2>3, ThreadSets, InCall, CallFlow DEF CallTypes
<1>11. CASE DetachReturns
  <2>1. /\ call[Main] = "detach"
        /\ at' = [at EXCEPT ![Main] = "over"]
        /\ attached' = FALSE
        /\ UNCHANGED <<gstate, created, wpos, rrpos, freed, wstate, signalled,
                       cancelled, owner, pc, call, arg, tgt, cur, calls>>
    BY <1>11 DEF DetachReturns, workerVars, loopVars
  <2>2. PoolTypes' /\ WorkerTypes' /\ LockTypes' /\ CallTypes' /\ Place(Main)'
    BY <1>0, <2>1 DEF PoolTypes, WorkerTypes, LockTypes, CallTypes, Place
  <2> QED
    BY <1>0, <2>1, <2>2, ThreadSets, InCall, CallFlow DEF CallTypes
<1> QED
  BY <1>1, <1>2, <1>3, <1>4, <1>5, <1>6, <1>7, <1>8, <1>9, <1>10, <1>11 DEF MainNext

LEMMA FlowStep ==
  ASSUME Flow, [Next]_vars
  PROVE  Flow'
<1>1. CASE UNCHANGED vars
  BY <1>1 DEF vars, poolVars, workerVars, loopVars, callVars, Flow, PoolTypes,
              WorkerTypes, LockTypes, CallTypes, Place, Phase
<1> QED
  BY <1>1, MainFlowStep, CallFlowStep, LoopFlowStep DEF Next

----------------------------------------------------------------------------
(* What a step may change.                                                 *)

\* The steps that change a process table or what a worker makes of it.
LEMMA QuietStep ==
  ASSUME [Next]_vars
  PROVE  \/ CreateWorker \/ PushWorkerFails \/ FlushWorker
         \/ \E t \in Threads : InsertProc(t) \/ DeleteProc(t)
         \/ \E w \in Workers : \/ LoopPick(w) \/ LoopPush(w) \/ LoopCall(w)
                               \/ LoopReturn(w) \/ CancelRunning(w)
         \/ UNCHANGED <<proctab, ptr, held, job>>
<1> DEFINE Quiet == UNCHANGED <<proctab, ptr, held, job>>
<1>1. CASE UNCHANGED vars
  BY <1>1 DEF vars, workerVars, loopVars
<1>2. MainNext => CreateWorker \/ PushWorkerFails \/ FlushWorker \/ Quiet
  BY DEF MainNext, CreateWorkerFails, AttachReturns, StartCall, StartWorker, StopCall,
         CancelWorker, DetachCall, DetachReturns, workerVars, loopVars
<1>3. ASSUME NEW t \in Threads, CallNext(t)
      PROVE  InsertProc(t) \/ DeleteProc(t) \/ Quiet
  BY <1>3 DEF CallNext, Call, PickFirst, PickChunk, PickWorker, LockWorker, LockProctab, LockWorktab,
              UnregisterReturns, TestCursor, ReadCursor, WriteCursor, FetchWorker, workerVars, loopVars
<1>4. ASSUME NEW w \in Workers, LoopNext(w)
      PROVE  \/ LoopPick(w) \/ LoopPush(w) \/ LoopCall(w) \/ LoopReturn(w)
             \/ CancelRunning(w) \/ Quiet
  BY <1>4 DEF LoopNext, LoopLock, LoopWait, WakeSignalled, WakeSpuriously, Wake,
              LoopLockProctab, LoopIdle, LoopRelease, LoopCheck, LoopAttr, LoopFlags,
              LoopAttrLock, CancelWaiting, Cleanup, workerVars
<1> QED
  BY <1>1, <1>2, <1>3, <1>4 DEF Next

\* Only a worker itself goes on in its loop, once it is there.
LEMMA PcStep ==
  ASSUME Flow, [Next]_vars
  PROVE  \/ pc' = pc
         \/ (CreateWorker \/ PushWorkerFails) /\ pc' = [pc EXCEPT ![created] = "lock"]
         \/ \E w \in Workers : /\ LoopNext(w) /\ call[w] = "none"
                               /\ \E x \in Spots \ {"unborn"} : pc' = [pc EXCEPT ![w] = x]
<1>1. CASE UNCHANGED vars
  BY <1>1 DEF vars, loopVars
<1>2. MainNext => \/ pc' = pc
                  \/ (CreateWorker \/ PushWorkerFails) /\ pc' = [pc EXCEPT ![created] = "lock"]
  BY DEF MainNext, CreateWorker, PushWorkerFails, CreateWorkerFails, AttachReturns,
         StartCall, StartWorker, StopCall, CancelWorker, DetachCall, FlushWorker, DetachReturns, loopVars
<1>3. ASSUME NEW t \in Threads, CallNext(t) PROVE pc' = pc
  BY <1>3 DEF CallNext, Call, PickFirst, PickChunk, PickWorker, LockWorker, LockProctab, InsertProc,
              LockWorktab, DeleteProc, UnregisterReturns, TestCursor, ReadCursor, WriteCursor, FetchWorker,
              loopVars
<1>4. ASSUME NEW w \in Workers, LoopNext(w)
      PROVE  call[w] = "none" /\ \E x \in Spots \ {"unborn"} : Jumps(w, x)
  BY <1>4 DEF LoopNext, LoopLock, LoopWait, WakeSignalled, WakeSpuriously, Wake,
              LoopLockProctab, LoopPick, LoopIdle, LoopRelease, LoopCheck, LoopAttr, LoopFlags,
              LoopPush, LoopAttrLock, LoopCall, LoopReturn, CancelWaiting,
              CancelRunning, Cleanup, Steps, Spots
<1> QED
  BY <1>1, <1>2, <1>3, <1>4 DEF Next, Jumps

----------------------------------------------------------------------------
(* The process tables, and what the workers hold of them.                  *)

LoopTypes ==
  /\ ptr \in [Workers -> Nat \cup {Dangling}]
  /\ held \in [Workers -> Locks \cup {NoAttr}]
  /\ job \in [Workers -> Procs \cup {Zero}]

\* A worker's pointer is into its table.
Tables ==
  /\ LoopTypes
  /\ proctab = [w \in Workers |-> proctab[w]]
  /\ \A w \in Workers :
       /\ Plain(proctab[w])
       /\ ptr[w] # Dangling => ptr[w] < proctab[w].size /\ pc[w] # "unborn"

LEMMA ReadsTypes ==
  ASSUME Tables, NEW w \in Workers
  PROVE  \A e \in Reads(w) :
           e # Zero => e \in Procs /\ e.attr \in Locks \cup {NoAttr}
<1>0. \A p \in Procs : p.attr \in Locks \cup {NoAttr}
  BY PoolAssumption
<1>1. CASE ptr[w] = Dangling
  BY <1>0, <1>1 DEF Reads
<1>2. CASE ptr[w] # Dangling
  <2>1. ptr[w] \in Nat /\ ptr[w] < proctab[w].size /\ proctab[w].size \in Nat
    BY <1>2, PlainTable DEF Tables, LoopTypes
  <2>2. proctab[w].cells[ptr[w]] \in Procs \cup {Zero}
    BY <2>1, PlainTable DEF Tables
  <2> QED
    BY <1>0, <1>2, <2>2 DEF Reads
<1> QED
  BY <1>1, <1>2

LEMMA TablesInit == Init => Tables
BY CreatedTable DEF Init, Tables, LoopTypes

LEMMA TablesStep ==
  ASSUME Flow, Tables, [Next]_vars
  PROVE  Tables'
<1>0. /\ \A w \in Workers : Plain(proctab[w]) /\ proctab[w].size \in Nat
      /\ Dangling \notin Nat
  BY PlainTable, PoolAssumption DEF Tables
<1>1. ASSUME NEW w \in Workers, pc'[w] = "unborn" PROVE pc[w] = "unborn"
  BY <1>1, PcStep DEF Flow, WorkerTypes
\* One table has changed, or none.
<1>2. ASSUME NEW w \in Workers, NEW u, Plain(u), proctab' = [proctab EXCEPT ![w] = u],
             LoopTypes', \A v \in Workers \ {w} : ptr'[v] = ptr[v],
             ptr'[w] # Dangling => ptr'[w] < u.size /\ pc'[w] # "unborn"
      PROVE  Tables'
  <2>1. \A v \in Workers : proctab'[v] = IF v = w THEN u ELSE proctab[v]
    BY <1>2 DEF Tables
  <2> QED
    BY <1>1, <1>2, <2>1 DEF Tables
<1>3. ASSUME UNCHANGED <<proctab, ptr>>, LoopTypes' PROVE Tables'
  BY <1>1, <1>3 DEF Tables
<1>4. CASE CreateWorker \/ PushWorkerFails
  <2>1. /\ created \in Workers /\ pc[created] = "unborn"
        /\ proctab' = [proctab EXCEPT ![created] = PT!Created(ProcTabSize, {})]
        /\ UNCHANGED <<ptr, held, job>>
    BY <1>4, ThreadSets DEF CreateWorker, PushWorkerFails, In, Flow, Phase, PoolTypes
  <2> QED
    BY <1>2, <2>1, CreatedTable DEF Tables, LoopTypes
<1>5. CASE FlushWorker
  <2>1. /\ tgt[Main] \in Workers
        /\ proctab' = [proctab EXCEPT ![tgt[Main]] = PT!Destroy(proctab[tgt[Main]]).t]
        /\ ptr' = [ptr EXCEPT ![tgt[Main]] = Dangling]
        /\ UNCHANGED <<held, job>>
    BY <1>5, ThreadSets DEF FlushWorker, Flow, CallTypes
  <2>2. LoopTypes' /\ ptr'[tgt[Main]] = Dangling
        /\ \A v \in Workers \ {tgt[Main]} : ptr'[v] = ptr[v]
    BY <2>1 DEF Tables, LoopTypes
  <2> QED
    BY <1>0, <1>2, <2>1, <2>2, DestroyedTable
<1>6. ASSUME NEW t \in Threads, InsertProc(t) PROVE Tables'
  <2> DEFINE w == tgt[t]
  <2>1. w \in Workers /\ arg[t] \in Procs
    BY <1>6 DEF InsertProc, In, Flow, CallTypes, Place
  <2>2. PICK r \in PT!Insert(proctab[w], arg[t]) :
               /\ proctab' = [proctab EXCEPT ![w] = r.t]
               /\ ptr' = ptr \/ ptr' = [ptr EXCEPT ![w] = Dangling]
    BY <1>6 DEF InsertProc
  <2>3. Plain(r.t) /\ proctab[w].size <= r.t.size /\ r.t.size \in Nat
    BY <1>0, <2>1, <2>2, InsertedTable, PlainTable
  <2>4. UNCHANGED <<pc, held, job>>
    BY <1>6 DEF InsertProc
  <2> HIDE DEF w
  <2>5. LoopTypes' /\ \A v \in Workers \ {w} : ptr'[v] = ptr[v]
    BY <2>1, <2>2, <2>4 DEF Tables, LoopTypes
  <2>6. ptr'[w] # Dangling => ptr'[w] = ptr[w] /\ ptr[w] \in Nat
    BY <2>1, <2>2 DEF Tables, LoopTypes
  <2> QED
    BY <1>0, <1>2, <2>1, <2>2, <2>3, <2>4, <2>5, <2>6 DEF Tables
<1>7. ASSUME NEW t \in Threads, DeleteProc(t) PROVE Tables'
  <2> DEFINE w == tgt[t]
             s == PT!Search(proctab[w], arg[t])
             u == IF s.at = PT!Null THEN s.t ELSE PT!DelCurrent(s.t).t
  <2>1. w \in Workers /\ proctab' = [proctab EXCEPT ![w] = u] /\ UNCHANGED <<pc, ptr, held, job>>
    BY <1>7 DEF DeleteProc, loopVars, Flow, CallTypes
  <2>2. Plain(u) /\ u.size = proctab[w].size
    BY <1>0, <2>1, DeletedTable
  <2> HIDE DEF w, u
  <2> QED
    BY <1>2, <2>1, <2>2 DEF Tables, LoopTypes
<1>8. ASSUME NEW w \in Workers, LoopPick(w) PROVE Tables'
  <2> DEFINE n == PT!CircularNext(proctab[w])
  <2>1. /\ proctab' = [proctab EXCEPT ![w] = n.t]
        /\ IF n.at = PT!Null THEN ptr' = [ptr EXCEPT ![w] = Dangling]
           ELSE ptr' = [ptr EXCEPT ![w] = n.at]
        /\ UNCHANGED <<held, job>>
        /\ \E x \in {"idle", "release"} : pc' = [pc EXCEPT ![w] = x]
    BY <1>8 DEF LoopPick, PickNext, Jumps
  <2>2. /\ Plain(n.t) /\ n.t.size = proctab[w].size
        /\ n.at # PT!Null => n.at \in PT!Live(proctab[w])
    BY <1>0, NextTable
  <2>3. n.at # PT!Null => n.at \in Nat /\ n.at < n.t.size
    BY <1>0, <2>2, PlainTable
  <2> HIDE DEF n
  <2>4. LoopTypes' /\ (\A v \in Workers \ {w} : ptr'[v] = ptr[v])
        /\ ptr'[w] \in {Dangling, n.at} /\ (n.at = PT!Null => ptr'[w] = Dangling)
    BY <2>1, <2>3 DEF Tables, LoopTypes
  <2>5. pc'[w] # "unborn"
    BY <2>1 DEF Flow, WorkerTypes
  <2> QED
    BY <1>2, <2>1, <2>2, <2>3, <2>4, <2>5
<1>9. ASSUME NEW w \in Workers,
             LoopPush(w) \/ LoopCall(w) \/ LoopReturn(w) \/ CancelRunning(w)
      PROVE  Tables'
  <2>1. UNCHANGED <<proctab, ptr>>
    BY <1>9 DEF LoopPush, LoopCall, LoopReturn, CancelRunning, workerVars
  <2>2. CASE LoopPush(w)
    BY <1>3, <2>1, <2>2, ReadsTypes DEF LoopPush, Tables, LoopTypes
  <2>3. CASE LoopCall(w)
    BY <1>3, <2>1, <2>3, ReadsTypes DEF LoopCall, Tables, LoopTypes
  <2>4. CASE LoopReturn(w) \/ CancelRunning(w)
    BY <1>3, <2>1, <2>4 DEF LoopReturn, CancelRunning, Tables, LoopTypes
  <2> QED
    BY <1>9, <2>2, <2>3, <2>4
<1>10. CASE UNCHANGED <<proctab, ptr, held, job>>
  BY <1>3, <1>10 DEF Tables, LoopTypes
<1> QED
  BY <1>4, <1>5, <1>6, <1>7, <1>8, <1>9, <1>10, QuietStep

\* Every variable keeps its type: in particular no cursor, round-robin position
\* or target is ever that of a worker that does not exist, and every process
\* table stays a table, whatever is registered, unregistered and destroyed.
THEOREM PoolTypeCorrect == Spec => []TypeOK
<1>1. Flow /\ Tables => TypeOK
  <2> SUFFICES ASSUME Flow, Tables PROVE TypeOK
    OBVIOUS
  <2>1. proctab \in [Workers -> PT!Table]
    BY PlainTable DEF Tables
  <2> QED
    BY <2>1 DEF TypeOK, Flow, PoolTypes, WorkerTypes, LockTypes, CallTypes, Tables,
                LoopTypes, Spots
<1> QED
  BY <1>1, FlowInit, FlowStep, TablesInit, TablesStep, PTL DEF Spec

----------------------------------------------------------------------------
(* Waking up.                                                              *)

LEMMA WakeStep ==
  ASSUME Flow, NoLostWakeup, [Next]_vars
  PROVE  NoLostWakeup'
<1>0. WorkerTypes
  BY DEF Flow
<1>1. ASSUME UNCHANGED <<pc, wstate, signalled>> PROVE NoLostWakeup'
  BY <1>1 DEF NoLostWakeup
\* A step that sets the state of one worker, and signals it.
<1>2. ASSUME NEW w \in Workers, UNCHANGED pc,
             \/ signalled' = signalled /\ wstate' = wstate
             \/ signalled' = Signal(w) /\ wstate' = [wstate EXCEPT ![w] = "RUN"]
      PROVE  NoLostWakeup'
  BY <1>0, <1>2 DEF NoLostWakeup, Signal, WorkerTypes
<1>3. CASE UNCHANGED vars
  BY <1>1, <1>3 DEF vars, workerVars, loopVars
<1>4. CASE MainNext
  <2>1. CASE CreateWorker \/ PushWorkerFails
    <3>1. /\ pc' = [pc EXCEPT ![created] = "lock"] /\ signalled' = signalled
          /\ wstate' = [wstate EXCEPT ![created] = "STOP"]
      BY <2>1 DEF CreateWorker, PushWorkerFails
    <3> QED
      BY <1>0, <3>1 DEF NoLostWakeup, WorkerTypes
  <2>2. CASE StartWorker
    BY <1>2, <2>2, ThreadSets DEF StartWorker, loopVars, Flow, CallTypes
  <2>3. CASE ~(CreateWorker \/ PushWorkerFails \/ StartWorker)
    BY <1>1, <1>4, <2>3
       DEF MainNext, CreateWorkerFails, AttachReturns, StartCall, StopCall,
           CancelWorker, DetachCall, FlushWorker, DetachReturns, workerVars, loopVars
  <2> QED
    BY <2>1, <2>2, <2>3
<1>5. ASSUME NEW t \in Threads, CallNext(t) PROVE NoLostWakeup'
  <2>1. CASE InsertProc(t)
    <3>1. /\ tgt[t] \in Workers /\ UNCHANGED pc
          /\ \/ UNCHANGED <<wstate, signalled>>
             \/ /\ wstate' = [wstate EXCEPT ![tgt[t]] = "RUN"]
                /\ signalled' = Signal(tgt[t])
      BY <2>1 DEF InsertProc, Flow, CallTypes
    <3> QED
      BY <1>2, <3>1
  <2>2. CASE ~InsertProc(t)
    BY <1>1, <1>5, <2>2
       DEF CallNext, Call, PickFirst, PickChunk, PickWorker, LockWorker, LockProctab, LockWorktab,
           DeleteProc, UnregisterReturns, TestCursor, ReadCursor, WriteCursor, FetchWorker, workerVars, loopVars
  <2> QED
    BY <2>1, <2>2
<1>6. ASSUME NEW w \in Workers, LoopNext(w) PROVE NoLostWakeup'
  <2>1. \A v \in Workers \ {w} :
          pc'[v] = pc[v] /\ wstate'[v] = wstate[v] /\ signalled'[v] = signalled[v]
    BY <1>0, <1>6
       DEF LoopNext, LoopLock, LoopWait, WakeSignalled, WakeSpuriously, Wake,
           LoopLockProctab, LoopPick, LoopIdle, LoopRelease, LoopCheck, LoopAttr, LoopFlags,
           LoopPush, LoopAttrLock, LoopCall, LoopReturn, CancelWaiting,
           CancelRunning, Cleanup, Jumps, workerVars, WorkerTypes
  <2>2. pc'[w] = "waiting" => wstate'[w] # "RUN"
    BY <1>0, <1>6
       DEF LoopNext, LoopLock, LoopWait, WakeSignalled, WakeSpuriously, Wake,
           LoopLockProctab, LoopPick, LoopIdle, LoopRelease, LoopCheck, LoopAttr, LoopFlags,
           LoopPush, LoopAttrLock, LoopCall, LoopReturn, CancelWaiting,
           CancelRunning, Cleanup, Steps, Jumps, workerVars, WorkerTypes
  <2> QED
    BY <2>1, <2>2 DEF NoLostWakeup
<1> QED
  BY <1>3, <1>4, <1>5, <1>6 DEF Next

\* on_register and on_start wake a worker that waits, and worker_loop starts to
\* wait only with its state tested under the lock: no wakeup falls in between.
THEOREM WakeupsAreNotLost == Spec => []NoLostWakeup
<1>1. Init => NoLostWakeup
  BY DEF Init, NoLostWakeup
<1> QED
  BY <1>1, FlowInit, FlowStep, WakeStep, PTL DEF Spec

----------------------------------------------------------------------------
(* Who holds a lock.                                                       *)

PoolLocks == {WorktabLock} \cup {WorkerLock(w) : w \in Workers}
             \cup {ProctabLock(w) : w \in Workers}

\* Where the code has locked l.
Holds(t, l) ==
  \/ /\ l = WorktabLock
     /\ \/ call[t] = "unregister" /\ at[t] # "worktab"
        \/ call[t] = "register" /\ at[t] = "chunk"
  \/ /\ l = WorkerLock(tgt[t])
     /\ \/ call[t] = "register" /\ at[t] \in {"proctab", "insert"}
        \/ call[t] = "start" /\ at[t] = "set"
  \/ /\ l = ProctabLock(tgt[t])
     /\ \/ call[t] = "register" /\ at[t] = "insert"
        \/ call[t] = "unregister" /\ at[t] = "delete"
  \/ /\ l = WorkerLock(t)
     /\ t \in Workers /\ pc[t] \in {"test", "pick", "idle", "release"}
  \/ l = ProctabLock(t) /\ t \in Workers /\ pc[t] = "pick"

\* A lock is held where the code says so and nowhere else, until its worker
\* has destroyed it.
LockInv ==
  /\ \A l \in PoolLocks : \A t \in Threads :
       /\ owner[l] = t => Holds(t, l)
       /\ Holds(t, l) => owner[l] \in {t, Gone}
  /\ \A w \in Workers :
       owner[WorkerLock(w)] = Gone \/ owner[ProctabLock(w)] = Gone => pc[w] = "dead"

LEMMA LockNames ==
  /\ PoolLocks \subseteq AllLocks /\ WorktabLock \in PoolLocks
  /\ \A w \in Workers : WorkerLock(w) \in PoolLocks /\ ProctabLock(w) \in PoolLocks
  /\ \A v, w : /\ WorkerLock(v) = WorkerLock(w) => v = w
               /\ ProctabLock(v) = ProctabLock(w) => v = w
               /\ AttrLock(v) = AttrLock(w) => v = w
               /\ WorkerLock(v) # ProctabLock(w)
               /\ WorkerLock(v) # WorktabLock /\ ProctabLock(v) # WorktabLock
  /\ \A a \in Locks : AttrLock(a) \in AllLocks
  /\ \A a : AttrLock(a) \notin PoolLocks
BY DEF PoolLocks, AllLocks, WorktabLock, WorkerLock, ProctabLock, AttrLock

LEMMA LockTaken ==
  ASSUME Flow, LockInv, NEW t \in Threads, NEW k \in PoolLocks,
         CanLock(k), owner' = Lock(t, k),
         \A u \in Threads : \A l \in PoolLocks :
           Holds(u, l)' <=> Holds(u, l) \/ (u = t /\ l = k),
         \A w \in Workers : pc[w] = "dead" => pc'[w] = "dead"
  PROVE  LockInv'
<1>1. \A l \in AllLocks : owner'[l] = IF l = k /\ owner[k] = None THEN t ELSE owner[l]
  BY DEF Lock, Flow, LockTypes
<1>2. ASSUME NEW l \in PoolLocks, NEW u \in Threads
      PROVE  /\ owner'[l] = u => Holds(u, l)'
             /\ Holds(u, l)' => owner'[l] \in {u, Gone}
  BY <1>1, <1>2, LockNames, ThreadSets DEF LockInv, CanLock
<1>3. ASSUME NEW w \in Workers,
             owner'[WorkerLock(w)] = Gone \/ owner'[ProctabLock(w)] = Gone
      PROVE  pc'[w] = "dead"
  BY <1>1, <1>3, LockNames, ThreadSets DEF LockInv
<1> QED
  BY <1>2, <1>3 DEF LockInv

LEMMA LockReleased ==
  ASSUME Flow, LockInv, NEW t \in Threads, NEW L \in SUBSET PoolLocks,
         \A l \in L : Holds(t, l),
         \A l \in PoolLocks :
           owner'[l] = IF l \in L /\ owner[l] # Gone THEN None ELSE owner[l],
         \A u \in Threads : \A l \in PoolLocks :
           Holds(u, l)' <=> Holds(u, l) /\ ~(u = t /\ l \in L),
         \A w \in Workers : pc[w] = "dead" => pc'[w] = "dead"
  PROVE  LockInv'
<1>1. ASSUME NEW l \in PoolLocks, NEW u \in Threads
      PROVE  /\ owner'[l] = u => Holds(u, l)'
             /\ Holds(u, l)' => owner'[l] \in {u, Gone}
  BY <1>1, LockNames, ThreadSets DEF LockInv
<1>2. ASSUME NEW w \in Workers,
             owner'[WorkerLock(w)] = Gone \/ owner'[ProctabLock(w)] = Gone
      PROVE  pc'[w] = "dead"
  BY <1>2, LockNames, ThreadSets DEF LockInv
<1> QED
  BY <1>1, <1>2 DEF LockInv

\* What another thread holds does not change.
LEMMA HoldsKept ==
  ASSUME NEW u \in Threads, call'[u] = call[u], at'[u] = at[u], tgt'[u] = tgt[u],
         u \in Workers => pc'[u] = pc[u]
  PROVE  \A l : Holds(u, l)' <=> Holds(u, l)
BY DEF Holds

LEMMA LockInit == Init => LockInv
<1> SUFFICES ASSUME Init PROVE LockInv
  OBVIOUS
<1>1. \A t \in Threads : \A l : ~Holds(t, l)
  BY ThreadSets DEF Init, Holds
<1>2. \A l \in PoolLocks : owner[l] = None
  BY LockNames DEF Init
<1> QED
  BY <1>1, <1>2, LockNames, ThreadSets DEF LockInv

\* Steps of a call.
LEMMA LockCallStep ==
  ASSUME Flow, LockInv, NEW t \in Threads, CallNext(t)
  PROVE  LockInv'
<1> USE DEF In, Goes
<1>0. /\ CallTypes /\ WorkerTypes /\ LockTypes /\ Place(t)
      /\ tgt[t] \in Workers /\ UNCHANGED pc
  BY DEF Flow, CallTypes, CallNext, Call, PickFirst, PickChunk, PickWorker, LockWorker, LockProctab, InsertProc,
         LockWorktab, DeleteProc, UnregisterReturns, TestCursor, ReadCursor, WriteCursor, FetchWorker, loopVars
<1>1. \A u \in Threads \ {t} :
        call'[u] = call[u] /\ at'[u] = at[u] /\ tgt'[u] = tgt[u]
  BY <1>0 DEF CallTypes, CallNext, Call, PickFirst, PickChunk, PickWorker, LockWorker, LockProctab, InsertProc,
         LockWorktab, DeleteProc, UnregisterReturns, TestCursor, ReadCursor, WriteCursor, FetchWorker, Returns
<1>2. \A u \in Threads \ {t} : \A l : Holds(u, l)' <=> Holds(u, l)
  BY <1>0, <1>1, HoldsKept
<1>3. call[t] \notin {"none", "attach"} /\ t \in Workers => pc[t] = "in"
  BY InCall
<1>4. \A w \in Workers : pc[w] = "dead" => pc'[w] = "dead"
  BY <1>0
<1>5. CASE \/ \E what \in {"register", "unregister"} : Call(t, what)
           \/ PickFirst(t) \/ TestCursor(t) \/ ReadCursor(t) \/ WriteCursor(t)
           \/ FetchWorker(t)
  <2>1. \A l \in PoolLocks : owner'[l] = owner[l]
    BY <1>5 DEF Call, PickFirst, TestCursor, ReadCursor, WriteCursor, FetchWorker
  <2>2. \A l : Holds(t, l)' <=> Holds(t, l)
    <3>1. CASE \E what \in {"register", "unregister"} : Call(t, what)
      BY <1>0, <3>1, ThreadSets DEF Call, MayCall, CallTypes, Holds
    <3>2. CASE PickFirst(t)
      BY <1>0, <1>3, <3>2 DEF PickFirst, CallTypes, Holds
    <3>3. CASE TestCursor(t)
      <4>1. call[t] \in {"unregister", "start", "stop", "detach"} /\ at[t] = "load"
        BY <3>3 DEF TestCursor
      <4>2. CASE call' = call
        <5>1. PICK x \in {"step", "end"} : at' = [at EXCEPT ![t] = x] /\ tgt' = tgt
          BY <1>0, <3>3, <4>1, <4>2 DEF TestCursor, Returns, CallTypes
        <5> QED
          BY <1>0, <1>3, <4>1, <4>2, <5>1 DEF CallTypes, Holds
      <4>3. CASE call' # call
        <5>1. Returns(t) /\ call[t] # "unregister"
          BY <3>3, <4>3 DEF TestCursor
        <5> QED
          BY <1>0, <1>3, <4>1, <5>1 DEF Returns, CallTypes, Holds
      <4> QED
        BY <4>2, <4>3
    <3>4. CASE ReadCursor(t)
      BY <1>0, <1>3, <3>4 DEF ReadCursor, CallTypes, Holds
    <3>5. CASE WriteCursor(t)
      BY <1>0, <1>3, <3>5 DEF WriteCursor, CallTypes, Holds
    <3>6. CASE FetchWorker(t)
      <4>1. /\ call[t] \in {"unregister", "start", "stop", "detach"}
            /\ at[t] = "fetch" /\ call' = call
        BY <3>6 DEF FetchWorker
      <4>2. PICK x \in {"proctab", "lock", "cancel", "flush", "load", "crashed"} :
              at' = [at EXCEPT ![t] = x]
        BY <3>6 DEF FetchWorker
      <4> QED
        BY <1>0, <1>3, <4>1, <4>2 DEF CallTypes, Holds
    <3> QED
      BY <1>5, <3>1, <3>2, <3>3, <3>4, <3>5, <3>6
  <2> DEFINE L == {}
  <2>3. /\ L \in SUBSET PoolLocks /\ \A l \in L : Holds(t, l)
        /\ \A l \in PoolLocks :
             owner'[l] = IF l \in L /\ owner[l] # Gone THEN None ELSE owner[l]
        /\ \A u \in Threads : \A l \in PoolLocks :
             Holds(u, l)' <=> Holds(u, l) /\ ~(u = t /\ l \in L)
    BY <1>2, <2>1, <2>2
  <2> HIDE DEF L
  <2> QED
    BY <1>4, <2>3, LockReleased
<1>12. CASE PickChunk(t)
  <2> DEFINE k == WorktabLock
  <2>1. k \in PoolLocks /\ CanLock(k) /\ owner' = Lock(t, k)
    BY <1>12, LockNames DEF PickChunk
  <2>2. \A l : Holds(t, l)' <=> Holds(t, l) \/ l = k
    BY <1>0, <1>3, <1>12 DEF PickChunk, CallTypes, Holds
  <2> QED
    BY <1>2, <1>4, <2>1, <2>2, LockTaken
<1>13. CASE PickWorker(t)
  <2> DEFINE L == {WorktabLock}
  <2>1. L \subseteq PoolLocks /\ L \subseteq AllLocks
    BY LockNames
  <2>2. \A l \in PoolLocks :
           owner'[l] = IF l \in L /\ owner[l] # Gone THEN None ELSE owner[l]
    BY <1>0, <1>13, <2>1, LockNames DEF PickWorker, Unlock, LockTypes
  <2>3. \A l : Holds(t, l) <=> l \in L
    BY <1>0, <1>3, <1>13 DEF PickWorker, Holds
  <2>4. \A l : ~Holds(t, l)'
    <3>1. /\ call[t] = "register"
          /\ \/ Returns(t)
             \/ call' = call /\ \E x \in {"lock", "crashed"} : at' = [at EXCEPT ![t] = x]
      BY <1>13 DEF PickWorker
    <3>2. CASE Returns(t)
      BY <1>0, <1>3, <3>1, <3>2 DEF Returns, CallTypes, Holds
    <3>3. CASE ~Returns(t)
      BY <1>0, <1>3, <3>1, <3>3 DEF CallTypes, Holds
    <3> QED
      BY <3>2, <3>3
  <2>6. /\ L \in SUBSET PoolLocks /\ \A l \in L : Holds(t, l)
        /\ \A l \in PoolLocks :
             owner'[l] = IF l \in L /\ owner[l] # Gone THEN None ELSE owner[l]
        /\ \A u \in Threads : \A l \in PoolLocks :
             Holds(u, l)' <=> Holds(u, l) /\ ~(u = t /\ l \in L)
    BY <1>2, <2>1, <2>2, <2>3, <2>4
  <2> HIDE DEF L
  <2> QED
    BY <1>4, <2>6, LockReleased
<1>6. CASE LockWorker(t)
  <2> DEFINE k == WorkerLock(tgt[t])
  <2>1. k \in PoolLocks /\ CanLock(k) /\ owner' = Lock(t, k)
    BY <1>0, <1>6, LockNames DEF LockWorker
  <2>2. \A l : Holds(t, l)' <=> Holds(t, l) \/ l = k
    BY <1>0, <1>3, <1>6 DEF LockWorker, CallTypes, Holds
  <2> QED
    BY <1>2, <1>4, <2>1, <2>2, LockTaken
<1>7. CASE LockProctab(t)
  <2> DEFINE k == ProctabLock(tgt[t])
  <2>1. k \in PoolLocks /\ CanLock(k) /\ owner' = Lock(t, k)
    BY <1>0, <1>7, LockNames DEF LockProctab
  <2>2. \A l : Holds(t, l)' <=> Holds(t, l) \/ l = k
    BY <1>0, <1>3, <1>7 DEF LockProctab, CallTypes, Holds
  <2> QED
    BY <1>2, <1>4, <2>1, <2>2, LockTaken
<1>8. CASE LockWorktab(t)
  <2> DEFINE k == WorktabLock
  <2>1. k \in PoolLocks /\ CanLock(k) /\ owner' = Lock(t, k)
    BY <1>8, LockNames DEF LockWorktab
  <2>2. \A l : Holds(t, l)' <=> Holds(t, l) \/ l = k
    BY <1>0, <1>3, <1>8 DEF LockWorktab, CallTypes, Holds
  <2> QED
    BY <1>2, <1>4, <2>1, <2>2, LockTaken
<1>9. CASE InsertProc(t)
  <2> DEFINE L == {WorkerLock(tgt[t]), ProctabLock(tgt[t])}
  <2>1. L \subseteq PoolLocks /\ L \subseteq AllLocks
    BY <1>0, LockNames
  <2>2. \A l \in PoolLocks :
           owner'[l] = IF l \in L /\ owner[l] # Gone THEN None ELSE owner[l]
    BY <1>9, LockNames DEF InsertProc
  <2>3. \A l : Holds(t, l) <=> l \in L
    BY <1>0, <1>3, <1>9, LockNames DEF InsertProc, Holds
  <2>4. \A l : ~Holds(t, l)'
    BY <1>0, <1>3, <1>9, LockNames DEF InsertProc, Returns, CallTypes, Holds
  <2> QED
    BY <1>2, <1>4, <2>1, <2>2, <2>3, <2>4, LockReleased
<1>10. CASE DeleteProc(t)
  <2> DEFINE L == {ProctabLock(tgt[t])}
  <2>1. L \subseteq PoolLocks /\ L \subseteq AllLocks
    BY <1>0, LockNames
  <2>2. \A l \in PoolLocks :
           owner'[l] = IF l \in L /\ owner[l] # Gone THEN None ELSE owner[l]
    BY <1>0, <1>10, <2>1, LockNames DEF DeleteProc, Unlock, LockTypes
  <2>3. \A l : Holds(t, l) <=> l \in L \/ l = WorktabLock
    BY <1>0, <1>3, <1>10 DEF DeleteProc, Holds
  <2>4. \A l : Holds(t, l)' <=> l = WorktabLock
    <3>1. PICK x \in {"end", "load"} : at' = [at EXCEPT ![t] = x]
      BY <1>10 DEF DeleteProc
    <3> QED
      BY <1>0, <1>3, <1>10, <3>1 DEF DeleteProc, CallTypes, Holds
  <2>5. WorktabLock \notin L
    BY LockNames
  <2>6. /\ L \in SUBSET PoolLocks /\ \A l \in L : Holds(t, l)
        /\ \A l \in PoolLocks :
             owner'[l] = IF l \in L /\ owner[l] # Gone THEN None ELSE owner[l]
        /\ \A u \in Threads : \A l \in PoolLocks :
             Holds(u, l)' <=> Holds(u, l) /\ ~(u = t /\ l \in L)
    BY <1>2, <2>1, <2>2, <2>3, <2>4, <2>5
  <2> HIDE DEF L
  <2> QED
    BY <1>4, <2>6, LockReleased
<1>11. CASE UnregisterReturns(t)
  <2> DEFINE L == {WorktabLock}
  <2>1. L \subseteq PoolLocks /\ L \subseteq AllLocks
    BY LockNames
  <2>2. \A l \in PoolLocks :
           owner'[l] = IF l \in L /\ owner[l] # Gone THEN None ELSE owner[l]
    BY <1>0, <1>11, <2>1, LockNames DEF UnregisterReturns, Unlock, LockTypes
  <2>3. \A l : Holds(t, l) <=> l \in L
    BY <1>0, <1>3, <1>11 DEF UnregisterReturns, Holds
  <2>4. \A l : ~Holds(t, l)'
    BY <1>0, <1>3, <1>11 DEF UnregisterReturns, Returns, CallTypes, Holds
  <2>6. /\ L \in SUBSET PoolLocks /\ \A l \in L : Holds(t, l)
        /\ \A l \in PoolLocks :
             owner'[l] = IF l \in L /\ owner[l] # Gone THEN None ELSE owner[l]
        /\ \A u \in Threads : \A l \in PoolLocks :
             Holds(u, l)' <=> Holds(u, l) /\ ~(u = t /\ l \in L)
    BY <1>2, <2>1, <2>2, <2>3, <2>4
  <2> HIDE DEF L
  <2> QED
    BY <1>4, <2>6, LockReleased
<1> QED
  BY <1>5, <1>6, <1>7, <1>8, <1>9, <1>10, <1>11, <1>12, <1>13 DEF CallNext

LEMMA LockMainStep ==
  ASSUME Flow, LockInv, MainNext
  PROVE  LockInv'
<1> USE DEF In, Goes
<1>0. /\ CallTypes /\ WorkerTypes /\ LockTypes /\ Place(Main)
      /\ Main \in Threads /\ Main \notin Workers /\ tgt[Main] \in Workers
  BY ThreadSets DEF Flow, CallTypes
<1>1. \A u \in Threads \ {Main} :
        call'[u] = call[u] /\ at'[u] = at[u] /\ tgt'[u] = tgt[u]
  BY <1>0
     DEF CallTypes, MainNext, CreateWorker, CreateWorkerFails, PushWorkerFails,
         AttachReturns, StartCall, StartWorker, StopCall, CancelWorker, DetachCall,
         FlushWorker, DetachReturns, Returns, callVars
<1>2. /\ \A w \in Workers : pc[w] \notin {"unborn", "dead"} => pc'[w] = pc[w]
      /\ \A w \in Workers : pc[w] = "unborn" => pc'[w] \in {"unborn", "lock"}
      /\ \A w \in Workers : pc[w] = "dead" => pc'[w] = "dead"
  <2>1. CASE CreateWorker \/ PushWorkerFails
    <3>1. created \in Workers /\ pc[created] = "unborn"
      BY <2>1, ThreadSets
         DEF CreateWorker, PushWorkerFails, Flow, Phase, PoolTypes
    <3> QED
      BY <1>0, <2>1, <3>1 DEF CreateWorker, PushWorkerFails, WorkerTypes
  <2>2. CASE ~(CreateWorker \/ PushWorkerFails)
    <3>1. UNCHANGED pc
      BY <2>2
         DEF MainNext, CreateWorkerFails, AttachReturns, StartCall, StartWorker,
             StopCall, CancelWorker, DetachCall, FlushWorker, DetachReturns, loopVars
    <3> QED
      BY <3>1
  <2> QED
    BY <2>1, <2>2
<1>3. \A u \in Threads \ {Main} : \A l : Holds(u, l)' <=> Holds(u, l)
  <2> SUFFICES ASSUME NEW u \in Threads \ {Main}
               PROVE  \A l : Holds(u, l)' <=> Holds(u, l)
    OBVIOUS
  <2>1. u \in Workers
    BY ThreadSets
  <2>2. CASE pc'[u] = pc[u]
    BY <1>1, <2>2, HoldsKept
  <2>3. CASE pc[u] = "unborn" /\ pc'[u] = "lock"
    BY <1>1, <2>1, <2>3 DEF Holds
  <2> QED
    BY <1>2, <2>1, <2>2, <2>3
<1>4. CASE StartWorker
  <2> DEFINE L == {WorkerLock(tgt[Main])}
  <2>1. /\ L \subseteq PoolLocks /\ L \subseteq AllLocks
        /\ \A l \in PoolLocks :
             owner'[l] = IF l \in L /\ owner[l] # Gone THEN None ELSE owner[l]
    BY <1>0, <1>4, LockNames DEF StartWorker, Unlock, LockTypes
  <2>2. /\ \A l : Holds(Main, l) => Holds(Main, l)' \/ l \in L
        /\ \A l : Holds(Main, l)' => Holds(Main, l) /\ l \notin L
        /\ \A l \in L : Holds(Main, l)
    BY <1>0, <1>4, LockNames, ThreadSets DEF StartWorker, Holds, CallTypes
  <2> HIDE DEF L
  <2> QED
    BY <1>0, <1>2, <1>3, <2>1, <2>2, LockReleased
<1>5. CASE ~StartWorker
  <2> DEFINE L == {}
  <2>1. UNCHANGED owner
    BY <1>5
       DEF MainNext, CreateWorker, CreateWorkerFails, PushWorkerFails, AttachReturns,
           StartCall, StopCall, CancelWorker, DetachCall, FlushWorker, DetachReturns
  <2>2. (\A l : ~Holds(Main, l)) /\ (\A l : ~Holds(Main, l)')
    <3>1. /\ call[Main] \in {"none", "attach", "stop", "detach"}
          /\ call'[Main] \in {"none", "attach", "start", "stop", "detach"}
          /\ call'[Main] = "start" => at'[Main] # "set"
      BY <1>0, <1>5
         DEF CallTypes, MainNext, CreateWorker, CreateWorkerFails, PushWorkerFails,
             AttachReturns, StartCall, StopCall, CancelWorker, DetachCall,
             FlushWorker, DetachReturns, Returns, callVars
    <3> QED
      BY <1>0, <3>1 DEF Holds
  <2>3. /\ L \in SUBSET PoolLocks /\ \A l \in L : Holds(Main, l)
        /\ \A l \in PoolLocks :
             owner'[l] = IF l \in L /\ owner[l] # Gone THEN None ELSE owner[l]
        /\ \A u \in Threads : \A l \in PoolLocks :
             Holds(u, l)' <=> Holds(u, l) /\ ~(u = Main /\ l \in L)
    BY <1>3, <2>1, <2>2
  <2> HIDE DEF L
  <2> QED
    BY <1>0, <1>2, <2>3, LockReleased
<1> QED
  BY <1>4, <1>5

\* Steps of a worker's loop.
LEMMA LockLoopStep ==
  ASSUME Flow, LockInv, NEW w \in Workers, LoopNext(w)
  PROVE  LockInv'
<1> USE DEF Steps, Jumps
<1>0. /\ WorkerTypes /\ LockTypes /\ w \in Threads
      /\ WorkerLock(w) \in PoolLocks /\ ProctabLock(w) \in PoolLocks
      /\ WorkerLock(w) # ProctabLock(w) /\ PoolLocks \subseteq AllLocks
      /\ \A a : AttrLock(a) \notin PoolLocks
  BY LockNames, ThreadSets DEF Flow
<1>1. /\ call[w] = "none" /\ UNCHANGED <<call, at, tgt>>
      /\ \A v \in Workers \ {w} : pc'[v] = pc[v]
  BY <1>0
     DEF LoopNext, LoopLock, LoopWait, WakeSignalled, WakeSpuriously, Wake,
         LoopLockProctab, LoopPick, LoopIdle, LoopRelease, LoopCheck, LoopAttr, LoopFlags,
         LoopPush, LoopAttrLock, LoopCall, LoopReturn, CancelWaiting,
         CancelRunning, Cleanup, callVars, WorkerTypes
<1>2. pc[w] # "dead"
  BY DEF LoopNext, LoopLock, LoopWait, WakeSignalled, WakeSpuriously, Wake,
         LoopLockProctab, LoopPick, LoopIdle, LoopRelease, LoopCheck, LoopAttr, LoopFlags,
         LoopPush, LoopAttrLock, LoopCall, LoopReturn, CancelWaiting,
         CancelRunning, Cleanup
<1>3. /\ \A v \in Workers : pc[v] = "dead" => pc'[v] = "dead"
      /\ \A u \in Threads \ {w} : \A l : Holds(u, l)' <=> Holds(u, l)
  BY <1>1, <1>2, HoldsKept
\* What w holds follows from where its loop is.
<1>4. /\ \A l : Holds(w, l) <=>
             \/ l = WorkerLock(w) /\ pc[w] \in {"test", "pick", "idle", "release"}
             \/ l = ProctabLock(w) /\ pc[w] = "pick"
      /\ \A l : Holds(w, l)' <=>
             \/ l = WorkerLock(w) /\ pc'[w] \in {"test", "pick", "idle", "release"}
             \/ l = ProctabLock(w) /\ pc'[w] = "pick"
  BY <1>1 DEF Holds
<1>5. ASSUME NEW L \in SUBSET PoolLocks, \A l \in L : Holds(w, l),
             \A l \in PoolLocks :
               owner'[l] = IF l \in L /\ owner[l] # Gone THEN None ELSE owner[l],
             \A l : Holds(w, l)' <=> Holds(w, l) /\ l \notin L
      PROVE  LockInv'
  BY <1>0, <1>3, <1>5, LockReleased
<1>6. ASSUME NEW k \in PoolLocks, CanLock(k), owner' = Lock(w, k),
             \A l : Holds(w, l)' <=> Holds(w, l) \/ l = k
      PROVE  LockInv'
  BY <1>0, <1>3, <1>6, LockTaken
<1>7. CASE LoopLock(w)
  <2>1. /\ CanLock(WorkerLock(w)) /\ owner' = Lock(w, WorkerLock(w))
        /\ \A l : Holds(w, l)' <=> Holds(w, l) \/ l = WorkerLock(w)
    BY <1>0, <1>4, <1>7 DEF LoopLock, WorkerTypes
  <2> QED
    BY <1>0, <1>6, <2>1
<1>8. CASE LoopLockProctab(w)
  <2>1. /\ CanLock(ProctabLock(w)) /\ owner' = Lock(w, ProctabLock(w))
        /\ \A l : Holds(w, l)' <=> Holds(w, l) \/ l = ProctabLock(w)
    BY <1>0, <1>4, <1>8 DEF LoopLockProctab, WorkerTypes
  <2> QED
    BY <1>0, <1>6, <2>1
<1>9. CASE WakeSignalled(w) \/ WakeSpuriously(w)
  <2>1. /\ CanLock(WorkerLock(w)) /\ owner' = Lock(w, WorkerLock(w))
        /\ \A l : Holds(w, l)' <=> Holds(w, l) \/ l = WorkerLock(w)
    BY <1>0, <1>4, <1>9 DEF WakeSignalled, WakeSpuriously, Wake, WorkerTypes
  <2> QED
    BY <1>0, <1>6, <2>1
<1>10. CASE LoopWait(w)
  <2> DEFINE L == {WorkerLock(w)}
  <2>1. /\ L \in SUBSET PoolLocks /\ \A l \in L : Holds(w, l)
        /\ \A l \in PoolLocks :
             owner'[l] = IF l \in L /\ owner[l] # Gone THEN None ELSE owner[l]
    BY <1>0, <1>4, <1>10 DEF LoopWait, Unlock, LockTypes
  <2>2. \A l : Holds(w, l)' <=> Holds(w, l) /\ l \notin L
    BY <1>0, <1>4, <1>10 DEF LoopWait, WorkerTypes
  <2> HIDE DEF L
  <2> QED
    BY <1>5, <2>1, <2>2
<1>11. CASE LoopPick(w)
  <2> DEFINE L == {ProctabLock(w)}
  <2>1. /\ L \in SUBSET PoolLocks /\ \A l \in L : Holds(w, l)
        /\ \A l \in PoolLocks :
             owner'[l] = IF l \in L /\ owner[l] # Gone THEN None ELSE owner[l]
    BY <1>0, <1>4, <1>11 DEF LoopPick, Unlock, LockTypes
  <2>2. \A l : Holds(w, l)' <=> Holds(w, l) /\ l \notin L
    BY <1>0, <1>4, <1>11 DEF LoopPick, WorkerTypes
  <2> HIDE DEF L
  <2> QED
    BY <1>5, <2>1, <2>2
<1>12. CASE LoopIdle(w)
  <2> DEFINE L == {WorkerLock(w)}
  <2>1. /\ L \in SUBSET PoolLocks /\ \A l \in L : Holds(w, l)
        /\ \A l \in PoolLocks :
             owner'[l] = IF l \in L /\ owner[l] # Gone THEN None ELSE owner[l]
    BY <1>0, <1>4, <1>12 DEF LoopIdle, Unlock, LockTypes
  <2>2. \A l : Holds(w, l)' <=> Holds(w, l) /\ l \notin L
    BY <1>0, <1>4, <1>12 DEF LoopIdle, WorkerTypes
  <2> HIDE DEF L
  <2> QED
    BY <1>5, <2>1, <2>2
<1>13. CASE LoopRelease(w)
  <2> DEFINE L == {WorkerLock(w)}
  <2>1. /\ L \in SUBSET PoolLocks /\ \A l \in L : Holds(w, l)
        /\ \A l \in PoolLocks :
             owner'[l] = IF l \in L /\ owner[l] # Gone THEN None ELSE owner[l]
    BY <1>0, <1>4, <1>13 DEF LoopRelease, Unlock, LockTypes
  <2>2. \A l : Holds(w, l)' <=> Holds(w, l) /\ l \notin L
    BY <1>0, <1>4, <1>13 DEF LoopRelease, WorkerTypes
  <2> HIDE DEF L
  <2> QED
    BY <1>5, <2>1, <2>2
<1>14. CASE \/ LoopCheck(w) \/ LoopAttr(w) \/ LoopFlags(w) \/ LoopPush(w)
           \/ LoopAttrLock(w)
           \/ LoopCall(w) \/ LoopReturn(w) \/ CancelWaiting(w) \/ CancelRunning(w)
  <2> DEFINE L == {}
  <2>1. \A l \in PoolLocks : owner'[l] = owner[l]
    BY <1>0, <1>14
       DEF LoopCheck, LoopAttr, LoopFlags, LoopPush, LoopAttrLock, LoopCall, LoopReturn,
           CancelWaiting, CancelRunning, Lock, Unlock, LockTypes
  <2>2. \A l : Holds(w, l)' <=> Holds(w, l)
    BY <1>0, <1>4, <1>14
       DEF LoopCheck, LoopAttr, LoopFlags, LoopPush, LoopAttrLock, LoopCall, LoopReturn,
           CancelWaiting, CancelRunning, WorkerTypes
  <2>3. /\ L \in SUBSET PoolLocks /\ \A l \in L : Holds(w, l)
        /\ \A l \in PoolLocks :
             owner'[l] = IF l \in L /\ owner[l] # Gone THEN None ELSE owner[l]
        /\ \A l : Holds(w, l)' <=> Holds(w, l) /\ l \notin L
    BY <2>1, <2>2
  <2> HIDE DEF L
  <2> QED
    BY <1>5, <2>3
<1>15. CASE Cleanup(w)
  <2>1. \A l \in PoolLocks :
          owner'[l] = IF l \in {WorkerLock(w), ProctabLock(w)} /\ owner[l] = None
                      THEN Gone ELSE owner[l]
    BY <1>0, <1>15 DEF Cleanup
  <2>2. \A l : Holds(w, l)' <=> Holds(w, l)
    BY <1>0, <1>4, <1>15 DEF Cleanup, WorkerTypes
  <2>3. pc'[w] = "dead"
    BY <1>0, <1>15 DEF Cleanup, WorkerTypes
  <2>4. ASSUME NEW l \in PoolLocks, NEW u \in Threads
        PROVE  /\ owner'[l] = u => Holds(u, l)'
               /\ Holds(u, l)' => owner'[l] \in {u, Gone}
    <3>1. Holds(u, l)' <=> Holds(u, l)
      BY <1>3, <2>2
    <3> QED
      BY <2>1, <2>4, <3>1, ThreadSets DEF LockInv
  <2>5. ASSUME NEW v \in Workers,
               owner'[WorkerLock(v)] = Gone \/ owner'[ProctabLock(v)] = Gone
        PROVE  pc'[v] = "dead"
    BY <1>3, <2>1, <2>3, <2>5, LockNames DEF LockInv
  <2> QED
    BY <2>4, <2>5 DEF LockInv
<1> QED
  BY <1>7, <1>8, <1>9, <1>10, <1>11, <1>12, <1>13, <1>14, <1>15 DEF LoopNext

LEMMA LockStep ==
  ASSUME Flow, LockInv, [Next]_vars
  PROVE  LockInv'
<1>1. CASE UNCHANGED vars
  BY <1>1 DEF vars, loopVars, callVars, LockInv, Holds
<1> QED
  BY <1>1, LockMainStep, LockCallStep, LockLoopStep DEF Next

----------------------------------------------------------------------------
(* Being idle.                                                             *)

\* A worker that is idle, or about to be, has nothing to run.
Resting(w) == wstate[w] = "IDLE" \/ pc[w] = "idle"
IdleInv == \A w \in Workers : Resting(w) => PT!Live(proctab[w]) = {}

LEMMA IdleStep ==
  ASSUME Flow, Tables, LockInv, IdleInv, [Next]_vars
  PROVE  IdleInv'
<1>0. /\ WorkerTypes /\ CallTypes
      /\ \A w \in Workers : Plain(proctab[w])
  BY DEF Flow, Tables
<1>1. ASSUME NEW w \in Workers, NEW u, proctab' = [proctab EXCEPT ![w] = u],
             \A v \in Workers \ {w} : Resting(v)' => Resting(v),
             Resting(w)' => PT!Live(u) = {}
      PROVE  IdleInv'
  <2>1. \A v \in Workers : proctab'[v] = IF v = w THEN u ELSE proctab[v]
    BY <1>1 DEF Tables
  <2> QED
    BY <1>1, <2>1 DEF IdleInv
<1>2. ASSUME UNCHANGED proctab, \A v \in Workers : Resting(v)' => Resting(v)
      PROVE  IdleInv'
  BY <1>2 DEF IdleInv
<1>3. CASE UNCHANGED vars
  BY <1>2, <1>3 DEF vars, workerVars, loopVars, Resting
<1>4. CASE MainNext
  <2>1. CASE CreateWorker \/ PushWorkerFails
    <3>1. created \in Workers
      BY <2>1, ThreadSets DEF CreateWorker, PushWorkerFails, Flow, PoolTypes
    <3>2. /\ proctab' = [proctab EXCEPT ![created] = PT!Created(ProcTabSize, {})]
          /\ \A v \in Workers \ {created} : Resting(v)' => Resting(v)
      BY <1>0, <2>1, <3>1 DEF CreateWorker, PushWorkerFails, WorkerTypes, Resting
    <3> QED
      BY <1>1, <3>1, <3>2, CreatedTable
  <2>2. CASE FlushWorker
    <3>1. /\ tgt[Main] \in Workers
          /\ proctab' = [proctab EXCEPT ![tgt[Main]] = PT!Destroy(proctab[tgt[Main]]).t]
          /\ UNCHANGED <<wstate, pc>>
      BY <1>0, <2>2, ThreadSets DEF FlushWorker, CallTypes
    <3> QED
      BY <1>0, <1>1, <3>1, DestroyedTable DEF Resting
  <2>3. CASE StartWorker
    <3>1. /\ tgt[Main] \in Workers /\ UNCHANGED <<proctab, pc>>
          /\ wstate' = [wstate EXCEPT ![tgt[Main]] = "RUN"]
      BY <1>0, <2>3, ThreadSets DEF StartWorker, CallTypes, loopVars
    <3> QED
      BY <1>0, <1>2, <3>1 DEF WorkerTypes, Resting
  <2>4. CASE ~(CreateWorker \/ PushWorkerFails \/ FlushWorker \/ StartWorker)
    <3>1. UNCHANGED <<proctab, wstate, pc>>
      BY <1>4, <2>4
         DEF MainNext, CreateWorkerFails, AttachReturns, StartCall, StopCall,
             CancelWorker, DetachCall, DetachReturns, workerVars, loopVars
    <3> QED
      BY <1>2, <3>1 DEF Resting
  <2> QED
    BY <2>1, <2>2, <2>3, <2>4
<1>5. ASSUME NEW t \in Threads, CallNext(t) PROVE IdleInv'
  <2>1. CASE InsertProc(t)
    <3>0. PICK w \in Workers : w = tgt[t]
      BY <1>0 DEF CallTypes
    <3>1. arg[t] \in Procs /\ UNCHANGED pc
      BY <2>1 DEF InsertProc, In, Flow, CallTypes, Place
    <3>2. PICK r \in PT!Insert(proctab[w], arg[t]) :
            /\ proctab' = [proctab EXCEPT ![w] = r.t]
            /\ IF r.ok /\ wstate[w] = "IDLE"
               THEN wstate' = [wstate EXCEPT ![w] = "RUN"]
               ELSE wstate' = wstate
      BY <2>1, <3>0 DEF InsertProc
    <3>3. r.ok \in BOOLEAN /\ (~r.ok => PT!Live(r.t) = PT!Live(proctab[w]))
      BY <1>0, <3>1, <3>2, InsertedTable
    \* The worker is not between finding its table empty and saying so: its
    \* lock is held by the thread that registers.
    <3>4. pc[w] # "idle"
      <4>1. Holds(t, WorkerLock(w)) /\ (t = w => pc[w] = "in")
        BY <2>1, <3>0, ThreadSets DEF InsertProc, In, Holds, Flow, Phase
      <4>2. pc[w] = "idle" => Holds(w, WorkerLock(w))
        BY <3>1 DEF Holds
      <4> QED
        BY <3>1, <4>1, <4>2, LockNames, ThreadSets DEF LockInv
    <3>5. \A v \in Workers \ {w} : Resting(v)' => Resting(v)
      BY <1>0, <3>1, <3>2 DEF WorkerTypes, Resting
    <3>6. CASE r.ok = TRUE
      <4>1. IF wstate[w] = "IDLE" THEN wstate' = [wstate EXCEPT ![w] = "RUN"]
            ELSE wstate' = wstate
        BY <3>2, <3>6, Zenon
      <4>2. ~Resting(w)'
        BY <1>0, <3>1, <3>4, <4>1 DEF WorkerTypes, Resting
      <4> QED
        BY <1>1, <3>1, <3>2, <3>5, <4>2
    <3>7. CASE r.ok = FALSE
      <4>1. wstate' = wstate /\ PT!Live(r.t) = PT!Live(proctab[w])
        BY <3>2, <3>3, <3>7
      <4>2. Resting(w)' => Resting(w)
        BY <3>1, <4>1 DEF Resting
      <4>3. Resting(w) => PT!Live(proctab[w]) = {}
        BY <3>1 DEF IdleInv
      <4> QED
        BY <1>1, <3>1, <3>2, <3>5, <4>1, <4>2, <4>3
    <3> QED
      BY <3>3, <3>6, <3>7
  <2>2. CASE DeleteProc(t)
    <3>0. PICK w \in Workers : w = tgt[t]
      BY <1>0 DEF CallTypes
    <3> DEFINE s == PT!Search(proctab[w], arg[t])
               u == IF s.at = PT!Null THEN s.t ELSE PT!DelCurrent(s.t).t
    <3>1. /\ proctab' = [proctab EXCEPT ![w] = u]
          /\ UNCHANGED <<pc, wstate>>
      BY <2>2, <3>0 DEF DeleteProc, loopVars
    <3>2. PT!Live(u) \subseteq PT!Live(proctab[w])
      BY <1>0, <3>1, DeletedTable
    <3> HIDE DEF u
    <3> QED
      BY <1>1, <3>1, <3>2 DEF IdleInv, Resting
  <2>3. CASE ~InsertProc(t) /\ ~DeleteProc(t)
    <3>1. UNCHANGED <<proctab, wstate, pc>>
      BY <1>5, <2>3
         DEF CallNext, Call, PickFirst, PickChunk, PickWorker, LockWorker, LockProctab, LockWorktab,
             UnregisterReturns, TestCursor, ReadCursor, WriteCursor, FetchWorker, workerVars, loopVars
    <3> QED
      BY <1>2, <3>1 DEF Resting
  <2> QED
    BY <2>1, <2>2, <2>3
<1>6. ASSUME NEW w \in Workers, LoopNext(w) PROVE IdleInv'
  <2>1. CASE LoopPick(w)
    <3> DEFINE n == PT!CircularNext(proctab[w])
    <3>1. /\ proctab' = [proctab EXCEPT ![w] = n.t] /\ wstate' = wstate
          /\ \E x \in {"idle", "release"} :
               /\ pc' = [pc EXCEPT ![w] = x]
               /\ n.at # PT!Null => x = "release"
      BY <2>1 DEF LoopPick, PickNext, Jumps
    <3>2. PT!Live(n.t) = PT!Live(proctab[w])
          /\ (n.at = PT!Null => PT!Live(proctab[w]) = {})
      BY <1>0, NextTable
    <3> HIDE DEF n
    <3>3. /\ \A v \in Workers \ {w} : Resting(v)' => Resting(v)
          /\ n.at # PT!Null => (Resting(w)' => Resting(w))
      BY <1>0, <3>1 DEF WorkerTypes, Resting
    <3> QED
      BY <1>1, <3>1, <3>2, <3>3 DEF IdleInv
  <2>2. CASE ~LoopPick(w)
    <3>1. UNCHANGED proctab
      BY <1>6, <2>2
         DEF LoopNext, LoopLock, LoopWait, WakeSignalled, WakeSpuriously, Wake,
             LoopLockProctab, LoopIdle, LoopRelease, LoopCheck, LoopAttr, LoopFlags, LoopPush,
             LoopAttrLock, LoopCall, LoopReturn, CancelWaiting, CancelRunning,
             Cleanup, workerVars
    <3>2. \A v \in Workers \ {w} : wstate'[v] = wstate[v] /\ pc'[v] = pc[v]
      BY <1>0, <1>6, <2>2
         DEF LoopNext, LoopLock, LoopWait, WakeSignalled, WakeSpuriously, Wake,
             LoopLockProctab, LoopIdle, LoopRelease, LoopCheck, LoopAttr, LoopFlags, LoopPush,
             LoopAttrLock, LoopCall, LoopReturn, CancelWaiting, CancelRunning,
             Cleanup, Jumps, workerVars, WorkerTypes
    <3>3. wstate'[w] = wstate[w] \/ pc[w] = "idle"
      BY <1>0, <1>6, <2>2
         DEF LoopNext, LoopLock, LoopWait, WakeSignalled, WakeSpuriously, Wake,
             LoopLockProctab, LoopIdle, LoopRelease, LoopCheck, LoopAttr, LoopFlags, LoopPush,
             LoopAttrLock, LoopCall, LoopReturn, CancelWaiting, CancelRunning,
             Cleanup, Steps, workerVars, WorkerTypes
    <3>4. pc'[w] # "idle"
      BY <1>0, <1>6, <2>2
         DEF LoopNext, LoopLock, LoopWait, WakeSignalled, WakeSpuriously, Wake,
             LoopLockProctab, LoopIdle, LoopRelease, LoopCheck, LoopAttr, LoopFlags, LoopPush,
             LoopAttrLock, LoopCall, LoopReturn, CancelWaiting, CancelRunning,
             Cleanup, Steps, Jumps, WorkerTypes
    <3> QED
      BY <1>2, <3>1, <3>2, <3>3, <3>4 DEF Resting
  <2> QED
    BY <2>1, <2>2
<1> QED
  BY <1>3, <1>4, <1>5, <1>6 DEF Next

\* What holds at all times, whatever the constants.
PoolInv == Flow /\ Tables /\ LockInv /\ IdleInv

LEMMA PoolInvariant == Spec => []PoolInv
<1>1. Init => IdleInv
  BY DEF Init, IdleInv, Resting
<1> QED
  BY <1>1, FlowInit, TablesInit, LockInit, FlowStep, TablesStep, LockStep, IdleStep,
     PTL DEF Spec, PoolInv

\* on_register and worker_loop agree on when a worker is idle: one finds the
\* table empty and sets the state under the same lock as the other adds to it.
THEOREM IdleMeansEmpty == Spec => []IdleHasNoWork
<1>1. PoolInv => IdleHasNoWork
  BY DEF PoolInv, IdleInv, Resting, IdleHasNoWork, Registered
<1> QED
  BY <1>1, PoolInvariant, PTL

----------------------------------------------------------------------------
(* The locks of processes that are not thread-safe.                        *)

\* Only a worker takes the lock of a process, and nothing destroys it.
AttrOwners == \A a \in Locks : owner[AttrLock(a)] \in Workers \cup {None}

\* Steps that are not a worker's own leave the locks of processes alone, and
\* what the workers make of them.
LEMMA AttrQuiet ==
  ASSUME Flow, Tables, [Next]_vars, \A w \in Workers : ~LoopNext(w)
  PROVE  /\ UNCHANGED <<held, job>>
         /\ \A a \in Locks : owner'[AttrLock(a)] = owner[AttrLock(a)]
         /\ \A w \in Workers : pc'[w] = pc[w] \/ (pc[w] = "unborn" /\ pc'[w] = "lock")
<1>0. /\ LockTypes /\ WorkerTypes /\ \A a \in Locks : AttrLock(a) \in AllLocks
      /\ \A a : AttrLock(a) \notin PoolLocks
      /\ \A t \in Threads : tgt[t] \in Workers
      /\ \A v \in Workers : WorkerLock(v) \in PoolLocks /\ ProctabLock(v) \in PoolLocks
      /\ WorktabLock \in PoolLocks
  BY LockNames DEF Flow, CallTypes
<1>1. CASE UNCHANGED vars
  BY <1>1 DEF vars, loopVars
<1>2. CASE MainNext
  <2>1. UNCHANGED <<held, job>>
    BY <1>2
       DEF MainNext, CreateWorker, CreateWorkerFails, PushWorkerFails, AttachReturns,
           StartCall, StartWorker, StopCall, CancelWorker, DetachCall, FlushWorker,
           DetachReturns, loopVars
  <2>2. ASSUME NEW a \in Locks PROVE owner'[AttrLock(a)] = owner[AttrLock(a)]
    BY <1>0, <1>2, <2>2, ThreadSets
       DEF MainNext, CreateWorker, CreateWorkerFails, PushWorkerFails, AttachReturns,
           StartCall, StartWorker, StopCall, CancelWorker, DetachCall, FlushWorker,
           DetachReturns, Unlock, LockTypes
  <2>3. ASSUME NEW w \in Workers
        PROVE  pc'[w] = pc[w] \/ (pc[w] = "unborn" /\ pc'[w] = "lock")
    <3>1. CASE CreateWorker \/ PushWorkerFails
      <4>1. created \in Workers /\ pc[created] = "unborn"
            /\ pc' = [pc EXCEPT ![created] = "lock"]
        BY <3>1, ThreadSets
           DEF CreateWorker, PushWorkerFails, In, Flow, Phase, PoolTypes
      <4> QED
        BY <1>0, <4>1 DEF WorkerTypes
    <3>2. CASE ~(CreateWorker \/ PushWorkerFails)
      BY <1>2, <3>2
         DEF MainNext, CreateWorkerFails, AttachReturns, StartCall, StartWorker,
             StopCall, CancelWorker, DetachCall, FlushWorker, DetachReturns, loopVars
    <3> QED
      BY <3>1, <3>2
  <2> QED
    BY <2>1, <2>2, <2>3
<1>3. ASSUME NEW t \in Threads, CallNext(t)
      PROVE  /\ UNCHANGED <<held, job, pc>>
             /\ \A a \in Locks : owner'[AttrLock(a)] = owner[AttrLock(a)]
  <2>1. UNCHANGED <<held, job, pc>>
    BY <1>3
       DEF CallNext, Call, PickFirst, PickChunk, PickWorker, LockWorker, LockProctab, InsertProc, LockWorktab,
           DeleteProc, UnregisterReturns, TestCursor, ReadCursor, WriteCursor, FetchWorker, loopVars
  <2>2. CASE InsertProc(t)
    BY <1>0, <2>1, <2>2 DEF InsertProc
  <2>3. CASE ~InsertProc(t)
    <3>1. ASSUME NEW a \in Locks PROVE owner'[AttrLock(a)] = owner[AttrLock(a)]
      BY <1>0, <1>3, <2>3, <3>1
         DEF CallNext, Call, PickFirst, PickChunk, PickWorker, LockWorker, LockProctab, LockWorktab,
             DeleteProc, UnregisterReturns, TestCursor, ReadCursor, WriteCursor, FetchWorker, Lock, Unlock,
             LockTypes
    <3> QED
      BY <2>1, <3>1
  <2> QED
    BY <2>2, <2>3
<1> QED
  BY <1>1, <1>2, <1>3 DEF Next

\* A worker's own steps take no lock of a process from another, and leave the
\* other's loop where it is.
LEMMA AttrLoop ==
  ASSUME Flow, Tables, AttrOwners, NEW w \in Workers, LoopNext(w)
  PROVE  /\ AttrOwners'
         /\ \A v \in Workers \ {w} :
              /\ pc'[v] = pc[v] /\ ptr'[v] = ptr[v]
              /\ held'[v] = held[v] /\ job'[v] = job[v]
              /\ \A a \in Locks : owner'[AttrLock(a)] = v => owner[AttrLock(a)] = v
         /\ ~LoopAttrLock(w) =>
              \A a \in Locks : owner'[AttrLock(a)] = w => owner[AttrLock(a)] = w
         /\ ~(LoopReturn(w) \/ CancelRunning(w)) =>
              \A a \in Locks : owner[AttrLock(a)] # None
                                => owner'[AttrLock(a)] = owner[AttrLock(a)]
<1> USE DEF Steps, Jumps
<1>0. /\ LockTypes /\ WorkerTypes /\ LoopTypes
      /\ \A a \in Locks : AttrLock(a) \in AllLocks
      /\ \A a : AttrLock(a) \notin PoolLocks
      /\ WorkerLock(w) \in PoolLocks /\ ProctabLock(w) \in PoolLocks
      /\ \A a, b : AttrLock(a) = AttrLock(b) => a = b
      /\ None \notin Workers /\ Gone \notin Workers /\ None # Gone
  BY LockNames, ThreadSets DEF Flow, Tables
<1>1. \A v \in Workers \ {w} : pc'[v] = pc[v] /\ held'[v] = held[v]
  BY <1>0 DEF LoopNext, LoopLock, LoopWait, WakeSignalled, WakeSpuriously, Wake,
         LoopLockProctab, LoopPick, LoopIdle, LoopRelease, LoopCheck, LoopAttr, LoopFlags,
         LoopPush, LoopAttrLock, LoopCall, LoopReturn, CancelWaiting,
         CancelRunning, Cleanup,
         LoopTypes, WorkerTypes
<1>2. \A v \in Workers \ {w} : ptr'[v] = ptr[v] /\ job'[v] = job[v]
  BY <1>0 DEF LoopNext, LoopLock, LoopWait, WakeSignalled, WakeSpuriously, Wake,
         LoopLockProctab, LoopPick, LoopIdle, LoopRelease, LoopCheck, LoopAttr, LoopFlags,
         LoopPush, LoopAttrLock, LoopCall, LoopReturn, CancelWaiting,
         CancelRunning, Cleanup,
         LoopTypes
<1>3. CASE LoopAttrLock(w)
  <2>1. \/ UNCHANGED owner
        \/ \E b \in Locks : owner' = Lock(w, AttrLock(b))
    BY <1>3, ReadsTypes DEF LoopAttrLock
  <2>2. \A a \in Locks : \/ owner'[AttrLock(a)] = owner[AttrLock(a)]
                        \/ (owner[AttrLock(a)] = None /\ owner'[AttrLock(a)] = w)
    BY <1>0, <2>1 DEF Lock, LockTypes
  <2> QED
    BY <1>0, <1>1, <1>2, <1>3, <2>2 DEF AttrOwners
<1>4. CASE LoopReturn(w) \/ CancelRunning(w)
  <2>1. \A a \in Locks : \/ owner'[AttrLock(a)] = owner[AttrLock(a)]
                        \/ owner'[AttrLock(a)] = None
    BY <1>0, <1>4 DEF LoopReturn, CancelRunning, Unlock, LockTypes
  <2>2. \A a \in Locks : \A v \in Workers :
           owner'[AttrLock(a)] = v => owner[AttrLock(a)] = v
    BY <1>0, <2>1
  <2> QED
    BY <1>0, <1>1, <1>2, <1>4, <2>1, <2>2 DEF AttrOwners
<1>5. CASE ~(LoopAttrLock(w) \/ LoopReturn(w) \/ CancelRunning(w))
  <2>1. ASSUME NEW a \in Locks PROVE owner'[AttrLock(a)] = owner[AttrLock(a)]
    <3>1. CASE Cleanup(w)
      BY <1>0, <2>1, <3>1 DEF Cleanup
    <3>2. CASE ~Cleanup(w)
      BY <1>0, <1>5, <2>1, <3>2
         DEF LoopNext, LoopLock, LoopWait, WakeSignalled, WakeSpuriously, Wake,
             LoopLockProctab, LoopPick, LoopIdle, LoopRelease, LoopCheck, LoopAttr, LoopFlags,
             LoopPush, LoopCall, CancelWaiting, Lock, Unlock, LockTypes
    <3> QED
      BY <3>1, <3>2
  <2> QED
    BY <1>1, <1>2, <2>1 DEF AttrOwners
<1> QED
  BY <1>3, <1>4, <1>5

LEMMA AttrOwnersInvariant == Spec => []AttrOwners
<1>1. Init => AttrOwners
  BY LockNames DEF Init, AttrOwners
<1>2. Flow /\ Tables /\ AttrOwners /\ [Next]_vars => AttrOwners'
  BY AttrQuiet, AttrLoop DEF AttrOwners
<1> QED
  BY <1>1, <1>2, FlowInit, TablesInit, FlowStep, TablesStep, PTL DEF Spec

----------------------------------------------------------------------------
(* Waiting in a circle.                                                    *)

\* Who holds the lock of a process is past taking one.
AttrOrder ==
  \A a \in Locks : \A w \in Workers :
    owner[AttrLock(a)] = w => pc[w] \in {"call", "in", "crashed"}

\* The locks are taken in this order: that of a process; that of the worker
\* table, or of a worker; and that of a process table.
LEMMA LockOrder ==
  ASSUME PoolInv, AttrOwners, AttrOrder, ~freed
  PROVE  NoDeadlock
<1>0. /\ Tables /\ LockInv /\ WorkerTypes
      /\ \A t \in Threads : Place(t) /\ tgt[t] \in Workers
      /\ \A w \in Workers : call[w] # "none" => pc[w] = "in"
  BY DEF PoolInv, Flow, Phase, CallTypes
<1> DEFINE PT1 == {ProctabLock(w) : w \in Workers}
           PT2 == {WorktabLock} \cup {WorkerLock(w) : w \in Workers}
           PT3 == {AttrLock(a) : a \in Locks}
<1>1. \A t \in Threads : Wanted(t) \subseteq PT1 \cup PT2 \cup PT3
  <2> SUFFICES ASSUME NEW t \in Threads PROVE Wanted(t) \subseteq PT1 \cup PT2 \cup PT3
    OBVIOUS
  <2>1. CASE call[t] # "none" \/ t = Main
    BY <1>0, <2>1 DEF Wanted
  <2>2. CASE call[t] = "none" /\ t # Main
    <3>1. t \in Workers
      BY <2>2, ThreadSets
    <3>2. \A e \in Reads(t) : e # Zero /\ e.attr # NoAttr => e.attr \in Locks
      BY <1>0, <3>1, ReadsTypes
    <3> QED
      BY <2>2, <3>1, <3>2 DEF Wanted
  <2> QED
    BY <2>1, <2>2
\* Who holds a process table's lock waits for nothing.
<1>2. ASSUME NEW t \in Threads, NEW l \in PT1, owner[l] = t PROVE Wanted(t) = {}
  <2>1. PICK w \in Workers : l = ProctabLock(w)
    OBVIOUS
  <2>2. Holds(t, l)
    BY <1>0, <1>2, <2>1, LockNames DEF LockInv
  <2>3. \/ call[t] = "register" /\ at[t] = "insert"
        \/ call[t] = "unregister" /\ at[t] = "delete"
        \/ t \in Workers /\ pc[t] = "pick"
    BY <1>0, <2>1, <2>2, LockNames DEF Holds
  <2> QED
    BY <1>0, <2>3, ThreadSets DEF Wanted
\* Who holds the worker table's or a worker's waits for a process table's.
<1>3. ASSUME NEW t \in Threads, NEW l \in PT2, owner[l] = t
      PROVE  Wanted(t) \subseteq PT1
  <2>1. Holds(t, l)
    BY <1>0, <1>3, LockNames DEF LockInv
  <2>2. \A w \in Workers : l # ProctabLock(w)
    BY <1>3, LockNames
  <2>3. \/ call[t] = "unregister" /\ at[t] # "worktab"
        \/ call[t] = "register" /\ at[t] \in {"chunk", "proctab", "insert"}
        \/ call[t] = "start" /\ at[t] = "set"
        \/ t \in Workers /\ pc[t] \in {"test", "pick", "idle", "release"}
    BY <1>0, <2>1, <2>2 DEF Holds
  <2>4. CASE t \in Workers /\ pc[t] \in {"test", "pick", "idle", "release"}
    BY <1>0, <2>4, ThreadSets DEF Wanted
  <2>5. CASE call[t] = "unregister" /\ at[t] # "worktab"
    BY <1>0, <2>5 DEF Wanted, Place, Turning
  <2>6. CASE \/ call[t] = "register" /\ at[t] \in {"chunk", "proctab", "insert"}
             \/ call[t] = "start" /\ at[t] = "set"
    BY <1>0, <2>6 DEF Wanted
  <2> QED
    BY <2>3, <2>4, <2>5, <2>6
\* Who holds a process's waits for one of these, if for any.
<1>4. ASSUME NEW t \in Threads, NEW l \in PT3, owner[l] = t
      PROVE  Wanted(t) \subseteq PT1 \cup PT2
  <2>1. t \in Workers /\ pc[t] \in {"call", "in", "crashed"}
    BY <1>4, ThreadSets DEF AttrOwners, AttrOrder
  <2> QED
    BY <1>0, <2>1, ThreadSets DEF Wanted
<1> SUFFICES ASSUME NEW S \in SUBSET Threads, S # {}
             PROVE  \E t \in S : \A u \in S : ~WaitsFor(t, u)
  BY DEF NoDeadlock
<1>5. CASE \E t \in S : \E l \in PT1 : owner[l] = t
  BY <1>2, <1>5 DEF WaitsFor
<1>6. CASE /\ ~\E t \in S : \E l \in PT1 : owner[l] = t
           /\ \E t \in S : \E l \in PT2 : owner[l] = t
  BY <1>3, <1>6 DEF WaitsFor
<1>7. CASE /\ ~\E t \in S : \E l \in PT1 \cup PT2 : owner[l] = t
           /\ \E t \in S : \E l \in PT3 : owner[l] = t
  BY <1>4, <1>7 DEF WaitsFor
<1>8. CASE ~\E t \in S : \E l \in PT1 \cup PT2 \cup PT3 : owner[l] = t
  BY <1>1, <1>8 DEF WaitsFor
<1> QED
  BY <1>5, <1>6, <1>7, <1>8

\* All the processes that are not thread-safe share one lock.
OneLock == \A a, b \in Locks : a = b

\* With one lock there is no mistaking it, whatever proc points to by now.
OneInv ==
  \A w \in Workers :
    /\ pc[w] = "attrlock" => held[w] # NoAttr
    /\ \A a \in Locks : owner[AttrLock(a)] = w =>
         pc[w] \in {"call", "in", "crashed"} /\ held[w] = a

LEMMA OneStep ==
  ASSUME Flow, Tables, AttrOwners, OneLock, OneInv, [Next]_vars
  PROVE  OneInv'
<1>0. /\ LockTypes /\ WorkerTypes /\ LoopTypes
      /\ \A a \in Locks : AttrLock(a) \in AllLocks
      /\ None \notin Workers /\ NoAttr \notin Locks
  BY LockNames, ThreadSets, PoolAssumption DEF Flow, Tables
<1>1. CASE \A w \in Workers : ~LoopNext(w)
  <2>1. ASSUME NEW w \in Workers
        PROVE  /\ pc'[w] = "attrlock" => pc[w] = "attrlock"
               /\ pc[w] \in {"call", "in", "crashed"} => pc'[w] = pc[w]
    BY <1>1, AttrQuiet
  <2> QED
    BY <1>1, <2>1, AttrQuiet DEF OneInv
<1>2. ASSUME NEW w \in Workers, LoopNext(w) PROVE OneInv'
  <2> DEFINE Good(v) == /\ pc[v] = "attrlock" => held[v] # NoAttr
                        /\ \A a \in Locks : owner[AttrLock(a)] = v =>
                             pc[v] \in {"call", "in", "crashed"} /\ held[v] = a
  <2>1. \A v \in Workers \ {w} : Good(v)'
    BY <1>2, AttrLoop DEF OneInv
  <2>2. Good(w)'
    <3>1. CASE LoopPush(w)
      <4>1. \/ pc'[w] = "crashed"
            \/ pc'[w] = "attrlock" /\ held'[w] # NoAttr
        BY <1>0, <3>1 DEF LoopPush, Jumps, LoopTypes, WorkerTypes
      <4>2. \A a \in Locks : owner'[AttrLock(a)] # w
        BY <1>2, <3>1, AttrLoop DEF LoopPush, LoopAttrLock, Steps, OneInv
      <4> QED
        BY <4>1, <4>2
    <3>2. CASE LoopAttrLock(w)
      <4>1. held[w] \in Locks /\ held' = held
        BY <1>0, <3>2 DEF LoopAttrLock, Steps, LoopTypes, OneInv
      <4>2. pc'[w] \in {"call", "crashed"}
        BY <1>0, <3>2 DEF LoopAttrLock, Jumps, WorkerTypes
      <4> QED
        BY <4>1, <4>2 DEF OneLock
    <3>3. CASE LoopReturn(w) \/ CancelRunning(w)
      <4>1. pc'[w] \in {"lock", "cleanup"}
        BY <1>0, <3>3 DEF LoopReturn, CancelRunning, Jumps, WorkerTypes
      <4>2. \A a \in Locks : owner'[AttrLock(a)] # w
        <5> SUFFICES ASSUME NEW a \in Locks, owner'[AttrLock(a)] = w PROVE FALSE
          OBVIOUS
        <5>1. owner[AttrLock(a)] = w
          BY <1>2, <3>3, AttrLoop DEF LoopReturn, CancelRunning, LoopAttrLock, Steps
        <5>2. held[w] = a /\ a # NoAttr
          BY <1>0, <5>1 DEF OneInv
        <5>3. owner' = Unlock(AttrLock(a))
          BY <3>3, <5>2 DEF LoopReturn, CancelRunning
        <5> QED
          BY <1>0, <5>1, <5>3, ThreadSets DEF Unlock, LockTypes
      <4> QED
        BY <4>1, <4>2
    <3>4. CASE LoopCall(w)
      <4>1. pc'[w] \in {"in", "crashed"} /\ held' = held
        BY <1>0, <3>4 DEF LoopCall, Jumps, WorkerTypes
      <4>2. \A a \in Locks : owner'[AttrLock(a)] = w => owner[AttrLock(a)] = w
        BY <1>2, <3>4, AttrLoop DEF LoopCall, LoopAttrLock, Steps
      <4> QED
        BY <4>1, <4>2 DEF OneInv
    <3>5. CASE ~(LoopPush(w) \/ LoopAttrLock(w) \/ LoopReturn(w) \/ CancelRunning(w)
                 \/ LoopCall(w))
      <4>1. /\ pc[w] \notin {"call", "in", "crashed", "attrlock"}
            /\ pc'[w] # "attrlock"
        BY <1>0, <1>2, <3>5
           DEF LoopNext, LoopLock, LoopWait, WakeSignalled, WakeSpuriously, Wake,
               LoopLockProctab, LoopPick, LoopIdle, LoopRelease, LoopCheck, LoopAttr, LoopFlags,
               CancelWaiting, Cleanup, Steps, Jumps, WorkerTypes
      <4>2. \A a \in Locks : owner'[AttrLock(a)] = w => owner[AttrLock(a)] = w
        BY <1>2, <3>5, AttrLoop
      <4> QED
        BY <4>1, <4>2 DEF OneInv
    <3> QED
      BY <3>1, <3>2, <3>3, <3>4, <3>5
  <2> QED
    BY <2>1, <2>2 DEF OneInv
<1> QED
  BY <1>1, <1>2

\* While the locks of processes are one and the same no threads wait for each
\* other in a circle, whatever the main thread and the processes that run
\* register and unregister, and on whichever workers (proc_worker.c:217).
THEOREM NoCircularWait == OneLock /\ Spec => []NoDeadlock
<1>0. SUFFICES ASSUME OneLock PROVE Spec => []NoDeadlock
  OBVIOUS
<1>1. Init => OneInv
  BY LockNames, ThreadSets DEF Init, OneInv
<1>2. OneInv /\ PoolInv /\ AttrOwners => NoDeadlock
  <2> SUFFICES ASSUME OneInv, PoolInv, AttrOwners PROVE NoDeadlock
    OBVIOUS
  <2>1. AttrOrder
    BY DEF OneInv, AttrOrder
  <2> QED
    BY <2>1, LockOrder DEF NoDeadlock
<1>3. PoolInv /\ AttrOwners /\ OneInv /\ [Next]_vars => OneInv'
  BY <1>0, OneStep DEF PoolInv
<1> QED
  BY <1>1, <1>2, <1>3, PoolInvariant, AttrOwnersInvariant, PTL DEF Spec

----------------------------------------------------------------------------
(* Processes that stay where they are.                                     *)

\* Nothing is unregistered, and no process table has had to grow: what proc
\* points to is, from the time it is picked, the process to run.
Undisturbed ==
  /\ \A t \in Threads : call[t] # "unregister"
  /\ \A w \in Workers : proctab[w].size <= ProcTabSize

Running == call[Main] # "detach" /\ ~freed

\* What proc points to.
Mine(w) == proctab[w].cells[ptr[w]]

HasProc == {"release", "check", "attr", "flags", "push", "attrlock", "call", "in"}
HasHandler == {"attrlock", "call", "in"}

Sound(w) ==
  /\ pc[w] # "unborn" => proctab[w].size >= ProcTabSize
  /\ pc[w] \in HasProc => ptr[w] \in PT!Live(proctab[w])
  /\ pc[w] # "crashed"
  /\ pc[w] \in {"flags", "push", "attrlock"} => Mine(w).attr # NoAttr
  /\ held[w] = IF pc[w] \in HasHandler THEN Mine(w).attr ELSE NoAttr
  /\ pc[w] = "in" => job[w] = Mine(w)
  /\ pc[w] \in {"call", "in"} /\ held[w] # NoAttr => owner[AttrLock(held[w])] = w
  /\ \A a \in Locks : owner[AttrLock(a)] = w => pc[w] \in {"call", "in"} /\ held[w] = a

SteadyInv == Running => \A w \in Workers : Sound(w)

LEMMA ReadsMine ==
  ASSUME Tables, NEW w \in Workers, ptr[w] \in PT!Live(proctab[w])
  PROVE  /\ Reads(w) = {Mine(w)} /\ Mine(w) \in Procs /\ Mine(w) # Zero
         /\ Mine(w).attr \in Locks \cup {NoAttr}
<1>1. Dangling \notin Nat /\ Zero \notin Procs
      /\ \A p \in Procs : p.attr \in Locks \cup {NoAttr}
  BY PoolAssumption
<1>2. ptr[w] \in 0..(proctab[w].size - 1) /\ Mine(w) \in Procs
  BY PlainTable DEF Tables, Mine
<1> QED
  BY <1>1, <1>2 DEF Reads, Mine

LEMMA RunningStays ==
  ASSUME Flow, [Next]_vars, Running'
  PROVE  Running /\ ~FlushWorker
<1>0. CallTypes /\ Main \in Threads /\ Main \notin Workers
  BY ThreadSets DEF Flow
<1>1. CASE UNCHANGED vars
  BY <1>0, <1>1 DEF vars, poolVars, callVars, Running, FlushWorker, In, Flow, Phase,
                    PoolTypes
<1>2. CASE MainNext
  <2>1. CASE FlushWorker
    BY <1>0, <2>1 DEF FlushWorker, In, Running, CallTypes
  <2>2. CASE ~FlushWorker
    BY <1>0, <1>2, <2>2
       DEF MainNext, CreateWorker, CreateWorkerFails, PushWorkerFails, AttachReturns,
           StartCall, StartWorker, StopCall, CancelWorker, DetachCall, DetachReturns,
           In, Running, poolVars, callVars, Returns, CallTypes
  <2> QED
    BY <2>1, <2>2
<1>3. ASSUME NEW t \in Threads, CallNext(t) PROVE Running
  <2>1. ~freed
    BY <1>3
       DEF CallNext, Call, MayCall, PickFirst, PickChunk, PickWorker, LockWorker,
           LockProctab, InsertProc, LockWorktab, DeleteProc, UnregisterReturns,
           TestCursor, ReadCursor, WriteCursor, FetchWorker, In
  <2>2. call[t] = "detach" => call' = call
    BY <1>3
       DEF CallNext, Call, MayCall, PickFirst, PickChunk, PickWorker, LockWorker,
           LockProctab, InsertProc, LockWorktab, DeleteProc, UnregisterReturns,
           TestCursor, ReadCursor, WriteCursor, FetchWorker, In
  <2>3. t # Main => call'[Main] = call[Main]
    BY <1>0, <1>3
       DEF CallNext, Call, PickFirst, PickChunk, PickWorker, LockWorker, LockProctab,
           InsertProc, LockWorktab, DeleteProc, UnregisterReturns, TestCursor,
           ReadCursor, WriteCursor, FetchWorker, Returns, CallTypes
  <2> QED
    BY <2>1, <2>2, <2>3 DEF Running
<1>4. ASSUME NEW w \in Workers, LoopNext(w) PROVE Running
  <2>1. UNCHANGED <<poolVars, callVars>>
    BY <1>4 DEF LoopNext, LoopLock, LoopWait, WakeSignalled, WakeSpuriously, Wake,
             LoopLockProctab, LoopPick, LoopIdle, LoopRelease, LoopCheck, LoopAttr, LoopFlags,
             LoopPush, LoopAttrLock, LoopCall, LoopReturn, CancelWaiting,
             CancelRunning, Cleanup
  <2> QED
    BY <2>1 DEF poolVars, callVars, Running
<1>5. Running
  BY <1>1, <1>2, <1>3, <1>4 DEF Next, Running
<1> QED
  BY <1>5 DEF Running, FlushWorker, In

\* A worker whose loop is where it was, over a table that has lost nothing.
LEMMA SoundStays ==
  ASSUME NEW w \in Workers, Sound(w), pc[w] # "unborn",
         pc'[w] = pc[w], ptr'[w] = ptr[w], held'[w] = held[w], job'[w] = job[w],
         proctab'[w].size >= ProcTabSize,
         \A p \in PT!Live(proctab[w]) :
           /\ p \in PT!Live(proctab'[w])
           /\ proctab'[w].cells[p] = proctab[w].cells[p],
         \A a \in Locks : owner'[AttrLock(a)] = w => owner[AttrLock(a)] = w,
         held[w] # NoAttr /\ owner[AttrLock(held[w])] = w
           => owner'[AttrLock(held[w])] = w
  PROVE  Sound(w)'
<1>1. PT!Live(proctab[w])' = PT!Live(proctab'[w])
  BY DEF PT!Live, PT!IsEmpty, PT!Exists
<1>2. pc[w] \in HasProc => Mine(w)' = Mine(w)
  BY DEF Sound, Mine
<1> QED
  BY <1>1, <1>2 DEF Sound, HasProc, HasHandler

\* Steps that are not a worker's own.
LEMMA SteadyQuiet ==
  ASSUME Flow, Tables, Undisturbed, Undisturbed', Running, Running', [Next]_vars,
         \A w \in Workers : Sound(w), \A w \in Workers : ~LoopNext(w)
  PROVE  \A w \in Workers : Sound(w)'
<1>0. /\ WorkerTypes /\ CallTypes /\ ~FlushWorker
      /\ \A w \in Workers : Plain(proctab[w]) /\ proctab[w].size \in Nat
      /\ ProcTabSize \in Nat
  BY RunningStays, PlainTable, PoolAssumption DEF Flow, Tables
<1>1. /\ UNCHANGED <<held, job>>
      /\ \A a \in Locks : owner'[AttrLock(a)] = owner[AttrLock(a)]
      /\ \A w \in Workers : pc'[w] = pc[w] \/ (pc[w] = "unborn" /\ pc'[w] = "lock")
  BY AttrQuiet
<1> DEFINE Keeps(w) ==
             /\ held'[w] = held[w] /\ job'[w] = job[w]
             /\ \A a \in Locks : owner'[AttrLock(a)] = w => owner[AttrLock(a)] = w
             /\ held[w] # NoAttr /\ owner[AttrLock(held[w])] = w
                  => owner'[AttrLock(held[w])] = w
<1>11. \A w \in Workers : Keeps(w)
  BY <1>1 DEF Tables, LoopTypes
\* No lock of a process is an unborn worker's.
<1>2. ASSUME NEW w \in Workers, pc[w] = "unborn",
             pc'[w] = "unborn" \/ proctab'[w].size >= ProcTabSize
      PROVE  Sound(w)'
  <2>1. held[w] = NoAttr /\ \A a \in Locks : owner[AttrLock(a)] # w
    BY <1>2 DEF Sound, HasHandler
  <2>2. pc'[w] \in {"unborn", "lock"}
    BY <1>1, <1>2
  <2> QED
    BY <1>1, <1>2, <2>1, <2>2 DEF Sound, HasProc, HasHandler
<1>3. ASSUME NEW w \in Workers, proctab'[w] = proctab[w], ptr'[w] = ptr[w],
             pc'[w] = pc[w]
      PROVE  Sound(w)'
  <2>1. CASE pc[w] = "unborn"
    BY <1>2, <1>3, <2>1
  <2>2. CASE pc[w] # "unborn"
    <3>1. proctab'[w].size >= ProcTabSize
      BY <1>3, <2>2 DEF Sound
    <3> QED
      BY <1>3, <1>11, <2>2, <3>1, SoundStays
  <2> QED
    BY <2>1, <2>2
<1>4. CASE CreateWorker \/ PushWorkerFails
  <2>1. /\ created \in Workers /\ pc[created] = "unborn"
        /\ proctab' = [proctab EXCEPT ![created] = PT!Created(ProcTabSize, {})]
        /\ pc' = [pc EXCEPT ![created] = "lock"] /\ UNCHANGED ptr
    BY <1>4, ThreadSets DEF CreateWorker, PushWorkerFails, In, Flow, Phase, PoolTypes
  <2>2. /\ proctab'[created].size = ProcTabSize
        /\ \A w \in Workers \ {created} : proctab'[w] = proctab[w] /\ pc'[w] = pc[w]
    BY <1>0, <2>1, CreatedTable DEF Tables, WorkerTypes
  <2> QED
    BY <1>0, <1>2, <1>3, <2>1, <2>2
<1>5. ASSUME NEW t \in Threads, InsertProc(t) PROVE \A w \in Workers : Sound(w)'
  <2>0. PICK w \in Workers : w = tgt[t]
    BY <1>0 DEF CallTypes
  <2>1. PICK r \in PT!Insert(proctab[w], arg[t]) :
          /\ proctab' = [proctab EXCEPT ![w] = r.t]
          /\ \/ UNCHANGED ptr
             \/ r.t.size # proctab[w].size /\ ptr' = [ptr EXCEPT ![w] = Dangling]
    BY <1>5, <2>0 DEF InsertProc
  <2>2. arg[t] \in Procs /\ UNCHANGED pc /\ created = N
    BY <1>5, InCall DEF InsertProc, In, Flow, CallTypes, Place
  <2>3. /\ proctab[w].size <= r.t.size /\ r.t.size \in Nat
        /\ PT!Live(proctab[w]) \subseteq PT!Live(r.t)
        /\ \A q \in PT!Live(proctab[w]) : r.t.cells[q] = proctab[w].cells[q]
    BY <1>0, <2>1, <2>2, InsertedTable, PlainTable
  <2>4. /\ proctab'[w] = r.t
        /\ \A v \in Workers \ {w} : proctab'[v] = proctab[v] /\ ptr'[v] = ptr[v]
    BY <2>1 DEF Tables, LoopTypes
  <2>5. ASSUME NEW v \in Workers \ {w} PROVE Sound(v)'
    BY <1>3, <2>2, <2>4
  <2>6. Sound(w)'
    <3>1. CASE pc[w] = "unborn"
      BY <1>2, <2>2, <3>1
    <3>2. CASE pc[w] # "unborn"
      <4>1. proctab[w].size >= ProcTabSize
        BY <3>2 DEF Sound
      <4>2. r.t.size <= ProcTabSize
        BY <2>4 DEF Undisturbed
      <4>3. r.t.size = proctab[w].size
        BY <1>0, <2>3, <4>1, <4>2
      <4>4. ptr' = ptr
        BY <2>1, <4>3
      <4> QED
        <5>1. /\ proctab'[w].size >= ProcTabSize /\ pc'[w] = pc[w] /\ ptr'[w] = ptr[w]
              /\ \A p \in PT!Live(proctab[w]) :
                   /\ p \in PT!Live(proctab'[w])
                   /\ proctab'[w].cells[p] = proctab[w].cells[p]
          BY <2>2, <2>3, <2>4, <4>1, <4>3, <4>4
        <5> QED
          BY <1>11, <3>2, <5>1, SoundStays
    <3> QED
      BY <3>1, <3>2
  <2> QED
    BY <2>5, <2>6
<1>6. CASE UNCHANGED <<proctab, ptr>> /\ ~(CreateWorker \/ PushWorkerFails)
  <2>1. pc' = pc
    BY <1>6, PcStep
  <2> QED
    BY <1>3, <1>6, <2>1
<1>7. \A t \in Threads : ~DeleteProc(t)
  BY DEF DeleteProc, In, Undisturbed
<1>8. \A w \in Workers : ~(\/ LoopPick(w) \/ LoopPush(w) \/ LoopCall(w)
                           \/ LoopReturn(w) \/ CancelRunning(w))
  BY DEF LoopNext
<1> QED
  BY <1>0, <1>4, <1>5, <1>6, <1>7, <1>8, QuietStep

\* A step of one worker, for itself.
LEMMA SteadyLoop ==
  ASSUME Flow, Tables, AttrOwners, NEW w \in Workers, LoopNext(w), Sound(w)
  PROVE  Sound(w)'
<1> USE DEF Steps, Jumps
<1>0. /\ LockTypes /\ WorkerTypes /\ LoopTypes
      /\ \A a \in Locks : AttrLock(a) \in AllLocks
      /\ \A a, b \in Locks : AttrLock(a) = AttrLock(b) => a = b
      /\ None \notin Workers /\ Gone \notin Workers /\ NoAttr \notin Locks
      /\ Plain(proctab[w]) /\ PT!Table = PT!Table
      /\ proctab = [v \in Workers |-> proctab[v]]
  BY LockNames, ThreadSets, PoolAssumption DEF Flow, Tables
<1>1. /\ ~LoopAttrLock(w) =>
           \A a \in Locks : owner'[AttrLock(a)] = w => owner[AttrLock(a)] = w
      /\ ~(LoopReturn(w) \/ CancelRunning(w)) =>
           \A a \in Locks : owner[AttrLock(a)] # None
                             => owner'[AttrLock(a)] = owner[AttrLock(a)]
  BY AttrLoop
<1>2. ptr[w] \in PT!Live(proctab[w]) =>
        /\ Reads(w) = {Mine(w)} /\ Mine(w) \in Procs /\ Mine(w) # Zero
        /\ Mine(w).attr \in Locks \cup {NoAttr}
  BY ReadsMine
<1>3. CASE LoopPick(w)
  <2> DEFINE n == PT!CircularNext(proctab[w])
  <2>1. /\ proctab'[w] = n.t /\ held' = held /\ pc[w] = "pick"
        /\ \/ pc'[w] = "idle"
           \/ pc'[w] = "release" /\ n.at # PT!Null /\ ptr'[w] = n.at
    BY <1>0, <1>3 DEF LoopPick, PickNext, WorkerTypes, LoopTypes
  <2>2. /\ n.t.size = proctab[w].size /\ PT!Live(n.t) = PT!Live(proctab[w])
        /\ n.at # PT!Null => n.at \in PT!Live(proctab[w])
    BY <1>0, NextTable
  <2>3. \A a \in Locks : owner'[AttrLock(a)] # w
    BY <1>1, <2>1 DEF LoopAttrLock, Sound
  <2>4. PT!Live(proctab[w])' = PT!Live(n.t)
    BY <2>1 DEF PT!Live, PT!IsEmpty, PT!Exists
  <2> HIDE DEF n
  <2> QED
    BY <2>1, <2>2, <2>3, <2>4 DEF Sound, HasProc, HasHandler
\* The other steps leave the table and the pointer as they are.
<1>4. ASSUME ~LoopPick(w)
      PROVE  /\ UNCHANGED <<proctab, ptr>>
             /\ PT!Live(proctab[w])' = PT!Live(proctab[w]) /\ Mine(w)' = Mine(w)
  <2>1. UNCHANGED <<proctab, ptr>>
    BY <1>4 DEF LoopNext, LoopLock, LoopWait, WakeSignalled, WakeSpuriously, Wake,
             LoopLockProctab, LoopIdle, LoopRelease, LoopCheck, LoopAttr, LoopFlags,
             LoopPush, LoopAttrLock, LoopCall, LoopReturn, CancelWaiting,
             CancelRunning, Cleanup, workerVars
  <2> QED
    BY <2>1 DEF Mine, PT!Live, PT!IsEmpty, PT!Exists
<1>5. CASE LoopRelease(w) \/ LoopCheck(w) \/ LoopAttr(w) \/ LoopFlags(w)
  <2>1. /\ pc[w] \in {"release", "check", "attr", "flags"} /\ ~LoopPick(w) /\ ~LoopAttrLock(w)
    BY <1>5 DEF LoopRelease, LoopCheck, LoopAttr, LoopFlags, LoopPick, LoopAttrLock
  <2>2. ptr[w] \in PT!Live(proctab[w]) /\ held[w] = NoAttr
    BY <2>1 DEF Sound, HasProc, HasHandler
  <2>3. \A a \in Locks : owner'[AttrLock(a)] # w
    BY <1>1, <2>1 DEF Sound
  <2>5. pc[w] = "flags" => Mine(w).attr # NoAttr
    BY DEF Sound
  <2>4. /\ held'[w] = NoAttr
        /\ \/ pc'[w] \in {"check", "attr"}
           \/ pc'[w] \in {"flags", "push"} /\ Mine(w).attr # NoAttr
           \/ pc'[w] = "call" /\ Mine(w).attr = NoAttr
    BY <2>5, <1>0, <1>2, <1>5, <2>2 DEF LoopRelease, LoopCheck, LoopAttr, LoopFlags, WorkerTypes
  <2> QED
    BY <1>4, <2>1, <2>2, <2>3, <2>4 DEF Sound, HasProc, HasHandler
<1>6. CASE LoopPush(w)
  <2>1. /\ pc[w] = "push" /\ ~LoopPick(w) /\ ~LoopAttrLock(w)
    BY <1>6 DEF LoopPush, LoopPick, LoopAttrLock
  <2>2. ptr[w] \in PT!Live(proctab[w]) /\ Mine(w).attr # NoAttr
    BY <2>1 DEF Sound, HasProc
  <2>3. \A a \in Locks : owner'[AttrLock(a)] # w
    BY <1>1, <2>1 DEF Sound
  <2>4. pc'[w] = "attrlock" /\ held'[w] = Mine(w).attr
    BY <1>0, <1>2, <1>6, <2>2 DEF LoopPush, WorkerTypes, LoopTypes
  <2> QED
    BY <1>4, <2>1, <2>2, <2>3, <2>4 DEF Sound, HasProc, HasHandler
<1>7. CASE LoopAttrLock(w)
  <2>1. pc[w] = "attrlock" /\ ~LoopPick(w) /\ held' = held
    BY <1>7 DEF LoopAttrLock, LoopPick
  <2>2. /\ ptr[w] \in PT!Live(proctab[w]) /\ Mine(w).attr # NoAttr
        /\ held[w] = Mine(w).attr
        /\ \A a \in Locks : owner[AttrLock(a)] # w
    BY <2>1 DEF Sound, HasProc, HasHandler
  <2>3. /\ pc'[w] = "call" /\ CanLock(AttrLock(held[w]))
        /\ owner' = Lock(w, AttrLock(held[w])) /\ held[w] \in Locks
    BY <1>0, <1>2, <1>7, <2>2 DEF LoopAttrLock, WorkerTypes
  <2>4. owner[AttrLock(held[w])] = None
    BY <1>0, <2>3 DEF CanLock, AttrOwners
  <2>5. /\ owner'[AttrLock(held[w])] = w
        /\ \A a \in Locks : owner'[AttrLock(a)] = w => a = held[w]
    BY <1>0, <2>2, <2>3, <2>4 DEF Lock, LockTypes
  <2> QED
    BY <1>4, <2>1, <2>2, <2>3, <2>5 DEF Sound, HasProc, HasHandler
<1>8. CASE LoopCall(w)
  <2>1. /\ pc[w] = "call" /\ ~LoopPick(w) /\ ~LoopAttrLock(w) /\ held' = held
        /\ owner' = owner
    BY <1>8 DEF LoopCall, LoopPick, LoopAttrLock
  <2>2. ptr[w] \in PT!Live(proctab[w])
    BY <2>1 DEF Sound, HasProc
  <2>3. pc'[w] = "in" /\ job'[w] = Mine(w)
    BY <1>0, <1>2, <1>8, <2>2 DEF LoopCall, WorkerTypes, LoopTypes
  <2> QED
    BY <1>4, <2>1, <2>2, <2>3 DEF Sound, HasProc, HasHandler
<1>9. CASE LoopReturn(w) \/ CancelRunning(w)
  <2>1. /\ pc[w] = "in" /\ ~LoopPick(w) /\ ~LoopAttrLock(w) /\ held'[w] = NoAttr
        /\ pc'[w] \in {"lock", "cleanup"}
        /\ owner' = IF held[w] = NoAttr THEN owner ELSE Unlock(AttrLock(held[w]))
    BY <1>0, <1>9
       DEF LoopReturn, CancelRunning, LoopPick, LoopAttrLock, WorkerTypes, LoopTypes
  <2>2. ASSUME NEW a \in Locks, owner'[AttrLock(a)] = w PROVE FALSE
    <3>1. owner[AttrLock(a)] = w
      BY <1>1, <2>1, <2>2
    <3>2. held[w] = a /\ a # NoAttr
      BY <1>0, <3>1 DEF Sound
    <3>3. owner' = Unlock(AttrLock(a))
      BY <2>1, <3>2
    <3> QED
      BY <1>0, <2>2, <3>1, <3>3 DEF Unlock, LockTypes
  <2> QED
    BY <1>4, <2>1, <2>2 DEF Sound, HasProc, HasHandler
<1>10. CASE ~\/ LoopPick(w) \/ LoopRelease(w) \/ LoopCheck(w) \/ LoopAttr(w)
             \/ LoopFlags(w) \/ LoopPush(w) \/ LoopAttrLock(w) \/ LoopCall(w) \/ LoopReturn(w)
             \/ CancelRunning(w)
  <2>1. /\ pc[w] \in {"lock", "test", "waiting", "idle", "cleanup"} /\ held' = held
        /\ pc'[w] \notin HasProc \cup {"crashed", "unborn"}
    BY <1>0, <1>10
       DEF LoopNext, LoopLock, LoopWait, WakeSignalled, WakeSpuriously, Wake,
           LoopLockProctab, LoopIdle, CancelWaiting, Cleanup, WorkerTypes, HasProc
  <2>2. held[w] = NoAttr /\ \A a \in Locks : owner'[AttrLock(a)] # w
    BY <1>1, <1>10, <2>1 DEF Sound, HasHandler
  <2> QED
    BY <1>4, <1>10, <2>1, <2>2 DEF Sound, HasProc, HasHandler
<1> QED
  BY <1>3, <1>5, <1>6, <1>7, <1>8, <1>9, <1>10

LEMMA SteadyStep ==
  ASSUME Flow, Tables, AttrOwners, Undisturbed, Undisturbed', SteadyInv, [Next]_vars
  PROVE  SteadyInv'
<1> SUFFICES ASSUME Running' PROVE \A w \in Workers : Sound(w)'
  BY DEF SteadyInv
<1>1. Running /\ \A w \in Workers : Sound(w)
  BY RunningStays DEF SteadyInv
<1>2. CASE \A w \in Workers : ~LoopNext(w)
  BY <1>1, <1>2, SteadyQuiet
<1>3. ASSUME NEW w \in Workers, LoopNext(w), NEW v \in Workers \ {w} PROVE Sound(v)'
  <2>0. /\ LockTypes /\ LoopTypes
        /\ \A a \in Locks : AttrLock(a) \in AllLocks
        /\ \A a, b \in Locks : AttrLock(a) = AttrLock(b) => a = b
        /\ None \notin Workers /\ NoAttr \notin Locks
    BY LockNames, ThreadSets, PoolAssumption DEF Flow, Tables
  <2>1. /\ pc'[v] = pc[v] /\ ptr'[v] = ptr[v]
        /\ held'[v] = held[v] /\ job'[v] = job[v]
        /\ \A a \in Locks : owner'[AttrLock(a)] = v => owner[AttrLock(a)] = v
    BY <1>3, AttrLoop
  <2>2. proctab'[v] = proctab[v]
    <3>1. CASE LoopPick(w)
      BY <3>1 DEF LoopPick, Tables
    <3>2. CASE ~LoopPick(w)
      BY <1>3, <3>2 DEF LoopNext, LoopLock, LoopWait, WakeSignalled, WakeSpuriously, Wake,
             LoopLockProctab, LoopIdle, LoopRelease, LoopCheck, LoopAttr, LoopFlags,
             LoopPush, LoopAttrLock, LoopCall, LoopReturn, CancelWaiting,
             CancelRunning, Cleanup, workerVars
    <3> QED
      BY <3>1, <3>2
  <2>3. held[v] # NoAttr /\ owner[AttrLock(held[v])] = v
          => owner'[AttrLock(held[v])] = v
    <3> SUFFICES ASSUME held[v] # NoAttr, owner[AttrLock(held[v])] = v
                 PROVE  owner'[AttrLock(held[v])] = v
      OBVIOUS
    <3>1. held[v] \in Locks
      BY <2>0 DEF LoopTypes
    <3>2. CASE ~(LoopReturn(w) \/ CancelRunning(w))
      BY <1>3, <2>0, <3>1, <3>2, AttrLoop
    <3>3. CASE LoopReturn(w) \/ CancelRunning(w)
      <4>1. /\ pc[w] = "in"
            /\ owner' = IF held[w] = NoAttr THEN owner ELSE Unlock(AttrLock(held[w]))
        BY <3>3 DEF LoopReturn, CancelRunning, Steps
      <4>2. held[w] # NoAttr => held[w] \in Locks /\ owner[AttrLock(held[w])] = w
        BY <1>1, <2>0, <4>1 DEF LoopTypes, Sound
      <4>3. held[w] # NoAttr => AttrLock(held[w]) # AttrLock(held[v])
        BY <4>2
      <4> QED
        BY <2>0, <3>1, <4>1, <4>3 DEF Unlock, LockTypes
    <3> QED
      BY <3>2, <3>3
  <2>4. CASE pc[v] # "unborn"
    <3>1. Sound(v) /\ proctab'[v].size >= ProcTabSize
      BY <1>1, <2>2, <2>4 DEF Sound
    <3> QED
      BY <2>1, <2>2, <2>3, <2>4, <3>1, SoundStays
  <2>5. CASE pc[v] = "unborn"
    BY <1>1, <2>1, <2>5 DEF Sound, HasProc, HasHandler
  <2> QED
    BY <2>4, <2>5
<1>4. ASSUME NEW w \in Workers, LoopNext(w) PROVE Sound(w)'
  BY <1>1, <1>4, SteadyLoop
<1> QED
  BY <1>2, <1>3, <1>4

LEMMA SteadyInvariant == Spec /\ []Undisturbed => [](SteadyInv /\ PoolInv /\ AttrOwners)
<1>1. Init => SteadyInv
  BY LockNames, ThreadSets DEF Init, SteadyInv, Sound, HasProc, HasHandler
<1>2. /\ PoolInv /\ AttrOwners /\ Undisturbed /\ Undisturbed' /\ SteadyInv
      /\ [Next]_vars
      => SteadyInv'
  BY SteadyStep DEF PoolInv
<1> QED
  BY <1>1, <1>2, PoolInvariant, AttrOwnersInvariant, PTL DEF Spec

\* worker_loop releases, by the handler it has pushed, the very lock it takes,
\* as long as no process moves from the slot that proc points to.
THEOREM LockIsReleased == Spec /\ []Undisturbed => []NTSLockReleased
<1>1. SteadyInv => NTSLockReleased
  BY DEF SteadyInv, Running, Sound, NTSLockReleased
<1> QED
  BY <1>1, SteadyInvariant, PTL

\* Nor do two workers then run at the same time processes that share a lock.
THEOREM UnsafeExclude == Spec /\ []Undisturbed => []NTSExclusive
<1>1. SteadyInv /\ PoolInv => NTSExclusive
  <2> SUFFICES ASSUME SteadyInv, PoolInv, Running,
                      NEW v \in Workers, NEW w \in Workers, v # w,
                      pc[v] = "in", pc[w] = "in", job[v].attr = job[w].attr,
                      job[v].attr # NoAttr
               PROVE  FALSE
    BY DEF NTSExclusive, Running
  <2>1. /\ held[v] = job[v].attr /\ held[w] = job[v].attr
        /\ owner[AttrLock(held[v])] = v /\ owner[AttrLock(held[w])] = w
    BY DEF SteadyInv, Sound, HasHandler
  <2> QED
    BY <2>1
<1> QED
  BY <1>1, SteadyInvariant, PTL

\* Nor do threads then wait for each other in a circle, whichever locks the
\* processes have, until the pool is detached.
THEOREM NoCircularWaitUndisturbed ==
  Spec /\ []Undisturbed => [](Running => NoDeadlock)
<1>1. SteadyInv /\ PoolInv /\ AttrOwners /\ Running => NoDeadlock
  <2> SUFFICES ASSUME SteadyInv, PoolInv, AttrOwners, Running PROVE NoDeadlock
    OBVIOUS
  <2>1. AttrOrder /\ ~freed
    BY DEF SteadyInv, Sound, Running, AttrOrder
  <2> QED
    BY <2>1, LockOrder
<1> QED
  BY <1>1, SteadyInvariant, PTL
=============================================================================
