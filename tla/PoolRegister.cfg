\* Processes are registered by the main thread and by processes.
SPECIFICATION Spec
CONSTANTS
  N = 2
  Procs <- MixedProcs
  a1 = a1
  Locks = {a1}
  NoAttr = NoAttr
  Main = Main
  None = None
  Gone = Gone
  Dangling = Dangling
  Zero = Zero
  Junk = Junk
  ProcTabSize = 3
  ProcTabMax = 3
  MainCalls = 1
  MainOps = {"register"}
  ProcCalls = 1
  ProcOps = {"register"}
  Stops = TRUE
  Restarts = TRUE
  CreateFaults = TRUE
CHECK_DEADLOCK FALSE
INVARIANTS TypeOK NoLostWakeup IdleHasNoWork NoDeadlock NTSExclusive NTSLockReleased
