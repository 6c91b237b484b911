\* A process is registered after the pool was stopped.
SPECIFICATION Spec
CONSTANTS
  N = 1
  Procs <- SafeProc
  a1 = a1
  Locks = {a1}
  NoAttr = NoAttr
  Main = Main
  None = None
  Gone = Gone
  Dangling = Dangling
  Zero = Zero
  Junk = Junk
  ProcTabSize = 2
  ProcTabMax = 2
  MainCalls = 1
  MainOps = {"register"}
  ProcCalls = 0
  ProcOps = {}
  Stops = TRUE
  Restarts = FALSE
  CreateFaults = FALSE
CHECK_DEADLOCK FALSE
INVARIANT NoGoneWorker
