\* A process is unregistered while a worker is about to run it.
SPECIFICATION Spec
CONSTANTS
  N = 1
  Procs <- SafeProc
  a1 = a1
  Locks = {a1}
  NoAttr = NoAttr
  Main = Main
  None = None
  Gone = Gone
  Dangling = Dangling
  Zero = Zero
  Junk = Junk
  ProcTabSize = 2
  ProcTabMax = 2
  MainCalls = 2
  MainOps = {"register", "unregister"}
  ProcCalls = 0
  ProcOps = {}
  Stops = FALSE
  Restarts = FALSE
  CreateFaults = FALSE
CHECK_DEADLOCK FALSE
INVARIANT NoGhost
