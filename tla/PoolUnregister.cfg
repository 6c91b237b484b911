\* Processes are registered and unregistered, and the tables grow.
SPECIFICATION Spec
CONSTANTS
  N = 2
  Procs <- UnsafeProcs
  a1 = a1
  Locks = {a1}
  NoAttr = NoAttr
  Main = Main
  None = None
  Gone = Gone
  Dangling = Dangling
  Zero = Zero
  Junk = Junk
  ProcTabSize = 1
  ProcTabMax = 2
  MainCalls = 2
  MainOps = {"register", "unregister"}
  ProcCalls = 1
  ProcOps = {"register", "unregister"}
  Stops = TRUE
  Restarts = FALSE
  CreateFaults = FALSE
CHECK_DEADLOCK FALSE
INVARIANTS IdleHasNoWork NoDeadlock
