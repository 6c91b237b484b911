\* A process is registered with user data.
SPECIFICATION Spec
CONSTANTS
  N = 1
  Procs <- DataProcs
  a1 = a1
  Locks = {a1}
  NoAttr = NoAttr
  Main = Main
  None = None
  Gone = Gone
  Dangling = Dangling
  Zero = Zero
  Junk = Junk
  ProcTabSize = 2
  ProcTabMax = 2
  MainCalls = 1
  MainOps = {"register", "unregister"}
  ProcCalls = 0
  ProcOps = {}
  Stops = FALSE
  Restarts = FALSE
  CreateFaults = FALSE
CHECK_DEADLOCK FALSE
INVARIANT RegisteredIsFound
