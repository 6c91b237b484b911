\* The pool is stopped and detached.
SPECIFICATION Spec
CONSTANTS
  N = 2
  Procs <- SafeProc
  a1 = a1
  Locks = {a1}
  NoAttr = NoAttr
  Main = Main
  None = None
  Gone = Gone
  Dangling = Dangling
  Zero = Zero
  Junk = Junk
  ProcTabSize = 2
  ProcTabMax = 2
  MainCalls = 0
  MainOps = {"register"}
  ProcCalls = 0
  ProcOps = {}
  Stops = TRUE
  Restarts = FALSE
  CreateFaults = FALSE
CHECK_DEADLOCK FALSE
INVARIANT CleanedBeforeDestroy
