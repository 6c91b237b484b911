\* A slot is reused while a worker is between reading the attributes of a
\* process and running it.
SPECIFICATION Spec
CONSTANTS
  N = 2
  Procs <- MixedProcs
  a1 = a1
  Locks = {a1}
  NoAttr = NoAttr
  Main = Main
  None = None
  Gone = Gone
  Dangling = Dangling
  Zero = Zero
  Junk = Junk
  ProcTabSize = 3
  ProcTabMax = 3
  MainCalls = 6
  MainOps = {"register", "unregister"}
  ProcCalls = 0
  ProcOps = {}
  Stops = FALSE
  Restarts = FALSE
  CreateFaults = FALSE
CHECK_DEADLOCK FALSE
INVARIANT NTSExclusive
