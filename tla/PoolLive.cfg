\* Two workers and two processes that make no calls themselves: the main thread
\* registers, starts, stops and detaches.
SPECIFICATION FairSpec
CONSTANTS
  N = 2
  Procs <- SafeProcs
  a1 = a1
  Locks = {a1}
  NoAttr = NoAttr
  Main = Main
  None = None
  Gone = Gone
  Dangling = Dangling
  Zero = Zero
  Junk = Junk
  ProcTabSize = 2
  ProcTabMax = 2
  MainCalls = 3
  MainOps = {"register"}
  ProcCalls = 0
  ProcOps = {}
  Stops = TRUE
  Restarts = FALSE
  CreateFaults = FALSE
CHECK_DEADLOCK FALSE
PROPERTIES RegisteredRuns IdleWorkerEnds
