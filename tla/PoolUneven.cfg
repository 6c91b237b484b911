\* Processes register while on_start goes through the workers.
SPECIFICATION Spec
CONSTANTS
  N = 2
  Procs <- SafeProc
  a1 = a1
  Locks = {a1}
  NoAttr = NoAttr
  Main = Main
  None = None
  Gone = Gone
  Dangling = Dangling
  Zero = Zero
  Junk = Junk
  ProcTabSize = 3
  ProcTabMax = 3
  MainCalls = 1
  MainOps = {"register"}
  ProcCalls = 2
  ProcOps = {"register"}
  Stops = FALSE
  Restarts = FALSE
  CreateFaults = FALSE
CHECK_DEADLOCK FALSE
INVARIANT AssignedEvenly
