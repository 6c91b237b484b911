\* A module is attached to the proc core.
SPECIFICATION Spec
CONSTANTS
  ProcModules = {p1}
  DebugModules = {d1}
  CoreModules = {}
  OneLetter = {}
  Unhookable = {}
  Zero = Zero
  Junk = Junk
  NoCore = NoCore
  Unknown = Unknown
  ModTabSize = 1
  ModTabMax = 3
  CorTabSize = 1
  CorTabMax = 2
  HookTabSize = 1
  HookTabMax = 2
  Unregisters = {}
INVARIANT ProcHookIsModules
CHECK_DEADLOCK FALSE
