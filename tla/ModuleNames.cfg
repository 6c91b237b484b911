\* A module is unregistered before the next one registers.
SPECIFICATION Spec
CONSTANTS
  ProcModules = {p1, p2}
  DebugModules = {d1}
  CoreModules = {}
  OneLetter = {}
  Unhookable = {}
  Zero = Zero
  Junk = Junk
  NoCore = NoCore
  Unknown = Unknown
  ModTabSize = 1
  ModTabMax = 3
  CorTabSize = 1
  CorTabMax = 2
  HookTabSize = 1
  HookTabMax = 2
  Unregisters = {p1}
INVARIANT NamesPresent
CHECK_DEADLOCK FALSE
