\* A module whose name is one letter after the prefix.
SPECIFICATION Spec
CONSTANTS
  ProcModules = {p1, p2}
  DebugModules = {d1}
  CoreModules = {}
  OneLetter = {p1}
  Unhookable = {}
  Zero = Zero
  Junk = Junk
  NoCore = NoCore
  Unknown = Unknown
  ModTabSize = 1
  ModTabMax = 3
  CorTabSize = 1
  CorTabMax = 2
  HookTabSize = 1
  HookTabMax = 2
  Unregisters = {}
INVARIANT FullNameFound
CHECK_DEADLOCK FALSE
