\* Six modules for a table of three: two of proc, three of debug, one of which is
\* never fit to be hooked, and one that brings a core, for which l_cortab, with
\* room for two, has a place once proc or debug did not get theirs.
SPECIFICATION Spec
CONSTANTS
  ProcModules = {p1, p2}
  DebugModules = {d1, d2, d3}
  CoreModules = {k1}
  OneLetter = {}
  Unhookable = {d3}
  Zero = Zero
  Junk = Junk
  NoCore = NoCore
  Unknown = Unknown
  ModTabSize = 1
  ModTabMax = 3
  CorTabSize = 1
  CorTabMax = 2
  HookTabSize = 1
  HookTabMax = 2
  Unregisters = {d3, k1}
INVARIANTS TypeOK NothingLeftHalf AttachedIsHooked LoneHasOne
SYMMETRY ModuleSymmetry
CHECK_DEADLOCK FALSE
