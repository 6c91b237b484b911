\* A mandatory declaration is not in the file.
SPECIFICATION Spec
CONSTANTS
  Letters = {"C", "M"}
  Options = {"a", "f"}
  Words = {"w", "v"}
  Others = {"/w", "/long"}
  Dashed = {"-1"}
  End = "--"
  NoName = NoName
  NoArg = NoArg
  NoArgs = NoArgs
  Zero = Zero
  Junk = Junk
  SecTabSize = 1
  SecTabMax = 2
  Callers <- Parts
  Calls = 2
  ConfLetter = "C"
  FileOption = "f"
  DefaultFile = DefaultFile
  LongPaths = {"/long"}
  PathMax = 8
  ListSize = 2
  ListMax = 4
  Width <- Bits
  Atoi <- Texts
  Worlds <- FileWorlds
  Blocks = 7
  AllocFaults = FALSE
  HalfFaults = FALSE
INVARIANTS MandatoryIsSet
CHECK_DEADLOCK FALSE
