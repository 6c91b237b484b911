\* Paths that fill the buffer.
SPECIFICATION Spec
CONSTANTS
  Letters = {"C", "M"}
  Options = {"a", "f"}
  Words = {"w", "v"}
  Others = {"/w", "/long"}
  Dashed = {"-1"}
  End = "--"
  NoName = NoName
  NoArg = NoArg
  NoArgs = NoArgs
  Zero = Zero
  Junk = Junk
  SecTabSize = 1
  SecTabMax = 2
  Callers <- Parts
  Calls = 2
  ConfLetter = "C"
  FileOption = "f"
  DefaultFile = DefaultFile
  LongPaths = {"/long"}
  PathMax = 8
  ListSize = 2
  ListMax = 4
  Width <- Bits
  Atoi <- Texts
  Worlds <- EdgeWorlds
  Blocks = 7
  AllocFaults = TRUE
  HalfFaults = FALSE
INVARIANTS PathTerminated
CHECK_DEADLOCK FALSE
