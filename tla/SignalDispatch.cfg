\* Handlers unregister themselves while a signal is handled.
SPECIFICATION FairSpec
CONSTANTS
  Signals = {int}
  Refused = {}
  Handlers = {h1, h2, h3}
  Zero = Zero
  Junk = Junk
  Dangling = Dangling
  SigTabSize = 1
  SigTabMax = 1
  EntTabSize = 2
  EntTabMax = 3
  HandlerOps = {"leave"}
  PushesEmptied = FALSE
  AllocFaults = TRUE
  Interrupts = TRUE
  Deliveries = 2
PROPERTIES AllHandlersRun StartsRegistered HandlingEnds
