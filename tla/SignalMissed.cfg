\* The last signal is unregistered and others are registered.
SPECIFICATION Spec
CONSTANTS
  Signals = {int, term, kill}
  Refused = {kill}
  Handlers = {h1, h2, h3}
  Zero = Zero
  Junk = Junk
  Dangling = Dangling
  SigTabSize = 1
  SigTabMax = 2
  EntTabSize = 2
  EntTabMax = 3
  HandlerOps = {}
  PushesEmptied = TRUE
  AllocFaults = FALSE
  Interrupts = FALSE
  Deliveries = 1
INVARIANT HandledIsRegistered
