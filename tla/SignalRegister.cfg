\* Registration, also from handlers.
SPECIFICATION Spec
CONSTANTS
  Signals = {int, term, hup, kill}
  Refused = {kill}
  Handlers = {h1, h2}
  Zero = Zero
  Junk = Junk
  Dangling = Dangling
  SigTabSize = 1
  SigTabMax = 3
  EntTabSize = 1
  EntTabMax = 2
  HandlerOps = {"register", "unregister"}
  PushesEmptied = FALSE
  AllocFaults = TRUE
  Interrupts = TRUE
  Deliveries = 1
INVARIANTS TypeOK MaskIsRegistered NoTableLost HandlerOnce
SYMMETRY NameSymmetry
