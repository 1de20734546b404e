SPECIFICATION Spec
CONSTANTS
  Ids = {a, b, c}
  Procs = {p, q}
  None = None
  Tears = {"fragment"}
  MaxFaults = 2
  MaxTicks = 2
SYMMETRY Symmetry
INVARIANTS
  IndexTruthful
PROPERTIES
  LogKeepsPromise
