SPECIFICATION Spec
CONSTANTS
  None = None
  Agents = {p1, p2, p3}
  Founders = {p1, p2}
  Assignments = {a1, a2}
  Keys = {k1}
  Hashes = {h1, h2}
  Callers = {c1, c2}
  PeersPerValidation = 1
  Quorum = 1
  MaxPending = 1
  MaxSettled = 1
  Persistent = FALSE
  RiskScoring = TRUE
  Registries = {TRUE}
  MaxRotations = 1
  MaxStamps = 1
  MaxRestarts = 0
  MaxMembership = 1
  MaxFaults = 0
SYMMETRY Symmetry
INVARIANTS
  PendingCounterExact
PROPERTIES
  CommitsFresh
