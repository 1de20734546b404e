SPECIFICATION Spec
CONSTANTS
  None = None
  Agents = {p1, p2, p3, p4}
  Founders = {p1, p2, p3, p4}
  Assignments = {a1, a2}
  Keys = {k1}
  Hashes = {h1}
  Callers = {c1, c2}
  PeersPerValidation = 3
  Quorum = 3
  MaxPending = 2
  MaxSettled = 1
  Persistent = TRUE
  RiskScoring = FALSE
  Registries = {TRUE}
  MaxRotations = 0
  MaxStamps = 1
  MaxRestarts = 0
  MaxMembership = 0
  MaxFaults = 0
SYMMETRY Symmetry
INVARIANTS
  SettledResultAvailable
