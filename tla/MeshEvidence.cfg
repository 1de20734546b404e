SPECIFICATION Spec
CONSTANTS
  None = None
  Agents = {p1, p2, p3, p4}
  Founders = {p1, p2, p3, p4}
  Assignments = {a1}
  Keys = {k1, k2}
  Hashes = {h1}
  Callers = {c1, c2}
  PeersPerValidation = 3
  Quorum = 3
  MaxPending = 1
  MaxSettled = 1
  Persistent = TRUE
  RiskScoring = FALSE
  Registries = {TRUE, FALSE}
  MaxRotations = 0
  MaxStamps = 1
  MaxRestarts = 1
  MaxMembership = 1
  MaxFaults = 1
SYMMETRY Symmetry
INVARIANTS
  EvidenceBound
PROPERTIES
  KeepsPromise
