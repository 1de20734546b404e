SPECIFICATION Spec
CONSTANTS
  None = None
  Agents = {p1, p2, p3, p4, p5}
  Founders = {p1, p2, p3, p4, p5}
  Assignments = {a1}
  Keys = {k1}
  Hashes = {h1, h2}
  Callers = {c1, c2}
  PeersPerValidation = 3
  Quorum = 3
  MaxPending = 1
  MaxSettled = 1
  Persistent = TRUE
  RiskScoring = TRUE
  Registries = {TRUE}
  MaxRotations = 1
  MaxStamps = 1
  MaxRestarts = 0
  MaxMembership = 0
  MaxFaults = 0
SYMMETRY Symmetry
INVARIANTS
  OneOutcome
PROPERTIES
  KeepsPromise
