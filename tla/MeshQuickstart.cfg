SPECIFICATION Spec
CONSTANTS
  None = None
  Agents = {p1, p2, p3, p4}
  Founders = {p1, p2, p3, p4}
  Assignments = {a1}
  Keys = {k1}
  Hashes = {h1}
  Callers = {c1}
  PeersPerValidation = 3
  Quorum = 2
  MaxPending = 1
  MaxSettled = 1
  Persistent = FALSE
  RiskScoring = FALSE
  Registries = {TRUE}
  MaxRotations = 0
  MaxStamps = 1
  MaxRestarts = 0
  MaxMembership = 0
  MaxFaults = 0
SYMMETRY Symmetry
INVARIANTS
  QuickstartSettles
