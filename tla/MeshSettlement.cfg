SPECIFICATION Spec
CONSTANTS
  None = None
  Agents = {p1, p2, p3, p4}
  Founders = {p1, p2, p3, p4}
  Assignments = {a1}
  Keys = {k1}
  Hashes = {h1, h2}
  Callers = {c1, c2}
  PeersPerValidation = 3
  Quorum = 3
  MaxPending = 1
  MaxSettled = 2
  Persistent = TRUE
  RiskScoring = FALSE
  Registries = {TRUE}
  MaxRotations = 1
  MaxStamps = 1
  MaxRestarts = 1
  MaxMembership = 0
  MaxFaults = 1
SYMMETRY Symmetry
INVARIANTS
  TypeOK
  PendingCounterExact
  OneOutcome
  InstalledRecoverable
  RecoveredIsDurable
  AdoptsTheDurable
PROPERTIES
  InstallsCurrent
  FrozenStays
