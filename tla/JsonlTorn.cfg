SPECIFICATION Spec
CONSTANTS
  Ids = {a, b, c}
  Procs = {p, q}
  None = None
  Tears = {"fragment", "whole"}
  MaxFaults = 2
  MaxTicks = 2
SYMMETRY Symmetry
INVARIANTS
  AckedStays
