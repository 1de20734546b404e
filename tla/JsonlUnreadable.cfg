SPECIFICATION Spec
CONSTANTS
  Ids = {a, b}
  Procs = {p, q}
  None = None
  Tears = {"fragment", "whole"}
  MaxFaults = 2
  MaxTicks = 1
SYMMETRY Symmetry
INVARIANTS StaysReadable
