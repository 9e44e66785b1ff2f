SPECIFICATION Spec
CONSTANTS
  u1 = u1
  p1 = p1
  u2 = u2
  Units = {u1, u2}
  Providers = {p1}
  NoOne = NoOne
  MaxMints = 2
  MaxEdits = 3
  MaxPasses = 2
CHECK_DEADLOCK FALSE
SYMMETRY UnitSymmetry
INVARIANTS AdminKnown ProviderHeld RemovedClean
