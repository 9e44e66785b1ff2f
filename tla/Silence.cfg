SPECIFICATION Spec
CONSTANTS
  Units = {u1}
  Providers = {p1, p2}
  NoOne = NoOne
  MaxMints = 1
  MaxEdits = 3
  MaxPasses = 1
CHECK_DEADLOCK FALSE
PROPERTIES SilenceSpares
