SPECIFICATION FairSpec
CONSTANTS
  Runners = {r1}
  MaxRaces = 1
CHECK_DEADLOCK FALSE
INVARIANTS NoSilentLeak
PROPERTIES KnownJobSpared EscalationKept ScalesetGoes
