SPECIFICATION FairSpec
CONSTANTS
  MaxRel = 2
  Flavors = {f1, f2}
  small = small
  capital = capital
  Configs <- MCConfigs
  Lower <- MCLower
  Absent = Absent
  Nothing = Nothing
  Invalid = Invalid
  MaxEdits = 5
  MaxFaults = 1
INVARIANTS TokenKept
PROPERTIES DisableKept Delivered Revoked FlavorsFollow
