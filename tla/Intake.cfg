SPECIFICATION FairSpec
CONSTANTS
  github = github
  Jobs = {j1}
  Names = {f1}
  Platforms = {github}
  Labels = {}
  NoFlavor = NoFlavor
  Priorities = {1}
  Minimums = {0}
  JobPlatform <- OnePlatform
  JobLabels <- NoLabel
  FlavorPlatform = github
  Consumers = {c1, c2}
  Malformed = {junk}
  NoOne = NoOne
  MaxFaults = 2
  MaxDuplicates = 1
CHECK_DEADLOCK FALSE
INVARIANTS TypeOK NothingLost
PROPERTIES ImplementsLedger
