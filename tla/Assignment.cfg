SPECIFICATION StoreSpec
CONSTANTS
  j1 = j1
  j2 = j2
  github = github
  other = other
  large = large
  Jobs = {j1, j2}
  Names = {f1, f2}
  Platforms = {github, other}
  Labels = {large}
  NoFlavor = NoFlavor
  Priorities = {1, 2}
  Minimums = {0}
  JobPlatform <- AllOnGithub
  JobLabels <- OneNeedsLabel
  FlavorPlatform = github
SYMMETRY FlavorSymmetry
INVARIANTS StoreTypeOK DemandPlaced
PROPERTIES StickyAndBest ChangesAnnounced
