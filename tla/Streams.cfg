SPECIFICATION FairPlannerSpec
CONSTANTS
  github = github
  Jobs = {j1}
  Names = {f1}
  Platforms = {github}
  Labels = {}
  NoFlavor = NoFlavor
  Priorities = {1}
  Minimums = {0}
  JobPlatform <- OnePlatform
  JobLabels <- NoLabel
  FlavorPlatform = github
  Watched = f1
  Pressures = {0, 1}
  Missing = Missing
  Capacity = 2
  Others = 2
  MaxChanges = 3
CHECK_DEADLOCK FALSE
INVARIANTS NoChangeMissed
PROPERTIES ImplementsStream CatchesUp DeafStreamEnds ListenerReleased
