SPECIFICATION FairPathSpec
CONSTANTS
  github = github
  Jobs = {}
  Names = {}
  Platforms = {github}
  Labels = {}
  NoFlavor = NoFlavor
  Priorities = {1}
  Minimums = {0}
  JobPlatform <- NoJob
  JobLabels <- NoLabel
  FlavorPlatform = github
  Consumers = {c1}
  Malformed = {queued, started}
  NoOne = NoOne
  MaxFaults = 1
  MaxDuplicates = 2
  Routable = {queued}
  InProgress = {started}
  Interval = 2
  MaxFailures = 2
INVARIANTS AnsweredIsKept NoneForgotten
PROPERTIES EventsRecorded
