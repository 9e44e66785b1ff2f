SPECIFICATION Spec
CONSTANTS
  Deadline = 4
  Interval = 2
INVARIANTS RemovedInTime
