\* Two addresses, a list that holds one of them, a queue that overflows.
CONSTANTS
  x = x
  y = y
  a = a
  IPs = {x, y}
  Admins = {a}
  QueueMax = 1
  MaxRows = 1
  Keep = 1
  Durations = {2}
  Faults = TRUE
  MaxClock = 3
SPECIFICATION Spec
INVARIANTS SnapshotExact UnsavedIsCovered RowsBounded
PROPERTY RefusesAsGiven
SYMMETRY Interchangeable
