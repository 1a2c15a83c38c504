\* One address, every step of its way to the table and back, any of which may
\* fail, and a queue that overflows at the second change.
CONSTANTS
  x = x
  a = a
  IPs = {x}
  Admins = {a}
  QueueMax = 1
  MaxRows = 1
  Keep = 1
  Durations = {1}
  Faults = TRUE
  MaxClock = 2
SPECIFICATION FairSpec
PROPERTIES ExternalUnbanConverges BanGetsWritten
