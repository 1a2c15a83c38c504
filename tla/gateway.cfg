\* Two requests at a time, four configurations, two clients and a proxy, buckets
\* that are swept when idle for a unit of time.
CONSTANTS
  c1 = c1
  c2 = c2
  c3 = c3
  c4 = c4
  r1 = r1
  r2 = r2
  a1 = a1
  a2 = a2
  proxy = proxy
  nobody = nobody
  pw = pw
  q1 = q1
  q2 = q2
  Requests = {q1, q2}
  Ids = {r1, r2}
  Addresses = {a1, a2, proxy}
  Junk = nobody
  Everyone = everyone
  HostOf <- MCHostOf
  Confs = {c1, c2, c3, c4}
  Conf <- MCConf
  First = c1
  Inputs <- MCInputs
  Unit = 3
  Idle = 0
  MaxSlots = 2
SPECIFICATION Spec
INVARIANTS TypeOK OneTable SweptUnlessRefused
PROPERTIES ImplementsMeter
SYMMETRY Symmetric
CONSTRAINT Apart
CHECK_DEADLOCK FALSE
