\* Two requests at a time, every interleaving of their atomic steps.
CONSTANTS
  h1 = h1
  h2 = h2
  Handlers = {h1, h2}
  HalfOpenCalls = 2
  OpenSecs = 2
  WindowSecs = 2
  MinCalls = 1
  RateNum = 1
  RateDen = 2
  Fails = {TRUE, FALSE}
  MaxCalls = 1
SPECIFICATION FairSpec
INVARIANTS TypeOK NeverOverCooled ProbesBounded
PROPERTY OpenEndsWithTraffic
