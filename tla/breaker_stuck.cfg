\* Requests that take a probe slot may leave without a Record: half-open never ends.
CONSTANTS
  h1 = h1
  h2 = h2
  Handlers = {h1, h2}
  HalfOpenCalls = 2
  OpenSecs = 2
  WindowSecs = 2
  MinCalls = 1
  RateNum = 1
  RateDen = 2
  Fails = {TRUE, FALSE}
  MaxCalls = 1
SPECIFICATION FairSpec

PROPERTY HalfOpenResolves
