\* One port that is a route's and a trap's in turn, two reloads at a time.
CONSTANTS
  r = r
  q = q
  s = s
  p = p
  old = old
  Reloaders = {r, q}
  Setters = {s}
  PortNumbers = {p}
  Certs = {old}
SPECIFICATION FairSpec
INVARIANTS SocketsOwned NoWrongServer TrapsFollow
PROPERTY RemovedPortCloses
