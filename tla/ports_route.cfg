\* A route on a port that was a trap's.
CONSTANTS
  r = r
  s = s
  p = p
  Reloaders = {r}
  Setters = {s}
  PortNumbers = {p}
  Certs = {}
SPECIFICATION Spec
INVARIANT RoutesServed
