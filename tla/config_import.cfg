\* An operator who imports a configuration while a request writes one.
CONSTANTS
  e = e
  f = f
  rl = rl
  nobody = nobody
  p = p
  Editors = {e, f}
  Reloader = rl
  Nobody = nobody
  Ids = {p}
  HistoryKeep = 2
  QuietImports = FALSE
SPECIFICATION Spec
PROPERTY NoSilentOverwrite
