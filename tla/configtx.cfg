\* Two requests that write, reloads, imports, crashes; one route that changes.
CONSTANTS
  e = e
  f = f
  rl = rl
  nobody = nobody
  p = p
  Editors = {e, f}
  Reloader = rl
  Nobody = nobody
  Ids = {p}
  HistoryKeep = 2
  QuietImports = TRUE
SPECIFICATION FairSpec
INVARIANT LiveMatchesStore
PROPERTIES ServesInOrder NoSilentOverwrite ReplacedIsKept WritesEnd
