\* Two requests at a time, one address, one account and one session.
CONSTANTS
  t1 = t1
  t2 = t2
  Requests = {t1, t2}
  s1 = s1
  s2 = s2
  Handles = {s1, s2}
  Accounts = {}
  Token = token
  Versions = 1
  ip1 = ip1
  IPs = {ip1}
  Everyone = everyone
  MaxSessions = 1
  Idle = 2
  Absolute = 3
  Touch = 1
  IPLimit = 1
  IPBlock = 2
  AllLimit = 2
  AllBlock = 1
SPECIFICATION FairSpec
INVARIANTS StoreBounded LateGuessesBounded TouchLag
PROPERTIES NoOldPassword KeptUnlessCause LockOutLasts SessionsEnd LockOutEnds
