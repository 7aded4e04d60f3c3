SPECIFICATION Spec
CONSTANTS
  s1 = s1
  s2 = s2
  t1 = t1
  t2 = t2
  m1 = m1
  m2 = m2
  m3 = m3
  Sessions = {s1, s2}
  Threads = {t1, t2}
  PeerMsgs = {m1, m2, m3}
  OwnMsgs = {}
  Black = {m3}
  Ttls = {1, 3}
  DefaultTtl = 3
  MaxRecent = 2
  MaxCache = 2
  HasClient = FALSE
  MaxReads = 3
  Failures = TRUE
  None = None
SYMMETRY Symmetry
INVARIANTS
  SentOnce
PROPERTY SessionIsFifo
CHECK_DEADLOCK FALSE
