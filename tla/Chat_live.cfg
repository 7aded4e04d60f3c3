SPECIFICATION FairSpec
CONSTANTS
  s1 = s1
  t1 = t1
  t2 = t2
  m1 = m1
  o1 = o1
  Sessions = {s1}
  Threads = {t1, t2}
  PeerMsgs = {m1}
  OwnMsgs = {o1}
  Black = {}
  Ttls = {2}
  DefaultTtl = 3
  MaxRecent = 1
  MaxCache = 2
  HasClient = TRUE
  MaxReads = 1
  Failures = FALSE
  None = None
INVARIANTS
  UpstreamBounded
  OneWriteAtATime
PROPERTIES
  HandlersReturn
  QueuedIsSent
CHECK_DEADLOCK FALSE
