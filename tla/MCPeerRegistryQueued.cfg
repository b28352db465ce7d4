SPECIFICATION Spec
CONSTANTS
  p1 = p1
  p2 = p2
  p3 = p3
  bad = bad
  m1 = m1
  m2 = m2
  None = None
  PeerIds = {p1, p2, p3, bad}
  Multiaddrs = {m1}
  WellFormed = {p1, p2, p3, m1}
  ShortIds = {p1, p2}
  Watchers = {1}
  QueuedUpdates = TRUE
  MaxNodes = 3
  MaxUpdates = 2
CHECK_DEADLOCK FALSE
INVARIANT
  PeersUnique
