SPECIFICATION Spec
CONSTANTS
  Handlers = {h1, h2}
  m1 = m1
  m2 = m2
  m3 = m3
  Replies <- MCReplies
  NoReply = NoReply
  MaxRequests = 2
  MaxFaults = 1
  AtomicLoad = TRUE
CHECK_DEADLOCK FALSE
INVARIANT StuckIsListed
