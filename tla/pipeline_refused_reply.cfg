SPECIFICATION FairSpec
CONSTANTS
  Handlers = {h1, h2}
  m1 = m1
  m2 = m2
  m3 = m3
  Replies <- MCReplies
  NoReply = NoReply
  MaxRequests = 3
  MaxFaults = 0
  AtomicLoad = TRUE
CHECK_DEADLOCK FALSE
PROPERTY AcceptedReplyIsAnswered
