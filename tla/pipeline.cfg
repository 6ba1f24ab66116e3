SPECIFICATION FairSpec
CONSTANTS
  Handlers = {h1, h2}
  m1 = m1
  m2 = m2
  m3 = m3
  Replies <- MCReplies
  NoReply = NoReply
  MaxRequests = 4
  MaxFaults = 1
  AtomicLoad = TRUE
CHECK_DEADLOCK FALSE
INVARIANTS TypeOK MatchingVersionIsFresh StatusMatchesData EveryChaseEmailIsTheChase NoticeTellsTheOutcome SentMeansDelivered CommandsAreDue PageIsTruthful ReplayHasWork
PROPERTIES RecordStays NothingRecordedIsRepeated ImplementsLifecycle RequestsEnd
