SPECIFICATION FairSpec
CONSTANTS
  MaxVersion = 7
  MaxGen = 2
CHECK_DEADLOCK FALSE
INVARIANTS TypeOK NothingHangs OnePollAtATime
PROPERTIES ShownNeverGoesBack PollingEnds
