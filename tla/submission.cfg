SPECIFICATION Spec
CONSTANTS
  Handlers = {h1, h2}
  Emails = {e1, e2}
  Answers = {a1, a2}
  Stored <- StoredExactly
  Keys = {k1}
  NoKey = NoKey
  Window = 1
  MaxRequests = 3
  MaxClock = 2
CHECK_DEADLOCK FALSE
SYMMETRY Symmetry
INVARIANTS TypeOK OneUndecidedPerEmail AnswerIsOwnLead
PROPERTY RetryIsNeverRefused
