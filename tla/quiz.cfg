SPECIFICATION Spec
CONSTANTS
  Handlers = {h1, h2}
  Borrower = Borrower
  Income = 4
  Missing = Missing
  NaN = NaN
  Typed <- MCTyped
  Outcomes = {"need-more-documents"}
  NoOutcome = NoOutcome
  MaxEdits = 5
  MaxRequests = 2
  MaxPages = 2
CHECK_DEADLOCK FALSE
SYMMETRY Symmetry
INVARIANTS TypeOK ErrorsAreCurrent KeysAreNotReused ResultIsOfTheForm PreviewIsKept ReviewKeepsThePromise
PROPERTY RetryFindsItsLead
