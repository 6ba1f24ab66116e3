SPECIFICATION Spec
CONSTANTS
  l1 = l1
  l2 = l2
  Leads <- MCLeads
  Sections <- MCSections
  Limit = 1
  Interval = 1
  NoLead = NoLead
  MaxMoves = 1
  MaxFaults = 1
  MaxReplays = 2
INVARIANTS
  TypeOK
  OutcomeIsTheLastAnswer
PROPERTIES
  AllClearIsEarned
  KeepsWatch
