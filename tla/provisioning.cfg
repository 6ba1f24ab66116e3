SPECIFICATION Spec
CONSTANTS
  r1 = r1
  r2 = r2
  intake = intake
  errorAlert = errorAlert
  errors = errors
  dkim = dkim
  DMARC = DMARC
  EmailInbound = EmailInbound
  Web = Web
  Stranger = Stranger
  Unnamed = Unnamed
  Slots <- MCSlots
  SERVICES <- MCServices
  ALERT_RULES <- MCRules
  METRICS <- MCMetrics
  WantedRecords <- MCRecords
  MaxRuns = 3
  MaxFaults = 1
SYMMETRY SlotsAlike
INVARIANTS
  NeverWithoutDashboard
  RunsConverge
CHECK_DEADLOCK FALSE
