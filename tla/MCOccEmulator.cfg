SPECIFICATION Spec
CONSTANTS
  a = a
  b = b
  noReport = noReport
  Reports <- MCReports
  ReportIds <- MCReportIds
  Trades = {1, 2}
  Accounts = {a, b}
  Series = {"X", "Y"}
  Prices = {1}
  NoReport <- noReport
INVARIANTS TypeOK WaitingAgrees NovatedOnce Balanced PositionsAddUp
PROPERTY ActsAsHouse
CHECK_DEADLOCK FALSE
