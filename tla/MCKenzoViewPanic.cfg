SPECIFICATION Spec
CONSTANTS
  Logs <- TwoLogs
  Found <- WordFinds
  Slips <- NothingSlips
  Chars = {"x"}
  SeverityKeys = {0}
  None = None
  LogLimit = 3
  QueryLimit = 2
INVARIANT NoPanic
