SPECIFICATION Spec
CONSTANTS
  Logs <- TwoLogs
  Found <- WordFinds
  Slips <- WordSlips
  Chars = {"x"}
  SeverityKeys = {0, 3}
  None = None
  LogLimit = 3
  QueryLimit = 2
INVARIANTS TypeOK ViewCoherent FollowsLatest
