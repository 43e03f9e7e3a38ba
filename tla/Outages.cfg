SPECIFICATION MCLiveSpec
CONSTANTS
  r1 = r1
  r2 = r2
  r3 = r3
  Routers <- ThreeRouters
  Threshold = 2
  AuthLimit = 2
  Intervals = {4, 5}
  PollTime = 1
  Settle = 3
  TimedThreshold = 3
INVARIANTS CoordinatorsAgree NobodyIsForgotten OneCauseOneIssue
PROPERTIES LanIssueIsRight OutageIsShown ToldAsPromised
CHECK_DEADLOCK FALSE
