SPECIFICATION MCLiveSpec
CONSTANTS
  Slots = {1, 2}
  MaxChecks = 2
  RefreshCycles = 2
  Ring = 3
  Start = 2
  Least = 1
  Most = 3
  Slack = 1
  MaxId = 5
  MaxBoots = 2
  Interval = 2
  Retry = 4
  StickyHold = 3
  MaxPolls = 12
  MemoryHold = 2
  Intervals = {1, 2}
  MaxTime = 5
INVARIANTS PollingGoesOn SetupSurvivesAcl LinesAddUp UsteerHasItsTurn
PROPERTIES ResultStays PollRecovers LogIsHandedOn StickyIsHeld RaisedAfterHold
CHECK_DEADLOCK FALSE
