SPECIFICATION MCLiveSpec
CONSTANTS
  Routers = {1, 2, 3}
  Fleets <- SomeFleets
  MaxReports = 3
  Count = 3
  Strongest = 2
  Entries = {1, 2}
  Macs = {1}
  Threshold = 2
  Free = 0
  Ghost = 3
INVARIANTS LldpWins LeadsAway SwitchSparesChains TrackersAreBacked
PROPERTIES OutageKeepsGateways ShownOnce SeenIsTracked PresenceSettles
CHECK_DEADLOCK FALSE
