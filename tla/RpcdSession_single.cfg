SPECIFICATION LiveSpec
CONSTANTS
  poll = poll
  command = command
  s1 = s1
  s2 = s2
  s3 = s3
  s4 = s4
  board = board
  reboot = reboot
  Tasks <- OneTask
  Closer = unload
  Sessions <- ThreeIds
  NoSession = null
  Methods <- TwoMethods
  Permitted <- Granted
  MaxAuthFailures = 2
  MayRestart = FALSE
INVARIANTS TypeOK NoOrphan BlockedIsGenuine
PROPERTY CallsEnd
CHECK_DEADLOCK FALSE
