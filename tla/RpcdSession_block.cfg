SPECIFICATION Spec
CONSTANTS
  poll = poll
  command = command
  s1 = s1
  s2 = s2
  s3 = s3
  s4 = s4
  board = board
  reboot = reboot
  Tasks <- TwoTasks
  Closer = unload
  Sessions <- FourIds
  NoSession = null
  Methods <- OneMethod
  Permitted <- Granted
  MaxAuthFailures = 1
  MayRestart = FALSE
INVARIANT BlockedIsGenuine
CHECK_DEADLOCK FALSE
