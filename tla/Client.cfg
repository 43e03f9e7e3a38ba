SPECIFICATION MCSpec
CONSTANTS
  poll = poll
  command = command
  button = button
  s1 = s1
  s2 = s2
  s3 = s3
  s4 = s4
  board = board
  reboot = reboot
  home = home
  guest = guest
  SshTasks <- ThreeTasks
  Poller = poll
  Conns <- FourIds
  WifiTasks <- TwoSwitches
  Sections <- TwoNetworks
  Tasks <- TwoTasks
  Closer = unload
  Sessions <- FourIds
  NoSession = null
  Methods <- OneMethod
  Permitted <- Granted
  MaxAuthFailures = 1
  MayRestart = TRUE
SYMMETRY Symmetry
INVARIANTS DestroyTargetsReplaced GateBoundsFailures ConnectionIsShared CommandsAreSound
PROPERTY ReleaseSparesCommands
CHECK_DEADLOCK FALSE
