SPECIFICATION Spec
CONSTANTS
  poll = poll
  switch = switch
  button = button
  c1 = c1
  c2 = c2
  c3 = c3
  c4 = c4
  Tasks <- TwoTasks
  Poller = poll
  Conns <- ThreeConns
  NoConn = none
  Nobody = nobody
INVARIANT KeyWasTried
CHECK_DEADLOCK FALSE
