SPECIFICATION LiveSpec
CONSTANTS
  Entries = {a, b, c}
  a = a
  b = b
  c = c
  Channels = {1,6}
  Polls = 2
  MaxEvents = 2
PROPERTY OneGapKeepsIssue
CHECK_DEADLOCK FALSE
