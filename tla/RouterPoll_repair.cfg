SPECIFICATION LiveSpec
CONSTANT RefreshCycles = 2
PROPERTY RepairTakesEffect
CHECK_DEADLOCK FALSE
