SPECIFICATION CalendarSpec
CONSTANT Walks <- MCWalks
PROPERTY EachStepCounts
CHECK_DEADLOCK FALSE
