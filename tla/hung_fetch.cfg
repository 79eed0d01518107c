SPECIFICATION CloneFairSpec
CONSTANTS
    MaxLoads = 1
    MaxFaults = 0
CHECK_DEADLOCK FALSE
PROPERTY FetchWaitIsBounded
