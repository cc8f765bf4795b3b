CONSTANTS
    MaxSealed = 2
    MaxFaults = 2
SPECIFICATION FairSpec
INVARIANTS Covered OneDriver NoIdleLoop
PROPERTIES
    BatchGathered
    StopReturns
CHECK_DEADLOCK FALSE
