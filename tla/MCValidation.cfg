CONSTANTS
    AddressBits = 2
    WeightBits = 1
    maxCensusDepth = 2
    Census <- MCCensus
    NumFields = 1
    MaxFields = 2
SPECIFICATION Spec
INVARIANTS AcceptedIsMember AcceptedPathIsMembers
CHECK_DEADLOCK FALSE
