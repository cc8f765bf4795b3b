CONSTANTS
    Wardens = {k1, k2}
    maxPollErrs = 3
    Faulty = {"Store", "Final", "Net", "Stop", "Crash"}
    MaxFaults = 5
SPECIFICATION FairSpec
INVARIANTS OneFinalize FailureIsShown
PROPERTIES
    ResultsStay
    FinalizeEnds
CHECK_DEADLOCK FALSE
