CONSTANTS
    Workers <- MCWorkers
    None = None
    w1 = w1
    w2 = w2
    MaxBatches = 1
    FoldEvery = 1
    BadProvers <- MCBad
    Legacy = 0
    Faulty = {"Crash"}
    MaxFaults = 1
SPECIFICATION Spec
INVARIANT PendingKept
CHECK_DEADLOCK FALSE
