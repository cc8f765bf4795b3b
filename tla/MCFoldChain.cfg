CONSTANTS
    Workers <- MCWorkers
    None = None
    w1 = w1
    w2 = w2
    MaxBatches = 2
    FoldEvery = 2
    BadProvers <- MCBad
    Legacy = 1
    Faulty = {"Worker", "Wipe", "Job", "Call", "Circuit", "Store", "Crash"}
    MaxFaults = 1
SPECIFICATION Spec
INVARIANTS FoldIsPrefix GatheredKept BatchProofsDropped
CHECK_DEADLOCK FALSE
