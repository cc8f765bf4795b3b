CONSTANTS
    Workers <- MCWorkers
    None = None
    w1 = w1
    w2 = w2
    MaxBatches = 2
    FoldEvery = 1
    BadProvers = {}
    Legacy = 0
    Faulty = {"Worker", "Wipe", "Job", "Call", "Circuit", "Store", "Crash"}
    MaxFaults = 1
SPECIFICATION FairSpec
PROPERTY AllFolded
CHECK_DEADLOCK FALSE
