CONSTANTS
    MaxPending = 4
    Slots = {1, 2, 3, 4}
    Keys = {1, 2}
    Sizes = {2, 4}
SPECIFICATION FairSpec
INVARIANTS SplitsFirstOfSlot RefusesCollisions
PROPERTY Terminates
