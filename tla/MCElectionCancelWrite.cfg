CONSTANTS
    Votes <- MCVotes
    Slot <- MCSlot
    Key <- MCKey
    BatchSize = 2
    Reqs = {r1}
    Faulty = {"CancelUpdate", "Crash"}
SPECIFICATION Spec
INVARIANT LatestWins
