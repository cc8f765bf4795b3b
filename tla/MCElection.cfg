CONSTANTS
    Votes <- MCVotes
    Slot <- MCSlot
    Key <- MCKey
    BatchSize = 2
    Reqs = {r1, r2}
    Faulty <- MCSafeFaults
SPECIFICATION Spec
INVARIANTS
    AppliedOnce
    StateMatchesStorage
    NoVoteForgotten
    TallyComplete
    LatestWins
    SettledIsCounted
PROPERTIES
    StatusMoves
    PromiseKept
