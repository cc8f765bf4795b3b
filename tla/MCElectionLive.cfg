CONSTANTS
    Votes <- MCVotes
    Slot <- MCSlot
    Key <- MCKey
    BatchSize = 2
    Reqs = {r1}
    Faulty = {"SealBatch", "CancelUpdate", "DropStatus"}
SPECIFICATION FairSpec
INVARIANTS
    ResultsAreTally
    VotesFollow
PROPERTIES
    EndedDrains
    VoteSealed
CHECK_DEADLOCK FALSE
