CONSTANTS
    Payloads = {m1, m2}
    MaxPut = 3
    MaxPosts = 2
SPECIFICATION FairLink
INVARIANTS
    OneWrite
    NothingLost
    ReadInOrder
PROPERTIES
    LivesAsServed
    DeliversInOrder
    WritesInOrder
    JoinReturns
    BothLetGo
CHECK_DEADLOCK FALSE
