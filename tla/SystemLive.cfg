CONSTANTS
    p1 = p1
    p2 = p2
    p3 = p3
    NoOne = NoOne
    NoLobby = NoLobby
    FreedLobby = FreedLobby
    NoLine = NoLine
    Participants = {p1, p2}
    MaxLobbies = 1
    MaxPending = 1
    Mishaps <- MCReadErrors
    Size = 1
    MaxLength = 1
    Quota <- MCQuotaOne
    Placements <- MCShips
    Lines <- MCOneGame
    Release = TRUE
    InitialGameStates <- MCPreparation
    Careful = TRUE
    MayClose = TRUE
SPECIFICATION FairSpec
PROPERTIES
    BothEnter
    TurnReachesPlayer
CHECK_DEADLOCK FALSE
