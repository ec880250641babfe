CONSTANTS
    p1 = p1
    p2 = p2
    p3 = p3
    NoOne = NoOne
    NoLobby = NoLobby
    FreedLobby = FreedLobby
    NoLine = NoLine
    Participants = {p1, p2}
    MaxLobbies = 1
    MaxPending = 3
    Mishaps <- MCReadErrors
    Size = 1
    MaxLength = 1
    Quota <- MCQuotaOne
    Placements <- MCShips
    Lines <- MCGames
    Release = TRUE
    InitialGameStates <- MCPreparation
    Careful = FALSE
    MayClose = FALSE
SPECIFICATION SysSpec
SYMMETRY Symmetry
INVARIANT NoClientThrows
CHECK_DEADLOCK FALSE
