CONSTANTS
    p1 = p1
    p2 = p2
    p3 = p3
    NoOne = NoOne
    NoLobby = NoLobby
    FreedLobby = FreedLobby
    NoLine = NoLine
    Participants = {p1, p2}
    MaxLobbies = 1
    MaxPending = 1
    Mishaps <- MCReadErrors
    Size = 1
    MaxLength = 1
    Quota <- MCQuotaOne
    Placements <- MCShips
    Lines <- MCGamesAndLobbies
    Release = TRUE
    InitialGameStates <- MCPreparation
    Careful = TRUE
    MayClose = FALSE
SPECIFICATION SysSpec
SYMMETRY Symmetry
INVARIANTS
    SystemTypeOK
    NoClientThrows
    ClientsAgree
    OwnFieldsAgree
    PlacementsAccepted
CHECK_DEADLOCK FALSE
