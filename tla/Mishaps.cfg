CONSTANTS
    p1 = p1
    p2 = p2
    p3 = p3
    NoOne = NoOne
    NoLobby = NoLobby
    FreedLobby = FreedLobby
    Participants = {p1, p2}
    MaxLobbies = 2
    Watched = 0
    Mishaps <- MCAllMishaps
    Size = 1
    MaxLength = 1
    Quota <- MCQuotaOne
    Placements = {}
SPECIFICATION Spec
SYMMETRY Symmetry
INVARIANTS
    LobbiesCounted
    GoneAreForgotten
    FaultsHaveCause
PROPERTY
    SessionsLive
CHECK_DEADLOCK FALSE
