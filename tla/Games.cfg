CONSTANTS
    p1 = p1
    p2 = p2
    p3 = p3
    NoOne = NoOne
    NoLobby = NoLobby
    FreedLobby = FreedLobby
    Participants = {p1, p2}
    MaxLobbies = 1
    Watched = 0
    Mishaps = {}
    Size = 2
    MaxLength = 1
    Quota <- MCQuotaTwo
    Placements <- MCCorners
SPECIFICATION FairPlay
INVARIANT EndMeansSunk
PROPERTIES
    BothAreTold
    PlaysOn
    GameConcludes
CHECK_DEADLOCK FALSE
