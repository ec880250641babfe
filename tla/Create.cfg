CONSTANTS
    p1 = p1
    p2 = p2
    p3 = p3
    NoOne = NoOne
    NoLobby = NoLobby
    FreedLobby = FreedLobby
    Participants = {p1, p2, p3}
    MaxLobbies = 2
    Watched = 0
    Mishaps = {}
    Size = 1
    MaxLength = 1
    Quota <- MCQuotaOne
    Placements <- MCOnBoard
SPECIFICATION Spec
SYMMETRY Symmetry
PROPERTIES
    CreatedIsNew
CHECK_DEADLOCK FALSE
