CONSTANTS
    Size = 3
    MaxLength = 3
    Quota <- MCQuota
    Release = TRUE
    Placements <- MCPlacements
SPECIFICATION Spec
INVARIANTS
    TypeOK
    ShipsApart
    FleetOnField
    CopiesAgree
    SunkFleetEndsGame
    KilledIsWholeShip
    ShotsAreFiredOrAroundSunk
