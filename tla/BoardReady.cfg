CONSTANTS
    Size = 3
    MaxLength = 2
    Quota <- MCQuota
    Release = FALSE
    Placements <- MCPlacements
SPECIFICATION Spec
INVARIANTS
    ReadyMeansPlaced
CHECK_DEADLOCK FALSE
