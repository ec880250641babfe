CONSTANTS
    Size = 3
    MaxLength = 3
    Quota <- MCQuota
    Release = TRUE
SPECIFICATION Spec
INVARIANTS
    SelectionCounted
    ShownFits
    ReadyUnblocked
CHECK_DEADLOCK FALSE
