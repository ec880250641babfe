CONSTANTS
    max_body_length = 9
    Listed <- MCListed
    MaxTexts = 3
SPECIFICATION Spec
INVARIANTS
    InStep
    ListIsTrue
CHECK_DEADLOCK FALSE
