SPECIFICATION CopySpec
CONSTANTS
    PageSize = 3
    MinAddr = 6
    Limit = 15
    Calls <- Inputs
CHECK_DEADLOCK FALSE
INVARIANTS
    CopyExact
