SPECIFICATION Spec
CONSTANTS
    PageSize = 2
    Maps <- Layouts
    Counts = {1, 2, 3}
INVARIANTS
    UsedExact
    FreeIsSpare
    ScanFindsLowestRun
