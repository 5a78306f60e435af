SPECIFICATION Spec
CONSTANTS
    Archive <- MCArchive
    MaxFiles = 3
    Slots = {s1, s2}
    MaxIO = 4
    MaxSize = 12
CHECK_DEADLOCK FALSE
INVARIANTS
    ContentFits
