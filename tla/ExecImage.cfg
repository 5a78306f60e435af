SPECIFICATION ExecSpec
CONSTANTS
    Word = 32
    PageSize = 4
    MinAddr = 4
    Limit = 24
    MaxSegment = 9
    FileSize = 4
    Files <- Inputs
    StackPage = 128
    PointerSize = 8
    StackAlign = 16
CHECK_DEADLOCK FALSE
INVARIANTS
    LoadStaysInside
    LoadedExactly
    ArgumentsFit
