SPECIFICATION MCSpec
CONSTANTS
    BrkStart = 4096
    HeapMax = 216
    HeaderSize = 24
    Requests = {1, 20, 60}
    UInt = 256
    HexWidth = 2
    Characters <- MCCharacters
    Digits <- MCDigits
    Inputs <- MCInputs
CHECK_DEADLOCK FALSE
INVARIANTS
    ListIsMemory
    FormatExact
PROPERTIES
    ImplementsAllocator
