SPECIFICATION MCSpec
CONSTANTS
    HeapStart = 4096
    HeapSize = 320
    BlockHeader = 24
    ChunkHeader = 24
    Alignment = 8
    Requests = {1, 8, 20, 40, 100}
    Readers = {r1, r2}
    Slots = {1, 2, 3}
    MaxChildren = 2
SYMMETRY Symmetry
CHECK_DEADLOCK FALSE
INVARIANTS
    BlocksTile
    FullyMerged
    CallsGiveBack
PROPERTIES
    ImplementsAllocator
