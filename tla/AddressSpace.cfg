SPECIFICATION MCSpec
CONSTANTS
    Task = {t1, t2, t3}
    Kernel = kernel
    Img = img
    Levels = 4
    Fanout = 2
    PageSize = 2
    ImagePages <- OneProgram
    FirstStack <- OnePage
    Stack = {14, 15}
    Shared <- SharedPages
    HeapBase = 3
    HeapMax = 4
    Increments = {1, 3}
    KernelRoot = 1
    Reserved = {0, 1, 2, 3}
    StackFrames = 2
    MaxCalls = 5
    Sizes = {22, 27, 30, 33}
CHECK_DEADLOCK FALSE
SYMMETRY Symmetry
INVARIANTS
    OwnedExactly
    HeapMapped
    LoadedLives
PROPERTIES
    ImplementsUserMemory
