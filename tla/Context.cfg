SPECIFICATION Spec
CONSTANTS
    Task = {a, b}
    Kernel = k
SYMMETRY Symmetry
INVARIANTS
    KernelStateKept
    InterruptsHeard
PROPERTIES
    ImplementsUserContext
