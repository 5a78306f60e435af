SPECIFICATION Spec
CONSTANTS
    Task = {t1, t2, t3, t4}
    Kernel = kernel
    NoTask = none
    MaxTasks = 4
    SignalsUsed = TRUE
SYMMETRY Symmetry
INVARIANTS
    OneRunning
    FamilyConsistent
    WaitTargetOwned
    NoLostWakeup
    QueueIsTable
PROPERTIES
    IdleOnlyWhenAlone
    ReapedByParent
    DeadStayDead
    TermNotForgotten
    ImplementsProcesses
