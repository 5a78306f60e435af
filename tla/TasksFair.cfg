SPECIFICATION FairSpec
CONSTANTS
    Task = {t1, t2, t3}
    Kernel = kernel
    NoTask = none
    MaxTasks = 4
    SignalsUsed = FALSE
PROPERTIES
    NoStarvation
    ImplementsProcessesFairly
    AllDeadReaped
