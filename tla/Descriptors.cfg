SPECIFICATION DescriptorsSpec
CONSTANTS
    Proc = {p1, p2, p3}
    Root = root
    Nobody = nobody
    File = {f1, f2, f3}
    NoFile = nofile
    Inode = {i1, i2}
    MaxFiles = 2
SYMMETRY Symmetry
CHECK_DEADLOCK FALSE
INVARIANTS
    RefsExact
    OnlyAliveHold
PROPERTIES
    DescriptorStable
