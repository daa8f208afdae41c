SPECIFICATION Spec
CONSTANTS
    r1 = r1
    r2 = r2
    f1 = f1
    f2 = f2
    w1 = w1
    w2 = w2
    Row = {r1, r2}
    File = {f1, f2}
    FileOf <- TwoFiles
    Worker = {w1}
    InlineLimit = 2
    MaxRevision = 12
    MaxFaults = 0
CHECK_DEADLOCK FALSE
PROPERTY RolledBackStays
