SPECIFICATION FairSpec
CONSTANTS
    r1 = r1
    r2 = r2
    f1 = f1
    f2 = f2
    w1 = w1
    w2 = w2
    Row = {r1}
    File = {f1}
    FileOf <- OneFile
    Worker = {w1}
    InlineLimit = 0
    MaxRevision = 8
    MaxFaults = 2
CHECK_DEADLOCK FALSE
PROPERTY WorkEnds
