SPECIFICATION Spec
CONSTANTS
    r1 = r1
    r2 = r2
    f1 = f1
    f2 = f2
    w1 = w1
    w2 = w2
    Row = {r1, r2}
    File = {f1}
    FileOf <- OneFile
    Worker = {w1, w2}
    InlineLimit = 2
    MaxRevision = 9
    MaxFaults = 1
SYMMETRY Symmetric
CHECK_DEADLOCK FALSE
INVARIANTS
    TypeOK
    CompletedIsComplete
    OnceOnly
    ExtractionErasesNoHistory
    CommitIsReviewed
    
PROPERTY
    CompletedIsFinal
