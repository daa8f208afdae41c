SPECIFICATION Spec
CONSTANTS
    A = A
    B = B
    D = D
    ann = ann
    ben = ben
    cat = cat
    Teacher = {ann, ben, cat}
    Lesson = {A, B}
    Duty = {}
    Regular <- Teachers
    Begin <- Begins
    End <- Ends
    Suitable <- AnnOrCat
    MaxPeriods = 2
    Attendance <- Records
    Away <- NoLeave
    EndOfDay = 3
    NoOne = NoOne
    MaxChanges = 2
CHECK_DEADLOCK FALSE
INVARIANT ReconciledNobodyTwice
