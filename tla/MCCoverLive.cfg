SPECIFICATION FairSpec
CONSTANTS
    A = A
    B = B
    D = D
    ann = ann
    ben = ben
    cat = cat
    Teacher = {ann, ben, cat}
    Lesson = {A, B}
    Duty = {}
    Regular <- Teachers
    Begin <- Begins
    End <- Ends
    Suitable <- AnnOrCat
    MaxPeriods = 2
    Attendance <- Records
    Away <- Afternoons
    EndOfDay = 4
    NoOne = NoOne
    MaxChanges = 1
CHECK_DEADLOCK FALSE
PROPERTY EndedIsClosed
