SPECIFICATION YearSpec
CONSTANTS
    ann = ann
    bob = bob
    a = a
    b = b
    n1 = n1
    c1 = c1
    c2 = c2
    NoSection = NoSection
    NoPlan = NoPlan
    Student <- mcStudent
    Section <- mcSection
    SchoolClass <- mcClass
    ClassOf <- mcClassOf
    Room <- mcRoom
    Group <- mcGroup
    LastYear = 2
    Capacity = {1, 2}
    CapacityPolicy <- mcPolicy
    FirstPolicy <- NoRule
    RequireSection = FALSE
    Planner = {1}
    FirstClass <- mcFirstClass
    FirstSection <- mcFirstSection
    FirstEnrolled <- mcFirstEnrolled
    MaxRoll = 2
    MaxBatch = 2
    MaxSeatChanges = 4
    Enquiry = {q1}
    Application = {a1, a2}
    Payment = {p1}
    NoEnquiry = NoEnquiry
    NotShown = NotShown
    Child = {kid}
    Birth = {d1}
    NoBirth = NoBirth
    FeePolicy <- mcFee
    NoFee <- mcNoFee
    MaxAmount = 3
    MaxAdmissionSteps = 5
    ca = ca
    cb = cb
    ua = ua
    ub = ub
    uc = uc
    Campus = {ca, cb}
    Platform = Platform
    Account = {ua, ub, uc}
    Login = {"x", "y"}
    RoleNo = {1, 2, 3, 4}
    RoleCode = {"SCHOOL_ADMIN", "CLERK"}
    OptionKey = {"caste", "house"}
    Identity <- mcIdentity
    NoAccount = NoAccount
    NoRole = NoRole
    NoName = NoName
    NoPerson = NoPerson
    FirstCampus <- mcCampus
    FirstOptions <- mcOptions
    MaxDirectorySteps = 2
    pa = pa
    pb = pb
    Office = {oa, ob}
    Person = {pa, pb}
    Mobile = {"m1", "m2"}
    w1 = w1
    w2 = w2
    Ward = {w1, w2}
    FirstEnrolledAt <- mcEnrolledAt
    FirstLogin <- mcLogin
    NoLogin = NoLogin
    Nobody = Nobody
    NoRequest = NoRequest
    MaxParentSteps = 8
CHECK_DEADLOCK FALSE
INVARIANTS
    YearTypeOK
    WithinSeats
    RollsUnique
    NothingOverlooked
    ConvertedIffJoined
    ProfilesDiffer
    DecidedOnShown
    SchoolsKeepRoles
    ConsentFirst
