SPECIFICATION TeachingSpec
CONSTANTS
    sam = sam
    mo = mo
    tia = tia
    tom = tom
    s1 = s1
    s2 = s2
    Staff = {sam}
    Manager = {sam, mo}
    MarkedStatus = {"PRESENT", "ABSENT"}
    InScope <- mcScope
    MayOverride = {sam, mo}
    Request = {r1}
    NoDraft = NoDraft
    FirstAttendancePolicy <- mcPolicy
    PolicyChange <- mcChange
    LateAfter = 1
    EndOfDay = 2
    MaxClock = 2
    MaxPresenceSteps = 4
    Teacher = {tia, tom}
    Taught = {s1, s2}
    NoTeacher = NoTeacher
    Slot = {1, 2}
    Layout <- mcLayout
    FirstTiming <- mcTiming
    FirstTimingRow <- mcTimingRow
    FirstTaughtBy <- mcTaughtBy
    FirstPlan <- mcPlan
    MaxTimings = 3
    MaxPlans = 3
    MaxSetupEdits = 1
    MaxPlanSteps = 3
    Pupil = {kim}
    Exam = {x1, x2}
    Opened = {x1}
    Generation = {g1, g2}
    Term = {"T1"}
    PatternConfig <- mcConfig
    FirstPatterns <- mcPatterns
    FirstBudget = 3
    AiBudget = {0, 3}
    Reserved = 2
    MaxVersions = 2
    MaxObservations = 2
    EvidenceLimit = 1
    Instructions = {"BRIEF"}
    MaxAssessmentSteps = 6
    Program = {"maths", "english"}
    NoPlan = NoPlan
    MaxDateSlot = 7
    Overlapping = {{1, 2}, {3, 4}}
    Offered <- mcOffered
    Topics <- mcTopics
    TermOf <- mcTermOf
    Periods <- mcPeriods
    Requires <- mcRequires
    RevisionPeriods = 1
    MaxPlanningSteps = 10
    y1 = y1
    y2 = y2
    y3 = y3
    k1 = k1
    k2 = k2
    k3 = k3
    sa = sa
    sb = sb
    sc = sc
    ma = ma
    en = en
    hi = hi
    YearId = {y1, y2, y3}
    ClassId = {k1, k2, k3}
    ClassName = {"1st", "2nd"}
    SectionId = {sa, sb, sc}
    SubjectId = {ma, en, hi}
    TeacherId = {ta, tb}
    Clerk = {k, l}
    MayTeach <- mcMayTeach
    Scheduled = {}
    NoYear = NoYear
    NoClass = NoClass
    WholeClass = WholeClass
    NoSubject = NoSubject
    NoRow = NoRow
    Idle = Idle
    FirstYears = {y1, y2}
    FirstClasses <- mcClasses
    FirstSections <- mcSections
    FirstSubjects <- mcSubjects
    FirstYearSubjects <- mcYearSubjects
    FirstClassSubjects <- mcClassSubjects
    MaxAssignments = 3
    MaxMembers = 1
    EditCost = 2
    MaxStructureSteps = 4
    cy = cy
    pl = pl
    adm = adm
    tch = tch
    sup = sup
    h1 = h1
    h2 = h2
    Caller = {cy, pl}
    Role = {adm, tch, sup}
    HomeOf <- mcHome
    RoleAt <- mcRoleAt
    SystemRole = {adm, sup}
    RoleName = {"own", "super-admin"}
    RoleCode = {"SCHOOL_ADMIN", "TEACHER", "SUPER_ADMIN"}
    FirstName <- mcName
    FirstCode <- mcCode
    NoHome = NoHome
    School = {h1, h2}
    Asked <- mcAsked
    Grantable <- mcGrantable
    FirstGrants <- mcGrants
    FirstHeld <- mcHeld
    FirstMustChange = {cy}
    NoRoute = NoRoute
    MaxOnTheWay = 1
    MaxAccessEdits = 2
CHECK_DEADLOCK FALSE
INVARIANTS
    TeachingTypeOK
    AwayIsNotified
    LockedDayStands
    PolicyInForceValid
    PublishedDoNotClash
    ApprovedUnchanged
    CommentOnEvidence
    AiWithinBudget
    ReplanIsSafe
    OneLead
    RightsAreCurrent
