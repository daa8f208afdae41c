SPECIFICATION Spec
CONSTANTS
    r1 = r1
    r2 = r2
    r3 = r3
    Request = {r1, r2}
    LastDay = 4
    PeriodOf <- TwoPeriods
    Off = {1}
    Span <- Spans
    Policy <- OnePolicy
    NoPolicy = NoPolicy
    NoBalance = NoBalance
    NoLimit = NoLimit
    Allocation = {0, 2}
    MaxAllocations = 0
    LegacyUse = 2
CHECK_DEADLOCK FALSE
INVARIANT SpentOnce
