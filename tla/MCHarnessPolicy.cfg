SPECIFICATION Spec
CONSTANTS
    Policies = {p1, p2}
    DefaultPolicy = p1
    NoPolicy = NoPolicy
    MaxTurns = 2
    MaxChanges = 2
    MaxUpsets = 1
INVARIANTS
    RunsUnderDesired
    ReportedIsReal
    UncertaintyIsKept
PROPERTIES
    ChangeReleasesQuestion
CHECK_DEADLOCK FALSE
