SPECIFICATION Spec
CONSTANTS
    None = None
    a = a
    A = A
    u = u
    LeaseIds <- MCLeaseIds
    Lowercase <- MCLowercase
    Uuids <- MCUuids
    Durations <- MCDurations
    BreakPeriods <- MCBreakPeriods
    Ops <- MCOps
    MinDuration = 2
    MaxDuration = 3
    MaxBreakPeriod = 2
    MaxTime = 4
    MaxDelay = 2
INVARIANTS
    LeaseConstructible
    LeaseTermBounded
    ExpiredLeaseIsUnwritten
PROPERTIES
    LeaseIsExclusive
    BreakOnlyShortens
    RefusedLeavesLease
    OverdueLeaseDoesNotBlock
CHECK_DEADLOCK FALSE
