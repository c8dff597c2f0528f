CONSTANTS
    w1 = w1
    w2 = w2
    Workers = {w1, w2}
    Quotas = {2, 3}
    FreeQuota = 2
    MonthLength = 2
    MaxTime = 3
    MaxClicks = 4
SYMMETRY Symmetry
SPECIFICATION Spec
INVARIANTS
    TypeOK
    CountedInItsMonth
    QuotaEnforced
    FlagHasCause
