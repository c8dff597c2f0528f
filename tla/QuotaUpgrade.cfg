CONSTANTS
    w1 = w1
    w2 = w2
    Workers = {w1, w2}
    Quotas = {1, 2}
    FreeQuota = 1
    MonthLength = 2
    MaxTime = 3
    MaxClicks = 3
SYMMETRY Symmetry
SPECIFICATION Spec
PROPERTIES
    UpgradeTakesEffect
