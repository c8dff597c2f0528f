CONSTANTS
    r1 = r1
    r2 = r2
    Requests = {r1, r2}
    Threshold = 4
    MaxRequests = 2
    Window = 2
    MaxRiskScore = 1
    NoCountry = NoCountry
    BR = BR
    US = US
    Countries = {BR, US}
    MaxLength = 3
    MaxWeight = 2
SPECIFICATION MCSpec
INVARIANTS
    TypeOK
    SelectionFair
PROPERTIES
    OnlyCrowdsPass
    KeepsContract
    WindowRenewed
SYMMETRY RequestSymmetry
CHECK_DEADLOCK FALSE
