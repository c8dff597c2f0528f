CONSTANTS
    r1 = r1
    r2 = r2
    r3 = r3
    Requests = {r1, r2, r3}
    Threshold = 5
    MaxRequests = 5
    Window = 1
SPECIFICATION Spec
SYMMETRY RequestSymmetry
PROPERTIES
    FlagHolds
