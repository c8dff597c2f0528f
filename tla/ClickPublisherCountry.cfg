SPECIFICATION Spec
CONSTANTS
    Contexts = {c1, c2}
    Visitors = {v1, v2}
    Capacity = 1
    None = None
INVARIANTS CountryOwn
CHECK_DEADLOCK FALSE
