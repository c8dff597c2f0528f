SPECIFICATION FairSpec
CONSTANTS
    Requests = {r1, r2}
    Hooks = {h1}
    Subs = {s1, s2}
    Users = {u1, u2}
    Plans = {starter}
    Free = Free
    None = None
INVARIANTS ChargesAccounted PaidPlanBacked
PROPERTIES PaidPlanEnds
