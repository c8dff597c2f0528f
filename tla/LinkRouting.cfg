CONSTANTS
    d1 = d1
    r1 = r1
    r2 = r2
    m1 = m1
    code = code
    foreignCode = foreignCode
    Dests = {d1}
    Keys = {code, foreignCode}
    DefaultKey = code
    ForeignKeys = {foreignCode}
    Requests = {r1, r2}
    Monitors = {m1}
    Limits = {1}
    NoLimit = NoLimit
    ClickBound = 2
    NoDest = NoDest
SPECIFICATION FairSpec
INVARIANTS
    TypeOK
    CapHolds
    DefaultCopyFresh
PROPERTIES
    LeavesTheCache
    CooldownReleases
    ForeignCopiesEnd
