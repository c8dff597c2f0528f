SPECIFICATION MCFairSpec
CONSTANTS
    w1 = w1
    w2 = w2
    MaxFailures = 2
    Misses = 2
    MaxClicks = 4
    Workers = {w1, w2}
    Poison = {2}
    MaxEvents = 3
    MaxInterruptions = 3
INVARIANTS DayWithinHours OutageNoticed UnhealthyOnlyInOutage LossBounded RereadBounded
PROPERTIES StuckWorkerRecycled BacklogDrains
