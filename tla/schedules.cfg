\* A schedule, overlapping dispatchers and members who switch it.
CONSTANTS
    r1 = r1  r2 = r2  s1 = s1  w1 = w1  w2 = w2  d1 = d1  d2 = d2
    None = None
    Reports = {r1, r2}
    Requested = {}
    Aging = {}
    Schedules = {s1}
    Workers = {}
    Dispatchers = {d1, d2}
    MaxContent = 1
    Faults = {"crash"}
    MaxFaults = 1
    DayLength = 2
    WeekLength = 2
    MonthStarts <- ShortMonths
    Frequencies = {"daily", "weekly", "monthly"}
    DispatchLimit = 1
    MaxTime = 4
    MaxPatches = 2
    Hours = 2
    ConnectionFor <- MCConnectionFor
    CostRows <- MCCostRows
    RecRows <- MCRecRows
SPECIFICATION FairSpec
INVARIANTS NothingTwice NothingMissed
PROPERTIES DueIsDispatched
