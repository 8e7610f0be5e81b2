\* One report, and everything that may happen to it.
CONSTANTS
    r1 = r1  r2 = r2  s1 = s1  w1 = w1  w2 = w2  d1 = d1  d2 = d2
    None = None
    Reports = {r1}
    Requested = {r1}
    Aging = {r1}
    Schedules = {s1}
    Workers = {w1, w2}
    Dispatchers = {d1}
    MaxContent = 2
    Faults = {"crash", "child_lost", "api_crash", "lost_reply", "duplicate", "database", "storage"}
    MaxFaults = 1
    DayLength = 1
    WeekLength = 2
    MonthStarts <- ShortMonths
    Frequencies = {"daily"}
    DispatchLimit = 1
    MaxTime = 1
    MaxPatches = 0
    Hours = 2
    ConnectionFor <- MCConnectionFor
    CostRows <- MCCostRows
    RecRows <- MCRecRows
SPECIFICATION FairSpec
INVARIANTS CompletedHasObject ObjectsAreKnown NoticesAreTrue
PROPERTIES ReportsEndUnlessLost OldReportsExpire
