\* Crashed and slow workers, no doubled delivery: every scan ends, once.
CONSTANTS
    s1 = s1  s2 = s2  w1 = w1  w2 = w2  c1 = c1
    NoTask = NoTask
    Scans = {s1, s2}
    Workers = {w1, w2}
    Connections = {c1}
    Regions <- OneRegion
    Types <- TwoTypes
    Resources <- OneResource
    ConnectionOf <- SameConnection
    RegionOf <- SameRegion
    World <- Alternating
    Faults = {"crash", "slow_task"}
    MaxRetries = 1
    MaxClock = 1
    MaxFaults = 1
SPECIFICATION FairSpec
INVARIANTS ActiveScanHasDriver
PROPERTIES ScanEventuallyEnds ScansAreJobs
