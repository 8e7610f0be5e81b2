\* Processes die and ids are delivered twice: what is stored, and how it ends.
CONSTANTS
    s1 = s1  s2 = s2  w1 = w1  w2 = w2  c1 = c1
    q1 = q1  q2 = q2
    None = None
    Syncs = {s1, s2}
    Workers = {w1, w2}
    Connections = {c1}
    ConnectionOf <- SameConnection
    KeyOf <- SameRegion
    Errors <- AllErrors
    Faults = {"crash", "child_lost", "api_crash", "duplicate", "database"}
    MaxFaults = 1
    Series = {q1, q2}
    HomeOf <- OneHome
    BatchSize = 2
SPECIFICATION FairSpec
INVARIANTS OneCollector PointsHaveSource
PROPERTIES UnansweredIsNoSuccess EndsUnlessLost
