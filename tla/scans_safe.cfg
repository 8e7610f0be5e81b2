\* Everything goes wrong but a scan that outlasts its lock.
CONSTANTS
    s1 = s1  s2 = s2  w1 = w1  w2 = w2  c1 = c1
    NoTask = NoTask
    Scans = {s1, s2}
    Workers = {w1, w2}
    Connections = {c1}
    Regions <- MCRegions
    Types <- OneType
    Resources <- OneInEachRegion
    ConnectionOf <- SameConnection
    RegionOf <- SecondInEurope
    World <- Alternating
    Faults = {"crash", "child_lost", "api_crash", "lost_reply", "duplicate", "database"}
    MaxRetries = 0
    MaxClock = 2
    MaxFaults = 2
SPECIFICATION Spec
SYMMETRY WorkerSymmetry
INVARIANTS TypeOK OneActiveScan InventoryMatchesAnswers CollectorHoldsLock
PROPERTIES NeverOlderInventory
