\* Two imports, two workers, one fault; nothing is delivered twice.
CONSTANTS
    s1 = s1  s2 = s2  w1 = w1  w2 = w2  account = account  None = None
    volume = volume
    Syncs = {s1, s2}
    Workers = {w1, w2}
    Connections = {account}
    ConnectionOf <- ToAccount
    KeyOf <- ToAccount
    Errors <- ImportErrors
    Faults = {"crash", "child_lost", "api_crash", "database"}
    MaxFaults = 1
    Keys = {volume}
    NameOf <- AllNames
    RegionOf <- Homes
    RegionAsked <- Asked
    Items <- MCItems
SPECIFICATION FairSpec
PROPERTIES ImportsAreTransactions DropsAreProven ImportsEnd
