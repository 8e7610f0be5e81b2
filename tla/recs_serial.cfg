\* Transactions that do not overlap.
CONSTANTS
    volume = volume  instance = instance  x1 = x1  x2 = x2
    Keys = {volume, instance}
    RuleKeys = {volume}
    Regions <- AllRegions
    RegionOf <- Homes
    Offers <- AllOffers
    Sessions = {x1}
SPECIFICATION Spec
INVARIANTS TypeOK PriceHasBasis ResolvedAtAgrees EvaluationIdempotent
           TrailMissesOnlyImports
PROPERTIES ReviewKept UnsourcedIsResolved
