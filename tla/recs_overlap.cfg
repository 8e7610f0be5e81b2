\* Reviews while an evaluation is under way.
CONSTANTS
    volume = volume  instance = instance  x1 = x1  x2 = x2
    Keys = {volume}
    RuleKeys = {volume}
    Regions <- AllRegions
    RegionOf <- Homes
    Offers <- VolumeOffers
    Sessions = {x1, x2}
SPECIFICATION Spec
PROPERTIES ReviewKept
