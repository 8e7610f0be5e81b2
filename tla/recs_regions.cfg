\* Imports of two Regions, one after the other.
CONSTANTS
    volume = volume  instance = instance  x1 = x1  x2 = x2
    Keys = {instance}
    RuleKeys = {}
    Regions <- AllRegions
    RegionOf <- Homes
    Offers <- InstanceOffers
    Sessions = {x1}
SPECIFICATION Spec
PROPERTIES OtherRegionsKeepSources
