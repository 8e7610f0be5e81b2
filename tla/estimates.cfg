\* Every small catalogue, pages in every order, one failing call.
CONSTANTS
    None = None
    Resources <- MCResources
    Catalogues <- MCCatalogues
    Hours = 3
    FreeIops = 2
    FreeThroughput = 1
    MaxErrors = 1
SPECIFICATION EstimatesSpec
INVARIANTS PricedByTheUnit IdleAreJudged
