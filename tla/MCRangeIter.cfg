CONSTANTS
    Nil = Nil
    V6 = 32
    RangeSets <- MCRangeSets
SPECIFICATION IterSpec
INVARIANTS
    OffersFresh
    ExhaustedMeansFull
PROPERTIES
    RoundRobin
    GetReturns
