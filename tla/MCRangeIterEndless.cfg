CONSTANTS
    Nil = Nil
    V6 = 32
    RangeSets <- RangeSetsOfTwo
SPECIFICATION IterSpec
PROPERTIES
    EveryGetReturns
