CONSTANTS
    Top = 12
    Pod = {p1, p2}
    Mac = {m1, m2}
    Nil = Nil
    Args <- MCArgs
    MaxMoves = 1
    MaxPhantoms = 1
SPECIFICATION SubnetSpec
SYMMETRY Symmetry
INVARIANTS
    SubnetTypeOK
    NewSubnetExact
    MapsAgree
    PoolConserved
    PhantomOnlyByTail
    MacOwned
