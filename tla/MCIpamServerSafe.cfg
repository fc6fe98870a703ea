CONSTANTS
    n1 = n1
    n2 = n2
    g1 = g1
    g2 = g2
    g3 = g3
    c1 = c1
    c2 = c2
    c3 = c3
    Node = {n1, n2}
    Handler = {g1, g2}
    NodeOf <- SerialNodeOf
    Lease = {l1, l2, l3}
    LockErrors = FALSE
    UnlockErrors = TRUE
    LeaseLoss = FALSE
    Nil = Nil
    V6 = 32
    None = None
    Container = {c1, c2}
    Home <- MCHome
    Ranges <- OneSet
    Requests <- EitherRequest
    KVErrors = TRUE
    RetryAdd = FALSE
    GivesUp = FALSE
    BadResolvConf = FALSE
SPECIFICATION Spec
SYMMETRY LeaseSymmetry
INVARIANTS
    TypeOK
    MutualExclusion
    NoCircularWait
    NoConflict
    GrantExact
PROPERTIES
    PoolRefined
