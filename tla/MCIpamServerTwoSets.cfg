CONSTANTS
    n1 = n1
    n2 = n2
    g1 = g1
    g2 = g2
    g3 = g3
    c1 = c1
    c2 = c2
    c3 = c3
    Node = {n1}
    Handler = {g1}
    NodeOf <- ConcurrentNodeOf
    Lease = {l1, l2}
    LockErrors = TRUE
    UnlockErrors = FALSE
    LeaseLoss = TRUE
    Nil = Nil
    V6 = 32
    None = None
    Container = {c1, c3}
    Home <- MCHome
    Ranges <- TwoSets
    Requests <- AnyRequest
    KVErrors = TRUE
    RetryAdd = FALSE
    GivesUp = TRUE
    BadResolvConf = TRUE
SPECIFICATION Spec
SYMMETRY LeaseSymmetry
INVARIANTS
    NoLeak
    RequestHonoured
    GatewayFree
    OnePerAllocator
