CONSTANTS
    n1 = n1
    n2 = n2
    g1 = g1
    g2 = g2
    g3 = g3
    c1 = c1
    c2 = c2
    c3 = c3
    Node = {n1}
    Handler = {g1}
    NodeOf <- ConcurrentNodeOf
    Lease = {l1, l2}
    LockErrors = FALSE
    UnlockErrors = FALSE
    LeaseLoss = FALSE
    Nil = Nil
    V6 = 32
    None = None
    Container = {c1}
    Home <- MCHome
    Ranges <- TwoSets
    Requests <- OneRequest
    KVErrors = FALSE
    RetryAdd = FALSE
    GivesUp = FALSE
    BadResolvConf = FALSE
SPECIFICATION Spec
INVARIANTS
    AddressOfEachSet
