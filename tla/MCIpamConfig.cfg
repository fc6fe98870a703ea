CONSTANTS
    Nil = Nil
    V6 = 16
    Configs <- MCConfigs
SPECIFICATION ConfigSpec
INVARIANTS
    AddressesUnambiguous
    NothingElseRejected
    EmptyOnlyAtBroadcast
CHECK_DEADLOCK FALSE
