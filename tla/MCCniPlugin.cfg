CONSTANTS
    Container = {c1, c2}
    Addr = {a1, a2}
    None = None
    Del = Del
    Faults = TRUE
    Kills = TRUE
SPECIFICATION CniSpec
SYMMETRY CniSymmetry
INVARIANTS
    CniTypeOK
    WireReserved
    UpMeansConnected
    DelCleans
    OneReservation
    OnePort
