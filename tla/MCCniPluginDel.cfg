CONSTANTS
    Container = {c1}
    Addr = {a1, a2}
    None = None
    Del = Del
    Faults = FALSE
    Kills = FALSE
SPECIFICATION CniSpec
PROPERTIES
    DelRepeats
