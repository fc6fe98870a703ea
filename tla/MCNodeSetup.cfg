CONSTANTS
    Addr = {a1, a2}
    Nil = Nil
    MaxFaults = 4
SPECIFICATION NodeSpec
INVARIANTS
    NodeTypeOK
    ServingConnected
PROPERTIES
    NodeServes
CHECK_DEADLOCK FALSE
