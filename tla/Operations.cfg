CONSTANTS
    Gateways = {g1, g2}
    MaxGenerations = 4
    None = None
    Artifacts = {a1, a2}
    MaxBody = 3
SPECIFICATION OperationsSpec
SYMMETRY Symmetry
INVARIANTS
    OneWriter
    ResetIsHonest
    ModelIsWhole
    AccountedFor
    EndsInOrder
CHECK_DEADLOCK FALSE
