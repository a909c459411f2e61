CONSTANTS
    None = None
    S = S
    t1 = t1
    t2 = t2
    t3 = t3
    a = a
    b = b
    Tasks = {t1, t2, t3}
    Responses = {t1, t2, t3}
    Secrets = {a, b}
    Keys = {1, 2}
    Sessions <- MCSessions
    Aliases <- MCAliases
    AliasFor <- MCAliasFor
    Ephemeral <- MCEphemeral
    Requests <- MCRequests
    MaxMappings = 2
    MaxLength = 2
    IdleTtls = {1, 2}
    AbsoluteTtl = 2
    MaxTime = 2
SPECIFICATION Spec
SYMMETRY Symmetry
INVARIANTS
    SentIsRecorded
    PreviousTurnRestorable
PROPERTY
    ImplementsLedger
CHECK_DEADLOCK FALSE
