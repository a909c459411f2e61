CONSTANTS
    None = None
    S = S
    t1 = t1
    t2 = t2
    a = a
    b = b
    Tasks = {t1, t2}
    Responses = {t1, t2}
    Secrets = {a, b}
    Keys = {1, 2}
    Sessions <- MCSessions
    Aliases <- MCAliases
    AliasFor <- MCAliasFor
    Ephemeral <- MCEphemeral
    Requests <- WideRequests
    MaxMappings = 1
    MaxLength = 1
    IdleTtls = {1, 2}
    AbsoluteTtl = 2
    MaxTime = 2
SPECIFICATION FairSpec
INVARIANTS
    PreviousSameSession
    SentIsRecorded
PROPERTY
    EveryRequestGetsThrough
CHECK_DEADLOCK FALSE
