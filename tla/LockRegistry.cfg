CONSTANTS
    None = None
    u1 = u1
    u2 = u2
    u3 = u3
    u4 = u4
    s1 = s1
    s2 = s2
    Sessions = {s1, s2}
    Uses = {u1, u2, u3, u4}
SPECIFICATION FairSpec
INVARIANT
    MutualExclusion
PROPERTIES
    EveryWaiterServed
    ImplementsSessionLock
CHECK_DEADLOCK FALSE
