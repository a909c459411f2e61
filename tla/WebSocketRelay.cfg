CONSTANTS
    None = None
    c1 = c1
    c2 = c2
    i1 = i1
    Creates = {c1, c2}
    Ids = {i1}
SPECIFICATION FairSpec
INVARIANTS
    ShownIsBound
    OneResponseInFlight
    ProcessorStaysActive
PROPERTIES
    MessageHandled
    HandlerEnds
CHECK_DEADLOCK FALSE
