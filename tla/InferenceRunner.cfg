CONSTANTS
    c1 = c1
    c2 = c2
    c3 = c3
    Calls = {c1, c2, c3}
    MaxWorkers = 1
    MaxInflight = 2
SPECIFICATION FairSpec
INVARIANTS
    SlotsExact
    LiveWorkBounded
PROPERTIES
    CallersReturn
    SlotsComeBack
CHECK_DEADLOCK FALSE
