CONSTANTS
    None = None
    i1 = i1
    i2 = i2
    b1 = b1
    a1 = a1
    a2 = a2
    x1 = x1
    local = local
    remote = remote
    Items = {i1, i2}
    Blocks = {b1}
    ToolBlocks = {a1, a2}
    TextBlocks = {x1}
    Names = {local, remote}
    Trusted = {local}
    Cap = 2
    MaxPiece = 2
    MaxArgs = 4
    MaxCarry = 1
    MaxText = 3
SPECIFICATION StreamsSpec
SYMMETRY Symmetry
INVARIANTS
    WholeArguments
    OnlyTrustedRestored
    NoCallLost
    TextConserved
    RefusedIsNotForwardedOnWebSocket
    InputsWholeAndTrusted
    TextCompleteAtStop
PROPERTY
    ImplementsCallDelivery
CHECK_DEADLOCK FALSE
