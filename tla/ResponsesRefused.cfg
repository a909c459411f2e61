CONSTANTS
    None = None
    i1 = i1
    i2 = i2
    b1 = b1
    local = local
    remote = remote
    Items = {i1, i2}
    Blocks = {b1}
    Names = {local, remote}
    Trusted = {local}
    Cap = 2
    MaxPiece = 2
    MaxArgs = 4
    MaxCarry = 1
SPECIFICATION Spec
INVARIANT
    RefusedIsNotForwarded
CHECK_DEADLOCK FALSE
