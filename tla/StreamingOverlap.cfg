CONSTANTS
    Aliases = {one, two}
    one = one
    two = two
    Chars = {p, q}
    p = p
    q = q
    Vocabularies <- MCVocabularies
    MaxAlias = 3
    MaxText = 5
    MaxChunk = 3
SPECIFICATION Spec
INVARIANT SplitInvisible
CHECK_DEADLOCK FALSE
