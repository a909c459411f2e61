CONSTANTS
    Parts = {"engine"}
    None = None
    one = one
    two = two
    x = x
    y = y
    UpperY = UpperY
    Aliases = {one, two}
    Chars = {p, q, r}
    Vocabularies <- MCVocabularies
    MaxAlias = 3
    MaxText = 1
    MaxChunk = 3
    EngineChars = {x, y, UpperY}
    LowerCase <- MCLowerCase
    Stem = x
    Words <- MCWords
    WordPolicy <- MCWordPolicy
    MaxTexts = 2
    MaxSymbols = 3
    MaxSegmented = 3
    MaxClaims = 3
    MaxSegments = 4
    Gap = 2
    TrustedTools = {"shell"}
    MaxLeaves = 2
    MinScore = 85
    MaxFindings = 1
    MaxSpan = 3
    MaxUnits = 1
    MaxPoints = 3
    MaxEvents = 1
SPECIFICATION TextSpec
INVARIANT
    ExistingAliasProtected
CHECK_DEADLOCK FALSE
