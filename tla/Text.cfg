CONSTANTS
    Parts = {"policy", "segments", "windows", "offsets", "adapters", "engine", "sse", "restorer"}
    None = None
    one = one
    two = two
    x = x
    y = y
    UpperY = UpperY
    Aliases = {one, two}
    Chars = {p, q, r}
    Vocabularies <- MCVocabularies
    MaxAlias = 3
    MaxText = 5
    MaxChunk = 3
    EngineChars = {x, y, UpperY}
    LowerCase <- MCLowerCase
    Stem = x
    Words <- MCWords
    WordPolicy <- MCWordPolicy
    MaxTexts = 2
    MaxSymbols = 4
    MaxSegmented = 3
    MaxClaims = 3
    MaxSegments = 4
    Gap = 2
    TrustedTools = {"shell"}
    MaxLeaves = 2
    MinScore = 85
    MaxFindings = 3
    MaxSpan = 3
    MaxUnits = 5
    MaxPoints = 3
    MaxEvents = 5
SPECIFICATION TextSpec
SYMMETRY Symmetry
INVARIANTS
    ResolutionSound
    SegmentationSound
    WindowsSound
    OffsetsSound
    SplitInvisibleIfApart
    AnswerComesBack
    EventsOfAnySplit
    GuardIdle
    RoundTrip
CHECK_DEADLOCK FALSE
