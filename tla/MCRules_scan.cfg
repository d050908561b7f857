SPECIFICATION Spec
CONSTANTS
    None = None
    Span = 2
    MinCount = 2
    MaxMembers = 5
    Pool <- MCPool
    Parses <- Compiles
    Meets <- Matches
    Quotes <- Matched
    Packs <- MCPacks
    TopLevel <- MCTopLevel
    Provenance = {"original_path", "sha256"}
    Uninterpreted = "uninterpreted"
    Folded <- MCFolded
    Numerals <- MCNumerals
    Escaped <- MCEscaped
    FlattenDepth = 3
    QuoteLimit = 3
    QuoteCount = 2
CHECK_DEADLOCK FALSE
INVARIANTS BurstIsLongest FindingsAreWhatIsAsked NothingIsOverlooked QuotedIsWhatFired
