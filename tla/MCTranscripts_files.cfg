SPECIFICATION Spec
CONSTANTS
    Null = Null
    Odd = Odd
    Blank = Blank
    Torn = Torn
    Elements <- MCElements
    Files <- MCFiles
    Lengths <- MCLengths
    MaxExpanded = 2
    MaxLines = 2
    SplitLimit = 2
    MaxDepth = 2
    MaxObjects = 4
    MaxEntries = 2
    MaxRows = 2
    MaxRecords = 4
CHECK_DEADLOCK FALSE
INVARIANTS IdentitiesDistinct InForceWhereItStands NothingIsLost ExpandedIsWhatWasPacked BatchesAsWritten
