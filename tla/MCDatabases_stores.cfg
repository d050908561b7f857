SPECIFICATION Spec
CONSTANTS
    Null = Null
    Odd = Odd
    Blank = Blank
    Torn = Torn
    Cells <- MCCells
    Names <- MCNames
    Shapes <- MCShapes
    Lengths <- MCLengths
    Pages <- MCPages
    Order <- MCOrder
    MaxRecords = 9
    MaxRecovered = 2
    KeyLength = 2
    MaxRows = 2
CHECK_DEADLOCK FALSE
INVARIANTS RowIdentitiesDistinct StampedByItsStore ReadOrSaid LiveIsCommitted RecoveredIsNotLive
