SPECIFICATION Spec
CONSTANTS
    None = None
    Events <- MCEvents
    Ingests <- MCIngests
    Scans <- MCScans
    Orders <- MCOrders
    Requests <- MCRequests
    MaxPage = 2
    MaxSent = 2
CHECK_DEADLOCK FALSE
INVARIANTS
    ListingIsFaithful
    NoAnswerContradictsItself
    BodyIsNoRequest
PROPERTIES
    ListingEnds
