SPECIFICATION Spec
CONSTANTS
    None = None
    Raises = Raises
    transcript = transcript
    config = config
    b1 = b1
    b2 = b2
    b3 = b3
    old = old
    new = new
    stamp = stamp
    Handled = {transcript}
    Procs = {p1, p2}
    Statements = 2
    Tasks <- MCAll
    Patient = FALSE
    MaxInvocations = 3
    MaxFaults = 1
INVARIANT TypeOK
INVARIANT SilenceIsRecorded
INVARIANT ExitTellsTheCase
INVARIANT CommittedIsWhole
INVARIANT RowsNeedSchema
INVARIANT FindingsAreExplained
PROPERTY KeepsItsPromise
PROPERTY ReportIsTheGrowth
CHECK_DEADLOCK FALSE
