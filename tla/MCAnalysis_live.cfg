SPECIFICATION FairSpec
CONSTANTS
    None = None
    Raises = Raises
    transcript = transcript
    config = config
    b1 = b1
    b2 = b2
    b3 = b3
    old = old
    new = new
    stamp = stamp
    Handled = {transcript}
    Procs = {p1, p2}
    Statements = 2
    Tasks <- MCIngests
    Patient = TRUE
    MaxInvocations = 3
    MaxFaults = 0
PROPERTY IngestLands
CHECK_DEADLOCK FALSE
