SPECIFICATION Spec
CONSTANTS
    None = None
    f1 = f1
    f2 = f2
    glob = glob
    named = named
    credential = credential
    Files <- MCFiles
    Artifacts <- MCArtifacts
    ClaimOrder <- MCOrder
    Secret = {credential}
    Inodes = {i1, i2, i3}
    InitBlocks = 2
    MaxWrites = 2
    Claims <- MCOneProfile
    MaxUsers = 1
    Options <- MCPlain
    RegistryKeys = {}
    Outside = {f1}
    Irregular = {}
    MaxFileSize = 4
    MaxFaults = 0
    MaxRuns = 1
INVARIANT TypeOK
INVARIANT UnflaggedHashWasHeld
INVARIANT QuietFileIsExact
CHECK_DEADLOCK FALSE
