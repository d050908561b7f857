SPECIFICATION Spec
CONSTANTS
    None = None
    f1 = f1
    f2 = f2
    glob = glob
    named = named
    credential = credential
    Files <- MCFiles
    Artifacts <- MCArtifacts
    ClaimOrder <- MCOrder
    Secret = {credential}
    Inodes = {i1, i2}
    InitBlocks = 1
    MaxWrites = 1
    Claims <- MCClaims
    MaxUsers = 2
    Options <- MCOptions
    RegistryKeys = {k1}
    Outside = {}
    Irregular = {}
    MaxFileSize = 1
    MaxFaults = 1
    MaxRuns = 2
INVARIANT QuietBundleVerifies
INVARIANT VerifiedBundleIsWhole
INVARIANT OneRunPerBundle
INVARIANT NothingDropped
INVARIANT SecretsStayOut
PROPERTY DecidedOnce
CHECK_DEADLOCK FALSE
