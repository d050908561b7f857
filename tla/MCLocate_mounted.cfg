SPECIFICATION Spec
CONSTANTS
    None = None
    Reserved = {":", "/"}
    Digits <- MCDigits
    Capital <- MCCapital
    Devices <- MCDevices
    LongName = 8
    CutName = 6
    Tag <- MCTag
    Containers <- MCContainers
    Catalogue <- MCCatalogue
    Given <- MCGiven
    WinRelative <- MCWinRelative
    WinAbsolute <- MCWinAbsolute
    XdgDefaults <- MCXdgDefaults
    PosixOnly <- MCPosixOnly
    VscodeUser <- MCVscodeUser
    Products <- MCProducts
    UserName <- User
    ProfileParents <- MCProfileParents
    RootHomes <- MCRootHomes
    PseudoProfiles <- MCPseudo
    MinLiteral = 3
CHECK_DEADLOCK FALSE
INVARIANTS
    RootedProjectsAreSearched
