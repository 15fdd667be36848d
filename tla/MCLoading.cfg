SPECIFICATION FairSpec
CONSTANTS
    Zone = {"a", "b"}
    Host = {"w", "v"}
    RR = {"r", "s"}
    Config <- MCConfig
INVARIANTS
    TypeOK
    ServesTheFiles
    NothingIsMissing
    ListedZonesHaveInfo
PROPERTIES
    ReloadChangesNothing
    LoadEnds
