SPECIFICATION FairSpec
CONSTANTS
    None = None
    Files = {"a", "b"}
    Contents = {"empty", "msg", "usesA", "broken"}
    Types = {"Msg", "Sub"}
    Empty = "empty"
    Kind <- MCKind
    Deps <- MCDeps
    Defines <- MCDefines
    DiskFaults = FALSE
    MaxImports = 3
    MaxCrashes = 1
INVARIANTS
    OkMeansImported
    ErrorLeavesNothing
    
PROPERTIES
    
    EveryImportReported
    StopsUnlessBlocking
