SPECIFICATION Spec
CONSTANTS
    None = None
    Files = {"a", "b"}
    Contents = {"empty", "msg", "usesA", "broken", "warned"}
    Types = {"Msg", "Sub"}
    Empty = "empty"
    Kind <- MCKind
    Deps <- MCDeps
    Defines <- MCDefines
    DiskFaults = TRUE
    MaxImports = 3
    MaxCrashes = 2
INVARIANTS
    TypeOK
    MutualExclusion
    
    
    
PROPERTIES
    NoneForgotten
