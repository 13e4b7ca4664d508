SPECIFICATION Spec
CONSTANTS
    None = None
    Files = {"a", "b"}
    Contents = {"empty", "msg"}
    Types = {"Msg", "Sub"}
    Empty = "empty"
    Kind <- MCKind
    Deps <- MCDeps
    Defines <- MCDefines
    DiskFaults = FALSE
    MaxImports = 2
    MaxCrashes = 0
PROPERTIES
    OkIsReported
