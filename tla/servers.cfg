SPECIFICATION Spec
CONSTANTS
    None = None
    Files = {"a", "b"}
    Contents = {"empty", "m1", "m2", "usesA"}
    Types = {"M", "N"}
    Empty = "empty"
    Kind <- MCKind
    Deps <- MCDeps
    Defines <- MCDefines
    Keys = {"k1"}
    Offers <- MCOffers
    MaxCommands = 3
    MaxFaults = 2
INVARIANTS
    TypeOK
    
    
    ReplicaFollows
    SimpleFilesArrive
PROPERTIES
    Settles
CHECK_DEADLOCK FALSE
