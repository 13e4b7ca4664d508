SPECIFICATION Spec
CONSTANTS
    None = None
    Keys = {k1}
    MaxSize = 4
    Schema <- MCSchema
    Parse <- MCParse
    Parsed <- MCParsed
    Index <- MCIndex
    Writes <- MCWrites
    Paths <- MCLooks
INVARIANTS
    TypeOK
    ErrorsOnlyAdd
    SetIsLocal
    DelRemovesOne
    
    ReadAndWriteAgree
    ExpiryKept
PROPERTIES
    TypeSticks
CHECK_DEADLOCK FALSE
