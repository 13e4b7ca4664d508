SPECIFICATION Spec
CONSTANTS
    None = None
    Keys = {k1}
    MaxSize = 3
    Schema <- MCSchema
    Parse <- MCParse
    Parsed <- MCParsed
    Index <- MCIndex
    Writes <- MCWrites
    Paths <- MCLooks
INVARIANTS
    AlwaysReplies
CHECK_DEADLOCK FALSE
