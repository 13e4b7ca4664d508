SPECIFICATION RSpec
CONSTANTS
    None = None
    Keys = {k1}
    MaxSize = 3
    MaxPending = 2
    Schema <- MCSchema
    Parse <- MCParse
    Parsed <- MCParsed
    Index <- MCIndex
    Writes <- MCWrites
    Paths <- MCPaths
INVARIANTS
    ReplicaFollows
    ReplaySucceeds
CHECK_DEADLOCK FALSE
