\* One file, while time passes.
CONSTANTS
    c1 = c1
    c2 = c2
    Nobody = Nobody
    Clients <- MCClients
    Paths <- MCPaths
    Reads <- FileRead
    Changes <- FileChanges
    StatMax = 1
    DirMax = 1
    StatTTL = 1
    DirTTL = 1
    NFSMax = 1
    NFSStatTTL = 1
    NFSDirTTL = 1
    Timeout = 0
    MaxChanges = 1
    MaxTime = 3
SPECIFICATION NFSSpec
INVARIANT NFSStalenessBounded
PROPERTY OperationsReturn
