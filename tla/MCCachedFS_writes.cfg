\* Does a finished write show?
CONSTANTS
    c1 = c1
    c2 = c2
    Nobody = Nobody
    Clients <- MCClients
    Paths <- MCPaths
    Reads <- OneRead
    Changes <- FileChanges
    StatMax = 1
    DirMax = 2
    StatTTL = 1
    DirTTL = 1
    Timeout = 1
    MaxChanges = 1
    MaxTime = 0
SPECIFICATION Safety
INVARIANT WritesAreSeen
CHECK_DEADLOCK FALSE
