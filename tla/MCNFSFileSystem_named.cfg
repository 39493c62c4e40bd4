\* A file and its directory, of which either is renamed or the file written.
CONSTANTS
    c1 = c1
    c2 = c2
    Nobody = Nobody
    Clients <- MCClients
    Paths <- MCPaths
    Reads <- DirReads
    Changes <- AnyChanges
    StatMax = 1
    DirMax = 1
    StatTTL = 1
    DirTTL = 1
    NFSMax = 1
    NFSStatTTL = 1
    NFSDirTTL = 1
    Timeout = 1
    MaxChanges = 1
    MaxTime = 0
SPECIFICATION NFSSafety
SYMMETRY Symmetry
INVARIANTS OneFlightPerKey OnlyRacesMissWrites StaleIsExplained OnlyRacesHideChanges
