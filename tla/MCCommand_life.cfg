\* A mount or a terminal, from the login to the end of the process.
CONSTANTS
    h1 = h1
    h2 = h2
    c1 = c1
    p = p
    a = a
    b = b
    c = c
    Handlers <- MCHandlers
    Chunks <- MCChunks
    AckSize = 2
    High = 1
    Low = 2
    MaxOutput = 3
    Clients = {c1}
    Paths = {p}
    Elsewhere = Elsewhere
    Contents <- MCContents
    Counts <- MCCounts
    MaxOthers = 1
SPECIFICATION Spec
INVARIANTS NothingLeft OutputAccounted PagesAreTheListing
PROPERTIES RemovesOnlyWhatItSaw OutputResumes CommandEnds
CHECK_DEADLOCK FALSE
