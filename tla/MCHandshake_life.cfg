\* A connection from Dial to Close; stray Control frames overflow controlCh,
\* and writes block.
CONSTANTS
    s1 = s1
    p1 = p1
    Senders <- MCSenders
    Payloads <- MCPayloads
    RegularCap = 1
    ControlCap = 1
    MaxFrames = 2
    MaxMessage = 2
    MaxBare = 4
    MaxSends = 1
SPECIFICATION Spec
INVARIANT OnlyAcceptedInUse
PROPERTIES Shutdown EveryFrameArrives DeadSocketNoticed EverythingEnds
CHECK_DEADLOCK FALSE
