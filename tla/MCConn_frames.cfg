\* Both directions: queues that are easily full, and two senders that race.
CONSTANTS
    s1 = s1
    s2 = s2
    p1 = p1
    Senders <- MCSenders
    Payloads <- MCPayloads
    RegularCap = 2
    ControlCap = 1
    MaxFrames = 4
    MaxMessage = 2
    MaxBare = 2
    MaxSends = 2
SPECIFICATION ConnSafety
SYMMETRY Symmetry
INVARIANTS ConnTypeOK NoFrameLost WireIDsUnique AckMatchesDelivery SignalImpliesClosed
PROPERTY ImplementsFrameChannel
CHECK_DEADLOCK FALSE
