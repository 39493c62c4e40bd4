\* Two concurrent calls; the server may answer twice and out of order.
CONSTANTS
    c1 = c1
    c2 = c2
    u1 = u1
    u2 = u2
    Main = Main
    NoOne = NoOne
    Calls <- TwoCalls
    Subscriptions <- None
    Senders <- MCSenders
    Payloads <- IPCPayloads
    RegularCap = 1
    ControlCap = 1
    MaxFrames = 4
    MaxMessage = 1
    MaxBare = 0
    MaxSends = 3
SPECIFICATION Safety
SYMMETRY Symmetry
INVARIANTS WaitingIsReachable DispatchNeverBlocks NoHandlerLeft
PROPERTY ImplementsRPC
CHECK_DEADLOCK FALSE
