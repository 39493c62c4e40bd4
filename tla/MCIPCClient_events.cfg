\* A call beside a subscription, its events and its end.
CONSTANTS
    c1 = c1
    c2 = c2
    u1 = u1
    u2 = u2
    Main = Main
    NoOne = NoOne
    Calls <- OneCall
    Subscriptions <- OneSub
    Senders <- MCSenders
    Payloads <- IPCPayloads
    RegularCap = 1
    ControlCap = 1
    MaxFrames = 3
    MaxMessage = 1
    MaxBare = 0
    MaxSends = 4
SPECIFICATION Spec
INVARIANT NoEventMissed
PROPERTY CallsReturn
CHECK_DEADLOCK FALSE
