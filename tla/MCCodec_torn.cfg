\* Messages of up to two values, each frame or the message itself cut short.
CONSTANTS
    Digit = 16
    Values <- MCValues
    Depth <- MCDepth
    Text <- MCText
    MaxValues = 2
    MaxLost = 2
SPECIFICATION Spec
INVARIANT RoundTrip
CHECK_DEADLOCK FALSE
