\* Two places for three keys, and time for entries to expire.
CONSTANTS
    k1 = k1
    k2 = k2
    k3 = k3
    v1 = v1
    v2 = v2
    Keys <- MCKeys
    Values <- MCValues
    KeyGroups <- MCKeyGroups
    MaxSize = 2
    TTL = 1
    MaxTime = 3
SPECIFICATION Spec
INVARIANTS TypeOK CapacityBound NeverOutdated
PROPERTY EvictionOrder
