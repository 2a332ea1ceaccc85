SPECIFICATION MCSpec
CONSTANTS
    RingSize = 3
    Modulo = 18
    FirstFrame = 14
    MaxFrames = 8
INVARIANTS
    PassIsDelivered
    PicksStreamUp
PROPERTIES
    InCounterOrder
CHECK_DEADLOCK FALSE
