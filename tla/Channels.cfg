CONSTANTS
    Producers = {p1, p2, p3, p4}
    Consumers = {c1, c2}
    Bounds = {0, 1, 2}
    RingPushers = {p1, p2, p3}
    Sizes = {0, 1, 2}
SPECIFICATION ChannelsSpec
INVARIANTS
    NoLostWakeup
    RingInOrder
    RingNoLostWakeup
PROPERTIES
    ImplementsChannel
    NothingStays
