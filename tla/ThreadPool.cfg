CONSTANTS
    Workers = {w1, w2}
    Clients = {c1, c2, c3}
    Nesting = {c1}
SPECIFICATION FairSpec
INVARIANTS
    NoLostWakeup
    DestructorCompletesTasks
PROPERTIES
    ImplementsChannel
    EverythingEnds
