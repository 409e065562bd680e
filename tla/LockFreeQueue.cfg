CONSTANTS
    p1 = p1
    p2 = p2
    p3 = p3
    c1 = c1
    Producers <- MCProducers
    Consumers <- MCConsumers
    Casts <- MCCasts
    MayFail = TRUE
    Calls <- MCCalls
    Nodes = {n1, n2, n3}
SPECIFICATION FairSpec
INVARIANTS
    NoDanglingAccess
    ListHoldsTheRest
PROPERTIES
    ImplementsChannel
    EveryItemComesOut
