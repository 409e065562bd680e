CONSTANTS
    Clients = {c1, c2, c3}
    poolSize = 2
    ConnectMayFail = TRUE
    ReconnectMayFail = TRUE
    MaxConnections = 3
    Users = {u1, u2, u3}
    initialSize = 0
    Sizes = {1, 2, 3}
    MayThrow = TRUE
    MaxObjects = 4
SPECIFICATION PoolsSpec
INVARIANTS
    EveryConnectionInOnePlace
    NoStrandedConnection
    EveryObjectInOnePlace
    NoStrandedObject
PROPERTIES
    EveryClientServed
    EveryUserServed
