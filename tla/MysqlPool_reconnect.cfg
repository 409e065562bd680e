CONSTANTS
    Clients = {c1, c2}
    poolSize = 1
    ConnectMayFail = FALSE
    ReconnectMayFail = TRUE
    MaxConnections = 1
SPECIFICATION FairSpec
PROPERTY
    FailedReconnectReturnsConnection
