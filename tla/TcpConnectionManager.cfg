CONSTANTS
    Peers = {p1}
    Targets = {t1}
    Fds = {3, 4, 5}
    MaxData = 2
    Talkers = {p1}
    MaxCalls = 3
    User = User
    Acceptor = Acceptor
SPECIFICATION FairSpec
INVARIANTS
    CallbacksInOrder
PROPERTIES
    EndsAreAnnounced
CHECK_DEADLOCK FALSE
