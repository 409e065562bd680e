CONSTANTS
    Peers = {p1, p2}
    Targets = {t1}
    Fds = {3, 4}
    Talkers = {}
    MaxData = 0
    MaxCalls = 3
    User = User
    Acceptor = Acceptor
SPECIFICATION Spec
INVARIANTS
    ConnectionsCounted
CHECK_DEADLOCK FALSE
