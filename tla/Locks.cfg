CONSTANTS
    Readers = {r1, r2, r3}
    Writers = {w1, w2}
    Callers = {t1, t2, t3, t4}
    Timeouts = {0, 2}
    MaxTime = 2
    Uses = {u1, u2, u3, u4}
    Initial = 2
SPECIFICATION LocksSpec
INVARIANTS
    WriterAlone
    SleepersAreBlocked
    IncrementsCounted
    PermitsSound
    NoStrandedPermit
PROPERTIES
    ImplementsThreadSafeData
    EveryThreadServed
    CallsReturn
