CONSTANTS
    Timers = {t1}
    Delays = {0}
    WHEEL_SIZE = 2
    TICK_MS = 2
    MaxTick = 2
    MaxElapsed = 2
SPECIFICATION Spec
INVARIANT TicksKeepTime
