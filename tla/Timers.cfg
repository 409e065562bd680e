CONSTANTS
    Adds = {a1, a2}
    Delays = {0, 2}
    Intervals = {0, 2}
    MaxTime = 3
    WheelTimers = {t1, t2, t3}
    WheelDelays = {0, 2}
    WHEEL_SIZE = 2
    TICK_MS = 1
    MaxTick = 3
    MaxElapsed = 2
SPECIFICATION TimersSpec
INVARIANTS
    TasksConserved
    WaitsForTheFirst
    WheelConserved
PROPERTIES
    IntervalsKept
    DueTasksStart
    FiresInItsTick
