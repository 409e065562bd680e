CONSTANTS
    Adds = {a1}
    Delays = {0}
    Intervals = {0}
    MaxTime = 2
SPECIFICATION FairSpec
PROPERTY
    StopReturns
