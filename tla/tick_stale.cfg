SPECIFICATION Spec
CONSTANTS
    Interval = 2
    MaxTick = 6
    Latency = 0
INVARIANT OverdueTickIsUnfinished
