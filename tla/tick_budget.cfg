SPECIFICATION Spec
CONSTANTS
    Interval = 8
    MaxTick = 6
    Latency = 2
INVARIANT NoFalseAlarm
INVARIANT IInv
