SPECIFICATION Spec
CONSTANTS
    MaxSignals = 3
INVARIANT OnlySecondSignalExitsDirectly
CHECK_DEADLOCK FALSE
