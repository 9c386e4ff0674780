SPECIFICATION Spec
CONSTANTS
    MaxSignals = 3
INVARIANT TypeOK
INVARIANT CleanExit
INVARIANT PanicsAccountedFor
INVARIANT IInv
PROPERTY SecondSignalExits
PROPERTY SignalEndsProcess
CHECK_DEADLOCK FALSE
