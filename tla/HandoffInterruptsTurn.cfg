SPECIFICATION Spec
CONSTANTS
    MaxCommands = 2
    MaxFaults = 2
    SlowPersist = FALSE
PROPERTY
    ReleaseInterruptsNoTurn
CHECK_DEADLOCK FALSE
