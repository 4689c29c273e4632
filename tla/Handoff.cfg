SPECIFICATION FairSpec
CONSTANTS
    MaxCommands = 3
    MaxFaults = 3
    SlowPersist = FALSE
INVARIANTS
    HandoffInv
    HumanHasThreadAlone
PROPERTIES
    RepeatIsAnswered
    AuthorityIsFreed
    SettlesOnOneOwner
CHECK_DEADLOCK FALSE
