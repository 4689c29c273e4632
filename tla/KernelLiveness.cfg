SPECIFICATION FairSpec
CONSTANTS
    MaxMsg = 2
    UrgentMail <- LastUrgent
    MaxBatch = 2
    MaxTurn = 7
    MaxAttempts = 2
    FaultKinds <- ProcessFaults
    MaxFault = 2
PROPERTIES EveryMailSettles
