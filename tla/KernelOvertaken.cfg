SPECIFICATION Spec
CONSTANTS
    MaxMsg = 3
    UrgentMail <- LastUrgent
    MaxBatch = 1
    MaxTurn = 4
    MaxAttempts = 2
    FaultKinds <- NoFaults
    MaxFault = 0
INVARIANTS RunSurvivesBatch
