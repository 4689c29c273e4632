SPECIFICATION Spec
CONSTANTS
    MaxMsg = 3
    UrgentMail <- NoneUrgent
    MaxBatch = 1
    MaxTurn = 6
    MaxAttempts = 2
    FaultKinds <- CrashOnly
    MaxFault = 1
INVARIANTS NoMailLost
