SPECIFICATION Spec
CONSTANTS
    MaxMsg = 3
    UrgentMail <- LastUrgent
    MaxBatch = 2
    MaxTurn = 9
    MaxAttempts = 1
    FaultKinds <- OwnerFaults
    MaxFault = 2
INVARIANTS KernelInv
PROPERTIES ImplementsMailDelivery
