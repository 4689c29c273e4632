SPECIFICATION Spec
CONSTANTS
    MaxMsg = 3
    UrgentMail <- LastUrgent
    MaxBatch = 3
    MaxTurn = 9
    MaxAttempts = 1
    FaultKinds <- ProcessFaults
    MaxFault = 2
INVARIANTS TypeOK NoMailLost MailInOneBatch AcceptedWasCompleted DeliveringHasOwner RoutineNeverSteers PlanIsComplete CalmInv
PROPERTIES WriteAhead SettledIsFinal
