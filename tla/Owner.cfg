SPECIFICATION MCSpec
CONSTANTS
    Requests <- MCRequests
    Clients <- MCClients
    MaxCalls = 3
    MaxFrames = 2
    MaxThreads = 2
    MaxStarts = 3
INVARIANTS
    OwnersInv
    OneAnswerOnTheWire
    NoCallOutlivesConnection
    NothingHoldsMailBack
    LateAnswersNeverCount
    OwnsTheBoundThread
PROPERTIES
    
    PromiseKept
    
CHECK_DEADLOCK FALSE
