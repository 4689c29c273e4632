SPECIFICATION Spec
CONSTANTS
    s1 = s1
    s2 = s2
    s3 = s3
    Supervisors <- ThreeSupervisors
    TTL = 4
    RenewEvery = 1
    PassTime = 4
    Prompt = TRUE
SYMMETRY Interchangeable
INVARIANTS TypeOK OneDriver LeaseOutlivesPass
