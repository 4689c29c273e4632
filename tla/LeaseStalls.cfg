SPECIFICATION FairSpec
CONSTANTS
    s1 = s1
    s2 = s2
    s3 = s3
    Supervisors <- TwoSupervisors
    TTL = 4
    RenewEvery = 1
    PassTime = 2
    Prompt = FALSE
PROPERTIES LeaseExtendedByOwner CrashIsRecovered
