SPECIFICATION FairSpec
CONSTANTS
    Seqs = {q1, q2}
    Creds = {c1, c2}
    None = None
    InUse = {c1}
    MaxRetry = 1
    MaxIrregular = 2
    MaxOthers = 1
INVARIANTS
    CredentialsWhole
    BusyMeansWorking

    
CHECK_DEADLOCK FALSE
