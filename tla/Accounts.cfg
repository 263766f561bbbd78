SPECIFICATION Spec
CONSTANTS
    root = root
    ann = ann
    t1 = t1
    t2 = t2
    Root = root
    Identity = {ann}
    Thread = {t1, t2}
    MaxFailures = 2
    Operation <- Everything
    MaxCalls = 6
    MaxLapses = 1
INVARIANTS
    
    SessionsFollowPassword
    AccountsInv
    AnsweredOnce
    LockHolds
CHECK_DEADLOCK FALSE
