SPECIFICATION FairSpec
CONSTANTS
    Procs = {p1, p2}
    NoProc = NoProc
    Keys = {k1, k2}
    NoKey = NoKey
    MaxAttempts = 1
    RetryBudget = 0
    AttemptBudget = 2
PROPERTY DispatchIsCapable
