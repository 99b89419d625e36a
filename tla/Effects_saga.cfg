SPECIFICATION Spec
CONSTANTS
    Procs = {p1, p2}
    NoProc = NoProc
    Keys = {k1}
    NoKey = NoKey
    MaxAttempts = 2
    RetryBudget = 1
    AttemptBudget = 2
SYMMETRY Symmetry
INVARIANTS TypeOK DispatchedOnce OneAdapterCall SuccessIsConfirmed
PROPERTIES DispatchBySession
