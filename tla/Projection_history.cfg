SPECIFICATION Spec
CONSTANTS
    Requests = {r1, r2}
    Offline = {o1}
    NoCall = NoCall
    MaxWrites = 2
    MaxLosses = 0
INVARIANT LoadedIsComplete
