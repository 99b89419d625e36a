SPECIFICATION Spec
CONSTANTS
    Procs = {p1, p2}
    Keys = {k1}
    Intents = {"a"}
    NoProc = NoProc
    MaxSegmentCount = 9
    MaxWrites = 3
    MaxLosses = 1
INVARIANT AckedSurvives
