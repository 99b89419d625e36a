SPECIFICATION FairSpec
CONSTANTS
    Procs = {p1, p2}
    Keys = {k1}
    Intents = {"a"}
    NoProc = NoProc
    MaxSegmentCount = 3
    MaxWrites = 4
    MaxLosses = 1
INVARIANTS TypeOK ChainIntact OneCommitPerKey DecidedOnHead NothingAfterRetirement SidecarHasFence CreatedSurvives
PROPERTIES LogSpec LockReleased
