SPECIFICATION FairSpec
CONSTANTS
    g1 = g1
    n1 = n1
    n2 = n2
    Nodes = {n1, n2}
    Groups = {g1}
    None = None
    Parent <- InAndOut
    Links <- DeepLinks
    OtherPages = TRUE
    MaxHead = 2
    MaxFaults = 1
    MaxClicks = 2
    MaxEvents = 2
INVARIANTS TypeOK CanvasIsLatest DetailIsLastPicked
PROPERTIES BusySettles PollKeepsRunning
CHECK_DEADLOCK FALSE
