SPECIFICATION Spec
CONSTANTS
    Callers = {p1}
    RoleIDs = {"controller", "worker"}
    Controllers = {"controller"}
    Sessions = {s1, s2, s3}
    Keys = {k1}
    Fresh = Fresh
    NoCommand = NoCommand
    TTLs = {0}
    RenewalTTLs = {2}
    DefaultTTL = 1
    MaxTime = 1
    MaxHead = 4
SYMMETRY Symmetry
INVARIANTS TypeOK ReceiptIsExact
PROPERTIES PromiseSpec
