SPECIFICATION Spec
CONSTANTS
    Procs = {p1, p2}
    Nodes <- Competing
    NoNode = NoNode
    Definitions <- CompeteDefs
    Edges <- CompeteEdges
    FirstNodes <- CompeteFirst
    FirstEdges <- CompeteEdges
    Capacity = 1
    AttemptBudget = 2
    MaxAttempts = 2
    MaxChanges = 2
SYMMETRY Symmetry
INVARIANTS TypeOK StartedOnInputs SkipIsJustified CapacityRespected NoOrphanLease ReleasedByConfirmation RetriesBounded
PROPERTIES PromiseSpec
