SPECIFICATION RepairSpec
CONSTANTS
    Procs = {p1, p2}
    Nodes <- Chain
    NoNode = NoNode
    Definitions <- ChainDefs
    Edges <- ChainEdges
    FirstNodes <- ChainFirst
    FirstEdges <- ChainEdges
    Capacity = 1
    AttemptBudget = 2
    MaxAttempts = 1
    MaxChanges = 1
PROPERTIES SettleTerminates UnsettledIsRepaired
