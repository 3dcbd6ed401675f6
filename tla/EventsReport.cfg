\* A pod and a node, two seconds, and two transformations of what was told.
SPECIFICATION Spec
CONSTANTS
    Pods = {p1}
    Nodes = {n1}
    NoNode = NoNode
    MaxTime = 2
    MaxEvents = 3
    CpuCapacity <- TheCapacity
    CpuRequested <- TheRequest
    MaxRuns = 2
INVARIANTS
    SummarizedIsWhole
    StagesInOrder
PROPERTIES
    EarlierRunsStand
CHECK_DEADLOCK FALSE
