\* One request of two machines and one return request; callers and watchers
\* die, the watch ends, nodes are drained, two of these at most.
SPECIFICATION Spec
CONSTANTS
    r1 = r1
    r2 = r2
    m1 = m1
    m2 = m2
    Requests <- OneRequest
    Machines <- TwoMachines
    RequestOf <- BothInOne
    Returns = {t1}
    NoId = NoId
    Phases = {"pending", "running"}
    CronOn = FALSE
    AdminReturns = FALSE
    Backlog = 0
    Faults = {"api", "rw", "tw", "pw", "stream", "k8s"}
    MaxFaults = 2
SYMMETRY Symmetry
INVARIANTS
    ProcessedIsCreated
    NoUntrackedPod
    NoZombie
    GoneListSound
    ReturnedPodsGo
PROPERTIES
    ImplementsRequestQueue
CHECK_DEADLOCK FALSE
