\* A crash of the request-machines watcher between the creation and the flip.
SPECIFICATION FairSpec
CONSTANTS
    r1 = r1
    r2 = r2
    m1 = m1
    m2 = m2
    Requests <- OneRequest
    Machines <- OneMachine
    RequestOf <- OnlyM1
    Returns = {}
    NoId = NoId
    Phases = {"pending", "running"}
    CronOn = FALSE
    AdminReturns = FALSE
    Backlog = 0
    Faults = {"rw"}
    MaxFaults = 1
PROPERTIES
    NoticedIsProvisioned
CHECK_DEADLOCK FALSE
