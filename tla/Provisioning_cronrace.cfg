\* A machine times out before its request has been served.
SPECIFICATION Spec
CONSTANTS
    r1 = r1
    r2 = r2
    m1 = m1
    m2 = m2
    Requests <- OneRequest
    Machines <- OneMachine
    RequestOf <- OnlyM1
    Returns = {}
    NoId = NoId
    Phases = {"pending", "running"}
    CronOn = TRUE
    AdminReturns = FALSE
    Backlog = 0
    Faults = {}
    MaxFaults = 0
INVARIANTS
    TimedOutIsRemoved
CHECK_DEADLOCK FALSE
