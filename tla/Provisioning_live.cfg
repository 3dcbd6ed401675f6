\* One machine and one return request; two faults of any kind.
SPECIFICATION FairSpec
CONSTANTS
    r1 = r1
    r2 = r2
    m1 = m1
    m2 = m2
    Requests <- OneRequest
    Machines <- OneMachine
    RequestOf <- OnlyM1
    Returns = {t1}
    NoId = NoId
    Phases = {"pending", "running"}
    CronOn = FALSE
    AdminReturns = FALSE
    Backlog = 0
    Faults = {"api", "rw", "tw", "pw", "stream", "k8s"}
    MaxFaults = 2
PROPERTIES
    NoticedIsDoneOrStranded
    GoneIsReportedOrMissed
    NoticedReturnCompletes
CHECK_DEADLOCK FALSE
