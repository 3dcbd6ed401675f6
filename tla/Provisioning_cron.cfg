\* One machine, one return request, the clean-up task, pods that are modified for
\* ever, and one fault of any kind but a death of the request-machines watcher.
SPECIFICATION FairSpec
CONSTANTS
    r1 = r1
    r2 = r2
    m1 = m1
    m2 = m2
    Requests <- OneRequest
    Machines <- OneMachine
    RequestOf <- OnlyM1
    Returns = {t1}
    NoId = NoId
    Phases = {"pending", "running"}
    CronOn = TRUE
    AdminReturns = TRUE
    Backlog = 1
    Faults = {"api", "tw", "pw", "stream", "k8s", "cron"}
    MaxFaults = 1
PROPERTIES
    StatusMoves
    GoneStaysDeleted
    NoneStaysPending
CHECK_DEADLOCK FALSE
