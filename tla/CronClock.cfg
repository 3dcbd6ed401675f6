SPECIFICATION Spec
CONSTANTS
    Interval <- TheIntervals
    Duration <- TheDurations
    Early = 1
    Jitter = 1
    PodTimeout = 2
    Jump = 1
    Machines = {m1}
    NoLink = NoLink
    MaxFaults = 1
INVARIANTS
    TypeOK
    NoTaskIsLate
    GivenUpInTime
PROPERTIES
    PatientWithMachines
