SPECIFICATION FairSpec
CONSTANTS
    Nodes = {n1, n2}
    MaxVersion = 3
    Attempts = 2
    MaxFaults = 2
INVARIANTS
    NoNodePassedOver
PROPERTIES
    NewNodeKeepsFile
    FilesConverge
CHECK_DEADLOCK FALSE
