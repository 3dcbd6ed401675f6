\* Two machines through every phase, with and without the clean-up task.
SPECIFICATION Spec
CONSTANTS
    Machines = {m1, m2}
    Phases = {"pending", "running", "succeeded", "failed", "unknown"}
SYMMETRY Symmetry
INVARIANTS
    TypeOK
    VerdictIsOrderFree
    ClosedMeansSettled
    CompletedReturnStands
    IdLostOnlyToDeletion
