\* Two publications race for one path; every step may fail, removals too, and
\* the machine may lose power once.
CONSTANTS
    Ops = {p1, p2}
    Prior = Prior
    NoFile = NoFile
    Final = Final
    Chunks = 2
    MaxPowerLoss = 1
SPECIFICATION Spec
INVARIANTS TypeOK NeverPartial FailureLeavesTarget NoOrphanTemp
PROPERTY PublishesAtomically
CHECK_DEADLOCK FALSE
