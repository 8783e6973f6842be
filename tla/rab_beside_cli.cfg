SPECIFICATION Spec
CONSTANTS
    Jobs = {j1, j2}
    Keys = {k1, k2}
    Meanings = {m1, m2}
    Workers = {w1, w2}
    QueueCapacity = 1
    NoJob = NoJob
    Poison = Poison
    MaxBoots = 2
    MaxFaults = 0
    MaxCliRuns = 1
SYMMETRY Symmetry
INVARIANTS
    AdmissionStillHolds
    OneJobPerKey
    OneWorkerPerJob
    StoppedIsClean
