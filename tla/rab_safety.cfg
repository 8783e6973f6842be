SPECIFICATION Spec
CONSTANTS
    Jobs = {j1, j2, j3}
    Keys = {k1, k2}
    Meanings = {m1}
    Workers = {w1, w2}
    QueueCapacity = 1
    NoJob = NoJob
    Poison = Poison
    MaxBoots = 3
    MaxFaults = 1
    MaxCliRuns = 0
SYMMETRY Symmetry
INVARIANTS
    TypeOK
    AdmissionStillHolds
    QueueIsBacked
    NoPhantomWork
    OneWorkerPerJob
    UploadIsTransient
    StoppedIsClean
PROPERTIES
    ImplementsContract
