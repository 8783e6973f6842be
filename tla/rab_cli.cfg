SPECIFICATION Spec
CONSTANTS
    Jobs = {j1}
    Keys = {k1}
    Meanings = {m1}
    Workers = {w1}
    QueueCapacity = 1
    NoJob = NoJob
    Poison = Poison
    MaxBoots = 1
    MaxFaults = 0
    MaxCliRuns = 1
PROPERTIES
    FinishedIsFinal
