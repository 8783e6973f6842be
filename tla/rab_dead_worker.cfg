SPECIFICATION FairSpec
CONSTANTS
    Jobs = {j1, j2}
    Keys = {k1, k2}
    Meanings = {m1}
    Workers = {w1}
    QueueCapacity = 1
    NoJob = NoJob
    Poison = Poison
    MaxBoots = 1
    MaxFaults = 1
    MaxCliRuns = 0
PROPERTIES
    AcceptedJobsFinish
