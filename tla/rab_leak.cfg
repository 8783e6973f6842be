SPECIFICATION FairSpec
CONSTANTS
    Jobs = {j1}
    Keys = {k1}
    Meanings = {m1}
    Workers = {w1}
    QueueCapacity = 1
    NoJob = NoJob
    Poison = Poison
    MaxBoots = 2
    MaxFaults = 0
    MaxCliRuns = 0
PROPERTIES
    UploadsGoAway
