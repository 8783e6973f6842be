SPECIFICATION Spec
CONSTANTS
    r = r
    a = a
    b = b
    Objects = {r, a, b}
    Root = r
    Contents <- NestedDisks
    MaxRecursionDepth = 2
    MaxChildrenPerObject = 2
    MaxTotalChildren = 3
    MaxSingleChildBytes = 3
    MaxTotalExtractedBytes = 4
    MaxExpansionRatio = 1
    MaxPartitionBytes = 3
    MaxTotalPartitionBytes = 2
INVARIANTS
    PartitionBudgetHolds
