SPECIFICATION Spec
CONSTANTS
    p = p
    c = c
    q = q
    r = r
    same = same
    different = different
    Nil = Nil
    Jobs = {p, c, q, r}
    Parent <- Family
    Digest <- Digests
    Workloads <- OneScan
    Scanners = {"clamav", "loki"}
    Analyzers = {"document", "executable"}
    CanReport <- Scanning
    Reported <- Analysis
    Rewritable = {r}
    MaxCrashes = 0
INVARIANTS
    PositiveIsQuarantined
