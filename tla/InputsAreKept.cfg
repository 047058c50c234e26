CONSTANTS
    t = t
    a = a
    b = b
    c = c
    m = m
    none = none
    nodata = nodata
    Node = {t, a, b, c, m}
    Trigger = t
    NoNode = none
    NoData = nodata
    Definition <- ManyBranches
    MaxRuns = 6
    MaxResumes = 2
INVARIANT InputsAreKept
SPECIFICATION Spec
CHECK_DEADLOCK FALSE
