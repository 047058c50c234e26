CONSTANTS
    t = t
    a = a
    b = b
    c = c
    m = m
    none = none
    nodata = nodata
    Node = {t, a, b, c, m}
    Trigger = t
    NoNode = none
    NoData = nodata
    Definition <- SmallWorkflows
    MaxRuns = 6
    MaxResumes = 2
SPECIFICATION Spec
INVARIANT TypeOK
INVARIANT DeliveredOnce
INVARIANT PairsAreKept
INVARIANT NoLateInputs
INVARIANT NothingLeftBehind
CHECK_DEADLOCK FALSE
