\* Two instances, each process tracks at most once; one execution that waits twice,
\* with webhooks, user stops and one failing database call.
CONSTANTS
    h1 = h1
    h2 = h2
    e1 = e1
    Host = {h1, h2}
    Execution = {e1}
    MaxWaits = 2
    MaxTerms = 1
    MaxFailures = 1
    Webhooks = TRUE
SPECIFICATION FairSpec
INVARIANT TypeOK
INVARIANT EntriesAreServed
PROPERTY OverdueIsResumed
