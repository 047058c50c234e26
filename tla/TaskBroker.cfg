\* One call of startTask(), one runner and one launcher, which reconnect; three offers:
\* enough for a deferral, a retry and a repetition.
CONSTANTS
    r1 = r1
    l1 = l1
    q1 = q1
    q2 = q2
    Request = {q1}
    Runner = {r1, l1}
    Launcher = {l1}
    MaxConcurrency = 1
    MaxOffers = 3
SPECIFICATION FairSpec
INVARIANT CallsAreHeld
INVARIANT ExecutesOnce
INVARIANT RunningIsWanted
INVARIANT ListsNameKnownRunners
PROPERTY EveryCallReturns
PROPERTY SlotsBecomeFree
CHECK_DEADLOCK FALSE
