\* A ttl and an interval in the default proportion, two instances, one of which restarts,
\* and one key lost by Redis.
CONSTANTS
    h1 = h1
    h2 = h2
    Host = {h1, h2}
    Nobody = Nobody
    TTL = 6
    Interval = 2
    Latency = 1
    MaxChecks = 1
    MaxStarts <- MCMaxStarts
    MaxLosses = 1
SPECIFICATION FairSpec
INVARIANT TypeOK
INVARIANT LeaderHoldsKey
PROPERTY KeyKept
PROPERTY StepdownAnnounced
PROPERTY LeadershipSettles
