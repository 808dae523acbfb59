\* Two threads that wait for one another's token requests.  One life
\* is never used from the cache, the other is for one or two ticks more.
SPECIFICATION FairSpec
CONSTANTS
    Thread = {t1, t2}
    Timeout = 1
    Leeway = 2
    MaxSkew = 1
    Lives = {1, 4}
    MaxVoids = 1
    MaxAhead = 2
    NoToken = NoToken  NoThread = NoThread
INVARIANTS
    TypeOK
    CachedTokensArriveInTime
    WaitIsPaidFor
PROPERTIES
    LatestTokenStored
    LookupsRecover
