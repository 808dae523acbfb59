\* One lookup at a time; the gateway client may be recreated once;
\* groups of up to two pages, a negative entry's life longer than another's.
SPECIFICATION FairSpec
CONSTANTS
    Thread = {t1}
    Principal = {p}
    TTL = 1
    NegativeTTL = 2
    CallTime = 1
    LockWait = 1
    MaxPages = 2
    MaxClients = 2
    NoEntry = NoEntry  NoPrincipal = NoPrincipal
PROPERTIES
    LookupsRecover
    ImplementsPromise
