\* Two lookups of one principal at a time.
SPECIFICATION Spec
CONSTANTS
    Thread = {t1, t2}
    Principal = {p}
    TTL = 2
    NegativeTTL = 1
    CallTime = 1
    LockWait = 1
    MaxPages = 1
    MaxClients = 1
    NoEntry = NoEntry  NoPrincipal = NoPrincipal
PROPERTIES
    DiscardIsFinal
