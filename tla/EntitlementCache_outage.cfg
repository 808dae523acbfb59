\* One lookup at a time; the gateway client may be recreated once.
SPECIFICATION FairSpec
CONSTANTS
    Thread = {t1}
    Principal = {p}
    TTL = 2
    NegativeTTL = 1
    CallTime = 1
    LockWait = 1
    MaxPages = 1
    MaxClients = 2
    NoEntry = NoEntry  NoPrincipal = NoPrincipal
PROPERTIES
    OutagesEnd
