\* Two lookups of one principal at a time, groups of one page, an entry's life
\* longer than a negative one's.
SPECIFICATION Spec
CONSTANTS
    Thread = {t1, t2}
    Principal = {p}
    TTL = 2
    NegativeTTL = 1
    CallTime = 1
    LockWait = 1
    MaxPages = 1
    MaxClients = 1
    NoEntry = NoEntry  NoPrincipal = NoPrincipal
SYMMETRY Interchangeable
INVARIANTS
    TypeOK
    DisablingTakesEffect
    GrantsTakeEffect
    EnablingTakesEffect
    IInv
