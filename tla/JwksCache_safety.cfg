\* Two request threads and the background thread; a retry interval that is
\* longer than the refresh interval and an HTTP call, so that keys put back after
\* a failure of the background thread outlive those of its own refresh.
SPECIFICATION Spec
CONSTANTS
    Verifier = {v1, v2}
    Refresher = Refresher
    Kid = {a, b}
    RefreshInterval = 1
    RetryInterval = 3
    Timeout = 1
    MarkDelay = 1
    NoKeys = NoKeys  NoThread = NoThread  NoKid = NoKid
SYMMETRY Interchangeable
INVARIANTS
    TypeOK
    FailedRefreshStands
    KeysAreRecent
    NoFetchAfterClose
    IInv
PROPERTIES
    OnlyLatestReplyStored
CHECK_DEADLOCK FALSE
