\* Two request threads and the background thread; a refresh interval that is
\* longer than the retry interval and than an HTTP call.
SPECIFICATION Spec
CONSTANTS
    Verifier = {v1, v2}
    Refresher = Refresher
    Kid = {a, b}
    RefreshInterval = 2
    RetryInterval = 1
    Timeout = 1
    MarkDelay = 1
    NoKeys = NoKeys  NoThread = NoThread  NoKid = NoKid
SYMMETRY Interchangeable
INVARIANTS
    PublishedKeyNever401
CHECK_DEADLOCK FALSE
