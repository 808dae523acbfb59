\* A request thread and the background thread; a refresh interval that is
\* longer than the retry interval and than an HTTP call.
SPECIFICATION FairSpec
CONSTANTS
    Verifier = {v1}
    Refresher = Refresher
    Kid = {a, b}
    RefreshInterval = 2
    RetryInterval = 1
    Timeout = 1
    MarkDelay = 1
    NoKeys = NoKeys  NoThread = NoThread  NoKid = NoKid
PROPERTIES
    StopTerminates
    Recovers
CHECK_DEADLOCK FALSE
