\* A thread for the gateway and one for the owners of keys; a pool of one connection.
SPECIFICATION Spec
CONSTANTS
    t1 = t1  t2 = t2  u = u  v = v  sa = sa  c1 = c1  i1 = i1  i2 = i2  k1 = k1  s1 = s1  s2 = s2
    token = token  read = read  write = write
    Thread = {t1, t2}
    Asks <- MCAsks
    PoolSize = 1
    KeyId = {k1}  Secret = {s1, s2}  Token = {token}
    User = {u}  Admin = Admin
    Permission = {read, write}  Days = {1}  MaxKeys = 1
    Client = {c1}  ServiceAccount = {sa}  Uuid = {i1, i2}
    Verdict <- MCVerdict  Roles <- MCRoles
    NSlots = 2  Descriptor <- MCDescriptor
    Malformed = Malformed  Garbled = Garbled  Missing = Missing  Blank = Blank
    NoFile = NoFile
    InitialFiles <- MCInitialFiles
    Written <- MCWritten  Varying <- MCVarying
    MaxTime = 1  MaxChanges = 2  Weight = 2
    NoRow = NoRow  NoCall = NoCall  NoAnswer = NoAnswer  Unavailable = Unavailable
    NoPrincipal = NoPrincipal  NoQuery = NoQuery  NoUuid = NoUuid
SYMMETRY Interchangeable
INVARIANTS
    TypeOK
    AcceptedWasJustified
    TornOnlyIfGrantFirst
    BrokenSlotRefusesAll
    KeptKeyNeverRefused
    UnavailabilityHasCause
    GrantsWithinTarget
    
