\* Three requests of two users with a lock each, a quota of one key.
SPECIFICATION Spec
CONSTANTS
    u1 = u1  u2 = u2  l1 = l1  l2 = l2
    r1 = r1  r2 = r2  r3 = r3  k1 = k1  k2 = k2  k3 = k3
    User = {u1, u2}
    LockKey = {l1, l2}
    LockOf <- OwnLocks
    Request = {r1, r2, r3}
    KeyId = {k1, k2}
    Grant = {g}
    Days = {1}
    MaxKeys = 1
    MaxTime = 1
    Admin = Admin  NoRow = NoRow  NoCall = NoCall  NoAnswer = NoAnswer
    NoDraft = NoDraft  NoRequest = NoRequest
SYMMETRY Interchangeable
INVARIANTS
    TypeOK
    QuotaHeld
    LocksFollowTransactions
    IInv
PROPERTIES
    ImplementsLedger
