\* Two requests of two users who share a lock, a quota of one key of two.
SPECIFICATION FairSpec
CONSTANTS
    u1 = u1  u2 = u2  l1 = l1  l2 = l2
    r1 = r1  r2 = r2  r3 = r3  k1 = k1  k2 = k2  k3 = k3
    User = {u1, u2}
    LockKey = {l1}
    LockOf <- SharedLock
    Request = {r1, r2}
    KeyId = {k1, k2}
    Grant = {g}
    Days = {1}
    MaxKeys = 1
    MaxTime = 1
    Admin = Admin  NoRow = NoRow  NoCall = NoCall  NoAnswer = NoAnswer
    NoDraft = NoDraft  NoRequest = NoRequest
PROPERTIES
    EveryCallAnswered
