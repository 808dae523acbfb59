---------------------------- MODULE MCApiKeyStore ----------------------------
(* Instances of ApiKeyStore for TLC.                                         *)
EXTENDS ApiKeyStore, TLC

CONSTANTS u1, u2, l1, l2, r1, r2, r3, k1, k2, k3

\* Two users whose identifiers have the same hash, and two who do not.
SharedLock == u1 :> l1 @@ u2 :> l1
OwnLocks == u1 :> l1 @@ u2 :> l2

\* Requests, and identifiers of keys, are interchangeable.
Interchangeable == Permutations(Request) \cup Permutations(KeyId)
==============================================================================
