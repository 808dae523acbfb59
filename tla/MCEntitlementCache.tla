-------------------------- MODULE MCEntitlementCache --------------------------
(* Instances of EntitlementCache for TLC.                                      *)
EXTENDS EntitlementCache, TLC

\* Request threads are interchangeable, and so are principals.
Interchangeable == Permutations(Thread) \cup Permutations(Principal)
===============================================================================
