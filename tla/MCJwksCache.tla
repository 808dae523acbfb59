----------------------------- MODULE MCJwksCache -----------------------------
(* Instances of JwksCache for TLC.                                           *)
EXTENDS JwksCache, TLC

\* Request threads, and key identifiers, are interchangeable.
Interchangeable == Permutations(Verifier) \cup Permutations(Kid)
==============================================================================
