------------------------------ MODULE MCRequests ------------------------------
(* An instance of Requests for TLC.                                            *)
EXTENDS Requests, TLC

CONSTANTS t1, t2, u, v, sa, c1, i1, i2, k1, s1, s2, token, read, write

Reader == [client |-> c1, grant |-> {read}]
Writer == [client |-> c1, grant |-> {read, write}]

MCDescriptor == {Reader, Writer}
\* The first slot is in use, with a secret that nobody presents yet.
MCInitialFiles == {[grants |-> <<Reader, Writer>>, verifiers |-> <<s1, Blank>>]}
MCWritten == {Writer, s2, Blank, Malformed, Garbled}

Gateway(op, credential, form) == [op |-> op, credential |-> credential, form |-> form]
Create(by) ==
    [op |-> "create", by |-> by, target |-> u, grant |-> {read}, days |-> 1, form |-> 200,
     token |-> 200]

Revoke(verdict) == [op |-> "revoke", by |-> u, key |-> k1, form |-> 200, token |-> verdict]

\* One thread serves the gateway, the other one the owners of keys.
MCAsks ==
    t1 :> {Gateway("validate", s2, 200), Gateway("caller", k1, 200),
           Gateway("caller", token, 200), Gateway("caller", token, 403)}
    @@ t2 :> {Create(v), Create(Admin), Revoke(200), Revoke(401), Revoke(0),
              [op |-> "permissions", by |-> u, target |-> u, form |-> 200, token |-> 200],
              [op |-> "list", by |-> u, target |-> u, form |-> 200, token |-> 200],
              [op |-> "probe", form |-> 200]}

MCVarying == {"enabled", read}

MCVerdict == token :> 200
MCRoles == token :> {write}

\* The two clients, which may have the name in turn, are interchangeable.
Interchangeable == Permutations({i1, i2})
===============================================================================
