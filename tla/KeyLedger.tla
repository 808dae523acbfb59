------------------------------ MODULE KeyLedger ------------------------------
(***************************************************************************)
(* What the api_keys table promises to the requests that use it: every     *)
(* call takes effect at one instant between its start and its answer, the  *)
(* per-user quota is decided at that instant, a revoked key never comes    *)
(* back, and a list shows every key that counts against the quota.         *)
(*                                                                         *)
(* Transactions, the advisory lock and the drafts of ApiKeyStore are       *)
(* invisible here; ApiKeyStore is shown to implement this module.          *)
(***************************************************************************)
EXTENDS Integers, FiniteSets

CONSTANTS
    User,       \* owners of keys: Keycloak subject identifiers
    KeyId,      \* identifiers of keys; a key's secret is identified with it
    Grant,      \* immutable permission grants, kept opaque here
    Request,    \* requests that may be in progress at once, over all pods
    Days,       \* lifetimes a caller may ask for
    Admin,      \* stands for every caller with the administrator role
    MaxKeys,    \* settings.max_keys_per_user
    NoRow,      \* rows[k] of a key that is not stored
    NoCall,     \* call[r] of a request slot not in use
    NoAnswer    \* answer[r] of a request still in progress

VARIABLES
    now,        \* the clock, in days
    rows,       \* rows[k]: the committed row of key k, or NoRow
    issued,     \* the keys ever stored: uuid4 gives none of them out again
    call,       \* call[r]: what request r asks for
    answer      \* answer[r]: what it was told

ledgerVars == <<now, rows, issued, call, answer>>

CreateCall == [op : {"create"}, user : User, grant : Grant, days : Days]
RevokeCall == [op : {"revoke"}, key : KeyId, by : User \cup {Admin}]
GetCall == [op : {"get"}, key : KeyId]
ListCall == [op : {"list"}, user : User]

Call == CreateCall \cup RevokeCall \cup GetCall \cup ListCall

Stored == {k \in KeyId : rows[k] # NoRow}

\* Every stored row counts, an expired one too.
KeysOf(u) == {k \in Stored : rows[k].owner = u}

InProgress(r) == call[r] # NoCall /\ answer[r] = NoAnswer

Answer(r, a) == answer' = [answer EXCEPT ![r] = a]

Failed == [kind |-> "error"]

Init ==
    /\ now = 0
    /\ rows = [k \in KeyId |-> NoRow]
    /\ issued = {}
    /\ call = [r \in Request |-> NoCall]
    /\ answer = [r \in Request |-> NoAnswer]

Tick ==
    /\ now' = now + 1
    /\ UNCHANGED <<rows, issued, call, answer>>

Begin(r, c) ==
    /\ call[r] = NoCall
    /\ call' = [call EXCEPT ![r] = c]
    /\ UNCHANGED <<now, rows, issued, answer>>

\* The row a create call stores, created at t with the grant it asked for.
RowFor(c, t) ==
    [owner |-> c.user, grant |-> c.grant, created |-> t, expires |-> t + c.days]

\* A key of a user below the quota is stored; the caller learns of it or,
\* when the answer is lost, does not.
Create(r, k) ==
    /\ InProgress(r) /\ call[r].op = "create"
    /\ k \notin issued
    /\ Cardinality(KeysOf(call[r].user)) < MaxKeys
    /\ \E t \in 0..now : rows' = [rows EXCEPT ![k] = RowFor(call[r], t)]
    /\ issued' = issued \cup {k}
    /\ \E a \in {[kind |-> "created", key |-> k], Failed} : Answer(r, a)
    /\ UNCHANGED <<now, call>>

\* The limit is reported only to a user who is at it.
Refuse(r) ==
    /\ InProgress(r) /\ call[r].op = "create"
    /\ Cardinality(KeysOf(call[r].user)) >= MaxKeys
    /\ Answer(r, [kind |-> "limit"])
    /\ UNCHANGED <<now, rows, issued, call>>

MayRevoke(c, row) == c.by \in {Admin, row.owner}

\* The key goes, or had gone by the hand of a concurrent revocation.
Revoke(r) ==
    /\ InProgress(r) /\ call[r].op = "revoke"
    /\ call[r].key \in issued
    /\ rows[call[r].key] # NoRow => MayRevoke(call[r], rows[call[r].key])
    /\ rows' = [rows EXCEPT ![call[r].key] = NoRow]
    /\ \E a \in {[kind |-> "revoked"], Failed} : Answer(r, a)
    /\ UNCHANGED <<now, issued, call>>

NotFound(r) ==
    /\ InProgress(r) /\ call[r].op = "revoke"
    /\ ~ (rows[call[r].key] # NoRow /\ MayRevoke(call[r], rows[call[r].key]))
    /\ Answer(r, [kind |-> "missing"])
    /\ UNCHANGED <<now, rows, issued, call>>

\* The secret of k validates exactly while the row is stored and unexpired.
Get(r) ==
    /\ InProgress(r) /\ call[r].op = "get"
    /\ LET row == rows[call[r].key]
       IN  IF row # NoRow /\ now < row.expires
           THEN Answer(r, [kind |-> "valid", row |-> row])
           ELSE Answer(r, [kind |-> "invalid"])
    /\ UNCHANGED <<now, rows, issued, call>>

List(r) ==
    /\ InProgress(r) /\ call[r].op = "list"
    /\ Answer(r, [kind |-> "listed", keys |-> KeysOf(call[r].user)])
    /\ UNCHANGED <<now, rows, issued, call>>

Fail(r) ==
    /\ InProgress(r)
    /\ Answer(r, Failed)
    /\ UNCHANGED <<now, rows, issued, call>>

Reply(r) ==
    /\ call[r] # NoCall /\ answer[r] # NoAnswer
    /\ call' = [call EXCEPT ![r] = NoCall]
    /\ answer' = [answer EXCEPT ![r] = NoAnswer]
    /\ UNCHANGED <<now, rows, issued>>

Next ==
    \/ Tick
    \/ \E r \in Request :
        \/ \E c \in Call : Begin(r, c)
        \/ \E k \in KeyId : Create(r, k)
        \/ Refuse(r)
        \/ Revoke(r) \/ NotFound(r)
        \/ Get(r) \/ List(r)
        \/ Fail(r)
        \/ Reply(r)

Spec == Init /\ [][Next]_ledgerVars
==============================================================================
