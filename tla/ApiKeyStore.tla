----------------------------- MODULE ApiKeyStore -----------------------------
(***************************************************************************)
(* The methods of config/database.py's ApiKey as the statements they send  *)
(* to PostgreSQL, interleaved over every worker thread of every pod.       *)
(*                                                                         *)
(* A statement sees what is committed (READ COMMITTED).  Creation takes    *)
(* the transaction-scoped advisory lock of its owner's hash, counts the    *)
(* owner's rows, then commits the new one.  Revocation reads the row and   *)
(* deletes it later, with no lock.  Any statement may fail, its pod may    *)
(* die, and a commit may succeed without the client learning of it.        *)
(*                                                                         *)
(* get_key reads the clock after its query.  The two are one step here:    *)
(* expiry only ever goes from no to yes, so what the pair decides is what  *)
(* one of the two instants would have decided.  The column revoked is left *)
(* out: revocation deletes the row, and nothing sets the flag.             *)
(***************************************************************************)
EXTENDS Integers, FiniteSets

CONSTANTS
    User, KeyId, Grant, Request, Days, Admin, MaxKeys,  \* as in KeyLedger
    LockKey,    \* values of hashtextextended(user_id, 0)
    LockOf,     \* the hash of each user: two users may share one
    MaxTime,    \* bound on the clock
    NoRow, NoCall, NoAnswer, NoDraft, NoRequest

ASSUME MaxKeysAssumption == MaxKeys \in Nat
ASSUME DaysAssumption == Days \subseteq Nat
ASSUME LockAssumption == LockOf \in [User -> LockKey]
VARIABLES
    now, rows, issued, call, answer,    \* as in KeyLedger
    pc,         \* the statement request r sends next
    lock,       \* lock[l]: the transaction holding advisory lock l
    draft       \* draft[r]: the row r has built and not committed

vars == <<now, rows, issued, call, answer, pc, lock, draft>>

Ledger == INSTANCE KeyLedger

Row == [owner : User, grant : Grant, created : Nat, expires : Nat]
Draft == [key : KeyId, row : Row]

Reply == [kind : {"limit", "revoked", "missing", "invalid", "error"}]
    \cup [kind : {"created"}, key : KeyId]
    \cup [kind : {"valid"}, row : Row]
    \cup [kind : {"listed"}, keys : SUBSET KeyId]

\* The null values are told from the values they stand beside.
ASSUME NullAssumption ==
    /\ Admin \notin User /\ NoRequest \notin Request
    /\ NoRow \notin Row /\ NoCall \notin Ledger!Call
    /\ NoAnswer \notin Reply /\ NoDraft \notin Draft

FirstStatement ==
    [create |-> "lock", revoke |-> "select", get |-> "get", list |-> "list"]

Statement == {"lock", "count", "commit", "select", "delete", "get", "list"}

KeysOf(u) == Ledger!KeysOf(u)

\* A slip: what other requests have drafted may be drawn again.
Unissued == KeyId \ issued

Drafted == {draft[r].key : r \in {s \in Request : draft[s] # NoDraft}}
Fresh == KeyId \ (issued \cup Drafted)

\* Creations that may still draw an identifier.
Undrawn == {r \in Request : pc[r] \in {"lock", "count"}}

Init ==
    /\ now = 0
    /\ rows = [k \in KeyId |-> NoRow]
    /\ issued = {}
    /\ call = [r \in Request |-> NoCall]
    /\ answer = [r \in Request |-> NoAnswer]
    /\ pc = [r \in Request |-> "idle"]
    /\ lock = [l \in LockKey |-> NoRequest]
    /\ draft = [r \in Request |-> NoDraft]

-----------------------------------------------------------------------------
\* A slip: a session-level lock, which outlives the transaction.
EndTransactionKeepingLock(r) ==
    /\ lock' = lock
    /\ draft' = [draft EXCEPT ![r] = NoDraft]

\* The end of r's transaction: its advisory lock goes with it, and so does
\* what it had built.
EndTransaction(r) ==
    /\ lock' = [l \in LockKey |-> IF lock[l] = r THEN NoRequest ELSE lock[l]]
    /\ draft' = [draft EXCEPT ![r] = NoDraft]

Finish(r, a) ==
    /\ answer' = [answer EXCEPT ![r] = a]
    /\ pc' = [pc EXCEPT ![r] = "done"]
    /\ EndTransaction(r)

Goto(r, statement) == pc' = [pc EXCEPT ![r] = statement]

\* A handler has been called.  Callers name keys they were given: an
\* identifier never stored is answered like that of a revoked key.  Creations
\* are bounded by the identifiers left.
Begin(r, c) ==
    /\ pc[r] = "idle"
    /\ c.op \in {"revoke", "get"} => c.key \in issued
    /\ c.op = "create" => Cardinality(Undrawn) < Cardinality(Fresh)
    /\ call' = [call EXCEPT ![r] = c]
    /\ Goto(r, FirstStatement[c.op])
    /\ UNCHANGED <<now, rows, issued, answer, lock, draft>>

\* A slip: no lock, only the count.
NeverWaits(u) == TRUE

LockFree(u) == lock[LockOf[u]] = NoRequest

\* SELECT pg_advisory_xact_lock(...): waits for the holder's transaction.
Lock(r) ==
    /\ pc[r] = "lock"
    /\ LockFree(call[r].user)
    /\ lock' = [lock EXCEPT ![LockOf[call[r].user]] = r]
    /\ Goto(r, "count")
    /\ UNCHANGED <<now, rows, issued, call, answer, draft>>

AtLimit(u) == Cardinality(KeysOf(u)) >= MaxKeys

RefuseCreate(r) ==
    /\ pc[r] = "count"
    /\ AtLimit(call[r].user)
    /\ Finish(r, [kind |-> "limit"])
    /\ UNCHANGED <<now, rows, issued, call>>

\* The row is stamped here, not when it is committed.
BuildRow(r, k) ==
    /\ pc[r] = "count"
    /\ ~ AtLimit(call[r].user)
    /\ k \in Fresh
    /\ draft' = [draft EXCEPT ![r] = [key |-> k, row |-> Ledger!RowFor(call[r], now)]]
    /\ Goto(r, "commit")
    /\ UNCHANGED <<now, rows, issued, call, answer, lock>>

\* Unless the connection fails in between, the client learns the commit's fate.
Commit(r) ==
    /\ pc[r] = "commit"
    /\ rows' = [rows EXCEPT ![draft[r].key] = draft[r].row]
    /\ issued' = issued \cup {draft[r].key}
    /\ \E a \in {[kind |-> "created", key |-> draft[r].key], Ledger!Failed} :
            Finish(r, a)
    /\ UNCHANGED <<now, call>>

\* A slip: no owner check.
SelectForRevokeUnchecked(r) ==
    /\ pc[r] = "select"
    /\ IF rows[call[r].key] # NoRow
       THEN Goto(r, "delete") /\ UNCHANGED <<answer, lock, draft>>
       ELSE Finish(r, [kind |-> "missing"])
    /\ UNCHANGED <<now, rows, issued, call>>

\* session.get, and for a caller who is no administrator the owner check.
SelectForRevoke(r) ==
    /\ pc[r] = "select"
    /\ LET row == rows[call[r].key]
       IN  IF row # NoRow /\ Ledger!MayRevoke(call[r], row)
           THEN Goto(r, "delete") /\ UNCHANGED <<answer, lock, draft>>
           ELSE Finish(r, [kind |-> "missing"])
    /\ UNCHANGED <<now, rows, issued, call>>

\* DELETE by primary key and commit.  A row that another request deleted
\* since the select is no error: SQLAlchemy warns and the answer is the same.
Delete(r) ==
    /\ pc[r] = "delete"
    /\ rows' = [rows EXCEPT ![call[r].key] = NoRow]
    /\ \E a \in {[kind |-> "revoked"], Ledger!Failed} : Finish(r, a)
    /\ UNCHANGED <<now, issued, call>>

Unexpired(row) == now < row.expires

\* A slip: the result of the query is not tested.
GetKeyUntested(r) ==
    /\ pc[r] = "get"
    /\ Finish(r, [kind |-> "valid", row |-> rows[call[r].key]])
    /\ UNCHANGED <<now, rows, issued, call>>

GetKey(r) ==
    /\ pc[r] = "get"
    /\ LET row == rows[call[r].key]
       IN  Finish(r, IF row # NoRow /\ Unexpired(row)
                     THEN [kind |-> "valid", row |-> row]
                     ELSE [kind |-> "invalid"])
    /\ UNCHANGED <<now, rows, issued, call>>

\* ORDER BY created_at DESC LIMIT max: some newest keys, and all of them when
\* no more than the limit are stored.  The order of equals is the identifiers'.
NewestKeys(u, limit) ==
    {S \in SUBSET KeysOf(u) :
        /\ Cardinality(S) <= limit
        /\ S = KeysOf(u) \/ Cardinality(S) = limit
        /\ \A k \in S, j \in KeysOf(u) \ S : rows[k].created >= rows[j].created}

ListKeys(r) ==
    /\ pc[r] = "list"
    /\ \E S \in NewestKeys(call[r].user, MaxKeys) :
            Finish(r, [kind |-> "listed", keys |-> S])
    /\ UNCHANGED <<now, rows, issued, call>>

\* A statement raises, or the pod dies: the transaction is rolled back.
Fail(r) ==
    /\ pc[r] \in Statement
    /\ Finish(r, Ledger!Failed)
    /\ UNCHANGED <<now, rows, issued, call>>

\* The answer is sent and the worker thread is free again.
Return(r) ==
    /\ pc[r] = "done"
    /\ call' = [call EXCEPT ![r] = NoCall]
    /\ answer' = [answer EXCEPT ![r] = NoAnswer]
    /\ Goto(r, "idle")
    /\ UNCHANGED <<now, rows, issued, lock, draft>>

Tick ==
    /\ now < MaxTime
    /\ now' = now + 1
    /\ UNCHANGED <<rows, issued, call, answer, pc, lock, draft>>

-----------------------------------------------------------------------------
Proceed(r) ==
    \/ RefuseCreate(r)
    \/ \E k \in KeyId : BuildRow(r, k)
    \/ Commit(r)
    \/ SelectForRevoke(r)
    \/ Delete(r)
    \/ GetKey(r)
    \/ ListKeys(r)

Next ==
    \/ Tick
    \/ \E r \in Request :
        \/ \E c \in Ledger!Call : Begin(r, c)
        \/ Lock(r)
        \/ Proceed(r)
        \/ Fail(r)
        \/ Return(r)

Spec == Init /\ [][Next]_vars

\* A worker thread runs on.  PostgreSQL grants an advisory lock in the order
\* of arrival, so a waiter that finds it free again and again gets it.
Fairness ==
    \A r \in Request : SF_vars(Lock(r)) /\ WF_vars(Proceed(r)) /\ WF_vars(Return(r))

FairSpec == Spec /\ Fairness

-----------------------------------------------------------------------------
(* Properties                                                              *)

Pc == Statement \cup {"idle", "done"}

\* The types of the table, the calls and the transactions.
TypeOK ==
    /\ now \in Nat
    /\ rows \in [KeyId -> Row \cup {NoRow}]
    /\ issued \subseteq KeyId
    /\ call \in [Request -> Ledger!Call \cup {NoCall}]
    /\ answer \in [Request -> Reply \cup {NoAnswer}]
    /\ pc \in [Request -> Pc]
    /\ lock \in [LockKey -> Request \cup {NoRequest}]
    /\ draft \in [Request -> Draft \cup {NoDraft}]

\* create_key's count and insert are two statements, run by any number of
\* pods: no user ever owns more than max_keys_per_user stored keys, whichever
\* users share a lock.
QuotaHeld == \A u \in User : Cardinality(KeysOf(u)) <= MaxKeys

\* An advisory lock is held by exactly the creations between their lock
\* statement and the end of their transaction, and it is their owner's:
\* neither the limit, an error nor a lost commit leaves one behind.
LocksFollowTransactions ==
    \A l \in LockKey, r \in Request :
        lock[l] = r <=> /\ pc[r] \in {"count", "commit"}
                        /\ LockOf[call[r].user] = l

\* A request runs the statements of the method it called.
CallsMatchStatements ==
    \A r \in Request :
        /\ pc[r] = "idle" <=> call[r] = NoCall
        /\ pc[r] = "done" <=> answer[r] # NoAnswer
        /\ pc[r] \in {"lock", "count", "commit"} => call[r] \in Ledger!CreateCall
        /\ pc[r] \in {"select", "delete"} => call[r] \in Ledger!RevokeCall
        /\ pc[r] = "get" => call[r] \in Ledger!GetCall
        /\ pc[r] = "list" => call[r] \in Ledger!ListCall

\* Only issued identifiers are stored, a finite number of them.
StoredAreIssued ==
    /\ IsFiniteSet(issued)
    /\ \A k \in KeyId : rows[k] # NoRow => k \in issued

\* A draft belongs to a creation about to commit, has an identifier of its
\* own, and holds what that creation asked for.
DraftsDistinct ==
    /\ \A r \in Request :
        /\ draft[r] # NoDraft <=> pc[r] = "commit"
        /\ pc[r] = "commit" =>
            /\ draft[r].key \notin issued
            /\ \E t \in 0..now : draft[r].row = Ledger!RowFor(call[r], t)
    /\ \A r, s \in Request :
        pc[r] = "commit" /\ pc[s] = "commit" /\ draft[r].key = draft[s].key => r = s

\* What a creation counted still holds when it commits, and what a revocation
\* checked still holds when it deletes.
ChecksStillHold ==
    \A r \in Request :
        /\ pc[r] = "commit" => Cardinality(KeysOf(call[r].user)) < MaxKeys
        /\ pc[r] = "delete" =>
            LET k == call[r].key
            IN  k \in issued /\ (rows[k] # NoRow => Ledger!MayRevoke(call[r], rows[k]))

\* The strengthening of QuotaHeld that every statement of every request keeps:
\* between count and commit the quota has room, because the lock keeps other
\* creations of the owner out and revocations only make more room.
IInv ==
    /\ TypeOK
    /\ CallsMatchStatements
    /\ StoredAreIssued
    /\ LocksFollowTransactions
    /\ DraftsDistinct
    /\ ChecksStillHold
    /\ QuotaHeld

\* Every method takes effect at one instant of its call, as KeyLedger
\* describes it: the limit is reported only at the limit, only the owner or
\* an administrator revokes, a revoked key never comes back, a key validates
\* while it is stored and unexpired, and list_keys leaves none out.
ImplementsLedger == Ledger!Spec

\* No request waits forever for an advisory lock or otherwise stays
\* unanswered, however the others end.
EveryCallAnswered == \A r \in Request : pc[r] \in Statement ~> pc[r] = "done"
==============================================================================
