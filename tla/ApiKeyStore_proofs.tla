-------------------------- MODULE ApiKeyStore_proofs --------------------------
(***************************************************************************)
(* For any numbers of users, keys, requests and pods, whatever the quota   *)
(* and whichever users share an advisory lock: IInv of ApiKeyStore is      *)
(* inductive, and with it the quota and the lock discipline hold.          *)
(*                                                                         *)
(* Each statement of a request has its lemma.  Statements that leave the   *)
(* table alone leave KeysOf alone; Commit adds one key to one owner, who   *)
(* had room; Delete takes one away.                                        *)
(***************************************************************************)
EXTENDS ApiKeyStore, FiniteSetTheorems, TLAPS

\* What a user owns is finite, so the number create_key counts is a natural.
LEMMA KeysFinite ==
    ASSUME StoredAreIssued, NEW u
    PROVE  IsFiniteSet(KeysOf(u)) /\ Cardinality(KeysOf(u)) \in Nat
<1>1. KeysOf(u) \in SUBSET issued
    BY DEF StoredAreIssued, KeysOf, Ledger!KeysOf, Ledger!Stored
<1>2. IsFiniteSet(issued)
    BY DEF StoredAreIssued
<1>3. IsFiniteSet(KeysOf(u))
    BY <1>1, <1>2, FS_Subset
<1> QED
    BY <1>3, FS_CardinalityType

\* A statement that leaves the table alone leaves what each user owns alone.
LEMMA KeysUnchanged ==
    ASSUME rows' = rows, NEW u
    PROVE  KeysOf(u)' = KeysOf(u)
BY DEF KeysOf, Ledger!KeysOf, Ledger!Stored

\* The row a creation builds is a row of the table.
LEMMA RowForType ==
    ASSUME NEW c \in Ledger!CreateCall, NEW t \in Nat
    PROVE  Ledger!RowFor(c, t) \in Row
<1>1. c.user \in User /\ c.grant \in Grant /\ c.days \in Nat
    BY DaysAssumption DEF Ledger!CreateCall
<1>2. t + c.days \in Nat
    BY <1>1
<1> QED
    BY <1>1, <1>2 DEF Ledger!RowFor, Row

\* The empty table satisfies the invariant.
LEMMA InitIInv == Init => IInv
<1> SUFFICES ASSUME Init PROVE IInv
    OBVIOUS
<1>1. TypeOK
    BY DEF Init, TypeOK, Pc
<1>2. CallsMatchStatements
    BY DEF Init, CallsMatchStatements
<1>3. StoredAreIssued
    BY FS_EmptySet DEF Init, StoredAreIssued
<1>4. LocksFollowTransactions
    BY NullAssumption DEF Init, LocksFollowTransactions
<1>5. DraftsDistinct
    BY DEF Init, DraftsDistinct
<1>6. ChecksStillHold
    BY DEF Init, ChecksStillHold
<1>7. QuotaHeld
    <2> SUFFICES ASSUME NEW u \in User PROVE Cardinality(KeysOf(u)) <= MaxKeys
        BY DEF QuotaHeld
    <2>1. KeysOf(u) = {}
        BY DEF Init, KeysOf, Ledger!KeysOf, Ledger!Stored
    <2> QED
        BY <2>1, FS_EmptySet, MaxKeysAssumption
<1> QED
    BY <1>1, <1>2, <1>3, <1>4, <1>5, <1>6, <1>7 DEF IInv

\* Time passing.
LEMMA TickIInv == ASSUME IInv, Tick PROVE IInv'
<1> USE DEF IInv, Tick
<1>1. TypeOK'
    BY DEF TypeOK
<1>2. CallsMatchStatements' /\ LocksFollowTransactions'
    BY DEF CallsMatchStatements, LocksFollowTransactions
<1>3. StoredAreIssued'
    BY DEF StoredAreIssued
<1>4. DraftsDistinct'
    <2>1. now \in Nat /\ 0..now \subseteq 0..now'
        BY DEF TypeOK
    <2> QED
        BY <2>1 DEF DraftsDistinct
<1>5. ChecksStillHold' /\ QuotaHeld'
    BY KeysUnchanged DEF ChecksStillHold, QuotaHeld
<1> QED
    BY <1>1, <1>2, <1>3, <1>4, <1>5

\* A call begins.
LEMMA BeginIInv ==
    ASSUME IInv, NEW r \in Request, NEW c \in Ledger!Call, Begin(r, c)
    PROVE  IInv'
<1> USE DEF IInv, Begin, Goto
<1>1. /\ pc[r] = "idle" /\ pc' = [pc EXCEPT ![r] = FirstStatement[c.op]]
      /\ call' = [call EXCEPT ![r] = c]
      /\ UNCHANGED <<now, rows, issued, answer, lock, draft>>
    OBVIOUS
<1>2. \/ c \in Ledger!CreateCall /\ FirstStatement[c.op] = "lock"
      \/ c \in Ledger!RevokeCall /\ FirstStatement[c.op] = "select"
      \/ c \in Ledger!GetCall /\ FirstStatement[c.op] = "get"
      \/ c \in Ledger!ListCall /\ FirstStatement[c.op] = "list"
    BY DEF FirstStatement, Ledger!Call, Ledger!CreateCall, Ledger!RevokeCall,
           Ledger!GetCall, Ledger!ListCall
<1> HIDE DEF Begin, Goto
<1>3. TypeOK'
    BY <1>1, <1>2 DEF TypeOK, Pc, Statement
<1>4. CallsMatchStatements'
    BY <1>1, <1>2, NullAssumption DEF TypeOK, CallsMatchStatements
<1>5. StoredAreIssued'
    BY <1>1 DEF StoredAreIssued
<1>6. LocksFollowTransactions'
    BY <1>1, <1>2 DEF TypeOK, LocksFollowTransactions
<1>7. DraftsDistinct'
    BY <1>1, <1>2 DEF TypeOK, DraftsDistinct
<1>8. ChecksStillHold'
    BY <1>1, <1>2, KeysUnchanged DEF TypeOK, ChecksStillHold
<1>9. QuotaHeld'
    BY <1>1, KeysUnchanged DEF QuotaHeld
<1> QED
    BY <1>3, <1>4, <1>5, <1>6, <1>7, <1>8, <1>9

\* A creation takes its owner's lock.
LEMMA LockIInv ==
    ASSUME IInv, NEW r \in Request, Lock(r)
    PROVE  IInv'
<1> USE DEF IInv
<1>1. /\ pc[r] = "lock" /\ pc' = [pc EXCEPT ![r] = "count"]
      /\ lock[LockOf[call[r].user]] = NoRequest
      /\ lock' = [lock EXCEPT ![LockOf[call[r].user]] = r]
      /\ UNCHANGED <<now, rows, issued, call, answer, draft>>
    BY DEF Lock, LockFree, Goto
<1>2. call[r] \in Ledger!CreateCall /\ call[r].user \in User
      /\ LockOf[call[r].user] \in LockKey
    BY <1>1, LockAssumption DEF CallsMatchStatements, Ledger!CreateCall
<1>3. TypeOK'
    BY <1>1, <1>2 DEF TypeOK, Pc, Statement
<1>4. CallsMatchStatements'
    BY <1>1, <1>2 DEF TypeOK, CallsMatchStatements
<1>5. StoredAreIssued'
    BY <1>1 DEF StoredAreIssued
<1>6. LocksFollowTransactions'
    BY <1>1, <1>2, NullAssumption DEF TypeOK, LocksFollowTransactions
<1>7. DraftsDistinct'
    BY <1>1 DEF TypeOK, DraftsDistinct
<1>8. ChecksStillHold'
    BY <1>1, KeysUnchanged DEF TypeOK, ChecksStillHold
<1>9. QuotaHeld'
    BY <1>1, KeysUnchanged DEF QuotaHeld
<1> QED
    BY <1>3, <1>4, <1>5, <1>6, <1>7, <1>8, <1>9

\* What the end of a request's work does to the locks, calls and drafts.
LEMMA FinishKeeps ==
    ASSUME IInv, NEW r \in Request, NEW a \in Reply,
           pc[r] \in Statement, Finish(r, a), call' = call
    PROVE  /\ pc' \in [Request -> Pc]
           /\ answer' \in [Request -> Reply \cup {NoAnswer}]
           /\ lock' \in [LockKey -> Request \cup {NoRequest}]
           /\ draft' \in [Request -> Draft \cup {NoDraft}]
           /\ CallsMatchStatements'
           /\ LocksFollowTransactions'
           /\ \A s \in Request : pc'[s] = IF s = r THEN "done" ELSE pc[s]
           /\ \A s \in Request : draft'[s] = IF s = r THEN NoDraft ELSE draft[s]
<1> USE DEF IInv
<1>1. /\ answer' = [answer EXCEPT ![r] = a]
      /\ pc' = [pc EXCEPT ![r] = "done"]
      /\ lock' = [l \in LockKey |-> IF lock[l] = r THEN NoRequest ELSE lock[l]]
      /\ draft' = [draft EXCEPT ![r] = NoDraft]
    BY DEF Finish, EndTransaction
<1>2. /\ pc' \in [Request -> Pc]
      /\ answer' \in [Request -> Reply \cup {NoAnswer}]
      /\ lock' \in [LockKey -> Request \cup {NoRequest}]
      /\ draft' \in [Request -> Draft \cup {NoDraft}]
    BY <1>1 DEF TypeOK, Pc
<1>3. \A s \in Request : pc'[s] = IF s = r THEN "done" ELSE pc[s]
    BY <1>1 DEF TypeOK
<1>4. \A s \in Request : draft'[s] = IF s = r THEN NoDraft ELSE draft[s]
    BY <1>1 DEF TypeOK
<1>5. \A s \in Request : answer'[s] = IF s = r THEN a ELSE answer[s]
    BY <1>1 DEF TypeOK
<1>6. CallsMatchStatements'
    BY <1>3, <1>5, NullAssumption DEF CallsMatchStatements, Statement
<1>7. LocksFollowTransactions'
    BY <1>1, <1>3, NullAssumption DEF TypeOK, LocksFollowTransactions
<1> QED
    BY <1>2, <1>3, <1>4, <1>6, <1>7

\* A request that ends without writing: at the limit, nothing to revoke, a
\* read, a failure.
LEMMA FinishUnwrittenIInv ==
    ASSUME IInv, NEW r \in Request, NEW a \in Reply,
           pc[r] \in Statement, Finish(r, a),
           UNCHANGED <<now, rows, issued, call>>
    PROVE  IInv'
<1> USE DEF IInv
<1>1. /\ pc' \in [Request -> Pc]
      /\ answer' \in [Request -> Reply \cup {NoAnswer}]
      /\ lock' \in [LockKey -> Request \cup {NoRequest}]
      /\ draft' \in [Request -> Draft \cup {NoDraft}]
      /\ CallsMatchStatements'
      /\ LocksFollowTransactions'
      /\ \A s \in Request : pc'[s] = IF s = r THEN "done" ELSE pc[s]
      /\ \A s \in Request : draft'[s] = IF s = r THEN NoDraft ELSE draft[s]
    BY FinishKeeps
<1>2. TypeOK'
    BY <1>1 DEF TypeOK
<1>3. StoredAreIssued'
    BY DEF StoredAreIssued
<1>4. DraftsDistinct'
    BY <1>1 DEF DraftsDistinct
<1>5. ChecksStillHold'
    BY <1>1, KeysUnchanged DEF ChecksStillHold
<1>6. QuotaHeld'
    BY KeysUnchanged DEF QuotaHeld
<1> QED
    BY <1>1, <1>2, <1>3, <1>4, <1>5, <1>6

\* A creation builds its row, having found room for it.
LEMMA BuildRowIInv ==
    ASSUME IInv, NEW r \in Request, NEW k \in KeyId, BuildRow(r, k)
    PROVE  IInv'
<1> USE DEF IInv
<1> DEFINE d == [key |-> k, row |-> Ledger!RowFor(call[r], now)]
<1>1. /\ pc[r] = "count" /\ pc' = [pc EXCEPT ![r] = "commit"]
      /\ ~ (Cardinality(KeysOf(call[r].user)) >= MaxKeys)
      /\ k \in Fresh
      /\ draft' = [draft EXCEPT ![r] = d]
      /\ UNCHANGED <<now, rows, issued, call, answer, lock>>
    BY DEF BuildRow, AtLimit, Goto
<1>2. call[r] \in Ledger!CreateCall /\ now \in Nat
    BY <1>1 DEF CallsMatchStatements, TypeOK
<1>3. d \in Draft
    BY <1>2, RowForType DEF Draft
<1>4. TypeOK'
    BY <1>1, <1>3 DEF TypeOK, Pc, Statement
<1>5. CallsMatchStatements'
    BY <1>1, <1>2 DEF TypeOK, CallsMatchStatements
<1>6. StoredAreIssued'
    BY <1>1 DEF StoredAreIssued
<1>7. LocksFollowTransactions'
    BY <1>1 DEF TypeOK, LocksFollowTransactions
<1>8. DraftsDistinct'
    <2>1. \A s \in Request : /\ pc'[s] = IF s = r THEN "commit" ELSE pc[s]
                             /\ draft'[s] = IF s = r THEN d ELSE draft[s]
        BY <1>1 DEF TypeOK
    <2>2. k \notin issued /\ \A s \in Request : draft[s] # NoDraft => draft[s].key # k
        BY <1>1 DEF Fresh, Drafted
    <2>3. d # NoDraft /\ d.key = k /\ d.row = Ledger!RowFor(call[r], now)
        BY <1>3, NullAssumption
    <2>4. now \in 0..now
        BY <1>2
    <2> HIDE DEF d
    <2>5. ASSUME NEW s \in Request
          PROVE  /\ draft'[s] # NoDraft <=> pc'[s] = "commit"
                 /\ pc'[s] = "commit" =>
                     /\ draft'[s].key \notin issued
                     /\ \E t \in 0..now : draft'[s].row = Ledger!RowFor(call[s], t)
        BY <2>1, <2>2, <2>3, <2>4 DEF DraftsDistinct
    <2>6. ASSUME NEW s \in Request, NEW q \in Request,
                 pc'[s] = "commit", pc'[q] = "commit", draft'[s].key = draft'[q].key
          PROVE  s = q
        BY <2>1, <2>2, <2>3, <2>6 DEF DraftsDistinct
    <2> QED
        BY <1>1, <2>5, <2>6 DEF DraftsDistinct
<1>9. ChecksStillHold'
    <2>1. Cardinality(KeysOf(call[r].user)) < MaxKeys
        BY <1>1, KeysFinite, MaxKeysAssumption
    <2> QED
        BY <1>1, <2>1, KeysUnchanged DEF TypeOK, ChecksStillHold
<1>10. QuotaHeld'
    BY <1>1, KeysUnchanged DEF QuotaHeld
<1> QED
    BY <1>4, <1>5, <1>6, <1>7, <1>8, <1>9, <1>10

\* A commit stores one row, of the request's own user, at a new identifier.
LEMMA CommitStores ==
    ASSUME IInv, NEW r \in Request, Commit(r)
    PROVE  LET k == draft[r].key
               o == call[r].user
           IN  /\ call[r] \in Ledger!CreateCall
               /\ k \in KeyId /\ k \notin issued /\ draft[r].row \in Row
               /\ \E t \in 0..now : draft[r].row = Ledger!RowFor(call[r], t)
               /\ \A j \in KeyId : rows'[j] = IF j = k THEN draft[r].row ELSE rows[j]
               /\ \A u : KeysOf(u)' = IF u = o THEN KeysOf(u) \cup {k} ELSE KeysOf(u)
<1> USE DEF IInv
<1> DEFINE k == draft[r].key
           o == call[r].user
<1>1. pc[r] = "commit" /\ rows' = [rows EXCEPT ![k] = draft[r].row]
    BY DEF Commit
<1>2. draft[r] \in Draft /\ k \in KeyId /\ draft[r].row \in Row /\ k \notin issued
    BY <1>1 DEF DraftsDistinct, TypeOK, Draft
<1>3. call[r] \in Ledger!CreateCall
    BY <1>1 DEF CallsMatchStatements
<1>4. \E t \in 0..now : draft[r].row = Ledger!RowFor(call[r], t)
    BY <1>1 DEF DraftsDistinct
<1>5. draft[r].row.owner = o
    BY <1>4 DEF Ledger!RowFor
<1>6. \A j \in KeyId : rows'[j] = IF j = k THEN draft[r].row ELSE rows[j]
    BY <1>1 DEF TypeOK
<1>7. draft[r].row # NoRow /\ rows[k] = NoRow
    BY <1>2, NullAssumption DEF StoredAreIssued
<1> HIDE DEF k, o
<1>8. ASSUME NEW u
      PROVE  KeysOf(u)' = IF u = o THEN KeysOf(u) \cup {k} ELSE KeysOf(u)
    BY <1>2, <1>5, <1>6, <1>7 DEF KeysOf, Ledger!KeysOf, Ledger!Stored
<1> QED
    BY <1>2, <1>3, <1>4, <1>6, <1>8 DEF k, o

\* A creation commits.  No other creation of this owner is past its lock.
LEMMA CommitIInv ==
    ASSUME IInv, NEW r \in Request, Commit(r)
    PROVE  IInv'
<1> USE DEF IInv
<1> DEFINE k == draft[r].key
           o == call[r].user
<1>1. /\ pc[r] = "commit" /\ call' = call /\ now' = now
      /\ rows' = [rows EXCEPT ![k] = draft[r].row]
      /\ issued' = issued \cup {k}
      /\ \E a \in {[kind |-> "created", key |-> k], Ledger!Failed} : Finish(r, a)
    BY DEF Commit
<1>2. /\ call[r] \in Ledger!CreateCall
      /\ k \in KeyId /\ k \notin issued /\ draft[r].row \in Row
      /\ \A j \in KeyId : rows'[j] = IF j = k THEN draft[r].row ELSE rows[j]
      /\ \A u : KeysOf(u)' = IF u = o THEN KeysOf(u) \cup {k} ELSE KeysOf(u)
    BY CommitStores
<1>3. PICK a \in Reply : Finish(r, a)
    BY <1>1, <1>2 DEF Ledger!Failed, Reply
<1>4. /\ pc' \in [Request -> Pc]
      /\ answer' \in [Request -> Reply \cup {NoAnswer}]
      /\ lock' \in [LockKey -> Request \cup {NoRequest}]
      /\ draft' \in [Request -> Draft \cup {NoDraft}]
      /\ CallsMatchStatements'
      /\ LocksFollowTransactions'
      /\ \A s \in Request : pc'[s] = IF s = r THEN "done" ELSE pc[s]
      /\ \A s \in Request : draft'[s] = IF s = r THEN NoDraft ELSE draft[s]
    BY <1>1, <1>3, FinishKeeps DEF Statement
<1>5. ASSUME NEW s \in Request, s # r, pc[s] = "commit"
      PROVE  call[s].user # o
    <2>1. call[s].user \in User /\ o \in User
        BY <1>2, <1>5 DEF CallsMatchStatements, Ledger!CreateCall
    <2>2. lock[LockOf[o]] = r /\ lock[LockOf[call[s].user]] = s
        BY <1>1, <1>5, <2>1, LockAssumption DEF LocksFollowTransactions
    <2> QED
        BY <1>5, <2>2
<1>6. Cardinality(KeysOf(o)) < MaxKeys
    BY <1>1 DEF ChecksStillHold
<1>7. \A s \in Request : s # r /\ pc[s] = "commit" => draft[s].key # k
    BY <1>1 DEF DraftsDistinct
<1> HIDE DEF k, o
<1>8. TypeOK'
    BY <1>1, <1>2, <1>4 DEF TypeOK
<1>9. StoredAreIssued'
    <2>1. IsFiniteSet(issued \cup {k})
        BY FS_AddElement DEF StoredAreIssued
    <2> QED
        BY <1>1, <1>2, <2>1 DEF StoredAreIssued
<1>10. DraftsDistinct'
    BY <1>1, <1>4, <1>7 DEF DraftsDistinct
<1>11. ChecksStillHold'
    <2> SUFFICES ASSUME NEW s \in Request, s # r
                 PROVE  /\ pc[s] = "commit" => Cardinality(KeysOf(call[s].user)') < MaxKeys
                        /\ pc[s] = "delete" =>
                            LET j == call[s].key
                            IN  /\ j \in issued'
                                /\ rows'[j] # NoRow => Ledger!MayRevoke(call[s], rows'[j])
        BY <1>1, <1>4 DEF ChecksStillHold, Ledger!MayRevoke
    <2>1. ASSUME pc[s] = "commit"
          PROVE  Cardinality(KeysOf(call[s].user)') < MaxKeys
        <3>1. KeysOf(call[s].user)' = KeysOf(call[s].user)
            BY <1>1, <1>2, <1>5, <2>1
        <3> QED
            BY <2>1, <3>1 DEF ChecksStillHold
    <2>2. ASSUME pc[s] = "delete"
          PROVE  LET j == call[s].key
                 IN  /\ j \in issued'
                     /\ rows'[j] # NoRow => Ledger!MayRevoke(call[s], rows'[j])
        <3>1. call[s].key \in issued /\ call[s].key \in KeyId
            BY <2>2 DEF ChecksStillHold, TypeOK
        <3> QED
            BY <1>1, <1>2, <2>2, <3>1 DEF ChecksStillHold
    <2> QED
        BY <2>1, <2>2
<1>12. QuotaHeld'
    <2> SUFFICES ASSUME NEW u \in User PROVE Cardinality(KeysOf(u)') <= MaxKeys
        BY DEF QuotaHeld
    <2>1. CASE u = o
        <3>1. /\ Cardinality(KeysOf(o)) \in Nat
              /\ Cardinality(KeysOf(o) \cup {k}) <= Cardinality(KeysOf(o)) + 1
            BY KeysFinite, FS_AddElement
        <3>2. KeysOf(u)' = KeysOf(o) \cup {k}
            BY <1>2, <2>1
        <3>3. IsFiniteSet(KeysOf(o) \cup {k})
            BY KeysFinite, FS_AddElement
        <3>4. Cardinality(KeysOf(o) \cup {k}) \in Nat
            BY <3>3, FS_CardinalityType
        <3>5. Cardinality(KeysOf(o) \cup {k}) <= MaxKeys
            BY <1>6, <3>1, <3>4, MaxKeysAssumption
        <3> QED
            BY <3>2, <3>5
    <2>2. CASE u # o
        BY <1>2, <2>2 DEF QuotaHeld
    <2> QED
        BY <2>1, <2>2
<1> QED
    BY <1>4, <1>8, <1>9, <1>10, <1>11, <1>12

\* A revocation deletes its row, if a concurrent one has not: keys only go.
LEMMA DeleteIInv ==
    ASSUME IInv, NEW r \in Request, Delete(r)
    PROVE  IInv'
<1> USE DEF IInv
<1>1. /\ pc[r] = "delete" /\ UNCHANGED <<now, issued, call>>
      /\ rows' = [rows EXCEPT ![call[r].key] = NoRow]
      /\ \E a \in {[kind |-> "revoked"], Ledger!Failed} : Finish(r, a)
    BY DEF Delete
<1>2. PICK a \in Reply : Finish(r, a)
    BY <1>1 DEF Ledger!Failed, Reply
<1>3. /\ pc' \in [Request -> Pc]
      /\ answer' \in [Request -> Reply \cup {NoAnswer}]
      /\ lock' \in [LockKey -> Request \cup {NoRequest}]
      /\ draft' \in [Request -> Draft \cup {NoDraft}]
      /\ CallsMatchStatements'
      /\ LocksFollowTransactions'
      /\ \A s \in Request : pc'[s] = IF s = r THEN "done" ELSE pc[s]
      /\ \A s \in Request : draft'[s] = IF s = r THEN NoDraft ELSE draft[s]
    BY <1>1, <1>2, FinishKeeps DEF Statement
<1>4. \A j \in KeyId : rows'[j] = IF j = call[r].key THEN NoRow ELSE rows[j]
    BY <1>1 DEF TypeOK
<1>5. rows' \in [KeyId -> Row \cup {NoRow}]
    BY <1>1 DEF TypeOK
<1>6. ASSUME NEW u
      PROVE  /\ Cardinality(KeysOf(u)) \in Nat /\ Cardinality(KeysOf(u)') \in Nat
             /\ Cardinality(KeysOf(u)') <= Cardinality(KeysOf(u))
    <2>1. KeysOf(u)' \in SUBSET KeysOf(u)
        BY <1>4 DEF KeysOf, Ledger!KeysOf, Ledger!Stored
    <2>2. IsFiniteSet(KeysOf(u)) /\ Cardinality(KeysOf(u)) \in Nat
        BY KeysFinite
    <2>3. /\ IsFiniteSet(KeysOf(u)')
          /\ Cardinality(KeysOf(u)') <= Cardinality(KeysOf(u))
        BY <2>1, <2>2, FS_Subset
    <2> QED
        BY <2>2, <2>3, FS_CardinalityType
<1>7. TypeOK'
    BY <1>1, <1>3, <1>5 DEF TypeOK
<1>8. StoredAreIssued'
    BY <1>1, <1>4 DEF StoredAreIssued
<1>9. DraftsDistinct'
    BY <1>1, <1>3 DEF DraftsDistinct
<1>10. ChecksStillHold'
    <2> SUFFICES ASSUME NEW s \in Request, s # r
                 PROVE  /\ pc[s] = "commit" => Cardinality(KeysOf(call[s].user)') < MaxKeys
                        /\ pc[s] = "delete" =>
                            LET j == call[s].key
                            IN  /\ j \in issued'
                                /\ rows'[j] # NoRow => Ledger!MayRevoke(call[s], rows'[j])
        BY <1>1, <1>3 DEF ChecksStillHold, Ledger!MayRevoke
    <2>1. ASSUME pc[s] = "commit"
          PROVE  Cardinality(KeysOf(call[s].user)') < MaxKeys
        <3>1. Cardinality(KeysOf(call[s].user)) < MaxKeys
            BY <2>1 DEF ChecksStillHold
        <3>2. call' = call
            BY <1>1
        <3> QED
            BY <1>6, <3>1, <3>2, MaxKeysAssumption
    <2>2. ASSUME pc[s] = "delete"
          PROVE  LET j == call[s].key
                 IN  /\ j \in issued'
                     /\ rows'[j] # NoRow => Ledger!MayRevoke(call[s], rows'[j])
        <3>1. call[s].key \in issued /\ call[s].key \in KeyId
            BY <2>2 DEF ChecksStillHold, TypeOK
        <3> QED
            BY <1>1, <1>4, <2>2, <3>1 DEF ChecksStillHold
    <2> QED
        BY <2>1, <2>2
<1>11. QuotaHeld'
    BY <1>6, MaxKeysAssumption DEF QuotaHeld
<1> QED
    BY <1>3, <1>7, <1>8, <1>9, <1>10, <1>11

\* A revocation has found its row and its caller may revoke it.
LEMMA SelectForRevokeIInv ==
    ASSUME IInv, NEW r \in Request, SelectForRevoke(r)
    PROVE  IInv'
<1> USE DEF IInv
<1>1. pc[r] = "select" /\ UNCHANGED <<now, rows, issued, call>>
    BY DEF SelectForRevoke
<1>2. CASE /\ rows[call[r].key] # NoRow
           /\ Ledger!MayRevoke(call[r], rows[call[r].key])
    <2>1. pc' = [pc EXCEPT ![r] = "delete"] /\ UNCHANGED <<answer, lock, draft>>
        BY <1>2 DEF SelectForRevoke, Goto
    <2>2. call[r] \in Ledger!RevokeCall /\ call[r].key \in KeyId
        BY <1>1 DEF CallsMatchStatements, Ledger!RevokeCall
    <2>3. TypeOK'
        BY <1>1, <2>1 DEF TypeOK, Pc, Statement
    <2>4. CallsMatchStatements'
        BY <1>1, <2>1, <2>2 DEF TypeOK, CallsMatchStatements
    <2>5. StoredAreIssued'
        BY <1>1 DEF StoredAreIssued
    <2>6. LocksFollowTransactions'
        BY <1>1, <2>1 DEF TypeOK, LocksFollowTransactions
    <2>7. DraftsDistinct'
        BY <1>1, <2>1 DEF TypeOK, DraftsDistinct
    <2>8. ChecksStillHold'
        <3>1. call[r].key \in issued
            BY <1>2, <2>2 DEF StoredAreIssued
        <3> QED
            BY <1>1, <1>2, <2>1, <3>1, KeysUnchanged DEF TypeOK, ChecksStillHold
    <2>9. QuotaHeld'
        BY <1>1, KeysUnchanged DEF QuotaHeld
    <2> QED
        BY <2>3, <2>4, <2>5, <2>6, <2>7, <2>8, <2>9
<1>3. CASE ~ (/\ rows[call[r].key] # NoRow
              /\ Ledger!MayRevoke(call[r], rows[call[r].key]))
    <2>1. Finish(r, [kind |-> "missing"])
        BY <1>3 DEF SelectForRevoke
    <2> QED
        BY <1>1, <2>1, FinishUnwrittenIInv DEF Reply, Statement
<1> QED
    BY <1>2, <1>3

\* The answer is sent.
LEMMA ReturnIInv ==
    ASSUME IInv, NEW r \in Request, Return(r)
    PROVE  IInv'
<1> USE DEF IInv
<1>1. /\ pc[r] = "done" /\ pc' = [pc EXCEPT ![r] = "idle"]
      /\ call' = [call EXCEPT ![r] = NoCall]
      /\ answer' = [answer EXCEPT ![r] = NoAnswer]
      /\ UNCHANGED <<now, rows, issued, lock, draft>>
    BY DEF Return, Goto
<1>2. TypeOK'
    BY <1>1 DEF TypeOK, Pc
<1>3. CallsMatchStatements'
    BY <1>1 DEF TypeOK, CallsMatchStatements
<1>4. StoredAreIssued'
    BY <1>1 DEF StoredAreIssued
<1>5. LocksFollowTransactions'
    BY <1>1 DEF TypeOK, LocksFollowTransactions
<1>6. DraftsDistinct'
    BY <1>1 DEF TypeOK, DraftsDistinct
<1>7. ChecksStillHold'
    BY <1>1, KeysUnchanged DEF TypeOK, ChecksStillHold
<1>8. QuotaHeld'
    BY <1>1, KeysUnchanged DEF QuotaHeld
<1> QED
    BY <1>2, <1>3, <1>4, <1>5, <1>6, <1>7, <1>8

\* A key is looked up by its secret: what is answered is a reply.
LEMMA GetKeyIInv ==
    ASSUME IInv, NEW r \in Request, GetKey(r)
    PROVE  IInv'
<1> USE DEF IInv
<1> DEFINE row == rows[call[r].key]
           a == IF row # NoRow /\ Unexpired(row)
                THEN [kind |-> "valid", row |-> row]
                ELSE [kind |-> "invalid"]
<1>1. pc[r] = "get" /\ Finish(r, a) /\ UNCHANGED <<now, rows, issued, call>>
    BY DEF GetKey
<1>2. call[r].key \in KeyId
    BY <1>1 DEF CallsMatchStatements, Ledger!GetCall
<1>3. a \in Reply
    BY <1>2 DEF TypeOK, Reply
<1> QED
    BY <1>1, <1>3, FinishUnwrittenIInv DEF Statement

\* A user's keys are listed.
LEMMA ListKeysIInv ==
    ASSUME IInv, NEW r \in Request, ListKeys(r)
    PROVE  IInv'
<1> USE DEF IInv
<1>1. pc[r] = "list" /\ UNCHANGED <<now, rows, issued, call>>
    BY DEF ListKeys
<1>2. PICK S \in NewestKeys(call[r].user, MaxKeys) :
            Finish(r, [kind |-> "listed", keys |-> S])
    BY DEF ListKeys
<1>3. S \in SUBSET KeyId
    BY DEF NewestKeys, KeysOf, Ledger!KeysOf, Ledger!Stored
<1>4. [kind |-> "listed", keys |-> S] \in Reply
    BY <1>3 DEF Reply
<1> QED
    BY <1>1, <1>2, <1>4, FinishUnwrittenIInv DEF Statement

\* Every step of every request keeps the invariant.
LEMMA NextIInv == ASSUME IInv, [Next]_vars PROVE IInv'
<1>1. CASE Tick
    BY <1>1, TickIInv
<1>2. ASSUME NEW r \in Request, NEW c \in Ledger!Call, Begin(r, c)
      PROVE  IInv'
    BY <1>2, BeginIInv
<1>3. ASSUME NEW r \in Request, Lock(r)
      PROVE  IInv'
    BY <1>3, LockIInv
<1>4. ASSUME NEW r \in Request, RefuseCreate(r)
      PROVE  IInv'
    <2>1. [kind |-> "limit"] \in Reply
        BY DEF Reply
    <2> QED
        BY <1>4, <2>1, FinishUnwrittenIInv DEF RefuseCreate, Statement
<1>5. ASSUME NEW r \in Request, NEW k \in KeyId, BuildRow(r, k)
      PROVE  IInv'
    BY <1>5, BuildRowIInv
<1>6. ASSUME NEW r \in Request, Commit(r)
      PROVE  IInv'
    BY <1>6, CommitIInv
<1>7. ASSUME NEW r \in Request, SelectForRevoke(r)
      PROVE  IInv'
    BY <1>7, SelectForRevokeIInv
<1>8. ASSUME NEW r \in Request, Delete(r)
      PROVE  IInv'
    BY <1>8, DeleteIInv
<1>9. ASSUME NEW r \in Request, GetKey(r)
      PROVE  IInv'
    BY <1>9, GetKeyIInv
<1>10. ASSUME NEW r \in Request, ListKeys(r)
       PROVE  IInv'
    BY <1>10, ListKeysIInv
<1>11. ASSUME NEW r \in Request, Fail(r)
       PROVE  IInv'
    <2>1. Ledger!Failed \in Reply
        BY DEF Reply, Ledger!Failed
    <2> QED
        BY <1>11, <2>1, FinishUnwrittenIInv DEF Fail
<1>12. ASSUME NEW r \in Request, Return(r)
       PROVE  IInv'
    BY <1>12, ReturnIInv
<1>13. CASE UNCHANGED vars
    <2>1. /\ now' = now /\ rows' = rows /\ issued' = issued /\ call' = call
          /\ answer' = answer /\ pc' = pc /\ lock' = lock /\ draft' = draft
        BY <1>13 DEF vars
    <2>2. TypeOK' /\ CallsMatchStatements' /\ StoredAreIssued'
        BY <2>1 DEF IInv, TypeOK, CallsMatchStatements, StoredAreIssued
    <2>3. LocksFollowTransactions' /\ DraftsDistinct'
        BY <2>1 DEF IInv, LocksFollowTransactions, DraftsDistinct
    <2>4. ChecksStillHold' /\ QuotaHeld'
        BY <2>1, KeysUnchanged DEF IInv, ChecksStillHold, QuotaHeld
    <2> QED
        BY <2>2, <2>3, <2>4 DEF IInv
<1> QED
    BY <1>1, <1>2, <1>3, <1>4, <1>5, <1>6, <1>7, <1>8, <1>9, <1>10, <1>11,
       <1>12, <1>13 DEF Next, Proceed

-----------------------------------------------------------------------------
\* The invariant holds in every state the pods and the database can reach.
THEOREM Invariance == Spec => []IInv
BY InitIInv, NextIInv, PTL DEF Spec

\* No user ever owns more keys than max_keys_per_user, however the counts and
\* inserts of create_key interleave and whichever users' hashes collide.
THEOREM Quota == Spec => []QuotaHeld
<1>1. IInv => QuotaHeld
    BY DEF IInv
<1> QED
    BY <1>1, Invariance, PTL

\* Advisory locks are held by creations in their transaction and by no one
\* else, on every way out of create_key.
THEOREM LockDiscipline == Spec => []LocksFollowTransactions
<1>1. IInv => LocksFollowTransactions
    BY DEF IInv
<1> QED
    BY <1>1, Invariance, PTL

\* Rows, calls, answers and transactions keep their types.
THEOREM TypeCorrect == Spec => []TypeOK
<1>1. IInv => TypeOK
    BY DEF IInv
<1> QED
    BY <1>1, Invariance, PTL

-----------------------------------------------------------------------------
\* A request between its first statement and its answer is in progress for
\* the ledger too.
LEMMA InProgress ==
    ASSUME IInv, NEW r \in Request, pc[r] \in Statement
    PROVE  Ledger!InProgress(r)
BY DEF IInv, CallsMatchStatements, Statement, Ledger!InProgress

\* The ledger counts as the standard module does.
LEMMA SameCount ==
    ASSUME NEW S PROVE Ledger!Cardinality(S) = Cardinality(S)
BY DEF Ledger!Cardinality, Cardinality

\* A commit is the ledger's Create, at the instant the row appears.
LEMMA CommitIsCreate ==
    ASSUME IInv, NEW r \in Request, Commit(r)
    PROVE  \E k \in KeyId : Ledger!Create(r, k)
<1> DEFINE k == draft[r].key
<1>1. /\ pc[r] = "commit" /\ call' = call /\ now' = now
      /\ rows' = [rows EXCEPT ![k] = draft[r].row]
      /\ issued' = issued \cup {k}
      /\ \E a \in {[kind |-> "created", key |-> k], Ledger!Failed} :
            answer' = [answer EXCEPT ![r] = a]
    BY DEF Commit, Finish
<1>2. /\ call[r] \in Ledger!CreateCall /\ k \in KeyId /\ k \notin issued
      /\ \E t \in 0..now : draft[r].row = Ledger!RowFor(call[r], t)
    BY CommitStores
<1>3. Ledger!Cardinality(Ledger!KeysOf(call[r].user)) < MaxKeys
    BY <1>1, SameCount DEF IInv, ChecksStillHold, KeysOf
<1>4. Ledger!InProgress(r) /\ call[r].op = "create"
    BY <1>1, <1>2, InProgress DEF Statement, Ledger!CreateCall
<1> HIDE DEF k
<1>5. \E t \in 0..now : rows' = [rows EXCEPT ![k] = Ledger!RowFor(call[r], t)]
    BY <1>1, <1>2 DEF k
<1>6. Ledger!Create(r, k)
    BY <1>1, <1>2, <1>3, <1>4, <1>5 DEF Ledger!Create, Ledger!Answer
<1> QED
    BY <1>2, <1>6

\* A select that finds nothing its caller may revoke is the ledger's NotFound;
\* one that does changes nothing the ledger sees.
LEMMA SelectIsNotFound ==
    ASSUME IInv, NEW r \in Request, SelectForRevoke(r)
    PROVE  Ledger!NotFound(r) \/ UNCHANGED Ledger!ledgerVars
<1>1. /\ pc[r] = "select" /\ UNCHANGED <<now, rows, issued, call>>
      /\ call[r] \in Ledger!RevokeCall
    BY DEF SelectForRevoke, IInv, CallsMatchStatements
<1>2. Ledger!InProgress(r) /\ call[r].op = "revoke"
    BY <1>1, InProgress DEF Statement, Ledger!RevokeCall
<1>3. CASE /\ rows[call[r].key] # NoRow
           /\ Ledger!MayRevoke(call[r], rows[call[r].key])
    BY <1>1, <1>3 DEF SelectForRevoke, Ledger!ledgerVars
<1>4. CASE ~ (/\ rows[call[r].key] # NoRow
              /\ Ledger!MayRevoke(call[r], rows[call[r].key]))
    <2>1. answer' = [answer EXCEPT ![r] = [kind |-> "missing"]]
        BY <1>4 DEF SelectForRevoke, Finish
    <2> QED
        BY <1>1, <1>2, <1>4, <2>1 DEF Ledger!NotFound, Ledger!Answer
<1> QED
    BY <1>3, <1>4

\* A delete is the ledger's Revoke, also when the row has already gone.
LEMMA DeleteIsRevoke ==
    ASSUME IInv, NEW r \in Request, Delete(r)
    PROVE  Ledger!Revoke(r)
<1>1. /\ pc[r] = "delete" /\ UNCHANGED <<now, issued, call>>
      /\ rows' = [rows EXCEPT ![call[r].key] = NoRow]
      /\ \E a \in {[kind |-> "revoked"], Ledger!Failed} :
            answer' = [answer EXCEPT ![r] = a]
    BY DEF Delete, Finish
<1>2. Ledger!InProgress(r) /\ call[r].op = "revoke"
    BY <1>1, InProgress
    DEF Statement, Ledger!RevokeCall, IInv, CallsMatchStatements
<1>3. /\ call[r].key \in issued
      /\ rows[call[r].key] # NoRow => Ledger!MayRevoke(call[r], rows[call[r].key])
    BY <1>1 DEF IInv, ChecksStillHold
<1> QED
    BY <1>1, <1>2, <1>3 DEF Ledger!Revoke, Ledger!Answer

\* The quota makes list_keys complete: cut at the limit, the newest keys of a
\* user are all of the user's keys.
LEMMA ListKeysIsList ==
    ASSUME IInv, NEW r \in Request, ListKeys(r)
    PROVE  Ledger!List(r)
<1>1. /\ pc[r] = "list" /\ UNCHANGED <<now, rows, issued, call>>
      /\ call[r] \in Ledger!ListCall
    BY DEF ListKeys, IInv, CallsMatchStatements
<1>2. Ledger!InProgress(r) /\ call[r].op = "list" /\ call[r].user \in User
    BY <1>1, InProgress DEF Statement, Ledger!ListCall
<1> DEFINE u == call[r].user
<1>3. PICK S \in NewestKeys(u, MaxKeys) :
            answer' = [answer EXCEPT ![r] = [kind |-> "listed", keys |-> S]]
    BY DEF ListKeys, Finish
<1> HIDE DEF u
<1>4. S \in SUBSET KeysOf(u) /\ (S = KeysOf(u) \/ Cardinality(S) = MaxKeys)
    BY DEF NewestKeys
<1>5. /\ IsFiniteSet(KeysOf(u)) /\ Cardinality(KeysOf(u)) \in Nat
      /\ Cardinality(KeysOf(u)) <= MaxKeys
    BY <1>2, KeysFinite DEF IInv, QuotaHeld, u
<1>6. CASE S = KeysOf(u)
    BY <1>1, <1>2, <1>3, <1>6 DEF Ledger!List, Ledger!Answer, KeysOf, u
<1>7. CASE Cardinality(S) = MaxKeys
    <2>1. /\ Cardinality(S) <= Cardinality(KeysOf(u))
          /\ Cardinality(KeysOf(u)) = Cardinality(S) => KeysOf(u) = S
        BY <1>4, <1>5, FS_Subset
    <2>2. S = KeysOf(u)
        BY <1>5, <1>7, <2>1, MaxKeysAssumption
    <2> QED
        BY <1>6, <2>2
<1> QED
    BY <1>4, <1>6, <1>7

\* Every statement is a step of the ledger or one it does not see.
LEMMA NextIsLedgerNext ==
    ASSUME IInv, [Next]_vars
    PROVE  [Ledger!Next]_(Ledger!ledgerVars)
<1>1. CASE Tick
    BY <1>1 DEF Tick, Ledger!Next, Ledger!Tick
<1>2. ASSUME NEW r \in Request, NEW c \in Ledger!Call, Begin(r, c)
      PROVE  Ledger!Next
    <2>1. call[r] = NoCall
        BY <1>2 DEF Begin, IInv, CallsMatchStatements
    <2> QED
        BY <1>2, <2>1 DEF Begin, Ledger!Next, Ledger!Begin
<1>3. ASSUME NEW r \in Request, Lock(r)
      PROVE  UNCHANGED Ledger!ledgerVars
    BY <1>3 DEF Lock, Ledger!ledgerVars
<1>4. ASSUME NEW r \in Request, RefuseCreate(r)
      PROVE  Ledger!Next
    <2>1. pc[r] = "count" /\ call[r] \in Ledger!CreateCall
        BY <1>4 DEF RefuseCreate, IInv, CallsMatchStatements
    <2>2. Ledger!InProgress(r) /\ call[r].op = "create"
        BY <2>1, InProgress DEF Statement, Ledger!CreateCall
    <2>3. Ledger!Refuse(r)
        BY <1>4, <2>2, SameCount
        DEF RefuseCreate, AtLimit, KeysOf, Finish, Ledger!Refuse, Ledger!Answer
    <2> QED
        BY <2>3 DEF Ledger!Next
<1>5. ASSUME NEW r \in Request, NEW k \in KeyId, BuildRow(r, k)
      PROVE  UNCHANGED Ledger!ledgerVars
    BY <1>5 DEF BuildRow, Ledger!ledgerVars
<1>6. ASSUME NEW r \in Request, Commit(r)
      PROVE  Ledger!Next
    BY <1>6, CommitIsCreate DEF Ledger!Next
<1>7. ASSUME NEW r \in Request, SelectForRevoke(r)
      PROVE  Ledger!Next \/ UNCHANGED Ledger!ledgerVars
    BY <1>7, SelectIsNotFound DEF Ledger!Next
<1>8. ASSUME NEW r \in Request, Delete(r)
      PROVE  Ledger!Next
    BY <1>8, DeleteIsRevoke DEF Ledger!Next
<1>9. ASSUME NEW r \in Request, GetKey(r)
      PROVE  Ledger!Next
    <2>1. pc[r] = "get" /\ call[r] \in Ledger!GetCall
        BY <1>9 DEF GetKey, IInv, CallsMatchStatements
    <2>2. Ledger!InProgress(r) /\ call[r].op = "get"
        BY <2>1, InProgress DEF Statement, Ledger!GetCall
    <2>3. Ledger!Get(r)
        BY <1>9, <2>2 DEF GetKey, Unexpired, Finish, Ledger!Get, Ledger!Answer
    <2> QED
        BY <2>3 DEF Ledger!Next
<1>10. ASSUME NEW r \in Request, ListKeys(r)
       PROVE  Ledger!Next
    BY <1>10, ListKeysIsList DEF Ledger!Next
<1>11. ASSUME NEW r \in Request, Fail(r)
       PROVE  Ledger!Next
    <2>1. Ledger!InProgress(r)
        BY <1>11, InProgress DEF Fail
    <2> QED
        BY <1>11, <2>1 DEF Fail, Finish, Ledger!Fail, Ledger!Answer, Ledger!Next
<1>12. ASSUME NEW r \in Request, Return(r)
       PROVE  Ledger!Next
    <2>1. call[r] # NoCall /\ answer[r] # NoAnswer
        BY <1>12 DEF Return, IInv, CallsMatchStatements
    <2> QED
        BY <1>12, <2>1 DEF Return, Ledger!Reply, Ledger!Next
<1>13. CASE UNCHANGED vars
    BY <1>13 DEF vars, Ledger!ledgerVars
<1> QED
    BY <1>1, <1>2, <1>3, <1>4, <1>5, <1>6, <1>7, <1>8, <1>9, <1>10, <1>11,
       <1>12, <1>13 DEF Next, Proceed

\* The transactions of all pods together do what the ledger promises: every
\* method takes effect at one instant of its call.
THEOREM Implementation == Spec => ImplementsLedger
<1>1. Init => Ledger!Init
    BY DEF Init, Ledger!Init
<1> QED
    BY <1>1, NextIsLedgerNext, Invariance, PTL
    DEF Spec, ImplementsLedger, Ledger!Spec

\* The life of a row: stored once, never rewritten, and never again once gone.
StoredOnce ==
    \A k \in KeyId :
        /\ rows[k] # NoRow => rows'[k] \in {rows[k], NoRow}
        /\ k \in issued => k \in issued' /\ (rows[k] = NoRow => rows'[k] = NoRow)

\* An owner, a grant and an expiry are for the life of a key, and a revoked key
\* never comes back, although creations draw identifiers long before they
\* commit and revocations check a row before they delete it.
THEOREM Permanence == Spec => [][StoredOnce]_vars
<1>1. ASSUME IInv, [Ledger!Next]_(Ledger!ledgerVars) PROVE StoredOnce
    <2>1. /\ rows \in [KeyId -> Row \cup {NoRow}]
          /\ \A k \in KeyId : rows[k] # NoRow => k \in issued
        BY <1>1 DEF IInv, TypeOK, StoredAreIssued
    <2>2. CASE UNCHANGED Ledger!ledgerVars
        BY <2>1, <2>2 DEF Ledger!ledgerVars, StoredOnce
    <2>3. ASSUME NEW r \in Request, NEW j \in KeyId, Ledger!Create(r, j) PROVE StoredOnce
        <3>1. PICK row : rows' = [rows EXCEPT ![j] = row]
            BY <2>3 DEF Ledger!Create
        <3>2. j \notin issued /\ issued' = issued \cup {j}
            BY <2>3 DEF Ledger!Create
        <3> QED
            BY <2>1, <3>1, <3>2 DEF StoredOnce
    <2>4. ASSUME NEW r \in Request, Ledger!Revoke(r) PROVE StoredOnce
        BY <2>1, <2>4 DEF Ledger!Revoke, StoredOnce
    <2>5. CASE UNCHANGED <<rows, issued>>
        BY <2>1, <2>5 DEF StoredOnce
    <2> QED
        BY <1>1, <2>2, <2>3, <2>4, <2>5 DEF Ledger!Next, Ledger!Tick, Ledger!Begin,
            Ledger!Refuse, Ledger!NotFound, Ledger!Get, Ledger!List, Ledger!Fail, Ledger!Reply
<1>2. IInv /\ [Next]_vars => [StoredOnce]_vars
    BY <1>1, NextIsLedgerNext
<1> QED
    BY <1>2, Invariance, PTL DEF Spec
==============================================================================
