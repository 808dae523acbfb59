---------------------------- MODULE Requests_proofs ----------------------------
(***************************************************************************)
(* Proofs about Requests, for any threads, queries, keys, slots and pool:  *)
(* the types, which places a request passes and what it has there, and     *)
(* that connections are kept over calls to Keycloak by validations only.   *)
(***************************************************************************)
EXTENDS Requests, FiniteSetTheorems, SequenceTheorems, TLAPS

-----------------------------------------------------------------------------
(* Types                                                                   *)

Row == [owner : User, grant : SUBSET Permission, created : Nat, expires : Nat]

Kinds == {"created", "revoked", "listed", "limit", "missing", "error", "valid", "invalid"}

Entitlements == [enabled : BOOLEAN, granted : SUBSET Permission]

ReadingState ==
    [slot : 1..(NSlots + 1), grant : Descriptor \cup {Malformed, NoFile},
     loaded : Seq(Slots!Entry), fault : Slots!Fault]

File == {"grant", "verifier"} \X Slots!Slot

\* The rest of the types, beside TypeOK: of the components' variables, as far
\* as the proofs need them.
Types ==
    /\ TypeOK
    /\ now \in Nat
    /\ rows \in [Credential -> Row \cup {NoRow}]
    /\ \A k \in Credential : rows[k] # NoRow => k \in KeyId
    /\ call \in [Thread -> Ledger!Call \cup {NoCall}]
    /\ DOMAIN answer = Thread
    /\ \A t \in Thread : pc[t] \in {"client", "service_account"} => uuid[t] \in Uuid
    /\ \A t \in Thread : pc[t] = "result" =>
        answer[t].kind \in Kinds /\ (answer[t].kind = "valid" => answer[t].row \in Row)
    /\ told \in [Thread -> Entitlements \cup {NoAnswer, Unavailable}]
    /\ \A t \in Thread : pc[t] = "told" => told[t] # NoAnswer
    /\ enabled \in [Principal -> BOOLEAN]
    /\ lately \in [Principal -> SUBSET Keycloak!Claim]
    /\ reading \in [Thread -> ReadingState]
    /\ writes \in [Thread -> Seq(File)]

-----------------------------------------------------------------------------
(* Where a request is, and what that says of it                            *)

InProgress(t) == pc[t] \notin {"idle", "answered"}

Asked(t) ==
    /\ pc[t] # "idle" => query[t] \in Asks[t]
    /\ InProgress(t) => query[t].form = 200

\* Which requests come to a place.
OnPath(t) ==
    /\ pc[t] \in {"slots", "account", "client", "service_account"} => ByKey(t)
    /\ pc[t] = "token_gate" => Op(t) = "caller"
    /\ pc[t] \in {"signing_key", "second_lookup"} =>
        \/ Op(t) = "caller" /\ query[t].credential \in Token
        \/ Op(t) \in {"create", "revoke", "permissions", "list"}
    /\ pc[t] \in {"connect", "statement"} => Op(t) # "permissions"
    /\ pc[t] = "result" => /\ Op(t) \notin {"permissions", "probe"}
                           /\ answer[t].kind \in {"valid", "invalid"} => ByKey(t)
                           /\ ByKey(t) => answer[t].kind \in {"valid", "invalid", "error"}
    /\ pc[t] \in {"ask", "told"} => Op(t) \in {"validate", "caller", "create", "permissions"}
    /\ pc[t] = "probe" => Op(t) = "probe"

Before == {"idle", "gate", "slots", "account", "client", "service_account", "connect", "probe"}
WithKeycloak == {"ask", "told", "failed", "token_gate", "signing_key", "second_lookup"}

\* Who has a call of the key table, and who a connection.
Connected(t) ==
    /\ pc[t] \in Before => call[t] = NoCall /\ t \notin holding
    /\ pc[t] \in WithKeycloak /\ t \in holding => call[t] # NoCall
    /\ pc[t] \in WithKeycloak /\ call[t] # NoCall => ByKey(t)
    /\ pc[t] \in {"result", "token_gate"} => call[t] # NoCall
    /\ pc[t] \in {"signing_key", "second_lookup"} /\ Op(t) = "caller" => call[t] # NoCall
    /\ pc[t] = "statement" => (call[t] # NoCall <=> Op(t) # "probe")
    /\ call[t] # NoCall => /\ Op(t) \notin {"permissions", "probe"}
                           /\ call[t] = CallFor(query[t])

\* A credential's slots have all been read, and a match decides on its way.
Searched(t) ==
    InProgress(t) /\ ByKey(t) /\ pc[t] \notin {"gate", "slots"} =>
        /\ reading[t].fault = "none" /\ reading[t].slot = NSlots + 1
        /\ ~ Slots!Duplicates(Slots!Loaded(t))
        /\ Matches(t) = {} <=> (pc[t] = "connect" \/ call[t] # NoCall)

\* Entries come in the order of their slots.
Loading(t) ==
    /\ \A e \in Slots!Loaded(t) : e \in Slots!Entry /\ e.slot < reading[t].slot
    /\ \A d, e \in Slots!Loaded(t) : d.slot = e.slot => d = e
    /\ pc[t] \in {"idle", "gate"} \/ (InProgress(t) /\ ~ ByKey(t)) => reading[t] = Slots!Unread

OnCourse(t) == Asked(t) /\ OnPath(t) /\ Connected(t) /\ Searched(t) /\ Loading(t)

Control == \A t \in Thread : OnCourse(t)

-----------------------------------------------------------------------------
(* Requests do not disturb one another                                     *)

\* Request s is left alone.
Still(s) ==
    /\ pc'[s] = pc[s] /\ query'[s] = query[s] /\ principal'[s] = principal[s]
    /\ uuid'[s] = uuid[s] /\ reply'[s] = reply[s] /\ call'[s] = call[s]
    /\ answer'[s] = answer[s] /\ told'[s] = told[s] /\ reading'[s] = reading[s]
    /\ s \in holding' <=> s \in holding

OthersStill(t) == \A s \in Thread \ {t} : Still(s)

\* A thread is left alone when its variables are.
LEMMA StillIfUnchanged ==
    ASSUME UNCHANGED <<work, call, answer, told, reading>> PROVE \A s \in Thread : Still(s)
BY DEF Still, work

\* What a request does, it does to its own part of the state.
LEMMA HandleStill ==
    ASSUME Types, NEW t \in Thread, Handle(t) PROVE OthersStill(t)
<1> USE DEF Types, TypeOK, OthersStill, Still, Components, KeptFromStep, ledgerVars,
            promiseVars, slotVars, work, Goto, Grants, Says
<1>1. CASE Gate(t)
    BY <1>1 DEF Gate
<1>2. CASE TokenGate(t)
    BY <1>2 DEF TokenGate
<1>3. CASE KeyFound(t)
    BY <1>3 DEF KeyFound, TokenVerified
<1>4. CASE RefreshSucceeds(t)
    BY <1>4 DEF RefreshSucceeds
<1>5. CASE RefreshFails(t)
    BY <1>5 DEF RefreshFails
<1>6. CASE KeyMissing(t)
    BY <1>6 DEF KeyMissing
<1>7. CASE ReadSlots(t)
    BY <1>7 DEF ReadSlots, Slots!ReadGrant, Slots!ReadVerifier, Slots!NextSlot, Slots!Fail
<1>8. CASE Match(t)
    BY <1>8 DEF Match
<1>9. CASE ResolveClient(t) \/ FindAccount(t)
    BY <1>9 DEF ResolveClient, KnownClient, FindClient, StoreClient, FindAccount
<1>10. CASE Connect(t)
    BY <1>10 DEF Connect, Ledger!Begin
<1>11. CASE ConnectFails(t)
    BY <1>11 DEF ConnectFails
<1>12. CASE Statement(t)
    BY <1>12 DEF Statement, Ledger!Create, Ledger!Refuse, Ledger!Revoke, Ledger!NotFound,
                 Ledger!Get, Ledger!List, Ledger!Fail, Ledger!Answer
<1>13. CASE ProbeStatement(t)
    BY <1>13 DEF ProbeStatement
<1>14. CASE Result(t)
    BY <1>14 DEF Result
<1>15. CASE Ask(t)
    BY <1>15 DEF Ask, Keycloak!Answer
<1>16. CASE Decide(t)
    BY <1>16 DEF Decide
<1>17. CASE ContextTooLarge(t)
    BY <1>17 DEF ContextTooLarge
<1>18. CASE CallFails(t)
    BY <1>18 DEF CallFails
<1>19. CASE ProbeSucceeds(t)
    BY <1>19 DEF ProbeSucceeds
<1>20. CASE Invalidate(t)
    BY <1>20 DEF Invalidate
<1>21. CASE Respond(t)
    BY <1>21 DEF Respond, Ledger!Reply, Keycloak!Forget, Slots!Forget
<1> QED
    BY <1>1, <1>2, <1>3, <1>4, <1>5, <1>6, <1>7, <1>8, <1>9, <1>10, <1>11, <1>12,
       <1>13, <1>14, <1>15, <1>16, <1>17, <1>18, <1>19, <1>20, <1>21 DEF Handle

\* A request that arrives disturbs no other.
LEMMA ArriveStill ==
    ASSUME Types, NEW t \in Thread, NEW q, Arrive(t, q) PROVE OthersStill(t)
BY DEF Arrive, Types, TypeOK, OthersStill, Still, Components, ledgerVars, promiseVars,
       slotVars, Goto, Says, Grants

\* What happens elsewhere disturbs no request.
LEMMA WorldStill ==
    ASSUME KeysStored \/ Elsewhere \/ Settle PROVE \A s \in Thread : Still(s)
BY StillIfUnchanged
    DEF KeysStored, Elsewhere, Settle, ledgerVars, promiseVars, slotVars, work,
        ChangePrincipal, ChangeAccount, ChangeHolder, ReplaceFile, KeysCleared, Day, Keycloak!Change,
        Keycloak!SettleAll, Slots!ReplaceGrant, Slots!ReplaceVerifier, Ledger!Tick

-----------------------------------------------------------------------------
(* Lemmas about the definitions                                            *)

\* A thread asks only what it may.
LEMMA Queries ==
    ASSUME NEW t \in Thread, Asked(t), pc[t] # "idle"
    PROVE  /\ WellFormed(query[t])
           /\ ByKey(t) => query[t].credential \in Credential
           /\ Op(t) \in {"create", "permissions", "list"} => query[t].target \in User
           /\ Op(t) \in {"validate", "caller", "create", "revoke", "permissions", "list", "probe"}
BY QueryAssumption DEF Asked, WellFormed, ByKey, Op

\* The calls that handlers make are calls of the ledger.
LEMMA Calls ==
    ASSUME NEW q, WellFormed(q), q.op \notin {"permissions", "probe"}
    PROVE  /\ CallFor(q) \in Ledger!Call /\ CallFor(q) # NoCall
           /\ CallFor(q).op = (IF q.op \in {"validate", "caller"} THEN "get" ELSE q.op)
           /\ q.op \in {"validate", "caller"} => CallFor(q).key = q.credential
           /\ q.op = "create" => /\ CallFor(q).user = q.target /\ CallFor(q).grant = q.grant
                                 /\ CallFor(q).days = q.days
           /\ q.op = "revoke" => CallFor(q).key = q.key
<1>1. CASE q.op \in {"validate", "caller"}
    BY <1>1, NullAssumption DEF WellFormed, CallFor, Ledger!Call, Ledger!GetCall, Credential
<1>2. CASE q.op = "create"
    BY <1>2, NullAssumption DEF WellFormed, CallFor, Ledger!Call, Ledger!CreateCall
<1>3. CASE q.op = "revoke"
    BY <1>3, NullAssumption DEF WellFormed, CallFor, Ledger!Call, Ledger!RevokeCall, Credential
<1>4. CASE q.op = "list"
    BY <1>4, NullAssumption DEF WellFormed, CallFor, Ledger!Call, Ledger!ListCall
<1> QED
    BY <1>1, <1>2, <1>3, <1>4 DEF WellFormed

\* What match() returns, once no two entries have the same verifier.
LEMMA MatchedIsMatch ==
    ASSUME NEW t \in Thread, Loading(t), Matches(t) # {}, ~ Slots!Duplicates(Slots!Loaded(t))
    PROVE  /\ Matched(t) \in Slots!Loaded(t) /\ Matched(t).verifier = query[t].credential
           /\ \A e \in Matches(t) : e.slot = Matched(t).slot
<1>1. \A d, e \in Matches(t) : d.slot = e.slot
    BY DEF Matches, Slots!Matching, Slots!Duplicates
<1>2. PICK e \in Matches(t) : e.slot = e.slot
    OBVIOUS
<1>3. Matched(t) \in Matches(t)
    <2>1. e \in Slots!Loaded(t) /\ e.slot \in Int
        BY SizeAssumption DEF Matches, Slots!Matching, Loading, Slots!Entry, Slots!Slot
    <2>2. \A f \in Matches(t) : e.slot <= f.slot
        BY <1>1, <2>1
    <2> QED
        BY <2>2 DEF Matched
<1> QED
    BY <1>1, <1>3 DEF Matches, Slots!Matching

-----------------------------------------------------------------------------
(* Types                                                                   *)

\* What holds of a principal now is a set of claims.
LEMMA PresentClaims ==
    ASSUME NEW p \in Principal, enabled[p] \in BOOLEAN
    PROVE  Keycloak!Present(p) \subseteq Keycloak!Claim
<1>1. [fact |-> "enabled", holds |-> enabled[p]] \in Keycloak!Claim
    BY DEF Keycloak!Claim, Keycloak!Fact
<1>2. ASSUME NEW e \in Permission
      PROVE  [fact |-> e, holds |-> e \in granted[p]] \in Keycloak!Claim
    <2>1. (e \in granted[p]) \in BOOLEAN
        OBVIOUS
    <2>2. e \in Keycloak!Fact
        BY DEF Keycloak!Fact
    <2> QED
        BY <2>1, <2>2, Zenon DEF Keycloak!Claim
<1> QED
    BY <1>1, <1>2 DEF Keycloak!Present

\* The typed parts of the state, at the start.
LEMMA TypesInit == Init => Types
<1> SUFFICES ASSUME Init PROVE Types
    OBVIOUS
<1>1. Slots!TypeOK /\ reading \in [Thread -> ReadingState]
    <2>1. PICK f \in InitialFiles : grantFile = f.grants /\ verifierFile = f.verifiers
        BY DEF Init
    <2>2. /\ grantFile \in [Slots!Slot -> Slots!GrantContent]
          /\ verifierFile \in [Slots!Slot -> Slots!VerifierContent]
        BY <2>1, FileAssumption
    <2>3. Slots!Unread \in ReadingState
        BY SizeAssumption DEF Slots!Unread, ReadingState, Slots!Fault
    <2>4. reading = [t \in Thread |-> Slots!Unread]
        BY DEF Init
    <2> QED
        BY <2>2, <2>3, <2>4 DEF Slots!TypeOK, ReadingState
<1>2. holding \in SUBSET Thread /\ Cardinality(holding) <= PoolSize
    BY FS_EmptySet, SizeAssumption DEF Init
<1>3. lately \in [Principal -> SUBSET Keycloak!Claim]
    <2>1. ASSUME NEW p \in Principal PROVE Keycloak!Present(p) \subseteq Keycloak!Claim
        BY PresentClaims DEF Init
    <2> QED
        BY <2>1 DEF Init
<1>4. TypeOK
    <2>1. /\ account \in [Uuid -> ServiceAccount \cup {NoPrincipal}] /\ open \in BOOLEAN
          /\ holder \in [Client -> Uuid \cup {NoUuid}] /\ known \in [Client -> Uuid \cup {NoUuid}]
          /\ named \in [Client -> SUBSET Uuid] /\ uuid \in [Thread -> Uuid \cup {NoUuid}]
        BY DEF Init
    <2>2. /\ pc \in [Thread -> Place]
          /\ query \in [Thread -> (UNION {Asks[t] : t \in Thread}) \cup {NoQuery}]
          /\ principal \in [Thread -> Principal \cup {NoPrincipal}]
        BY DEF Init, Place
    <2>3. reply \in [Thread -> [status : Status, permissions : SUBSET Permission]]
        BY DEF Init, Status, NoReply
    <2>4. changes \in 0..MaxChanges
        BY SizeAssumption DEF Init
    <2> QED
        BY <1>1, <1>2, <2>1, <2>2, <2>3, <2>4 DEF TypeOK
<1>5. /\ now \in Nat /\ rows \in [Credential -> Row \cup {NoRow}]
      /\ \A k \in Credential : rows[k] # NoRow => k \in KeyId
      /\ call \in [Thread -> Ledger!Call \cup {NoCall}] /\ DOMAIN answer = Thread
    BY DEF Init, Ledger!Init
<1>6. /\ enabled \in [Principal -> BOOLEAN]
      /\ told \in [Thread -> Entitlements \cup {NoAnswer, Unavailable}]
      /\ writes \in [Thread -> Seq(File)]
      /\ \A t \in Thread : pc[t] = "idle"
    BY DEF Init
<1> QED
    BY <1>1, <1>3, <1>4, <1>5, <1>6 DEF Types

\* The pool is never exceeded.
LEMMA HoldingTyped ==
    ASSUME Types, holding' \subseteq holding \/ \E t \in Thread : Vacancy /\ holding' = holding \cup {t}
    PROVE  holding' \in SUBSET Thread /\ Cardinality(holding') <= PoolSize
<1>1. holding \in SUBSET Thread /\ Cardinality(holding) <= PoolSize
    BY DEF Types, TypeOK
<1>2. IsFiniteSet(holding)
    BY <1>1, SizeAssumption, FS_Subset
<1>3. Cardinality(holding) \in Nat
    BY <1>2, FS_CardinalityType
<1>4. CASE holding' \subseteq holding
    <2>1. IsFiniteSet(holding') /\ Cardinality(holding') <= Cardinality(holding)
        BY <1>2, <1>4, FS_Subset
    <2>2. Cardinality(holding') \in Nat
        BY <2>1, FS_CardinalityType
    <2> QED
        BY <1>1, <1>3, <1>4, <2>1, <2>2, SizeAssumption
<1>5. ASSUME NEW t \in Thread, Vacancy, holding' = holding \cup {t}
      PROVE  holding' \in SUBSET Thread /\ Cardinality(holding') <= PoolSize
    <2>1. Cardinality(holding \cup {t}) =
            IF t \in holding THEN Cardinality(holding) ELSE Cardinality(holding) + 1
        BY <1>2, FS_AddElement
    <2> QED
        BY <1>1, <1>3, <1>5, <2>1, SizeAssumption DEF Vacancy
<1> QED
    BY <1>4, <1>5

\* What has been replaced is a sequence of files.
LEMMA WritesTyped ==
    ASSUME Types, Remember PROVE writes' \in [Thread -> Seq(File)]
<1>1. Replaced # {} => (CHOOSE file \in Replaced : TRUE) \in File
    BY DEF Replaced, File
<1>2. ASSUME NEW t \in Thread
      PROVE  writes'[t] \in Seq(File)
    BY <1>1 DEF Types, Remember
<1> QED
    BY <1>2 DEF Remember

\* Where a step takes thread t, and what it replies.
LEMMA GotoTyped ==
    ASSUME Types, NEW t \in Thread, NEW where \in Place, Goto(t, where)
    PROVE  /\ pc' \in [Thread -> Place]
           /\ reply' \in [Thread -> [status : Status, permissions : SUBSET Permission]]
BY DEF Types, TypeOK, Goto

\* An answer that is given is typed.
LEMMA GrantsTyped ==
    ASSUME Types, NEW t \in Thread, NEW status \in Status, NEW permissions \in SUBSET Permission,
           Grants(t, status, permissions)
    PROVE  /\ pc' \in [Thread -> Place]
           /\ reply' \in [Thread -> [status : Status, permissions : SUBSET Permission]]
<1>1. [status |-> status, permissions |-> permissions]
        \in [status : Status, permissions : SUBSET Permission]
    OBVIOUS
<1> QED
    BY <1>1 DEF Types, TypeOK, Grants, Place

-----------------------------------------------------------------------------
(* What a step leaves alone                                                *)

\* Which step changes which component.
LEMMA Untouched ==
    ASSUME NEW t \in Thread, Handle(t)
    PROVE  /\ ReadSlots(t) \/ Respond(t) \/ UNCHANGED slotVars
           /\ Connect(t) \/ Statement(t) \/ Respond(t) \/ UNCHANGED ledgerVars
           /\ Ask(t) \/ Respond(t) \/ UNCHANGED promiseVars
           /\ RefreshSucceeds(t) \/ RefreshFails(t) \/ Invalidate(t) \/ UNCHANGED open
           /\ StoreClient(t) \/ UNCHANGED known
           /\ UNCHANGED <<holder, account, changes>>
BY DEF Handle, Gate, TokenGate, KeyFound, RefreshSucceeds, RefreshFails, KeyMissing, ReadSlots,
       Match, ResolveClient, KnownClient, FindClient, StoreClient,
       FindAccount, Connect, ConnectFails, Statement, ProbeStatement, Result, Ask,
       Decide, ContextTooLarge, CallFails, ProbeSucceeds, Invalidate, Respond, Components, clients, work

\* A handler changes neither the files, nor Keycloak, nor the clock.
LEMMA WorldUntouched ==
    ASSUME NEW t \in Thread, Handle(t) \/ \E q \in Asks[t] : Arrive(t, q)
    PROVE  UNCHANGED <<grantFile, verifierFile, holder, account, enabled, granted, lately, now>>
<1>1. CASE Handle(t)
    <2>1. UNCHANGED <<grantFile, verifierFile>>
        BY <1>1, Untouched DEF ReadSlots, Respond, slotVars, Slots!ReadGrant,
           Slots!ReadVerifier, Slots!Forget, Slots!files
    <2>2. UNCHANGED <<enabled, granted, lately>>
        BY <1>1, Untouched DEF Ask, Respond, promiseVars, Keycloak!Answer, Keycloak!Forget
    <2>3. now' = now
        BY <1>1, Untouched DEF Connect, Statement, Respond, ledgerVars, Ledger!Begin,
           Ledger!Create, Ledger!Refuse, Ledger!Revoke, Ledger!NotFound, Ledger!Get,
           Ledger!List, Ledger!Fail, Ledger!Reply
    <2> QED
        BY <1>1, <2>1, <2>2, <2>3, Untouched
<1>2. CASE \E q \in Asks[t] : Arrive(t, q)
    BY <1>2 DEF Arrive, Components, ledgerVars, promiseVars, slotVars, clients
<1> QED
    BY <1>1, <1>2

\* The other steps replace at most one file.
LEMMA Outside ==
    ASSUME KeysStored \/ Elsewhere \/ Settle
    PROVE  /\ UNCHANGED <<work, call, answer, told, reading, rows, known>>
           /\ ReplaceFile \/ UNCHANGED slotVars
           /\ Day \/ UNCHANGED now
           /\ Settle \/ (\E p \in Principal : ChangePrincipal(p)) \/ UNCHANGED promiseVars
           /\ (\E i \in Uuid : ChangeAccount(i)) \/ (\E c \in Client : ChangeHolder(c))
                \/ UNCHANGED account
           /\ (\E c \in Client : ChangeHolder(c)) \/ UNCHANGED holder
BY DEF KeysStored, Elsewhere, Settle, ledgerVars, promiseVars, slotVars, clients,
       ChangePrincipal, ChangeAccount, ChangeHolder, ReplaceFile, KeysCleared, Day, Keycloak!Change,
       Keycloak!SettleAll, Slots!ReplaceGrant, Slots!ReplaceVerifier, Ledger!Tick

\* Whoever acts, the other requests are still.
LEMMA Actor ==
    ASSUME Types, Next
    PROVE  \/ \E t \in Thread : OthersStill(t) /\ (Handle(t) \/ \E q \in Asks[t] : Arrive(t, q))
           \/ (\A s \in Thread : Still(s)) /\ (KeysStored \/ Elsewhere \/ Settle)
BY HandleStill, ArriveStill, WorldStill DEF Next

-----------------------------------------------------------------------------
(* Types, step by step                                                     *)

\* A reader's next state is one of reading states.
LEMMA ReaderTyped ==
    ASSUME Types, NEW t \in Thread, NEW r \in ReadingState, reading' = [reading EXCEPT ![t] = r]
    PROVE  reading' \in [Thread -> ReadingState]
BY DEF Types

\* A reader that fails keeps what it has read, and its fault.
LEMMA ReaderFails ==
    ASSUME Types, NEW t \in Thread, NEW fault \in Slots!Fault, Slots!Fail(t, fault)
    PROVE  reading' = [reading EXCEPT ![t] = [reading[t] EXCEPT !.fault = fault]]
BY DEF Types, Slots!Fail

\* The slots stay well-typed.
LEMMA SlotsTyped ==
    ASSUME Types, Next PROVE Slots!TypeOK' /\ reading' \in [Thread -> ReadingState]
<1>1. Slots!TypeOK /\ reading \in [Thread -> ReadingState]
    BY DEF Types, TypeOK
<1>2. CASE UNCHANGED slotVars
    BY <1>1, <1>2 DEF slotVars, Slots!TypeOK, Slots!Slot, Slots!GrantContent,
        Slots!VerifierContent, Slots!Fault, Slots!Entry
<1>3. ASSUME NEW t \in Thread, ReadSlots(t)
      PROVE  reading' \in [Thread -> ReadingState] /\ UNCHANGED <<grantFile, verifierFile>>
    <2> DEFINE s == reading[t].slot
    <2>1. /\ reading[t] \in ReadingState
          /\ grantFile \in [Slots!Slot -> Slots!GrantContent]
          /\ verifierFile \in [Slots!Slot -> Slots!VerifierContent]
        BY <1>1 DEF Slots!TypeOK
    <2>2. UNCHANGED <<grantFile, verifierFile>>
        BY <1>3 DEF ReadSlots, Slots!ReadGrant, Slots!ReadVerifier, Slots!files
    <2>3. s \in Slots!Slot /\ s + 1 \in 1..(NSlots + 1)
        BY <1>3, SizeAssumption
        DEF ReadSlots, Slots!ReadGrant, Slots!ReadVerifier, Slots!Reading, Slots!Slot
    <2>4. ASSUME NEW fault \in Slots!Fault, Slots!Fail(t, fault)
          PROVE  reading' \in [Thread -> ReadingState]
        <3>1. [reading[t] EXCEPT !.fault = fault] \in ReadingState
            BY <2>1 DEF ReadingState
        <3> QED
            BY <2>4, <3>1, ReaderFails, ReaderTyped
    <2>5. ASSUME NEW more \in Seq(Slots!Entry), Slots!NextSlot(t, more)
          PROVE  reading' \in [Thread -> ReadingState]
        <3> DEFINE r == [slot |-> reading[t].slot + 1, grant |-> NoFile,
                         loaded |-> reading[t].loaded \o more, fault |-> reading[t].fault]
        <3>1. reading[t].loaded \o more \in Seq(Slots!Entry)
            BY <2>1 DEF ReadingState
        <3>2. r \in ReadingState
            BY <2>1, <2>3, <3>1 DEF ReadingState
        <3>3. reading' = [reading EXCEPT ![t] = r]
            BY <2>5 DEF Slots!NextSlot
        <3> HIDE DEF r
        <3> QED
            BY <3>2, <3>3, ReaderTyped
    <2> SUFFICES reading' \in [Thread -> ReadingState]
        BY <2>2
    <2>6. CASE Slots!ReadGrant(t)
        <3>1. CASE grantFile[s] \in {Garbled, Missing}
            BY <2>4, <2>6, <3>1 DEF Slots!ReadGrant, Slots!FaultOf, Slots!Fault
        <3>2. CASE grantFile[s] \notin {Garbled, Missing}
            <4> DEFINE r == [reading[t] EXCEPT !.grant = grantFile[s]]
            <4>1. reading' = [reading EXCEPT ![t] = r]
                BY <2>6, <3>2 DEF Slots!ReadGrant
            <4>2. grantFile[s] \in Descriptor \cup {Malformed}
                BY <2>1, <2>3, <3>2 DEF Slots!GrantContent
            <4>3. r \in ReadingState
                BY <2>1, <4>2 DEF ReadingState
            <4> HIDE DEF r
            <4> QED
                BY <4>1, <4>3, ReaderTyped
        <3> QED
            BY <3>1, <3>2
    <2>7. CASE Slots!ReadVerifier(t)
        <3> DEFINE content == verifierFile[s]
                   e == [slot |-> s, key |-> reading[t].grant, verifier |-> content]
        <3>1. CASE content \in {Garbled, Missing}
            BY <2>4, <2>7, <3>1 DEF Slots!ReadVerifier, Slots!FaultOf, Slots!Fault
        <3>2. CASE content \notin {Garbled, Missing} /\ content = Blank
            <4>1. <<>> \in Seq(Slots!Entry)
                OBVIOUS
            <4> QED
                BY <2>5, <2>7, <3>2, <4>1 DEF Slots!ReadVerifier
        <3>3. CASE content \notin {Garbled, Missing, Blank} /\ Malformed \in {reading[t].grant, content}
            BY <2>4, <2>7, <3>3 DEF Slots!ReadVerifier, Slots!Fault
        <3>4. CASE content \notin {Garbled, Missing, Blank} /\ Malformed \notin {reading[t].grant, content}
            <4>1. content \in Secret /\ reading[t].grant \in Descriptor
                BY <2>1, <2>3, <2>7, <3>4 DEF Slots!ReadVerifier, Slots!VerifierContent, ReadingState
            <4>2. <<e>> \in Seq(Slots!Entry)
                BY <2>3, <4>1 DEF Slots!Entry
            <4> QED
                BY <2>5, <2>7, <3>4, <4>2 DEF Slots!ReadVerifier
        <3> QED
            BY <3>1, <3>2, <3>3, <3>4
    <2> QED
        BY <1>3, <2>6, <2>7 DEF ReadSlots
<1>4. ASSUME NEW t \in Thread, Respond(t)
      PROVE  reading' \in [Thread -> ReadingState] /\ UNCHANGED <<grantFile, verifierFile>>
    BY <1>1, <1>4, SizeAssumption
    DEF Respond, Slots!Forget, Slots!files, Slots!Unread, ReadingState, Slots!Fault
<1>5. ASSUME ReplaceFile
      PROVE  /\ grantFile' \in [Slots!Slot -> Slots!GrantContent]
             /\ verifierFile' \in [Slots!Slot -> Slots!VerifierContent]
             /\ UNCHANGED reading
    BY <1>1, <1>5 DEF ReplaceFile, Slots!ReplaceGrant, Slots!ReplaceVerifier, Slots!TypeOK
<1>6. ASSUME reading' \in [Thread -> ReadingState], UNCHANGED <<grantFile, verifierFile>>
      PROVE  Slots!TypeOK'
    BY <1>1, <1>6 DEF Slots!TypeOK, ReadingState, Slots!Slot, Slots!GrantContent,
        Slots!VerifierContent, Slots!Fault, Slots!Entry
<1>7. CASE \E t \in Thread : Handle(t)
    BY <1>2, <1>3, <1>4, <1>6, <1>7, Untouched
<1>8. CASE \E t \in Thread : \E q \in Asks[t] : Arrive(t, q)
    BY <1>2, <1>8 DEF Arrive, Components
<1>9. CASE KeysStored \/ Elsewhere \/ Settle
    BY <1>1, <1>2, <1>5, <1>9, Outside DEF Slots!TypeOK, ReadingState, Slots!Slot,
        Slots!GrantContent, Slots!VerifierContent, Slots!Fault, Slots!Entry
<1> QED
    BY <1>7, <1>8, <1>9 DEF Next

\* The files alone.
LEMMA FilesTyped ==
    ASSUME Types
    PROVE  /\ grantFile \in [Slots!Slot -> Slots!GrantContent]
           /\ verifierFile \in [Slots!Slot -> Slots!VerifierContent]
           /\ \A t \in Thread : reading[t] \in ReadingState
BY DEF Types, TypeOK, Slots!TypeOK

\* The key table's variables have their types, except for answers.
LEMMA LedgerTyped ==
    ASSUME Types, Next
    PROVE  /\ now' \in Nat /\ rows' \in [Credential -> Row \cup {NoRow}]
           /\ \A k \in Credential : rows'[k] # NoRow => k \in KeyId
           /\ DOMAIN answer' = Thread
<1> DEFINE Typed(n, r, a) == /\ n \in Nat /\ r \in [Credential -> Row \cup {NoRow}]
                             /\ \A k \in Credential : r[k] # NoRow => k \in KeyId
                             /\ DOMAIN a = Thread
<1>1. Typed(now, rows, answer)
    BY DEF Types
<1> SUFFICES Typed(now', rows', answer')
    OBVIOUS
<1>2. CASE UNCHANGED ledgerVars
    BY <1>1, <1>2 DEF ledgerVars
<1>3. ASSUME NEW t \in Thread, Statement(t) PROVE Typed(now', rows', answer')
    <2>1. now' = now /\ DOMAIN answer' = Thread
        BY <1>1, <1>3 DEF Statement, Ledger!Create, Ledger!Refuse, Ledger!Revoke,
            Ledger!NotFound, Ledger!Get, Ledger!List, Ledger!Fail, Ledger!Answer
    <2>2. ASSUME NEW k \in KeyId, Ledger!Create(t, k) PROVE Typed(now', rows', answer')
        <3>1. call[t] \in Ledger!CreateCall
            BY <2>2 DEF Types, Ledger!Create, Ledger!InProgress, Ledger!Call, Ledger!CreateCall,
                Ledger!RevokeCall, Ledger!GetCall, Ledger!ListCall
        <3>2. PICK i \in 0..now : rows' = [rows EXCEPT ![k] = Ledger!RowFor(call[t], i)]
            BY <2>2 DEF Ledger!Create
        <3>3. i \in Nat /\ call[t].days \in Nat
            <4>1. call[t].days \in Days
                BY <3>1 DEF Ledger!CreateCall
            <4>2. call[t].days \in Nat
                BY <4>1, SizeAssumption
            <4>3. now \in Nat
                BY <1>1
            <4>4. i \in Nat
                BY <4>3
            <4> QED
                BY <4>2, <4>4
        <3>4. Ledger!RowFor(call[t], i) \in Row
            BY <3>1, <3>3 DEF Ledger!RowFor, Ledger!CreateCall, Row
        <3> QED
            BY <1>1, <2>1, <3>2, <3>4 DEF Credential
    <2>3. CASE Ledger!Revoke(t)
        BY <1>1, <2>1, <2>3 DEF Ledger!Revoke
    <2>4. CASE UNCHANGED rows
        BY <1>1, <2>1, <2>4
    <2> QED
        BY <1>3, <2>2, <2>3, <2>4 DEF Statement, Ledger!Refuse,
            Ledger!NotFound, Ledger!Get, Ledger!List, Ledger!Fail
<1>4. ASSUME NEW t \in Thread, Connect(t) \/ Respond(t) PROVE Typed(now', rows', answer')
    BY <1>1, <1>2, <1>4 DEF Connect, Respond, Ledger!Begin, Ledger!Reply
<1>5. CASE \E t \in Thread : Handle(t)
    BY <1>2, <1>3, <1>4, <1>5, Untouched
<1>6. CASE \E t \in Thread : \E q \in Asks[t] : Arrive(t, q)
    BY <1>2, <1>6 DEF Arrive, Components
<1>7. CASE KeysStored \/ Elsewhere \/ Settle
    BY <1>1, <1>7, Outside DEF Day, Ledger!Tick
<1> QED
    BY <1>5, <1>6, <1>7 DEF Next

\* The table, its calls and its answers stay well-typed.
LEMMA CallTyped ==
    ASSUME Types, Control, Next PROVE call' \in [Thread -> Ledger!Call \cup {NoCall}]
<1>1. ASSUME NEW t \in Thread, Connect(t) PROVE call' \in [Thread -> Ledger!Call \cup {NoCall}]
    <2>1. CASE Op(t) = "probe"
        BY <1>1, <2>1 DEF Connect, ledgerVars, Types
    <2>2. CASE Op(t) # "probe"
        <3>1. Op(t) # "permissions" /\ WellFormed(query[t])
            BY <1>1, Queries DEF Connect, Control, OnCourse, OnPath
        <3>2. CallFor(query[t]) \in Ledger!Call
            BY <2>2, <3>1, Calls DEF Op
        <3> QED
            BY <1>1, <2>2, <3>2 DEF Connect, Ledger!Begin, Types
    <2> QED
        BY <2>1, <2>2
<1>2. ASSUME NEW t \in Thread, Statement(t) \/ Respond(t)
      PROVE  call' \in [Thread -> Ledger!Call \cup {NoCall}]
    BY <1>2 DEF Types, Respond, Ledger!Reply, ledgerVars, Statement, Ledger!Create,
        Ledger!Refuse, Ledger!Revoke, Ledger!NotFound, Ledger!Get, Ledger!List, Ledger!Fail
<1>3. CASE \E t \in Thread : Handle(t)
    BY <1>1, <1>2, <1>3, Untouched DEF ledgerVars, Types
<1>4. CASE \E t \in Thread : \E q \in Asks[t] : Arrive(t, q)
    BY <1>4 DEF Arrive, Components, ledgerVars, Types
<1>5. CASE KeysStored \/ Elsewhere \/ Settle
    BY <1>5, Outside DEF Types
<1> QED
    BY <1>3, <1>4, <1>5 DEF Next

\* What a statement answers: of its kind, and a valid key with its row.
LEMMA StatementAnswers ==
    ASSUME Types, NEW t \in Thread, Statement(t)
    PROVE  /\ answer'[t].kind \in Kinds
           /\ call[t].op = "get" => answer'[t].kind \in {"valid", "invalid", "error"}
           /\ answer'[t].kind = "valid" =>
                /\ Ledger!Get(t) /\ call[t].op = "get" /\ call[t].key \in Credential
                /\ answer'[t].row = rows[call[t].key] /\ rows[call[t].key] # NoRow
                /\ now < rows[call[t].key].expires
           /\ answer'[t].kind = "invalid" =>
                /\ Ledger!Get(t) /\ call[t].op = "get" /\ call[t].key \in Credential
                /\ ~ (rows[call[t].key] # NoRow /\ now < rows[call[t].key].expires)
<1>1. t \in DOMAIN answer
    BY DEF Types
<1>2. ASSUME NEW k \in KeyId, Ledger!Create(t, k)
      PROVE  answer'[t].kind \in {"created", "error"} /\ call[t].op # "get"
    BY <1>1, <1>2 DEF Ledger!Create, Ledger!Answer, Ledger!Failed
<1>3. ASSUME NEW a, answer' = [answer EXCEPT ![t] = a] PROVE answer'[t] = a
    BY <1>1, <1>3
<1>5. CASE Ledger!Refuse(t)
    <2>1. answer'[t] = [kind |-> "limit"]
        BY <1>3, <1>5 DEF Ledger!Refuse, Ledger!Answer
    <2>2. answer'[t].kind = "limit" /\ call[t].op # "get"
        BY <2>1, <1>5 DEF Ledger!Refuse
    <2> QED
        BY <2>2 DEF Kinds
<1>6. CASE Ledger!Revoke(t)
    <2>1. answer'[t] \in {[kind |-> "revoked"], [kind |-> "error"]}
        BY <1>3, <1>6 DEF Ledger!Revoke, Ledger!Answer, Ledger!Failed
    <2>2. answer'[t].kind \in {"revoked", "error"} /\ call[t].op # "get"
        BY <2>1, <1>6 DEF Ledger!Revoke
    <2> QED
        BY <2>2 DEF Kinds
<1>7. CASE Ledger!NotFound(t)
    <2>1. answer'[t] = [kind |-> "missing"]
        BY <1>3, <1>7 DEF Ledger!NotFound, Ledger!Answer
    <2>2. answer'[t].kind = "missing" /\ call[t].op # "get"
        BY <2>1, <1>7 DEF Ledger!NotFound
    <2> QED
        BY <2>2 DEF Kinds
<1>8. CASE Ledger!List(t)
    <2>1. answer'[t] = [kind |-> "listed", keys |-> Ledger!KeysOf(call[t].user)]
        BY <1>3, <1>8 DEF Ledger!List, Ledger!Answer
    <2>2. answer'[t].kind = "listed" /\ call[t].op # "get"
        BY <2>1, <1>8 DEF Ledger!List
    <2> QED
        BY <2>2 DEF Kinds
<1>9. CASE Ledger!Fail(t)
    <2>1. answer'[t] = [kind |-> "error"]
        BY <1>3, <1>9 DEF Ledger!Fail, Ledger!Answer, Ledger!Failed
    <2>2. answer'[t].kind = "error"
        BY <2>1
    <2> QED
        BY <2>2 DEF Kinds
<1>4. CASE Ledger!Get(t)
    <2>1. call[t].op = "get" /\ call[t] \in Ledger!Call
        BY <1>4 DEF Ledger!Get, Ledger!InProgress, Types
    <2>2. call[t].key \in Credential
        BY <2>1 DEF Ledger!Call, Ledger!CreateCall, Ledger!RevokeCall, Ledger!GetCall,
            Ledger!ListCall
    <2> DEFINE row == rows[call[t].key]
    <2>3. CASE row # NoRow /\ now < row.expires
        <3>1. answer'[t] = [kind |-> "valid", row |-> row]
            BY <1>1, <1>4, <2>3 DEF Ledger!Get, Ledger!Answer
        <3> QED
            BY <1>4, <2>1, <2>2, <2>3, <3>1 DEF Kinds
    <2>4. CASE ~ (row # NoRow /\ now < row.expires)
        <3>1. answer'[t] = [kind |-> "invalid"]
            BY <1>1, <1>4, <2>4 DEF Ledger!Get, Ledger!Answer
        <3> QED
            BY <1>4, <2>1, <2>2, <2>4, <3>1 DEF Kinds
    <2> QED
        BY <2>3, <2>4
<1> QED
    BY <1>2, <1>4, <1>5, <1>6, <1>7, <1>8, <1>9 DEF Statement, Kinds

\* The answer that a result is made of.
LEMMA AnswerTyped ==
    ASSUME Types, Next, NEW t \in Thread, pc'[t] = "result"
    PROVE  answer'[t].kind \in Kinds /\ (answer'[t].kind = "valid" => answer'[t].row \in Row)
<1>1. CASE Still(t)
    BY <1>1 DEF Still, Types
<1>2. CASE Statement(t)
    BY <1>2, StatementAnswers DEF Types
<1>3. ASSUME Handle(t), ~ Statement(t) PROVE FALSE
    BY <1>3 DEF Types, TypeOK, Handle, Gate, TokenGate, KeyFound, TokenVerified, RefreshSucceeds,
        RefreshFails, KeyMissing, ReadSlots, Match, ResolveClient, KnownClient, FindClient, StoreClient,
        FindAccount, Connect, ConnectFails, work,
        ProbeStatement, Result, Ask, Decide, ContextTooLarge, CallFails, ProbeSucceeds,
        Invalidate, Respond, Goto, Says, Grants
<1>4. ASSUME NEW q \in Asks[t], Arrive(t, q) PROVE FALSE
    BY <1>4 DEF Types, TypeOK, Arrive, Goto, Says, Grants
<1> QED
    BY <1>1, <1>2, <1>3, <1>4, Actor DEF OthersStill

\* What Keycloak may answer.
LEMMA AnswersTyped ==
    ASSUME NEW p PROVE Keycloak!Answers(p) \subseteq Entitlements
<1>1. Keycloak!Absent \in Entitlements
    BY DEF Keycloak!Absent, Entitlements
<1>2. \A held \in SUBSET Permission : Keycloak!Holder(held) \in Entitlements
    BY DEF Keycloak!Holder, Entitlements
<1> QED
    BY <1>1, <1>2 DEF Keycloak!Answers

\* What was said lately of a principal is a set of claims.
LEMMA ClaimsTyped ==
    ASSUME Types, Next
    PROVE  enabled' \in [Principal -> BOOLEAN] /\ lately' \in [Principal -> SUBSET Keycloak!Claim]
<1>1. /\ enabled \in [Principal -> BOOLEAN] /\ lately \in [Principal -> SUBSET Keycloak!Claim]
    BY DEF Types
<1>2. CASE \E t \in Thread : Handle(t) \/ \E q \in Asks[t] : Arrive(t, q)
    BY <1>1, <1>2, WorldUntouched
<1>3. CASE Settle
    <2>1. ASSUME NEW p \in Principal PROVE Keycloak!Present(p) \subseteq Keycloak!Claim
        BY <1>1, PresentClaims
    <2> QED
        BY <1>1, <1>3, <2>1 DEF Settle, Keycloak!SettleAll
<1>4. ASSUME NEW p \in Principal, ChangePrincipal(p)
      PROVE  enabled' \in [Principal -> BOOLEAN] /\ lately' \in [Principal -> SUBSET Keycloak!Claim]
    <2>1. enabled' \in [Principal -> BOOLEAN]
        BY <1>1, <1>4 DEF ChangePrincipal, Keycloak!Change
    <2>2. Keycloak!Present(p)' \subseteq Keycloak!Claim
        <3>1. [fact |-> "enabled", holds |-> enabled'[p]] \in Keycloak!Claim
            BY <2>1 DEF Keycloak!Claim, Keycloak!Fact
        <3>2. ASSUME NEW e \in Permission
              PROVE  [fact |-> e, holds |-> e \in granted'[p]] \in Keycloak!Claim
            <4>1. (e \in granted'[p]) \in BOOLEAN
                OBVIOUS
            <4>2. e \in Keycloak!Fact
                BY DEF Keycloak!Fact
            <4> QED
                BY <4>1, <4>2, Zenon DEF Keycloak!Claim
        <3> QED
            BY <3>1, <3>2 DEF Keycloak!Present
    <2>3. lately' = [lately EXCEPT ![p] = @ \cup Keycloak!Present(p)']
        BY <1>4 DEF ChangePrincipal, Keycloak!Change
    <2> QED
        BY <1>1, <2>1, <2>2, <2>3
<1>5. CASE KeysStored \/ Elsewhere \/ Settle
    BY <1>1, <1>3, <1>4, <1>5, Outside DEF promiseVars
<1> QED
    BY <1>2, <1>5 DEF Next

\* What a request has been told is an answer of Keycloak.
LEMMA ToldTyped ==
    ASSUME Types, Next
    PROVE  /\ told' \in [Thread -> Entitlements \cup {NoAnswer, Unavailable}]
           /\ \A t \in Thread : pc'[t] = "told" => told'[t] # NoAnswer
<1>1. told \in [Thread -> Entitlements \cup {NoAnswer, Unavailable}]
    BY DEF Types
<1>2. NoAnswer \notin Entitlements \cup {Unavailable}
    BY NullAssumption DEF Entitlements
<1>3. ASSUME NEW t \in Thread, Ask(t)
      PROVE  told' = [told EXCEPT ![t] = told'[t]] /\ told'[t] \in Entitlements \cup {Unavailable}
    BY <1>1, <1>3, AnswersTyped DEF Ask, Keycloak!Answer
<1>4. told' \in [Thread -> Entitlements \cup {NoAnswer, Unavailable}]
    <2>1. ASSUME NEW t \in Thread, Handle(t)
          PROVE  told' \in [Thread -> Entitlements \cup {NoAnswer, Unavailable}]
        BY <1>1, <1>3, <2>1, Untouched DEF promiseVars, Respond, Keycloak!Forget
    <2>2. CASE \E t \in Thread : \E q \in Asks[t] : Arrive(t, q)
        BY <1>1, <2>2 DEF Arrive, Components, promiseVars
    <2> QED
        BY <1>1, <2>1, <2>2, Outside DEF Next
<1>5. ASSUME NEW t \in Thread, pc'[t] = "told" PROVE told'[t] # NoAnswer
    <2>1. CASE Still(t)
        BY <1>5, <2>1 DEF Still, Types
    <2>2. CASE Ask(t)
        BY <1>2, <1>3, <2>2
    <2>3. ASSUME Handle(t), ~ Ask(t) PROVE FALSE
        BY <1>5, <2>3 DEF Types, TypeOK, Handle, Gate, TokenGate, KeyFound, TokenVerified,
            RefreshSucceeds, RefreshFails, KeyMissing, ReadSlots, Match, ResolveClient,
            KnownClient, FindClient, StoreClient, FindAccount, Connect, ConnectFails,
            work, Statement, ProbeStatement, Result, Decide, ContextTooLarge,
            CallFails, ProbeSucceeds, Invalidate, Respond, Goto, Says, Grants
    <2>4. ASSUME NEW q \in Asks[t], Arrive(t, q) PROVE FALSE
        BY <1>5, <2>4 DEF Types, TypeOK, Arrive, Goto, Says, Grants
    <2> QED
        BY <2>1, <2>2, <2>3, <2>4, Actor DEF OthersStill
<1> QED
    BY <1>4, <1>5

Progress == pc \in [Thread -> Place]
            /\ reply \in [Thread -> [status : Status, permissions : SUBSET Permission]]

\* So is one without permissions.
LEMMA SaysTyped ==
    ASSUME Types, NEW t \in Thread, NEW status \in Status, Says(t, status) PROVE Progress'
BY GrantsTyped DEF Says, Progress

\* The first match, at the place where its client's account is asked for.
LEMMA MatchTyped ==
    ASSUME Types, NEW t \in Thread, OnCourse(t), InProgress(t), ByKey(t),
           pc[t] \notin {"gate", "slots", "connect"}, call[t] = NoCall
    PROVE  /\ Matched(t) \in Slots!Entry /\ Matched(t).key \in Descriptor
           /\ Matched(t).verifier = query[t].credential
           /\ Matched(t) \in Slots!Loaded(t) /\ query[t].credential \in Secret
           /\ \A e \in Slots!Loaded(t) : e.verifier = query[t].credential => e = Matched(t)
<1>1. Matches(t) # {} /\ ~ Slots!Duplicates(Slots!Loaded(t))
    BY DEF OnCourse, Searched
<1>2. /\ Matched(t) \in Slots!Loaded(t) /\ Matched(t).verifier = query[t].credential
      /\ \A e \in Matches(t) : e.slot = Matched(t).slot
    BY <1>1, MatchedIsMatch DEF OnCourse
<1>3. Matched(t) \in Slots!Entry
    BY <1>2 DEF OnCourse, Loading
<1>4. Matched(t).key \in Descriptor /\ Matched(t).verifier \in Secret
    BY <1>3 DEF Slots!Entry
<1>5. ASSUME NEW e \in Slots!Loaded(t), e.verifier = query[t].credential PROVE e = Matched(t)
    <2>1. e \in Matches(t)
        BY <1>5 DEF Matches, Slots!Matching
    <2> QED
        BY <1>2, <2>1 DEF OnCourse, Loading
<1> QED
    BY <1>2, <1>3, <1>4, <1>5

\* Each kind of answer of the table has a status.
LEMMA StatusTyped ==
    ASSUME NEW kind \in Kinds \ {"valid", "invalid"} PROVE StatusOf(kind) \in Status
BY DEF Kinds, StatusOf, Status

\* The grant that a validation's answer is cut down from is a set of permissions.
LEMMA ToldEnabled ==
    ASSUME Types, NEW t \in Thread, pc[t] = "told", told[t] # Unavailable
    PROVE  told[t] \in Entitlements /\ told[t].granted \in SUBSET Permission
BY DEF Types, Entitlements

\* Places and replies stay well-typed.
LEMMA ProgressTyped ==
    ASSUME Types, Control, NEW t \in Thread, Handle(t) PROVE Progress'
<1>1. OnCourse(t) /\ pc[t] \in Place
    BY DEF Control, Types, TypeOK
<1>2. ASSUME NEW where \in Place, Goto(t, where) PROVE Progress'
    BY <1>2, GotoTyped DEF Progress
<1>3. ASSUME NEW status \in Status, Says(t, status) PROVE Progress'
    BY <1>3, SaysTyped
<1>4. /\ {401, 403, 404, 422, 500, 503, 200} \subseteq Status
      /\ Place = {"idle", "gate", "token_gate", "signing_key", "second_lookup", "slots", "account",
          "client", "service_account", "connect", "statement", "result", "ask", "told", "probe",
          "failed", "answered"}
    BY DEF Status, Place
<1>5. CASE Gate(t)
    BY <1>2, <1>3, <1>4, <1>5 DEF Gate
<1>6. CASE TokenGate(t)
    BY <1>2, <1>3, <1>4, <1>6 DEF TokenGate
<1>7. CASE KeyFound(t)
    <2>1. CASE Op(t) = "caller"
        <3>1. query[t].credential \in Token
            BY <1>1, <1>7, <2>1 DEF KeyFound, OnCourse, OnPath
        <3>2. /\ Verdict[query[t].credential] \in Status
              /\ Roles[query[t].credential] \in SUBSET Permission
            BY <3>1, CredentialAssumption DEF Status
        <3>3. Grants(t, Verdict[query[t].credential],
                    IF Verdict[query[t].credential] = 200 THEN Roles[query[t].credential] ELSE {})
            BY <1>7, <2>1 DEF KeyFound, TokenVerified, Op
        <3> QED
            BY <3>2, <3>3, GrantsTyped DEF Progress
    <2>2. CASE Op(t) # "caller"
        <3>1. /\ WellFormed(query[t])
              /\ Op(t) \in {"create", "revoke", "permissions", "list"}
            BY <1>1, <1>7, <2>2, Queries DEF KeyFound, OnCourse, OnPath
        <3>2. query[t].token \in {0, 200, 401, 422}
            BY <3>1 DEF WellFormed, Op
        <3>3. 0 \in Status
            BY DEF Status
        <3> QED
            BY <1>2, <1>3, <1>4, <1>7, <2>2, <3>2, <3>3 DEF KeyFound, TokenVerified, Op
    <2> QED
        BY <2>1, <2>2
<1>8. CASE RefreshSucceeds(t)
    BY <1>2, <1>4, <1>8 DEF RefreshSucceeds
<1>9. CASE RefreshFails(t)
    BY <1>3, <1>4, <1>9 DEF RefreshFails
<1>10. CASE KeyMissing(t)
    BY <1>3, <1>4, <1>10 DEF KeyMissing
<1>11. CASE ReadSlots(t)
    BY <1>11 DEF ReadSlots, work, Progress, Types, TypeOK
<1>12. CASE Match(t)
    BY <1>2, <1>3, <1>4, <1>12 DEF Match
<1>13. CASE ResolveClient(t) \/ FindAccount(t)
    BY <1>2, <1>3, <1>4, <1>13
    DEF ResolveClient, KnownClient, FindClient, StoreClient, FindAccount
<1>14. CASE Connect(t)
    BY <1>2, <1>4, <1>14 DEF Connect
<1>15. CASE ConnectFails(t)
    BY <1>3, <1>4, <1>15 DEF ConnectFails
<1>16. CASE Statement(t)
    BY <1>2, <1>4, <1>16 DEF Statement
<1>17. CASE ProbeStatement(t)
    BY <1>2, <1>3, <1>4, <1>17 DEF ProbeStatement
<1>18. CASE Result(t)
    <2>1. answer[t].kind \in Kinds
        BY <1>18 DEF Result, Types
    <2> QED
        BY <1>2, <1>3, <1>4, <1>18, <2>1, StatusTyped DEF Result
<1>19. CASE Ask(t)
    BY <1>2, <1>4, <1>19 DEF Ask
<1>20. CASE Decide(t)
    <2>1. ASSUME told[t] # Unavailable
          PROVE  told[t].granted \in SUBSET Permission /\ Effective(t) \in SUBSET Permission
        BY <1>20, <2>1, ToldEnabled DEF Decide, Effective
    <2>2. ASSUME NEW permissions \in SUBSET Permission, Grants(t, 200, permissions) PROVE Progress'
        BY <1>4, <2>2, GrantsTyped DEF Progress
    <2> QED
        BY <1>2, <1>3, <1>4, <1>20, <2>1, <2>2 DEF Decide
<1>21. CASE ContextTooLarge(t)
    BY <1>3, <1>4, <1>21 DEF ContextTooLarge
<1>22. CASE CallFails(t)
    BY <1>2, <1>4, <1>22 DEF CallFails
<1>23. CASE ProbeSucceeds(t)
    BY <1>3, <1>4, <1>23 DEF ProbeSucceeds
<1>24. CASE Invalidate(t)
    BY <1>3, <1>4, <1>24 DEF Invalidate
<1>25. CASE Respond(t)
    <2>1. NoReply \in [status : Status, permissions : SUBSET Permission]
        BY DEF NoReply, Status
    <2> QED
        BY <1>4, <1>25, <2>1 DEF Respond, Progress, Types, TypeOK
<1> QED
    BY <1>5, <1>6, <1>7, <1>8, <1>9, <1>10, <1>11, <1>12, <1>13, <1>14, <1>15, <1>16, <1>17,
       <1>18, <1>19, <1>20, <1>21, <1>22, <1>23, <1>24, <1>25 DEF Handle

\* While its client is looked for, a managed key's descriptor is there to name it.
LEMMA ClientTyped ==
    ASSUME Types, Control, NEW t \in Thread, pc[t] \in {"account", "client", "service_account"}
    PROVE  ClientOf(t) \in Client
<1>1. OnCourse(t)
    BY DEF Control
<1>2. Matched(t).key \in Descriptor
    BY <1>1, MatchTyped DEF OnCourse, OnPath, Connected, InProgress, Before
<1> QED
    BY <1>2, FileAssumption DEF ClientOf

\* A client that has been found is one of Keycloak's.
LEMMA UuidTyped ==
    ASSUME Types, Control, NEW t \in Thread, Handle(t)
    PROVE  /\ uuid' \in [Thread -> Uuid \cup {NoUuid}]
           /\ pc'[t] \in {"client", "service_account"} => uuid'[t] \in Uuid
<1>1. /\ uuid \in [Thread -> Uuid \cup {NoUuid}] /\ pc \in [Thread -> Place]
      /\ pc[t] \in {"client", "service_account"} => uuid[t] \in Uuid
      /\ known \in [Client -> Uuid \cup {NoUuid}] /\ holder \in [Client -> Uuid \cup {NoUuid}]
    BY DEF Types, TypeOK
<1>2. CASE KnownClient(t) \/ FindClient(t)
    <2>1. ClientOf(t) \in Client
        BY <1>2, ClientTyped DEF KnownClient, FindClient
    <2> QED
        BY <1>1, <1>2, <2>1 DEF KnownClient, FindClient, Goto
<1>3. CASE StoreClient(t)
    BY <1>1, <1>3 DEF StoreClient, KeptFromStep
<1>4. CASE Respond(t)
    BY <1>1, <1>4 DEF Respond
<1>5. ASSUME ~ KnownClient(t), ~ FindClient(t), ~ StoreClient(t), ~ Respond(t)
      PROVE  uuid' = uuid /\ pc'[t] \notin {"client", "service_account"}
    BY <1>1, <1>5 DEF Handle, Gate, TokenGate, KeyFound, TokenVerified, RefreshSucceeds,
        RefreshFails, KeyMissing, ReadSlots, Match, ResolveClient, FindAccount, Connect,
        ConnectFails, work, Statement, ProbeStatement, Result, Ask, Decide, ContextTooLarge,
        CallFails, ProbeSucceeds, Invalidate, KeptFromStep, Goto, Says, Grants
<1> QED
    BY <1>1, <1>2, <1>3, <1>4, <1>5

\* Whose entitlements are asked for is a user or a service account.
LEMMA PrincipalTyped ==
    ASSUME Types, Control, NEW t \in Thread, Handle(t)
    PROVE  principal' \in [Thread -> Principal \cup {NoPrincipal}]
<1>1. OnCourse(t) /\ principal \in [Thread -> Principal \cup {NoPrincipal}]
    BY DEF Control, Types, TypeOK
<1>2. CASE KeyFound(t)
    <2>1. Op(t) \in {"create", "permissions", "list"} => query[t].target \in User
        BY <1>1, <1>2, Queries DEF KeyFound, OnCourse
    <2>2. Op(t) \in {"create", "revoke", "permissions", "list", "caller"}
        BY <1>1, <1>2 DEF KeyFound, OnCourse, OnPath
    <2> QED
        BY <1>1, <1>2, <2>1, <2>2 DEF KeyFound, TokenVerified, Op, Principal
<1>3. CASE FindAccount(t)
    <2>1. account[uuid[t]] \in ServiceAccount \cup {NoPrincipal}
        BY <1>3 DEF FindAccount, Types, TypeOK
    <2> QED
        BY <1>1, <1>3, <2>1 DEF FindAccount, Principal
<1>4. CASE Result(t)
    <2>1. answer[t].kind = "valid" => answer[t].row.owner \in User
        BY <1>4 DEF Result, Types, Row
    <2> QED
        BY <1>1, <1>4, <2>1 DEF Result, Principal
<1>5. CASE Respond(t)
    BY <1>1, <1>5 DEF Respond
<1>6. CASE UNCHANGED principal
    BY <1>1, <1>6
<1> QED
    BY <1>2, <1>3, <1>4, <1>5, <1>6 DEF Handle, Gate, TokenGate, RefreshSucceeds, RefreshFails,
       KeyMissing, ReadSlots, Match, ResolveClient, KnownClient, FindClient, StoreClient,
       Connect, ConnectFails, Statement, ProbeStatement, Ask, Decide,
       ContextTooLarge, CallFails, ProbeSucceeds, Invalidate, KeptFromStep, work

\* Connections are taken one at a time, from the pool's vacancies.
LEMMA PoolTyped ==
    ASSUME Types, Next PROVE holding' \in SUBSET Thread /\ Cardinality(holding') <= PoolSize
<1>1. ASSUME NEW t \in Thread, Handle(t)
      PROVE  holding' \subseteq holding \/ (Vacancy /\ holding' = holding \cup {t})
    BY <1>1 DEF Handle, Gate, TokenGate, KeyFound, RefreshSucceeds, RefreshFails,
       KeyMissing, ReadSlots, Match, ResolveClient, KnownClient, FindClient, StoreClient,
       FindAccount, Connect, ConnectFails, Statement, ProbeStatement,
       Result, Ask, Decide, ContextTooLarge, CallFails, ProbeSucceeds, Invalidate, Respond,
       KeptFromStep, work
<1>2. CASE \E t \in Thread : \E q \in Asks[t] : Arrive(t, q)
    BY <1>2, HoldingTyped DEF Arrive
<1>3. CASE KeysStored \/ Elsewhere \/ Settle
    BY <1>3, HoldingTyped, Outside DEF work
<1> QED
    BY <1>1, <1>2, <1>3, HoldingTyped DEF Next

\* The changes are counted up to their bound.
LEMMA ChangesTyped ==
    ASSUME Types, Next PROVE changes' \in 0..MaxChanges
<1>1. changes \in 0..MaxChanges
    BY DEF Types, TypeOK
<1>2. CASE Elsewhere
    <2> DEFINE busy == Cardinality({t \in Thread : pc[t] # "idle"}) + 0
               extra == IF busy > 1 THEN Weight * (busy - 1) ELSE 0
    <2>1. Cardinality({t \in Thread : pc[t] # "idle"}) \in Nat
        BY SizeAssumption, FS_Subset, FS_CardinalityType
    <2>2. extra \in Nat
        BY <2>1, SizeAssumption
    <2>3. changes + 1 + extra <= MaxChanges
        BY <1>2 DEF Elsewhere, Room
    <2>4. changes' = changes + 1
        BY <1>2 DEF Elsewhere
    <2> HIDE DEF extra
    <2> QED
        BY <1>1, <2>2, <2>3, <2>4, SizeAssumption
<1>3. CASE UNCHANGED changes
    BY <1>1, <1>3
<1> QED
    BY <1>2, <1>3, Untouched DEF Next, Arrive, KeysStored, Settle

\* The pool, the queries and the principals stay well-typed.
LEMMA WorkTyped ==
    ASSUME Types, Control, Next
    PROVE  /\ Progress' /\ query' \in [Thread -> (UNION {Asks[t] : t \in Thread}) \cup {NoQuery}]
           /\ principal' \in [Thread -> Principal \cup {NoPrincipal}]
           /\ uuid' \in [Thread -> Uuid \cup {NoUuid}]
<1>1. /\ Progress /\ query \in [Thread -> (UNION {Asks[t] : t \in Thread}) \cup {NoQuery}]
      /\ principal \in [Thread -> Principal \cup {NoPrincipal}]
      /\ uuid \in [Thread -> Uuid \cup {NoUuid}]
    BY DEF Types, TypeOK, Progress
<1>2. ASSUME NEW t \in Thread, Handle(t)
      PROVE  query' \in [Thread -> (UNION {Asks[s] : s \in Thread}) \cup {NoQuery}]
    BY <1>1, <1>2 DEF Handle, Gate, TokenGate, KeyFound, RefreshSucceeds, RefreshFails,
       KeyMissing, ReadSlots, Match, ResolveClient, KnownClient, FindClient, StoreClient,
       FindAccount, Connect, ConnectFails, Statement, ProbeStatement,
       Result, Ask, Decide, ContextTooLarge, CallFails, ProbeSucceeds, Invalidate, Respond,
       KeptFromStep, work
<1>3. ASSUME NEW t \in Thread, NEW q \in Asks[t], Arrive(t, q)
      PROVE  /\ Progress' /\ query' \in [Thread -> (UNION {Asks[s] : s \in Thread}) \cup {NoQuery}]
             /\ principal' \in [Thread -> Principal \cup {NoPrincipal}]
             /\ uuid' \in [Thread -> Uuid \cup {NoUuid}]
    <2>1. q.form \in {200, 401, 403, 415, 422}
        BY QueryAssumption DEF WellFormed
    <2>2. {"connect", "gate"} \subseteq Place /\ q.form \in Status
        BY <2>1 DEF Place, Status
    <2>3. Progress'
        BY <1>3, <2>2, GotoTyped, SaysTyped DEF Arrive, Progress
    <2> QED
        BY <1>1, <1>3, <2>3 DEF Arrive
<1>4. CASE KeysStored \/ Elsewhere \/ Settle
    BY <1>1, <1>4, Outside DEF work, Progress
<1> QED
    BY <1>2, <1>3, <1>4, ProgressTyped, PrincipalTyped, UuidTyped DEF Next

\* The rest of the world stays well-typed, and what is known of it.
LEMMA WorldTyped ==
    ASSUME Types, Control, Next
    PROVE  /\ holder' \in [Client -> Uuid \cup {NoUuid}]
           /\ account' \in [Uuid -> ServiceAccount \cup {NoPrincipal}]
           /\ known' \in [Client -> Uuid \cup {NoUuid}]
           /\ named' \in [Client -> SUBSET Uuid] /\ open' \in BOOLEAN
<1>1. /\ account \in [Uuid -> ServiceAccount \cup {NoPrincipal}] /\ open \in BOOLEAN
      /\ holder \in [Client -> Uuid \cup {NoUuid}] /\ known \in [Client -> Uuid \cup {NoUuid}]
      /\ named \in [Client -> SUBSET Uuid] /\ uuid \in [Thread -> Uuid \cup {NoUuid}]
    BY DEF Types, TypeOK
<1>2. account' \in [Uuid -> ServiceAccount \cup {NoPrincipal}]
    <2>1. ASSUME NEW i \in Uuid, ChangeAccount(i)
          PROVE  account' \in [Uuid -> ServiceAccount \cup {NoPrincipal}]
        BY <1>1, <2>1 DEF ChangeAccount
    <2>2. ASSUME NEW c \in Client, ChangeHolder(c)
          PROVE  account' \in [Uuid -> ServiceAccount \cup {NoPrincipal}]
        BY <1>1, <2>2 DEF ChangeHolder
    <2>3. \/ \E i \in Uuid : ChangeAccount(i)
          \/ \E c \in Client : ChangeHolder(c)
          \/ account' = account
        BY WorldUntouched, Outside DEF Next
    <2> QED
        BY <1>1, <2>1, <2>2, <2>3
<1>3. holder' \in [Client -> Uuid \cup {NoUuid}]
    BY <1>1, WorldUntouched, Outside DEF Next, ChangeHolder
<1>4. named' \in [Client -> SUBSET Uuid]
    BY <1>1, <1>3 DEF Next, Remember
<1>5. ASSUME NEW t \in Thread, Handle(t)
      PROVE  open' \in BOOLEAN /\ known' \in [Client -> Uuid \cup {NoUuid}]
    BY <1>1, <1>5, Untouched DEF RefreshSucceeds, RefreshFails, Invalidate, StoreClient
<1>6. ASSUME KeysStored \/ Elsewhere \/ Settle
      PROVE  open' \in BOOLEAN /\ known' \in [Client -> Uuid \cup {NoUuid}]
    BY <1>1, <1>6, Outside DEF KeysStored, Elsewhere, Settle, ChangePrincipal, ChangeAccount,
       ChangeHolder, ReplaceFile, KeysCleared, Day
<1>7. ASSUME NEW t \in Thread, NEW q \in Asks[t], Arrive(t, q) PROVE UNCHANGED <<open, known>>
    BY <1>7 DEF Arrive, Components, clients
<1> QED
    BY <1>1, <1>2, <1>3, <1>4, <1>5, <1>6, <1>7 DEF Next

\* Every step preserves the types.
LEMMA TypesNext ==
    ASSUME Types, Control, Next PROVE Types'
<1>1. TypeOK'
    <2> HIDE DEF TypeOK
    <2> QED
        BY SlotsTyped, WorldTyped, PoolTyped, WorkTyped, ChangesTyped DEF TypeOK, Progress
<1>2. writes' \in [Thread -> Seq(File)]
    BY WritesTyped DEF Next
<1>3. ASSUME NEW t \in Thread, pc'[t] \in {"client", "service_account"} PROVE uuid'[t] \in Uuid
    <2>1. CASE Still(t)
        BY <1>3, <2>1 DEF Still, Types
    <2>2. ASSUME NEW q \in Asks[t], Arrive(t, q) PROVE FALSE
        BY <1>3, <2>2 DEF Types, TypeOK, Arrive, Goto, Says, Grants
    <2> QED
        BY <1>3, <2>1, <2>2, UuidTyped, Actor DEF OthersStill
<1> QED
    BY <1>1, <1>2, <1>3, SlotsTyped, LedgerTyped, CallTyped, AnswerTyped, ToldTyped, ClaimsTyped
    DEF Types, ReadingState, File, Row, Slots!Entry, Slots!Slot, Slots!Fault

-----------------------------------------------------------------------------
(* Where a request is *)

\* No request has begun.
LEMMA ControlInit == Init => Control
BY SizeAssumption
DEF Init, Ledger!Init, Control, OnCourse, Asked, OnPath, Connected, Searched, Loading, InProgress,
    Before, WithKeycloak, Slots!Loaded, Slots!Unread

\* The same credential and the same entries match in the same way.
LEMMA SameSearch ==
    ASSUME NEW t \in Thread, reading'[t] = reading[t], query'[t] = query[t]
    PROVE  /\ Slots!Loaded(t)' = Slots!Loaded(t) /\ Matches(t)' = Matches(t)
           /\ Matched(t)' = Matched(t) /\ Op(t)' = Op(t) /\ ByKey(t)' = ByKey(t)
           /\ CallFor(query[t])' = CallFor(query[t])
           /\ Slots!Duplicates(Slots!Loaded(t))' = Slots!Duplicates(Slots!Loaded(t))
<1>1. CallFor(query[t])' = CallFor(query[t])
    BY DEF CallFor
<1>2. Slots!Loaded(t)' = Slots!Loaded(t)
    BY DEF Slots!Loaded
<1>3. Slots!Duplicates(Slots!Loaded(t))' = Slots!Duplicates(Slots!Loaded(t))
    BY <1>2 DEF Slots!Duplicates
<1>4. Matches(t)' = Matches(t)
    BY <1>2 DEF Matches, Slots!Matching
<1>5. Matched(t)' = Matched(t)
    BY <1>4 DEF Matched
<1> QED
    BY <1>1, <1>2, <1>3, <1>4, <1>5 DEF Op, ByKey

\* A thread that is left alone stays on its course.
LEMMA StillOnCourse ==
    ASSUME NEW t \in Thread, Still(t), OnCourse(t) PROVE OnCourse(t)'
<1>1. Asked(t)'
    BY DEF Still, OnCourse, Asked, InProgress
<1>2. OnPath(t)'
    BY SameSearch DEF Still, OnCourse, OnPath
<1>3. Connected(t)'
    BY SameSearch DEF Still, OnCourse, Connected, Before, WithKeycloak
<1>4. Searched(t)'
    BY SameSearch DEF Still, OnCourse, Searched, InProgress
<1>5. Loading(t)'
    BY SameSearch DEF Still, OnCourse, Loading, InProgress, Slots!Entry, Slots!Slot, Slots!Unread
<1> QED
    BY <1>1, <1>2, <1>3, <1>4, <1>5 DEF OnCourse

\* What a handler has before its step, and what most steps leave to it.
Keeps(t) == query'[t] = query[t] /\ reading'[t] = reading[t] /\ call'[t] = call[t]

\* A step keeps the query, the reading and the connection unless it is about them.
LEMMA Kept ==
    ASSUME NEW t \in Thread, Handle(t)
    PROVE  \/ ReadSlots(t) \/ Connect(t) \/ Respond(t)
           \/ Keeps(t) /\ (ProbeStatement(t) \/ holding' = holding)
<1>1. ReadSlots(t) \/ Connect(t) \/ Respond(t) \/ query' = query
    BY DEF Handle, Gate, TokenGate, KeyFound, RefreshSucceeds, RefreshFails, KeyMissing,
        Match, ResolveClient, KnownClient, FindClient, StoreClient,
        FindAccount, ConnectFails, Statement, ProbeStatement, Result, Ask, Decide,
        ContextTooLarge, CallFails, ProbeSucceeds, Invalidate, KeptFromStep
<1>2. ReadSlots(t) \/ Connect(t) \/ Respond(t) \/ ProbeStatement(t) \/ holding' = holding
    BY DEF Handle, Gate, TokenGate, KeyFound, RefreshSucceeds, RefreshFails, KeyMissing,
        Match, ResolveClient, KnownClient, FindClient, StoreClient,
        FindAccount, ConnectFails, Statement, Result, Ask, Decide,
        ContextTooLarge, CallFails, ProbeSucceeds, Invalidate, KeptFromStep
<1>3. ReadSlots(t) \/ Respond(t) \/ reading' = reading
    BY Untouched DEF slotVars
<1>4. Statement(t) => call' = call
    BY DEF Statement, Ledger!Create, Ledger!Refuse, Ledger!Revoke, Ledger!NotFound, Ledger!Get,
        Ledger!List, Ledger!Fail
<1>5. Connect(t) \/ Respond(t) \/ call' = call
    BY <1>4, Untouched DEF ledgerVars
<1> QED
    BY <1>1, <1>2, <1>3, <1>5 DEF Keeps

\* A step to another place, with the same query, entries and call.
LEMMA KeptOnCourse ==
    ASSUME NEW t \in Thread, OnCourse(t), Keeps(t), t \in holding' => t \in holding,
           InProgress(t), pc'[t] # "idle",
           InProgress(t)' => OnPath(t)' /\ Connected(t)' /\ Searched(t)',
           pc'[t] # "gate" \/ reading[t] = Slots!Unread
    PROVE  OnCourse(t)'
<1>1. Asked(t)'
    BY DEF Keeps, OnCourse, Asked, InProgress
<1>2. Loading(t)'
    BY SameSearch DEF Keeps, OnCourse, Loading, InProgress, Slots!Entry, Slots!Slot, Slots!Unread
<1>3. CASE pc'[t] = "answered"
    <2>1. OnPath(t)' /\ Searched(t)'
        BY <1>3 DEF OnPath, Searched, InProgress
    <2>2. Connected(t)'
        BY <1>3, SameSearch DEF OnCourse, Keeps, Connected, Before, WithKeycloak
    <2> QED
        BY <1>1, <1>2, <2>1, <2>2 DEF OnCourse
<1> QED
    BY <1>1, <1>2, <1>3 DEF OnCourse, InProgress

-----------------------------------------------------------------------------
(* The steps of a reader of the slots                                      *)

EntryOf(s, grant, verifier) == [slot |-> s, key |-> grant, verifier |-> verifier]

At(t) == reading[t].slot

\* What the reader's step comes to.
ReaderFailed(t) ==
    /\ \/ reading[t].grant = NoFile /\ grantFile[At(t)] \in {Garbled, Missing}
       \/ reading[t].grant # NoFile /\ verifierFile[At(t)] \in {Garbled, Missing}
       \/ /\ reading[t].grant # NoFile /\ verifierFile[At(t)] # Blank
          /\ Malformed \in {reading[t].grant, verifierFile[At(t)]}
    /\ reading'[t].fault \in {"configuration", "decoding"}
    /\ At(t)' = At(t) /\ reading'[t].grant = reading[t].grant
    /\ Slots!Loaded(t)' = Slots!Loaded(t)

GrantRead(t) ==
    /\ reading[t].grant = NoFile /\ grantFile[At(t)] \in Descriptor \cup {Malformed}
    /\ reading'[t].fault = "none" /\ At(t)' = At(t)
    /\ reading'[t].grant = grantFile[At(t)]
    /\ Slots!Loaded(t)' = Slots!Loaded(t)

SlotSkipped(t) ==
    /\ reading[t].grant # NoFile /\ verifierFile[At(t)] = Blank
    /\ reading'[t].fault = "none" /\ At(t)' = At(t) + 1 /\ reading'[t].grant = NoFile
    /\ Slots!Loaded(t)' = Slots!Loaded(t)

SlotLoaded(t) ==
    /\ reading[t].grant \in Descriptor /\ verifierFile[At(t)] \in Secret
    /\ reading'[t].fault = "none" /\ At(t)' = At(t) + 1 /\ reading'[t].grant = NoFile
    /\ Slots!Loaded(t)' = Slots!Loaded(t)
            \cup {EntryOf(At(t), reading[t].grant, verifierFile[At(t)])}

\* The last of a sequence that has grown by one.
LEMMA Appended ==
    ASSUME NEW S, NEW s \in Seq(S), NEW e \in S, NEW more, more = s \o <<e>>
    PROVE  \A x : (\E i \in DOMAIN more : x = more[i])
                    <=> (\E i \in DOMAIN s : x = s[i]) \/ x = e
<1>1. <<e>> \in Seq(S) /\ Len(<<e>>) = 1 /\ <<e>>[1] = e
    OBVIOUS
<1>2. /\ DOMAIN more = 1..(Len(s) + 1) /\ DOMAIN s = 1..Len(s) /\ Len(s) \in Nat
      /\ \A i \in 1..Len(s) : more[i] = s[i]
      /\ more[Len(s) + 1] = e
    BY <1>1
<1> QED
    BY <1>2

\* A step of a reader, by what it has read before.
LEMMA ReaderSteps ==
    ASSUME Types, NEW t \in Thread, ReadSlots(t)
    PROVE  /\ At(t) \in Slots!Slot /\ reading[t].fault = "none"
           /\ ReaderFailed(t) \/ GrantRead(t) \/ SlotSkipped(t) \/ SlotLoaded(t)
<1>1. /\ reading[t] \in ReadingState /\ t \in DOMAIN reading
      /\ grantFile \in [Slots!Slot -> Slots!GrantContent]
      /\ verifierFile \in [Slots!Slot -> Slots!VerifierContent]
    BY FilesTyped DEF Types
<1>2. At(t) \in Slots!Slot /\ reading[t].fault = "none"
    BY DEF ReadSlots, Slots!ReadGrant, Slots!ReadVerifier, Slots!Reading, At
<1>3. ASSUME NEW fault, Slots!Fail(t, fault)
      PROVE  /\ reading'[t].fault = fault /\ At(t)' = At(t)
             /\ reading'[t].grant = reading[t].grant /\ Slots!Loaded(t)' = Slots!Loaded(t)
    BY <1>1, <1>3 DEF Slots!Fail, ReadingState, At, Slots!Loaded
<1>4. \A content : Slots!FaultOf(content) \in {"configuration", "decoding"}
    BY DEF Slots!FaultOf
<1> SUFFICES ReaderFailed(t) \/ GrantRead(t) \/ SlotSkipped(t) \/ SlotLoaded(t)
    BY <1>2
<1>5. CASE Slots!ReadGrant(t)
    <2>1. CASE grantFile[At(t)] \in {Garbled, Missing}
        BY <1>3, <1>4, <1>5, <2>1 DEF Slots!ReadGrant, At, ReaderFailed
    <2>2. CASE grantFile[At(t)] \notin {Garbled, Missing}
        <3>1. reading' = [reading EXCEPT ![t].grant = grantFile[At(t)]]
            BY <1>5, <2>2 DEF Slots!ReadGrant, At
        <3>2. /\ reading'[t].slot = reading[t].slot /\ reading'[t].grant = grantFile[At(t)]
              /\ reading'[t].loaded = reading[t].loaded /\ reading'[t].fault = "none"
            BY <1>1, <1>2, <3>1 DEF ReadingState
        <3>3. grantFile[At(t)] \in Descriptor \cup {Malformed}
            BY <1>1, <1>2, <2>2 DEF Slots!GrantContent
        <3> QED
            BY <1>2, <1>5, <3>2, <3>3 DEF GrantRead, Slots!ReadGrant, Slots!Loaded, At
    <2> QED
        BY <2>1, <2>2
<1>6. CASE Slots!ReadVerifier(t)
    <2> DEFINE grant == reading[t].grant
               content == verifierFile[At(t)]
               e == EntryOf(At(t), grant, content)
    <2>1. grant # NoFile
        BY <1>6 DEF Slots!ReadVerifier
    <2>2. ASSUME NEW more, Slots!NextSlot(t, more)
          PROVE  /\ At(t)' = At(t) + 1 /\ reading'[t].grant = NoFile /\ reading'[t].fault = "none"
                 /\ reading'[t].loaded = reading[t].loaded \o more
        BY <1>1, <1>2, <2>2 DEF Slots!NextSlot, At
    <2>3. CASE content \in {Garbled, Missing}
        BY <1>3, <1>4, <1>6, <2>1, <2>3 DEF Slots!ReadVerifier, At, ReaderFailed
    <2>4. CASE content \notin {Garbled, Missing} /\ content = Blank
        <3>1. Slots!NextSlot(t, <<>>)
            BY <1>6, <2>4 DEF Slots!ReadVerifier, At
        <3>2. reading[t].loaded \o <<>> = reading[t].loaded
            BY <1>1 DEF ReadingState
        <3> QED
            BY <2>1, <2>2, <2>4, <3>1, <3>2 DEF SlotSkipped, Slots!Loaded
    <2>5. CASE content \notin {Garbled, Missing, Blank} /\ Malformed \in {grant, content}
        <3>1. Slots!Fail(t, "configuration")
            BY <1>6, <2>5 DEF Slots!ReadVerifier, At
        <3> QED
            BY <1>3, <2>1, <2>5, <3>1 DEF ReaderFailed
    <2>6. CASE content \notin {Garbled, Missing, Blank} /\ Malformed \notin {grant, content}
        <3>1. content \in Secret /\ grant \in Descriptor
            BY <1>1, <1>2, <2>1, <2>6 DEF Slots!VerifierContent, ReadingState
        <3>2. e \in Slots!Entry
            BY <1>2, <3>1 DEF Slots!Entry, EntryOf
        <3>3. Slots!NextSlot(t, <<e>>)
            BY <1>6, <2>6 DEF Slots!ReadVerifier, At, EntryOf
        <3>4. Slots!Loaded(t)' = Slots!Loaded(t) \cup {e}
            <4> DEFINE s == reading[t].loaded
                       more == reading'[t].loaded
            <4>1. more = s \o <<e>>
                BY <2>2, <3>3
            <4>2. s \in Seq(Slots!Entry)
                BY <1>1 DEF ReadingState
            <4> HIDE DEF e, s, more
            <4>3. \A x : (\E i \in DOMAIN more : x = more[i])
                            <=> (\E i \in DOMAIN s : x = s[i]) \/ x = e
                BY <3>2, <4>1, <4>2, Appended
            <4> USE DEF s, more
            <4> QED
                BY <4>3 DEF Slots!Loaded
        <3> QED
            BY <2>2, <3>1, <3>3, <3>4 DEF SlotLoaded
    <2> QED
        BY <2>3, <2>4, <2>5, <2>6
<1> QED
    BY <1>5, <1>6 DEF ReadSlots

-----------------------------------------------------------------------------
(* A request keeps to its course                                           *)

\* Reading a slot keeps a request on its course.
LEMMA ReadSlotsOnCourse ==
    ASSUME Types, NEW t \in Thread, OnCourse(t), ReadSlots(t) PROVE OnCourse(t)'
<1>1. /\ pc[t] = "slots" /\ query' = query /\ pc' = pc /\ call' = call /\ holding' = holding
      /\ Op(t)' = Op(t) /\ ByKey(t)' = ByKey(t)
    BY DEF ReadSlots, work, ledgerVars, Op, ByKey
<1>2. Asked(t)' /\ OnPath(t)' /\ Searched(t)'
    BY <1>1 DEF OnCourse, Asked, OnPath, Searched, InProgress
<1>3. Connected(t)'
    BY <1>1 DEF OnCourse, Connected, Before, WithKeycloak
<1>4. /\ At(t) \in Slots!Slot /\ At(t) \in Int /\ reading[t] \in ReadingState
      /\ ReaderFailed(t) \/ GrantRead(t) \/ SlotSkipped(t) \/ SlotLoaded(t)
    BY ReaderSteps, FilesTyped, SizeAssumption DEF Slots!Slot
<1>5. \A e \in Slots!Loaded(t) : e \in Slots!Entry /\ e.slot \in Int /\ e.slot < At(t)
    BY SizeAssumption DEF OnCourse, Loading, Slots!Entry, Slots!Slot, At
<1>6. \A d, e \in Slots!Loaded(t) : d.slot = e.slot => d = e
    BY DEF OnCourse, Loading
<1>7. Loading(t)'
    <2> SUFFICES /\ \A e \in Slots!Loaded(t)' : e \in Slots!Entry /\ e.slot < At(t)'
                 /\ \A d, e \in Slots!Loaded(t)' : d.slot = e.slot => d = e
        BY <1>1 DEF OnCourse, OnPath, Loading, At, Slots!Entry, Slots!Slot
    <2>1. CASE ReaderFailed(t) \/ GrantRead(t)
        BY <1>5, <1>6, <2>1 DEF ReaderFailed, GrantRead
    <2>2. CASE SlotSkipped(t)
        BY <1>4, <1>5, <1>6, <2>2 DEF SlotSkipped
    <2>3. CASE SlotLoaded(t)
        <3> DEFINE e == EntryOf(At(t), reading[t].grant, verifierFile[At(t)])
        <3>1. e \in Slots!Entry /\ e.slot = At(t)
            BY <1>4, <2>3 DEF SlotLoaded, EntryOf, Slots!Entry
        <3>2. Slots!Loaded(t)' = Slots!Loaded(t) \cup {e} /\ At(t)' = At(t) + 1
            BY <2>3 DEF SlotLoaded
        <3> HIDE DEF e
        <3> QED
            BY <1>4, <1>5, <1>6, <3>1, <3>2
    <2> QED
        BY <1>4, <2>1, <2>2, <2>3
<1> QED
    BY <1>2, <1>3, <1>7 DEF OnCourse

\* Taking a connection keeps a request on its course.
LEMMA ConnectOnCourse ==
    ASSUME Types, NEW t \in Thread, OnCourse(t), Connect(t) PROVE OnCourse(t)'
<1>1. /\ pc[t] = "connect" /\ pc'[t] = "statement" /\ query' = query /\ reading' = reading
      /\ call[t] = NoCall /\ Op(t) # "permissions" /\ query[t].form = 200 /\ query[t] \in Asks[t]
    BY DEF Connect, Goto, slotVars, Types, TypeOK, OnCourse, Connected, OnPath, Asked, InProgress,
        Before
<1>2. /\ Op(t) = "probe" => call'[t] = NoCall
      /\ Op(t) # "probe" => call'[t] = CallFor(query[t])
    BY <1>1 DEF Connect, ledgerVars, Ledger!Begin, Types
<1>3. Op(t) # "probe" => CallFor(query[t]) # NoCall
    BY <1>1, Queries, Calls DEF OnCourse, Op
<1>4. Asked(t)' /\ OnPath(t)'
    BY <1>1, SameSearch DEF Asked, OnPath, InProgress
<1>5. Connected(t)'
    BY <1>1, <1>2, <1>3, SameSearch DEF Connected, Before, WithKeycloak
<1>6. Searched(t)'
    BY <1>1, <1>2, <1>3, SameSearch DEF OnCourse, Searched, InProgress, ByKey
<1>7. Loading(t)'
    BY <1>1, SameSearch DEF OnCourse, Loading, InProgress, Slots!Entry, Slots!Slot, Slots!Unread
<1> QED
    BY <1>4, <1>5, <1>6, <1>7 DEF OnCourse

\* A request that has been answered leaves nothing behind.
LEMMA RespondOnCourse ==
    ASSUME Types, NEW t \in Thread, OnCourse(t), Respond(t) PROVE OnCourse(t)'
<1>1. pc'[t] = "idle" /\ t \notin holding' /\ reading'[t] = Slots!Unread /\ call'[t] = NoCall
    BY DEF Respond, Slots!Forget, Types, TypeOK, ledgerVars, Ledger!Reply
<1>2. Slots!Loaded(t)' = {}
    BY <1>1 DEF Slots!Loaded, Slots!Unread
<1> QED
    BY <1>1, <1>2 DEF OnCourse, Asked, OnPath, Connected, Searched, Loading, InProgress,
        Before, WithKeycloak, Slots!Unread

\* A request begins on its course.
LEMMA ArriveOnCourse ==
    ASSUME Types, NEW t \in Thread, OnCourse(t), NEW q \in Asks[t], Arrive(t, q)
    PROVE  OnCourse(t)'
<1>1. /\ call'[t] = NoCall /\ t \notin holding' /\ reading'[t] = Slots!Unread /\ query'[t] = q
    <2>1. pc[t] = "idle" /\ UNCHANGED <<call, holding, reading>>
        BY DEF Arrive, Components, ledgerVars, slotVars
    <2>2. call[t] = NoCall /\ t \notin holding /\ reading[t] = Slots!Unread
        BY <2>1 DEF OnCourse, Connected, Loading, Before
    <2>3. query'[t] = q
        BY DEF Arrive, Types, TypeOK
    <2> QED
        BY <2>1, <2>2, <2>3
<1>2. Slots!Loaded(t)' = {}
    BY <1>1 DEF Slots!Loaded, Slots!Unread
<1>3. \/ pc'[t] = "answered"
      \/ pc'[t] = "connect" /\ q.op = "probe" /\ q.form = 200
      \/ pc'[t] = "gate" /\ q.form = 200
    BY DEF Arrive, Says, Grants, Goto, Types, TypeOK
<1> QED
    BY <1>1, <1>2, <1>3 DEF OnCourse, Asked, OnPath, Connected, Searched, Loading, InProgress,
        Before, WithKeycloak, Slots!Unread, ByKey, Op

\* Every step of a request keeps it on its course.
LEMMA HandleOnCourse ==
    ASSUME Types, Control, NEW t \in Thread, Handle(t) PROVE OnCourse(t)'
<1>1. OnCourse(t) /\ pc \in [Thread -> Place]
    BY DEF Control, Types, TypeOK
<1>2. CASE ReadSlots(t)
    BY <1>1, <1>2, ReadSlotsOnCourse
<1>3. CASE Connect(t)
    BY <1>1, <1>3, ConnectOnCourse
<1>4. CASE Respond(t)
    BY <1>1, <1>4, RespondOnCourse
<1> SUFFICES ASSUME ~ ReadSlots(t), ~ Connect(t), ~ Respond(t) PROVE OnCourse(t)'
    BY <1>2, <1>3, <1>4
<1>5. Keeps(t) /\ (ProbeStatement(t) \/ holding' = holding)
    BY Kept
<1>6. /\ Op(t)' = Op(t) /\ ByKey(t)' = ByKey(t) /\ Matches(t)' = Matches(t)
      /\ CallFor(query[t])' = CallFor(query[t])
      /\ Slots!Duplicates(Slots!Loaded(t))' = Slots!Duplicates(Slots!Loaded(t))
    BY <1>5, SameSearch DEF Keeps
<1>7. t \in holding' => t \in holding
    BY <1>5 DEF ProbeStatement
<1>8. /\ \A status, permissions : Grants(t, status, permissions) => pc'[t] = "answered"
      /\ \A status : Says(t, status) => pc'[t] = "answered"
      /\ \A where : Goto(t, where) => pc'[t] = where
    BY <1>1 DEF Grants, Says, Goto
<1>9. ASSUME InProgress(t), pc'[t] = "answered" PROVE OnCourse(t)'
    BY <1>1, <1>5, <1>7, <1>9, KeptOnCourse DEF InProgress
<1>10. CASE Gate(t)
    <2>1. \/ pc'[t] = "answered"
          \/ pc'[t] = "slots" /\ ByKey(t)
          \/ pc'[t] = "probe" /\ Op(t) = "probe"
          \/ pc'[t] = "signing_key" /\ ~ ByKey(t) /\ Op(t) # "probe"
        BY <1>8, <1>10 DEF Gate, ByKey
    <2>2. pc[t] = "gate" /\ call[t] = NoCall /\ t \notin holding
        BY <1>1, <1>10 DEF Gate, OnCourse, Connected, Before
    <2>3. Op(t) \in {"validate", "caller", "create", "revoke", "permissions", "list", "probe"}
        BY <1>1, <2>2, Queries DEF OnCourse
    <2>4. InProgress(t)' => OnPath(t)' /\ Connected(t)' /\ Searched(t)'
        BY <1>5, <1>6, <1>7, <2>1, <2>2, <2>3 DEF OnPath, Connected, Searched, InProgress, Before,
            WithKeycloak, ByKey, Keeps
    <2> QED
        BY <1>1, <1>5, <1>7, <2>1, <2>2, <2>4, KeptOnCourse DEF InProgress
<1>11. CASE TokenGate(t)
    <2>1. \/ pc'[t] = "answered"
          \/ pc'[t] = "signing_key" /\ query[t].credential \in Token
        BY <1>8, <1>11 DEF TokenGate
    <2>2. pc[t] = "token_gate" /\ Op(t) = "caller" /\ call[t] # NoCall
        BY <1>1, <1>11 DEF TokenGate, OnCourse, OnPath, Connected
    <2>3. InProgress(t)' => OnPath(t)' /\ Connected(t)' /\ Searched(t)'
        BY <1>1, <1>5, <1>6, <1>7, <2>1, <2>2 DEF OnCourse, OnPath, Connected, Searched,
            InProgress, Before, WithKeycloak, ByKey, Keeps
    <2> QED
        BY <1>1, <1>5, <1>7, <2>1, <2>2, <2>3, KeptOnCourse DEF InProgress
<1>12. CASE KeyFound(t)
    <2>1. /\ pc[t] \in {"signing_key", "second_lookup"}
          /\ \/ pc'[t] = "answered"
             \/ pc'[t] = "connect" /\ Op(t) \in {"revoke", "list"}
             \/ pc'[t] = "ask" /\ Op(t) \in {"create", "permissions"}
        BY <1>1, <1>8, <1>12 DEF KeyFound, TokenVerified, OnCourse, OnPath, Op
    <2>2. pc'[t] # "answered" => call[t] = NoCall /\ t \notin holding /\ ~ ByKey(t)
        BY <1>1, <2>1 DEF OnCourse, Connected, WithKeycloak, ByKey
    <2>3. InProgress(t)' => OnPath(t)' /\ Connected(t)' /\ Searched(t)'
        BY <1>1, <1>5, <1>6, <1>7, <2>1, <2>2 DEF OnPath, Connected, Searched,
            InProgress, Before, WithKeycloak, ByKey, Keeps
    <2> QED
        BY <1>1, <1>5, <1>7, <2>1, <2>3, KeptOnCourse DEF InProgress
<1>13. CASE RefreshSucceeds(t)
    <2>1. pc[t] = "signing_key" /\ pc'[t] = "second_lookup"
        BY <1>8, <1>13 DEF RefreshSucceeds
    <2>2. InProgress(t)' => OnPath(t)' /\ Connected(t)' /\ Searched(t)'
        BY <1>1, <1>5, <1>6, <1>7, <2>1 DEF OnCourse, OnPath, Connected, Searched,
            InProgress, Before, WithKeycloak, Keeps
    <2> QED
        BY <1>1, <1>5, <1>7, <2>1, <2>2, KeptOnCourse DEF InProgress
<1>14. CASE RefreshFails(t) \/ KeyMissing(t)
    BY <1>8, <1>9, <1>14 DEF RefreshFails, KeyMissing, InProgress
<1>15. CASE Match(t)
    <2>1. /\ pc[t] = "slots" /\ ByKey(t) /\ call[t] = NoCall /\ t \notin holding
          /\ reading[t] \in ReadingState
        BY <1>1, <1>15, FilesTyped DEF Match, OnCourse, OnPath, Connected, Before
    <2>2. CASE pc'[t] = "answered"
        BY <1>9, <2>1, <2>2 DEF InProgress
    <2>3. CASE pc'[t] # "answered"
        <3>1. /\ reading[t].fault \notin {"decoding", "configuration"} /\ ~ Slots!Reading(t)
              /\ ~ Slots!Duplicates(Slots!Loaded(t))
              /\ pc'[t] = IF Matches(t) = {} THEN "connect" ELSE "account"
            BY <1>8, <1>15, <2>3 DEF Match
        <3>2. reading[t].fault = "none" /\ reading[t].slot = NSlots + 1
            BY <2>1, <3>1, SizeAssumption DEF ReadingState, Slots!Fault, Slots!Reading, Slots!Slot
        <3>3. OnPath(t)' /\ Connected(t)'
            BY <1>5, <1>6, <1>7, <2>1, <3>1 DEF OnPath, Connected, Before, WithKeycloak, Keeps,
                ByKey
        <3>4. Searched(t)'
            BY <1>5, <1>6, <2>1, <3>1, <3>2 DEF Searched, InProgress, Keeps
        <3> QED
            BY <1>1, <1>5, <1>7, <2>1, <3>1, <3>3, <3>4, KeptOnCourse DEF InProgress
    <2> QED
        BY <2>2, <2>3
<1>16. CASE ResolveClient(t) \/ FindAccount(t) \/ CallFails(t)
    <2>1. /\ pc[t] \in {"account", "client", "service_account", "probe"}
          /\ pc'[t] \in {"answered", "ask", "failed", "client", "service_account"}
          /\ pc'[t] \in {"ask", "client", "service_account"} => pc[t] # "probe"
        BY <1>8, <1>16 DEF ResolveClient, KnownClient, FindClient, StoreClient, FindAccount,
            CallFails, Calling, Resolving
    <2>2. call[t] = NoCall /\ t \notin holding
        BY <1>1, <2>1 DEF OnCourse, Connected, Before
    <2>3. pc[t] # "probe" => ByKey(t)
        BY <1>1, <2>1 DEF OnCourse, OnPath
    <2>4. InProgress(t)' => OnPath(t)' /\ Connected(t)' /\ Searched(t)'
        BY <1>1, <1>5, <1>6, <1>7, <2>1, <2>2, <2>3 DEF OnCourse, OnPath, Connected, Searched,
            InProgress, Before, WithKeycloak, Keeps, ByKey
    <2> QED
        BY <1>1, <1>5, <1>7, <2>1, <2>4, KeptOnCourse DEF InProgress
<1>17. CASE ConnectFails(t) \/ ContextTooLarge(t) \/ ProbeSucceeds(t) \/ Invalidate(t)
    BY <1>8, <1>9, <1>17 DEF ConnectFails, ContextTooLarge, ProbeSucceeds, Invalidate, InProgress
<1>18. CASE Statement(t)
    <2>1. pc[t] = "statement" /\ Op(t) # "probe" /\ pc'[t] = "result"
        BY <1>8, <1>18 DEF Statement
    <2>2. /\ call[t] # NoCall /\ Op(t) # "permissions" /\ WellFormed(query[t])
          /\ call[t] = CallFor(query[t])
        BY <1>1, <2>1, Queries DEF OnCourse, OnPath, Connected
    <2>3. /\ answer'[t].kind \in {"valid", "invalid"} => ByKey(t)
          /\ ByKey(t) => answer'[t].kind \in {"valid", "invalid", "error"}
        BY <1>18, <2>1, <2>2, StatementAnswers, Calls DEF ByKey, Op, WellFormed
    <2>4. InProgress(t)' => OnPath(t)' /\ Connected(t)' /\ Searched(t)'
        BY <1>1, <1>5, <1>6, <1>7, <2>1, <2>2, <2>3 DEF OnCourse, OnPath, Connected, Searched,
            InProgress, Before, WithKeycloak, Keeps
    <2> QED
        BY <1>1, <1>5, <1>7, <2>1, <2>4, KeptOnCourse DEF InProgress
<1>19. CASE ProbeStatement(t)
    <2>1. /\ pc[t] = "statement" /\ Op(t) = "probe" /\ pc'[t] \in {"gate", "answered"}
          /\ t \notin holding'
        BY <1>8, <1>19 DEF ProbeStatement
    <2>2. call[t] = NoCall /\ reading[t] = Slots!Unread
        BY <1>1, <2>1 DEF OnCourse, Connected, Loading, InProgress, ByKey
    <2>3. InProgress(t)' => OnPath(t)' /\ Connected(t)' /\ Searched(t)'
        BY <1>5, <1>6, <1>7, <2>1, <2>2 DEF OnPath, Connected, Searched,
            InProgress, Before, WithKeycloak, Keeps
    <2> QED
        BY <1>1, <1>5, <1>7, <2>1, <2>2, <2>3, KeptOnCourse DEF InProgress
<1>20. CASE Result(t)
    <2>1. /\ pc[t] = "result"
          /\ \/ pc'[t] = "answered"
             \/ pc'[t] = "ask" /\ ByKey(t)
             \/ pc'[t] = "token_gate" /\ Op(t) = "caller"
        BY <1>1, <1>8, <1>20 DEF Result, OnCourse, OnPath
    <2>2. call[t] # NoCall /\ (pc'[t] # "answered" => ByKey(t))
        BY <1>1, <2>1 DEF OnCourse, Connected, ByKey
    <2>3. InProgress(t)' => OnPath(t)' /\ Connected(t)' /\ Searched(t)'
        BY <1>1, <1>5, <1>6, <1>7, <2>1, <2>2 DEF OnCourse, OnPath, Connected, Searched,
            InProgress, Before, WithKeycloak, Keeps, ByKey
    <2> QED
        BY <1>1, <1>5, <1>7, <2>1, <2>3, KeptOnCourse DEF InProgress
<1>21. CASE Ask(t)
    <2>1. pc[t] = "ask" /\ pc'[t] = "told"
        BY <1>8, <1>21 DEF Ask
    <2>2. InProgress(t)' => OnPath(t)' /\ Connected(t)' /\ Searched(t)'
        BY <1>1, <1>5, <1>6, <1>7, <2>1 DEF OnCourse, OnPath, Connected, Searched,
            InProgress, Before, WithKeycloak, Keeps
    <2> QED
        BY <1>1, <1>5, <1>7, <2>1, <2>2, KeptOnCourse DEF InProgress
<1>22. CASE Decide(t)
    <2>1. /\ pc[t] = "told"
          /\ \/ pc'[t] \in {"answered", "failed"}
             \/ pc'[t] = "connect" /\ ~ ByKey(t) /\ Op(t) # "permissions"
        BY <1>8, <1>22 DEF Decide
    <2>2. pc'[t] = "connect" => call[t] = NoCall /\ t \notin holding
        BY <1>1, <2>1 DEF OnCourse, Connected, WithKeycloak
    <2>3. InProgress(t)' => OnPath(t)' /\ Connected(t)' /\ Searched(t)'
        BY <1>1, <1>5, <1>6, <1>7, <2>1, <2>2 DEF OnCourse, OnPath, Connected, Searched,
            InProgress, Before, WithKeycloak, Keeps
    <2> QED
        BY <1>1, <1>5, <1>7, <2>1, <2>3, KeptOnCourse DEF InProgress
<1> QED
    BY <1>10, <1>11, <1>12, <1>13, <1>14, <1>15, <1>16, <1>17, <1>18, <1>19, <1>20, <1>21, <1>22
    DEF Handle

\* Requests stay on their courses whoever takes a step.
LEMMA ControlNext ==
    ASSUME Types, Control, Next PROVE Control'
<1>1. \A t \in Thread : Still(t) => OnCourse(t)'
    BY StillOnCourse DEF Control
<1>2. \A t \in Thread : Handle(t) \/ (\E q \in Asks[t] : Arrive(t, q)) => OnCourse(t)'
    BY HandleOnCourse, ArriveOnCourse DEF Control
<1> QED
    BY <1>1, <1>2, Actor DEF Control, OthersStill

-----------------------------------------------------------------------------
(* Theorems                                                                *)

\* So they do when nothing happens.
LEMMA ControlStutters ==
    ASSUME UNCHANGED vars, Types, Control PROVE Types' /\ Control'
<1>1. /\ UNCHANGED <<now, rows, call, answer, enabled, granted, lately, told, grantFile,
                     verifierFile, reading, holder, account, known, open, work, writes, named,
                     changes>>
    BY DEF vars, ledgerVars, promiseVars, slotVars, clients, history
<1>2. \A s \in Thread : Still(s)
    BY <1>1, StillIfUnchanged
<1>3. Control'
    BY <1>2, StillOnCourse DEF Control
<1>4. Slots!TypeOK'
    BY <1>1 DEF Types, TypeOK, Slots!TypeOK, Slots!Slot, Slots!GrantContent,
        Slots!VerifierContent, Slots!Fault, Slots!Entry
<1>5. TypeOK'
    BY <1>1, <1>4 DEF Types, TypeOK, work
<1> QED
    BY <1>1, <1>3, <1>5 DEF Types, work

\* The inductive invariant of the handlers.
LEMMA ControlInvariant == Spec => [](Types /\ Control)
<1>1. Init => Types /\ Control
    BY TypesInit, ControlInit
<1>2. Types /\ Control /\ [Next]_vars => (Types /\ Control)'
    BY TypesNext, ControlNext, ControlStutters
<1> QED
    BY <1>1, <1>2, PTL DEF Spec

\* The handlers keep to their places, statuses and principals, readers to the
\* slots there are, and the pool to its size.
THEOREM RequestsTypeCorrect == Spec => []TypeOK
<1>1. Types /\ Control => TypeOK
    BY DEF Types
<1> QED
    BY <1>1, ControlInvariant, PTL

\* Whoever waits for Keycloak with a connection of the pool is validating a
\* personal key, or was before it tried a token.
THEOREM Connections == Spec => []OnlyValidationsWaitConnected
<1>1. Control => OnlyValidationsWaitConnected
    BY DEF Control, OnCourse, Connected, Before, WithKeycloak, OnlyValidationsWaitConnected,
        Resolving
<1> QED
    BY <1>1, ControlInvariant, PTL
=============================================================================
