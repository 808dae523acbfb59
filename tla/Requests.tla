------------------------------- MODULE Requests -------------------------------
(***************************************************************************)
(* The handlers of controllers/api_keys.py and the readiness probe in one  *)
(* pod: which checks a request passes, in which order, and what happens    *)
(* between them.  The key table, the entitlements and the managed slots    *)
(* are components, whose modules say what they promise; of the signing     *)
(* keys only their presence is followed (JwksCache has the rest).          *)
(*                                                                         *)
(* A query's "form" is the status that its headers and body deserve before *)
(* anything else is looked at, 200 if they pass.  A management query also  *)
(* has a "token", for what is checked later: 0 if the token names no       *)
(* signing key, else the status that it, and then the body, deserve.  A    *)
(* key's secret is identified with its identifier.                         *)
(***************************************************************************)
EXTENDS Integers, Sequences, FiniteSets

CONSTANTS
    Thread,         \* worker threads of the pod
    Asks,           \* Asks[t]: the queries that thread t may get
    PoolSize,       \* pool_size of the database engine
    KeyId, Secret, Token,   \* personal keys, managed secrets, Keycloak's tokens
    User, Admin,    \* owners of keys, and whoever has the administrator role
    Permission, Days, MaxKeys,
    Client, ServiceAccount,     \* of managed descriptors: clients by their names
    Uuid,           \* Keycloak's identifiers of the clients themselves
    Verdict,        \* Verdict[k]: 200, 401 or 403, by the claims of token k alone
    Roles,          \* Roles[k]: the permissions in token k
    NSlots, Descriptor, Malformed, Garbled, Missing, Blank, NoFile,
    InitialFiles,   \* what the slots may hold at first: grants and verifiers
    MaxTime, MaxChanges,    \* bounds on the clock and on the changes elsewhere
    Weight,         \* changes that one more request at once counts as, in that bound
    Written,        \* bound on what files are replaced with
    Varying,        \* bound on the facts that change about a principal
    NoRow, NoCall, NoAnswer, Unavailable, NoPrincipal, NoQuery, NoUuid

Credential == KeyId \cup Secret \cup Token
Principal == User \cup ServiceAccount

VARIABLES
    now, rows, issued, call, answer,    \* as in KeyLedger
    enabled, granted, lately, told,     \* as in EntitlementPromise
    grantFile, verifierFile, reading,   \* as in ManagedKeys
    holder,     \* holder[c]: which client has the name c, in Keycloak
    account,    \* account[i]: the service account of client i, in Keycloak
    known,      \* known[c]: _client_ids.get(c), or NoUuid
    open,       \* the JWKS cache has keys: is_available()
    holding,    \* threads that have a connection of the pool
    pc,
    query,      \* query[t]: what t has been asked
    principal,  \* principal[t]: whose entitlements t asks for
    uuid,       \* uuid[t]: the client whose service account t asks for
    reply,      \* reply[t]: the status and the permissions of the response
    ever,       \* ever[t]: the facts that were true at some time of the request
    steady,     \* steady[t]: those that have been true all the while
    writes,     \* writes[t]: the files replaced during the request, in order
    named,      \* named[c]: the clients that have had the name c since the start
    changes     \* how many changes there have been elsewhere

ledgerVars == <<now, rows, issued, call, answer>>
promiseVars == <<enabled, granted, lately, told>>
slotVars == <<grantFile, verifierFile, reading>>
clients == <<holder, account, known>>
work == <<holding, pc, query, principal, uuid, reply>>
history == <<ever, steady, writes, named>>

Ledger == INSTANCE KeyLedger
    WITH KeyId <- Credential, Grant <- SUBSET Permission, Request <- Thread

Keycloak == INSTANCE EntitlementPromise WITH Entitlement <- Permission

Slots == INSTANCE ManagedKeys WITH Reader <- Thread

NoReply == [status |-> 0, permissions |-> {}]

ASSUME SizeAssumption ==
    /\ IsFiniteSet(Thread) /\ Days \subseteq Nat
    /\ PoolSize \in Nat /\ NSlots \in Nat /\ MaxChanges \in Nat /\ Weight \in Nat

ASSUME CredentialAssumption ==
    /\ KeyId \cap Secret = {} /\ KeyId \cap Token = {} /\ Secret \cap Token = {}
    /\ \A k \in Token : Verdict[k] \in {200, 401, 403} /\ Roles[k] \subseteq Permission

ASSUME FileAssumption ==
    /\ \A d \in Descriptor : d.client \in Client /\ d.grant \subseteq Permission
    /\ Malformed \notin {Garbled, Missing, Blank} /\ Blank \notin {Garbled, Missing}
    /\ {Malformed, Garbled, Missing, Blank, NoFile} \cap (Descriptor \cup Credential) = {}
    /\ NoFile # Malformed
    /\ InitialFiles \subseteq [grants : [Slots!Slot -> Slots!GrantContent],
                               verifiers : [Slots!Slot -> Slots!VerifierContent]]

\* A target or a key is named by whoever asks; by is the subject of his token.
WellFormed(q) ==
    /\ q.form \in {200, 401, 403, 415, 422}
    /\ q.op \in {"create", "revoke", "permissions", "list"} => q.token \in {0, 200, 401, 422}
    /\ \/ q.op \in {"validate", "caller"} /\ q.credential \in Credential
       \/ q.op = "create" /\ q.target \in User /\ q.grant \subseteq Permission /\ q.days \in Days
       \/ q.op = "revoke" /\ q.key \in KeyId /\ q.by \in User \cup {Admin}
       \/ q.op \in {"permissions", "list"} /\ q.target \in User
       \/ q.op = "probe"

ASSUME QueryAssumption == \A t \in Thread : \A q \in Asks[t] : WellFormed(q)

ASSUME FactAssumption == "enabled" \notin Permission /\ Varying \subseteq Keycloak!Fact

ASSUME NullAssumption ==
    /\ NoPrincipal \notin Principal /\ NoUuid \notin Uuid
    /\ NoCall \notin Ledger!Call
    /\ {NoAnswer, Unavailable} \cap [enabled : BOOLEAN, granted : SUBSET Permission] = {}
    /\ NoAnswer # Unavailable

Init ==
    /\ Ledger!Init
    /\ enabled = [p \in Principal |-> TRUE]
    /\ granted = [p \in Principal |-> Permission]
    /\ lately = [p \in Principal |-> Keycloak!Present(p)]
    /\ told = [t \in Thread |-> NoAnswer]
    /\ \E f \in InitialFiles : grantFile = f.grants /\ verifierFile = f.verifiers
    /\ reading = [t \in Thread |-> Slots!Unread]
    /\ holder \in [Client -> Uuid] /\ \A c, d \in Client : holder[c] = holder[d] => c = d
    /\ account \in [Uuid -> ServiceAccount]
    /\ known = [c \in Client |-> NoUuid]
    /\ open = TRUE
    /\ holding = {}
    /\ pc = [t \in Thread |-> "idle"]
    /\ query = [t \in Thread |-> NoQuery]
    /\ principal = [t \in Thread |-> NoPrincipal]
    /\ uuid = [t \in Thread |-> NoUuid]
    /\ reply = [t \in Thread |-> NoReply]
    /\ ever = [t \in Thread |-> {}]
    /\ steady = [t \in Thread |-> {}]
    /\ writes = [t \in Thread |-> <<>>]
    /\ named = [c \in Client |-> {holder[c]}]
    /\ changes = 0

-----------------------------------------------------------------------------
Op(t) == query[t].op
ByKey(t) == Op(t) \in {"validate", "caller"}

Goto(t, where) == pc' = [pc EXCEPT ![t] = where] /\ reply' = reply

Grants(t, status, permissions) ==
    /\ pc' = [pc EXCEPT ![t] = "answered"]
    /\ reply' = [reply EXCEPT ![t] = [status |-> status, permissions |-> permissions]]

Says(t, status) == Grants(t, status, {})

KeptFromStep == <<holding, query, principal, uuid>>
Components == <<ledgerVars, promiseVars, slotVars, clients, open>>

\* The bound on what happens at once: requests in progress and changes.
Room(more, requests) ==
    LET busy == Cardinality({t \in Thread : pc[t] # "idle"}) + requests
    IN  changes + more + (IF busy > 1 THEN Weight * (busy - 1) ELSE 0) <= MaxChanges

\* A missing header, a type or a body that cannot be read, and an unknown
\* binding are refused before everything else.
Arrive(t, q) ==
    /\ pc[t] = "idle" /\ q \in Asks[t] /\ Room(0, 1)
    /\ q.op = "create" => Cardinality({s \in Thread : query[s] # NoQuery /\ Op(s) = "create"})
                            < Cardinality(KeyId \ issued)
    /\ query' = [query EXCEPT ![t] = q]
    /\ IF q.form # 200 THEN Says(t, q.form)
       ELSE Goto(t, IF q.op = "probe" THEN "connect" ELSE "gate")
    /\ UNCHANGED <<Components, holding, principal, uuid, changes>>

\* After the gate a management token's header is read, which has to name a key.
Gate(t) ==
    /\ pc[t] = "gate"
    /\ IF ~ open THEN Says(t, 503)
       ELSE IF ByKey(t) THEN Goto(t, "slots")
       ELSE IF Op(t) = "probe" THEN Goto(t, "probe")
       ELSE IF query[t].token = 0 THEN Says(t, 401)
       ELSE Goto(t, "signing_key")
    /\ UNCHANGED <<Components, KeptFromStep, changes>>

-----------------------------------------------------------------------------
(* _verified_token, after the gate                                         *)

\* Only an administrator names a target other than himself.
MayTarget(q) == q.by \in {Admin, q.target}

\* What the handler does once there is a signing key: the signature, the
\* audience and the expiry are checked, then who may ask for what.
TokenVerified(t) ==
    LET q == query[t]
    IN  IF q.op = "caller"
        THEN Grants(t, Verdict[q.credential],
                    IF Verdict[q.credential] = 200 THEN Roles[q.credential] ELSE {})
             /\ principal' = principal
        ELSE IF q.token # 200 THEN Says(t, q.token) /\ principal' = principal
        ELSE IF q.op = "revoke" THEN Goto(t, "connect") /\ principal' = principal
        ELSE IF ~ MayTarget(q) THEN Says(t, 403) /\ principal' = principal
        ELSE /\ Goto(t, IF q.op = "list" THEN "connect" ELSE "ask")
             /\ principal' = [principal EXCEPT ![t] = q.target]

\* The credential of gateway_caller_permissions was no key: the second gate,
\* and a credential that is not a token either.
TokenGate(t) ==
    /\ pc[t] = "token_gate"
    /\ IF ~ open THEN Says(t, 503)
       ELSE IF query[t].credential \notin Token THEN Says(t, 401)
       ELSE Goto(t, "signing_key")
    /\ UNCHANGED <<Components, KeptFromStep, changes>>

KeyFound(t) ==
    /\ pc[t] \in {"signing_key", "second_lookup"} /\ open
    /\ TokenVerified(t)
    /\ UNCHANGED <<Components, holding, query, uuid, changes>>

\* An unknown key identifier, or a cache that has been emptied since the gate.
RefreshSucceeds(t) ==
    /\ pc[t] = "signing_key"
    /\ open' = TRUE
    /\ Goto(t, "second_lookup")
    /\ UNCHANGED <<ledgerVars, promiseVars, slotVars, clients, KeptFromStep, changes>>

RefreshFails(t) ==
    /\ pc[t] = "signing_key"
    /\ open' = FALSE
    /\ Says(t, 503)
    /\ UNCHANGED <<ledgerVars, promiseVars, slotVars, clients, KeptFromStep, changes>>

KeyMissing(t) ==
    /\ pc[t] = "second_lookup" /\ ~ open
    /\ Says(t, 401)
    /\ UNCHANGED <<Components, KeptFromStep, changes>>

-----------------------------------------------------------------------------
(* Managed keys                                                            *)

ReadSlots(t) ==
    /\ pc[t] = "slots"
    /\ Slots!ReadGrant(t) \/ Slots!ReadVerifier(t)
    /\ UNCHANGED <<ledgerVars, promiseVars, clients, open, work, changes>>

\* The entry that match() returns is the first of these.
Matches(t) == Slots!Matching(t, query[t].credential)
Matched(t) == CHOOSE e \in Matches(t) : \A f \in Matches(t) : e.slot <= f.slot

Match(t) ==
    /\ pc[t] = "slots" /\ ~ Slots!Reading(t)
    /\ IF reading[t].fault = "decoding" THEN Says(t, 500)
       ELSE IF reading[t].fault = "configuration" \/ Slots!Duplicates(Slots!Loaded(t))
            THEN Says(t, 503)
       ELSE Goto(t, IF Matches(t) = {} THEN "connect" ELSE "account")
    /\ UNCHANGED <<Components, KeptFromStep, changes>>

\* The name of the client whose service account a managed key stands for.
ClientOf(t) == Matched(t).key.client

\* _get_client_uuid: a client that has been found once is known for good ...
KnownClient(t) ==
    /\ pc[t] = "account" /\ known[ClientOf(t)] # NoUuid
    /\ uuid' = [uuid EXCEPT ![t] = known[ClientOf(t)]]
    /\ Goto(t, "service_account")
    /\ UNCHANGED <<Components, holding, query, principal, changes>>

\* ... another one is asked for, and it is an error if none has the name ...
FindClient(t) ==
    /\ pc[t] = "account" /\ known[ClientOf(t)] = NoUuid
    /\ uuid' = [uuid EXCEPT ![t] = holder[ClientOf(t)]]
    /\ Goto(t, IF holder[ClientOf(t)] = NoUuid THEN "failed" ELSE "client")
    /\ UNCHANGED <<Components, holding, query, principal, changes>>

\* ... and what has been found is kept.
StoreClient(t) ==
    /\ pc[t] = "client"
    /\ known' = [known EXCEPT ![ClientOf(t)] = uuid[t]]
    /\ Goto(t, "service_account")
    /\ UNCHANGED <<ledgerVars, promiseVars, slotVars, holder, account, open, KeptFromStep,
                   changes>>

ResolveClient(t) == KnownClient(t) \/ FindClient(t) \/ StoreClient(t)

\* get_service_account_user_id asks for the account each time, of the client it
\* knows: a client that is no more, or has none, is a 404 and None.
FindAccount(t) ==
    /\ pc[t] = "service_account"
    /\ LET p == account[uuid[t]]
       IN  /\ IF p = NoPrincipal THEN Says(t, 401) ELSE Goto(t, "ask")
           /\ principal' = [principal EXCEPT ![t] = p]
    /\ UNCHANGED <<Components, holding, query, uuid, changes>>

-----------------------------------------------------------------------------
(* The database                                                            *)

\* A slip: the pool overflows.
Overflow == TRUE

Vacancy == Cardinality(holding) < PoolSize

\* What the handler asks of ApiKey.
CallFor(q) ==
    CASE q.op \in {"validate", "caller"} -> [op |-> "get", key |-> q.credential]
      [] q.op = "create" -> [op |-> "create", user |-> q.target, grant |-> q.grant,
                             days |-> q.days]
      [] q.op = "revoke" -> [op |-> "revoke", key |-> q.key, by |-> q.by]
      [] q.op = "list" -> [op |-> "list", user |-> q.target]

\* The session's first statement takes a connection, and it keeps it until
\* the response unless the probe gives it back.
Connect(t) ==
    /\ pc[t] = "connect" /\ Vacancy
    /\ holding' = holding \cup {t}
    /\ Goto(t, "statement")
    /\ IF Op(t) = "probe" THEN UNCHANGED ledgerVars ELSE Ledger!Begin(t, CallFor(query[t]))
    /\ UNCHANGED <<promiseVars, slotVars, clients, open, query, principal, uuid,
                   changes>>

\* pool_timeout passes, or PostgreSQL does not answer.
ConnectFails(t) ==
    /\ pc[t] = "connect"
    /\ Says(t, IF Op(t) = "probe" THEN 503 ELSE 500)
    /\ UNCHANGED <<Components, KeptFromStep, changes>>

\* The method of ApiKey takes effect, as the ledger has it.
Statement(t) ==
    /\ pc[t] = "statement" /\ Op(t) # "probe"
    /\ \/ \E k \in KeyId : Ledger!Create(t, k)
       \/ Ledger!Refuse(t)
       \/ Ledger!Revoke(t) \/ Ledger!NotFound(t)
       \/ Ledger!Get(t) \/ Ledger!List(t)
       \/ Ledger!Fail(t)
    /\ Goto(t, "result")
    /\ UNCHANGED <<promiseVars, slotVars, clients, open, KeptFromStep, changes>>

\* A slip: the probe's session is closed at its end.
ProbeConnected(t) ==
    /\ pc[t] = "statement" /\ Op(t) = "probe"
    /\ Goto(t, "gate") \/ Says(t, 503)
    /\ UNCHANGED <<Components, KeptFromStep, changes>>

ProbeStatement(t) ==
    /\ pc[t] = "statement" /\ Op(t) = "probe"
    /\ holding' = holding \ {t}
    /\ Goto(t, "gate") \/ Says(t, 503)
    /\ UNCHANGED <<Components, query, principal, uuid, changes>>

StatusOf(kind) ==
    CASE kind \in {"created", "revoked", "listed"} -> 200
      [] kind = "limit" -> 409
      [] kind = "missing" -> 404
      [] kind = "error" -> 500

\* A key that is not valid may be a token, if the caller asks for himself.
Result(t) ==
    /\ pc[t] = "result"
    /\ IF answer[t].kind = "valid"
       THEN Goto(t, "ask") /\ principal' = [principal EXCEPT ![t] = answer[t].row.owner]
       ELSE /\ IF answer[t].kind # "invalid" THEN Says(t, StatusOf(answer[t].kind))
               ELSE IF Op(t) = "caller" THEN Goto(t, "token_gate")
               ELSE Says(t, 401)
            /\ principal' = principal
    /\ UNCHANGED <<Components, holding, query, uuid, changes>>

-----------------------------------------------------------------------------
(* Entitlements                                                            *)

Ask(t) ==
    /\ pc[t] = "ask"
    /\ Keycloak!Answer(t, principal[t])
    /\ Goto(t, "told")
    /\ UNCHANGED <<ledgerVars, slotVars, clients, open, KeptFromStep, changes>>

\* The grant of the credential that was presented.
GrantOf(t) == IF call[t] = NoCall THEN Matched(t).key.grant ELSE answer[t].row.grant

\* A slip: what the key was issued with is what it has.
GrantAlone(t) == GrantOf(t)

Effective(t) == GrantOf(t) \cap told[t].granted

\* A slip: the subset check is left to validation.
Decline(t) == FALSE

Ungranted(t) == ~ query[t].grant \subseteq told[t].granted

Decide(t) ==
    /\ pc[t] = "told"
    /\ IF told[t] = Unavailable THEN Goto(t, "failed")
       ELSE IF ~ told[t].enabled THEN Says(t, IF ByKey(t) THEN 401 ELSE 404)
       ELSE IF ByKey(t) THEN Grants(t, 200, Effective(t))
       ELSE IF Op(t) = "permissions" THEN Grants(t, 200, told[t].granted)
       ELSE IF Ungranted(t) THEN Says(t, 403)
       ELSE Goto(t, "connect")
    /\ UNCHANGED <<Components, KeptFromStep, changes>>

\* Names, groups and permissions over 64 KiB do not fit the response's header.
ContextTooLarge(t) ==
    /\ pc[t] = "told" /\ ByKey(t) /\ told[t] # Unavailable /\ told[t].enabled
    /\ Says(t, 503)
    /\ UNCHANGED <<Components, KeptFromStep, changes>>

Resolving == {"account", "client", "service_account"}

\* Who has a request to Keycloak under way, other than those Ask stands for.
Calling(t) ==
    /\ pc[t] \in Resolving \cup {"probe"}
    /\ pc[t] = "account" => known[ClientOf(t)] = NoUuid

\* A slip: a failure is taken for an account that does not exist.
FailureIsAbsence(t) ==
    /\ Calling(t)
    /\ IF ByKey(t) THEN Says(t, 401) ELSE Goto(t, "failed")
    /\ UNCHANGED <<Components, KeptFromStep, changes>>

\* The request fails, or its reply is lost.
CallFails(t) ==
    /\ Calling(t)
    /\ Goto(t, "failed")
    /\ UNCHANGED <<Components, KeptFromStep, changes>>

ProbeSucceeds(t) ==
    /\ pc[t] = "probe"
    /\ Says(t, 200)
    /\ UNCHANGED <<Components, KeptFromStep, changes>>

\* A slip: the failure is not passed on to the signing keys.
FailQuietly(t) ==
    /\ pc[t] = "failed"
    /\ Says(t, 503)
    /\ UNCHANGED <<Components, KeptFromStep, changes>>

\* mark_unavailable(), which the promise does not show, and invalidate().
Invalidate(t) ==
    /\ pc[t] = "failed"
    /\ open' = FALSE
    /\ Says(t, 503)
    /\ UNCHANGED <<ledgerVars, promiseVars, slotVars, clients, KeptFromStep, changes>>

Respond(t) ==
    /\ pc[t] = "answered"
    /\ pc' = [pc EXCEPT ![t] = "idle"]
    /\ query' = [query EXCEPT ![t] = NoQuery]
    /\ principal' = [principal EXCEPT ![t] = NoPrincipal]
    /\ uuid' = [uuid EXCEPT ![t] = NoUuid]
    /\ reply' = [reply EXCEPT ![t] = NoReply]
    /\ holding' = holding \ {t}
    /\ Slots!Forget(t)
    /\ IF call[t] = NoCall THEN UNCHANGED ledgerVars ELSE Ledger!Reply(t)
    /\ IF told[t] = NoAnswer THEN UNCHANGED promiseVars ELSE Keycloak!Forget(t)
    /\ UNCHANGED <<clients, open, changes>>

-----------------------------------------------------------------------------
(* The rest of the world                                                   *)

\* The background thread and other pods' requests are seen through these.
KeysStored ==
    /\ ~ open /\ open' = TRUE
    /\ UNCHANGED <<ledgerVars, promiseVars, slotVars, clients, work, changes>>

KeysCleared ==
    /\ open /\ open' = FALSE
    /\ UNCHANGED <<ledgerVars, promiseVars, slotVars, clients>>

Day ==
    /\ now < MaxTime /\ Ledger!Tick
    /\ UNCHANGED <<promiseVars, slotVars, clients, open>>

ChangePrincipal(p) ==
    /\ \E fact \in Varying : Keycloak!Change(p, fact)
    /\ UNCHANGED <<ledgerVars, slotVars, clients, open>>

\* Client i gets a service account or loses it.
ChangeAccount(i) ==
    /\ \E a \in ServiceAccount \cup {NoPrincipal} :
            a # account[i] /\ account' = [account EXCEPT ![i] = a]
    /\ UNCHANGED <<ledgerVars, promiseVars, slotVars, holder, known, open>>

\* The name c goes to another client, which is new or has been renamed, or to none.
\* The one that had it has been renamed as well, or deleted with its account.
ChangeHolder(c) ==
    /\ \E i \in (Uuid \cup {NoUuid}) \ {holder[d] : d \in Client} :
            holder' = [holder EXCEPT ![c] = i]
    /\ \/ account' = account
       \/ account' = [i \in Uuid |-> IF i = holder[c] THEN NoPrincipal ELSE account[i]]
    /\ UNCHANGED <<ledgerVars, promiseVars, slotVars, known, open>>

ReplaceFile ==
    /\ \E s \in Slots!Slot :
        \/ \E content \in Slots!GrantContent \cap Written : Slots!ReplaceGrant(s, content)
        \/ \E content \in Slots!VerifierContent \cap Written :
                Slots!ReplaceVerifier(s, content)
    /\ UNCHANGED <<ledgerVars, promiseVars, clients, open>>

Elsewhere ==
    /\ Room(1, 0) /\ changes' = changes + 1
    /\ \/ \E p \in Principal : ChangePrincipal(p)
       \/ \E i \in Uuid : ChangeAccount(i)
       \/ \E c \in Client : ChangeHolder(c)
       \/ ReplaceFile
       \/ KeysCleared
       \/ Day
    /\ UNCHANGED work

Settle ==
    /\ Keycloak!SettleAll
    /\ UNCHANGED <<ledgerVars, slotVars, clients, open, work, changes>>

-----------------------------------------------------------------------------
(* What the requests have lived through                                    *)

Live(k) == rows[k] # NoRow /\ now < rows[k].expires

Presents(t, kind) == ByKey(t) /\ query[t].credential \in kind

\* The principals whose claims t may depend on.
Concerned(t) ==
    IF Presents(t, KeyId) THEN User
    ELSE IF Presents(t, Secret) THEN ServiceAccount
    ELSE IF Op(t) \in {"create", "permissions"} THEN {query[t].target}
    ELSE {}

SlotFacts(t) ==
    {<<"broken", s>> : s \in {r \in Slots!Slot : Slots!Broken(r)}}
        \cup {<<"duplicates", d>> : d \in {Slots!Duplicates(Slots!Configured)}}
        \cup {<<"configured", e>> :
                e \in {d \in Slots!Configured : d.verifier = query[t].credential}}

\* What is true at one instant, as far as it matters to thread t.
Facts(t) ==
    {<<"available", open>>}
        \cup (UNION {{<<"claim", p, c.fact, c.holds>> : c \in lately[p]} : p \in Concerned(t)})
        \cup {<<"live", k, rows[k].owner>> : k \in {j \in KeyId : Presents(t, {j}) /\ Live(j)}}
        \cup {<<"account", i, account[i]>> : i \in {j \in Uuid : Presents(t, Secret)}}
        \cup (IF ByKey(t) THEN SlotFacts(t) ELSE {})

\* The file that a step replaces, if it replaces one.
Replaced ==
    {<<"grant", s>> : s \in {r \in Slots!Slot : grantFile[r] # grantFile'[r]}}
    \cup {<<"verifier", s>> : s \in {r \in Slots!Slot : verifierFile[r] # verifierFile'[r]}}

\* From a request's arrival to its answer; names are followed all the time.
Remember ==
    LET Followed(t, old, nothing, new) ==
            IF pc'[t] = "idle" THEN nothing
            ELSE IF pc[t] = "answered" THEN old[t]
            ELSE new
        More(t) == IF ByKey(t)' /\ Replaced # {}
                   THEN Append(writes[t], CHOOSE file \in Replaced : TRUE) ELSE writes[t]
    IN  /\ ever' = [t \in Thread |-> Followed(t, ever, {}, ever[t] \cup Facts(t)')]
        /\ steady' = [t \in Thread |-> Followed(t, steady, {},
                IF pc[t] = "idle" THEN Facts(t)' ELSE steady[t] \cap Facts(t)')]
        /\ writes' = [t \in Thread |-> Followed(t, writes, <<>>, More(t))]
        /\ named' = [c \in Client |-> named[c] \cup ({holder'[c]} \ {NoUuid})]

Handle(t) ==
    \/ Gate(t) \/ TokenGate(t)
    \/ KeyFound(t) \/ RefreshSucceeds(t) \/ RefreshFails(t) \/ KeyMissing(t)
    \/ ReadSlots(t) \/ Match(t) \/ ResolveClient(t) \/ FindAccount(t)
    \/ Connect(t) \/ ConnectFails(t)
    \/ Statement(t) \/ ProbeStatement(t) \/ Result(t)
    \/ Ask(t) \/ Decide(t) \/ ContextTooLarge(t)
    \/ CallFails(t) \/ ProbeSucceeds(t) \/ Invalidate(t)
    \/ Respond(t)

Next ==
    /\ \/ \E t \in Thread : Handle(t) \/ \E q \in Asks[t] : Arrive(t, q)
       \/ KeysStored \/ Elsewhere \/ Settle
    /\ Remember

vars == <<ledgerVars, promiseVars, slotVars, clients, open, work, history, changes>>

Spec == Init /\ [][Next]_vars

-----------------------------------------------------------------------------
(* Properties                                                              *)

Place == {"idle", "gate", "token_gate", "signing_key", "second_lookup", "slots", "account",
          "client", "service_account", "connect", "statement", "result", "ask", "told", "probe",
          "failed", "answered"}

Status == {0, 200, 401, 403, 404, 409, 415, 422, 500, 503}

\* The types of a request's progress and of what it shares with others.
TypeOK ==
    /\ Slots!TypeOK
    /\ holder \in [Client -> Uuid \cup {NoUuid}]
    /\ account \in [Uuid -> ServiceAccount \cup {NoPrincipal}]
    /\ known \in [Client -> Uuid \cup {NoUuid}]
    /\ named \in [Client -> SUBSET Uuid]
    /\ open \in BOOLEAN
    /\ holding \in SUBSET Thread /\ Cardinality(holding) <= PoolSize
    /\ pc \in [Thread -> Place]
    /\ query \in [Thread -> (UNION {Asks[t] : t \in Thread}) \cup {NoQuery}]
    /\ principal \in [Thread -> Principal \cup {NoPrincipal}]
    /\ uuid \in [Thread -> Uuid \cup {NoUuid}]
    /\ reply \in [Thread -> [status : Status, permissions : SUBSET Permission]]
    /\ changes \in 0..MaxChanges

Told(t, status) == pc[t] = "answered" /\ reply[t].status = status
Accepted(t) == Told(t, 200) /\ ByKey(t)
Claimed(t, p, fact, holds) == <<"claim", p, fact, holds>> \in ever[t]

\* What t has been told to hold was held lately by the principal, enabled.
Held(t) ==
    /\ Claimed(t, principal[t], "enabled", TRUE)
    /\ \A e \in reply[t].permissions : Claimed(t, principal[t], e, TRUE)

\* The checks of a validation are made at different times, and Keycloak, the
\* table and the files change in between.  Still, an accepted credential was
\* live, and Keycloak available, at some time of the request; no permission goes
\* beyond the grant and what the principal held lately; and a managed key's
\* principal was, at some time of the request, the account of a client that has
\* had the name in the grant since the pod started.  That this client still has
\* the name the code does not ask.
AcceptedWasJustified ==
    \A t \in Thread : Accepted(t) =>
        LET k == query[t].credential
        IN  /\ <<"available", TRUE>> \in ever[t]
            /\ k \in Token => /\ Op(t) = "caller" /\ Verdict[k] = 200
                              /\ reply[t].permissions = Roles[k]
            /\ k \notin Token => Held(t) /\ reply[t].permissions \subseteq GrantOf(t)
            /\ k \in KeyId => <<"live", k, principal[t]>> \in ever[t]
            /\ k \in Secret => \E i \in named[ClientOf(t)] :
                                    <<"account", i, principal[t]>> \in ever[t]

\* The files of slot s were replaced during t's request, the grant first.
GrantFirst(t, s) ==
    \E i, j \in DOMAIN writes[t] :
        i < j /\ writes[t][i] = <<"grant", s>> /\ writes[t][j] = <<"verifier", s>>

\* A slot's files are two reads.  A secret is accepted with a grant that it was
\* never configured with only if the grant was replaced before the verifier:
\* an owner who replaces the verifier first is safe.
TornOnlyIfGrantFirst ==
    \A t \in Thread :
        Accepted(t) /\ query[t].credential \in Secret
                /\ <<"configured", Matched(t)>> \notin ever[t]
            => GrantFirst(t, Matched(t).slot)

\* docs/architecture/README.md: all slots are loaded before matching, and one
\* valid slot does not conceal another broken one.  While a slot stays broken
\* no key, personal ones included, is accepted or called invalid.  Here too
\* the order matters: a broken slot whose owner replaces the grant and then
\* the verifier may be read as one grant and the other verifier, which are not.
BrokenSlotRefusesAll ==
    \A t \in Thread :
        pc[t] = "answered" /\ ByKey(t) /\ query[t].form = 200
                /\ (\E s \in Slots!Slot : <<"broken", s>> \in steady[t] /\ ~ GrantFirst(t, s))
            => reply[t].status \in {500, 503}

\* The principal is undisputed: nothing said lately that it is disabled.
Undisputed(t, p) == ~ Claimed(t, p, "enabled", FALSE)

\* A key that is live all through the request, of a principal that is enabled
\* all through it, is never refused with 401: not because of what other slots'
\* files went through in the meantime, and not because Keycloak failed.  Of a
\* managed key this asks that one client has had the name in the grant for as
\* long as the pod has run: where another takes the name over, the pod goes on
\* asking for the account of the first, and with that client deleted it refuses
\* the key until it is restarted.
KeptKeyNeverRefused ==
    \A t \in Thread : Told(t, 401) /\ ByKey(t) /\ query[t].form = 200 =>
        LET k == query[t].credential
        IN  /\ ~ \E u \in User : <<"live", k, u>> \in steady[t] /\ Undisputed(t, u)
            /\ ~ \E e \in Slots!Entry, i \in Uuid, p \in ServiceAccount :
                    /\ e.verifier = k /\ <<"configured", e>> \in steady[t]
                    /\ named[e.key.client] \subseteq {i}
                    /\ <<"account", i, p>> \in steady[t]
                    /\ Undisputed(t, p)

\* 503 is for what is unavailable, and the pod as a whole knows of it: a
\* request answered 503 has seen the signing keys cleared, or the managed files
\* broken or two of them replaced in the meantime, or its answer was too large.
UnavailabilityHasCause ==
    \A t \in Thread : Told(t, 503) /\ Op(t) # "probe" =>
        \/ <<"available", FALSE>> \in ever[t]
        \/ \E s \in Slots!Slot : <<"broken", s>> \in ever[t]
        \/ <<"duplicates", TRUE>> \in ever[t]
        \/ Len(writes[t]) >= 2
        \/ told[t] \notin {NoAnswer, Unavailable} /\ told[t].enabled

\* A new key is its owner's own or an administrator's work, and carries nothing
\* that the owner did not hold when it was asked for.
GrantsWithinTarget ==
    \A t \in Thread : Told(t, 200) /\ Op(t) = "create" =>
        /\ query[t].by \in {Admin, query[t].target}
        /\ \A e \in query[t].grant : Claimed(t, query[t].target, e, TRUE)

\* A connection is kept while Keycloak is asked by personal keys' validations
\* and fallbacks only.  Five slow lookups of theirs exhaust the pool, but
\* creations, probes and managed keys never add to them.
OnlyValidationsWaitConnected ==
    \A t \in Thread :
        pc[t] \in Resolving \cup {"ask", "told", "probe", "failed", "signing_key"} /\ t \in holding
            => ByKey(t) /\ call[t] # NoCall
===============================================================================
