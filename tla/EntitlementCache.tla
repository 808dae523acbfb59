--------------------------- MODULE EntitlementCache ---------------------------
(***************************************************************************)
(* get_principal_entitlements of lib/keycloak.py in one pod: the cache of  *)
(* principals, and the requests to Keycloak that fill it - the user, the   *)
(* gateway client's identifier (kept for good), the roles, the groups page *)
(* by page - from several request threads while Keycloak changes and       *)
(* fails, and while other threads call mark_unavailable.                   *)
(*                                                                         *)
(* A principal is two facts: whether it is enabled, and whether it holds   *)
(* its entitlement; the roles stand for the groups too, read after them.   *)
(* Time is counted in ticks; a thread that can run does so before the      *)
(* clock moves.                                                            *)
(***************************************************************************)
EXTENDS Integers

CONSTANTS
    Thread, Principal,
    TTL, NegativeTTL,   \* settings.[negative_]entitlement_cache_ttl_seconds
    CallTime,       \* bound on one HTTP call, the token it waits for, and the
                    \* waits for _lock around the client's identifier
    LockWait,       \* bound on a wait for _lock, held over token requests
    MaxPages,       \* bound on the pages of a principal's groups
    MaxClients,     \* bound on the times the gateway client is recreated
    NoEntry, NoPrincipal

ASSUME TimeAssumption ==
    /\ TTL \in Nat \ {0} /\ NegativeTTL \in Nat \ {0}
    /\ CallTime \in Nat \ {0} /\ LockWait \in Nat
    /\ MaxPages \in Nat \ {0} /\ MaxClients \in Nat \ {0}

VARIABLES
    enabled,    \* enabled[p]: p exists in Keycloak and is enabled
    granted,    \* granted[p]: p holds its entitlement
    sinceEnabled, sinceGranted,     \* ticks since each of them changed
    client,     \* the identifier of the gateway client in Keycloak
    up,         \* whether Keycloak answers
    entry,      \* entry[p]: _entitlement_cache.get(p), with the ticks it has left
    known,      \* _client_ids.get(agentgateway_client_id), or 0
    pc,
    principal,  \* principal[t]: whom thread t asks about
    found,      \* found[t]: what t has read so far, and then what it returns
    uuid,       \* uuid[t]: the client identifier t asks the roles of
    page,       \* page[t]: the page of groups t asks for
    left,       \* left[t]: ticks left to t's call or wait for the lock
    overtaken   \* threads whose fetch began before the latest mark_unavailable

facts == <<enabled, granted, sinceEnabled, sinceGranted>>
service == <<facts, client, up>>
cache == <<entry, known>>
work == <<principal, found, uuid, page>>
vars == <<service, cache, pc, work, left, overtaken>>

Absent == [enabled |-> FALSE, granted |-> FALSE]

-----------------------------------------------------------------------------
(* How long Keycloak's state may be behind what a lookup returns           *)

\* From the user's reply until the lookup returns: the roles and groups
\* follow, the entry is stored after a wait for the lock, and a lookup whose
\* clock was read before such a wait still takes it for live.
GroupsTime(pages) == pages * CallTime

EnabledLag == 3 * CallTime + GroupsTime(MaxPages) + LockWait + TTL + LockWait
GrantedLag == CallTime + GroupsTime(MaxPages) + LockWait + TTL + LockWait
AbsentLag == CallTime + LockWait + NegativeTTL + LockWait

\* Either life may be the longer one: the settings have a range each.
Larger(a, b) == IF a >= b THEN a ELSE b
LongestLife == Larger(TTL, NegativeTTL)

\* Ages are followed up to here.
MaxAge == Larger(EnabledLag, AbsentLag) + 1

Init ==
    /\ enabled \in [Principal -> BOOLEAN] /\ granted \in [Principal -> BOOLEAN]
    /\ sinceEnabled = [p \in Principal |-> MaxAge]
    /\ sinceGranted = [p \in Principal |-> MaxAge]
    /\ client = 1 /\ up = TRUE
    /\ entry = [p \in Principal |-> NoEntry] /\ known = 0
    /\ pc = [t \in Thread |-> "idle"]
    /\ principal = [t \in Thread |-> NoPrincipal]
    /\ found = [t \in Thread |-> Absent]
    /\ uuid = [t \in Thread |-> 0]
    /\ page = [t \in Thread |-> 0]
    /\ left = [t \in Thread |-> 0]
    /\ overtaken = {}

-----------------------------------------------------------------------------
(* Keycloak                                                                *)

SetEnabled(p) ==
    /\ enabled' = [enabled EXCEPT ![p] = ~ @]
    /\ sinceEnabled' = [sinceEnabled EXCEPT ![p] = 0]
    /\ UNCHANGED <<granted, sinceGranted, client, up, cache, pc, work, left, overtaken>>

SetGranted(p) ==
    /\ granted' = [granted EXCEPT ![p] = ~ @]
    /\ sinceGranted' = [sinceGranted EXCEPT ![p] = 0]
    /\ UNCHANGED <<enabled, sinceEnabled, client, up, cache, pc, work, left, overtaken>>

\* The gateway client is deleted and made again under the same name.
RecreateClient ==
    /\ client < MaxClients
    /\ client' = client + 1
    /\ UNCHANGED <<facts, up, cache, pc, work, left, overtaken>>

Outage ==
    /\ up' = ~ up
    /\ UNCHANGED <<facts, client, cache, pc, work, left, overtaken>>

-----------------------------------------------------------------------------
(* A lookup                                                                *)

\* Thread t goes on to a step that lasts at most so many ticks.
Goto(t, where, ticks) ==
    /\ pc' = [pc EXCEPT ![t] = where]
    /\ left' = [left EXCEPT ![t] = ticks]

\* The clock is read, then the lock is waited for.
Call(t, p) ==
    /\ pc[t] = "idle"
    /\ principal' = [principal EXCEPT ![t] = p]
    /\ overtaken' = overtaken \ {t}
    /\ Goto(t, "lookup", LockWait)
    /\ UNCHANGED <<service, cache, found, uuid, page>>

\* A slip: whatever the cache holds is live.
NeverExpires(e, t) == e # NoEntry

\* A slip: live at its expiry still.
LiveAtExpiry(e, t) == e # NoEntry /\ e.left + (LockWait - left[t]) >= 0

\* The entry's time as the thread's clock has it: that was read when the wait
\* for the lock began.
Unexpired(e, t) == e # NoEntry /\ e.left + (LockWait - left[t]) > 0

Lookup(t) ==
    /\ pc[t] = "lookup"
    /\ LET e == entry[principal[t]]
       IN  IF Unexpired(e, t)
           THEN /\ found' = [found EXCEPT ![t] = e.value]
                /\ Goto(t, "answered", 0)
           ELSE /\ found' = [found EXCEPT ![t] = Absent]
                /\ Goto(t, "user", CallTime)
    /\ UNCHANGED <<service, cache, principal, uuid, page, overtaken>>

\* Keycloak answers the request for the user; the reply is on its way.
ServeUser(t) ==
    /\ pc[t] = "user" /\ up
    /\ found' = [found EXCEPT ![t].enabled = enabled[principal[t]]]
    /\ Goto(t, "user_reply", left[t])
    /\ UNCHANGED <<service, cache, principal, uuid, page, overtaken>>

\* A missing or disabled user needs no more requests; the client's identifier
\* is asked for once.  The waits for _lock in _get_client_uuid, before known is
\* read here and before it is set in ClientReply, count as part of CallTime.
UserReply(t) ==
    /\ pc[t] = "user_reply"
    /\ IF ~ found[t].enabled THEN Goto(t, "store", LockWait) /\ uuid' = uuid
       ELSE IF known = 0 THEN Goto(t, "client", CallTime) /\ uuid' = uuid
       ELSE Goto(t, "roles", CallTime) /\ uuid' = [uuid EXCEPT ![t] = known]
    /\ UNCHANGED <<service, cache, principal, found, page, overtaken>>

ClientReply(t) ==
    /\ pc[t] = "client" /\ up
    /\ known' = client
    /\ uuid' = [uuid EXCEPT ![t] = client]
    /\ Goto(t, "roles", CallTime)
    /\ UNCHANGED <<service, entry, principal, found, page, overtaken>>

\* A slip: a principal without roles is an error.
ServeSomeRoles(t) ==
    /\ pc[t] = "roles" /\ up
    /\ IF uuid[t] = client /\ granted[principal[t]]
       THEN /\ found' = [found EXCEPT ![t].granted = TRUE]
            /\ Goto(t, "roles_reply", left[t])
       ELSE /\ found' = [found EXCEPT ![t] = Absent]
            /\ Goto(t, "failed", LockWait)
    /\ UNCHANGED <<service, cache, principal, uuid, page, overtaken>>

\* The roles of a client Keycloak no longer has are a 404, and an error.
ServeRoles(t) ==
    /\ pc[t] = "roles" /\ up
    /\ IF uuid[t] = client
       THEN /\ found' = [found EXCEPT ![t].granted = granted[principal[t]]]
            /\ Goto(t, "roles_reply", left[t])
       ELSE /\ found' = [found EXCEPT ![t] = Absent]
            /\ Goto(t, "failed", LockWait)
    /\ UNCHANGED <<service, cache, principal, uuid, page, overtaken>>

RolesReply(t) ==
    /\ pc[t] = "roles_reply"
    /\ page' = [page EXCEPT ![t] = 1]
    /\ Goto(t, "groups", CallTime)
    /\ UNCHANGED <<service, cache, principal, found, uuid, overtaken>>

\* A full page is followed by another request, a shorter one is the last.
GroupsReply(t) ==
    /\ pc[t] = "groups" /\ up
    /\ \/ /\ page[t] < MaxPages
          /\ page' = [page EXCEPT ![t] = @ + 1]
          /\ Goto(t, "groups", CallTime)
       \/ /\ page' = [page EXCEPT ![t] = 0]
          /\ Goto(t, "store", LockWait)
    /\ UNCHANGED <<service, cache, principal, found, uuid, overtaken>>

\* A slip: presence has the time of absence, and absence that of presence.
SwappedLives(value) == IF value.enabled THEN NegativeTTL ELSE TTL

\* A slip: a tick too many.
LongLife(value) == (IF value.enabled THEN TTL ELSE NegativeTTL) + 1

\* The entry's time runs from the store, whenever the replies were given.
LifeOf(value) == IF value.enabled THEN TTL ELSE NegativeTTL

Store(t) ==
    /\ pc[t] = "store"
    /\ entry' = [entry EXCEPT
            ![principal[t]] = [value |-> found[t], left |-> LifeOf(found[t])]]
    /\ Goto(t, "answered", 0)
    /\ UNCHANGED <<service, known, work, overtaken>>

Calling == {"user", "user_reply", "client", "roles", "roles_reply", "groups"}

\* A request fails or its reply is lost.
CallFails(t) ==
    /\ pc[t] \in Calling /\ ~ up
    /\ found' = [found EXCEPT ![t] = Absent]
    /\ page' = [page EXCEPT ![t] = 0]
    /\ Goto(t, "failed", LockWait)
    /\ UNCHANGED <<service, cache, principal, uuid, overtaken>>

\* What mark_unavailable does to the entries and to fetches under way.
Discard ==
    /\ entry' = [p \in Principal |-> NoEntry]
    /\ overtaken' = {t \in Thread : pc[t] \in Calling \cup {"store"}}

\* The caller, _entitlements_or_error, discards and answers 503.
MarkUnavailable(t) ==
    /\ pc[t] = "failed"
    /\ Discard
    /\ Goto(t, "unavailable", 0)
    /\ UNCHANGED <<service, known, work>>

\* A failed key refresh or readiness probe discards too.
OtherFailure ==
    /\ ~ up
    /\ Discard
    /\ UNCHANGED <<service, known, pc, work, left>>

\* "unavailable" is 503; "answered" is what the principal's state decides.
Answered == {"answered", "unavailable"}

Respond(t) ==
    /\ pc[t] \in Answered
    /\ principal' = [principal EXCEPT ![t] = NoPrincipal]
    /\ found' = [found EXCEPT ![t] = Absent]
    /\ uuid' = [uuid EXCEPT ![t] = 0]
    /\ overtaken' = overtaken \ {t}
    /\ Goto(t, "idle", 0)
    /\ UNCHANGED <<service, cache, page>>

-----------------------------------------------------------------------------
Waiting(t) == pc[t] = "idle" \/ (pc[t] \notin Answered /\ left[t] > 0)

Older(since) == [p \in Principal |-> IF since[p] < MaxAge THEN since[p] + 1 ELSE MaxAge]

\* Followed until no lookup can take the entry for live; it stays in the cache.
Ageing(e) == IF e = NoEntry \/ e.left = -LockWait THEN e ELSE [e EXCEPT !.left = @ - 1]

Tick ==
    /\ \A t \in Thread : Waiting(t)
    /\ sinceEnabled' = Older(sinceEnabled) /\ sinceGranted' = Older(sinceGranted)
    /\ entry' = [p \in Principal |-> Ageing(entry[p])]
    /\ left' = [t \in Thread |-> IF left[t] > 0 THEN left[t] - 1 ELSE 0]
    /\ UNCHANGED <<enabled, granted, client, up, known, pc, work, overtaken>>

Work(t) ==
    \/ Lookup(t)
    \/ ServeUser(t) \/ UserReply(t)
    \/ ClientReply(t)
    \/ ServeRoles(t) \/ RolesReply(t)
    \/ GroupsReply(t)
    \/ Store(t)
    \/ CallFails(t) \/ MarkUnavailable(t)
    \/ Respond(t)

Next ==
    \/ \E p \in Principal : SetEnabled(p) \/ SetGranted(p)
    \/ RecreateClient \/ Outage \/ OtherFailure
    \/ \E t \in Thread : Work(t) \/ \E p \in Principal : Call(t, p)
    \/ Tick

Spec == Init /\ [][Next]_vars

\* A request thread runs on and its HTTP calls end; requests keep coming.
Fairness ==
    \A t \in Thread : WF_vars(Work(t)) /\ WF_vars(\E p \in Principal : Call(t, p))

FairSpec == Spec /\ Fairness

-----------------------------------------------------------------------------
(* Properties                                                              *)

Value == [enabled : BOOLEAN, granted : BOOLEAN]

\* The types of Keycloak's state, the caches and the lookups.
TypeOK ==
    /\ enabled \in [Principal -> BOOLEAN] /\ granted \in [Principal -> BOOLEAN]
    /\ sinceEnabled \in [Principal -> 0..MaxAge]
    /\ sinceGranted \in [Principal -> 0..MaxAge]
    /\ client \in 1..MaxClients /\ up \in BOOLEAN
    /\ entry \in [Principal -> [value : Value, left : (-LockWait)..LongestLife] \cup {NoEntry}]
    /\ known \in 0..MaxClients
    /\ pc \in [Thread -> {"idle", "lookup", "store", "failed"} \cup Calling \cup Answered]
    /\ principal \in [Thread -> Principal \cup {NoPrincipal}]
    /\ found \in [Thread -> Value]
    /\ uuid \in [Thread -> 0..MaxClients]
    /\ page \in [Thread -> 0..MaxPages]
    /\ left \in [Thread -> Nat]
    /\ overtaken \in SUBSET Thread

Told(t, p) == pc[t] = "answered" /\ principal[t] = p

\* A disabled or deleted principal is served as enabled for EnabledLag ticks
\* at most, whatever fetches overlap, store out of order or outlive a discard.
DisablingTakesEffect ==
    \A t \in Thread, p \in Principal :
        Told(t, p) /\ found[t].enabled /\ ~ enabled[p] => sinceEnabled[p] < EnabledLag

\* A withdrawn or a new entitlement of an enabled principal is seen within
\* GrantedLag ticks.
GrantsTakeEffect ==
    \A t \in Thread, p \in Principal :
        Told(t, p) /\ found[t].enabled /\ found[t].granted # granted[p]
            => sinceGranted[p] < GrantedLag

\* A principal that has been enabled again is refused for AbsentLag ticks at
\* most: a negative entry does not get a positive one's time.
EnablingTakesEffect ==
    \A t \in Thread, p \in Principal :
        Told(t, p) /\ ~ found[t].enabled /\ enabled[p] => sinceEnabled[p] < AbsentLag

\* A thread's place says whom it asks about, what it has found and how long
\* its step lasts.
PlaceHolds(t) ==
    /\ pc[t] # "idle" => principal[t] \in Principal
    /\ pc[t] \in {"client", "roles", "roles_reply", "groups"} => found[t].enabled
    /\ pc[t] \in Calling => left[t] <= CallTime
    /\ pc[t] = "store" => left[t] <= LockWait

\* The three bounds come down to this: what a lookup has read is behind
\* Keycloak by no more than the steps taken since, less the time left to the
\* present one.
EnabledFollowed(t) ==
    LET since == sinceEnabled[principal[t]]
    IN  pc[t] # "idle" /\ found[t].enabled /\ ~ enabled[principal[t]] =>
        /\ pc[t] = "user_reply" => since + left[t] <= CallTime
        /\ pc[t] = "client" => since + left[t] <= 2 * CallTime
        /\ pc[t] \in {"roles", "roles_reply"} => since + left[t] <= 3 * CallTime
        /\ pc[t] = "groups" => since + left[t] <= 3 * CallTime + GroupsTime(page[t])
        /\ pc[t] = "store" =>
            since + left[t] <= 3 * CallTime + GroupsTime(MaxPages) + LockWait
        /\ pc[t] = "answered" => since < EnabledLag

GrantedFollowed(t) ==
    LET since == sinceGranted[principal[t]]
    IN  pc[t] # "idle" /\ found[t].enabled /\ found[t].granted # granted[principal[t]] =>
        /\ pc[t] = "roles_reply" => since + left[t] <= CallTime
        /\ pc[t] = "groups" => since + left[t] <= CallTime + GroupsTime(page[t])
        /\ pc[t] = "store" =>
            since + left[t] <= CallTime + GroupsTime(MaxPages) + LockWait
        /\ pc[t] = "answered" => since < GrantedLag

AbsenceFollowed(t) ==
    LET since == sinceEnabled[principal[t]]
    IN  pc[t] # "idle" /\ ~ found[t].enabled /\ enabled[principal[t]] =>
        /\ pc[t] = "user_reply" => since + left[t] <= CallTime
        /\ pc[t] = "store" => since + left[t] <= CallTime + LockWait
        /\ pc[t] = "answered" => since < AbsentLag

\* The same for an entry that some lookup may yet take for live.
EntryFollowed(p) ==
    LET e == entry[p]
    IN  e # NoEntry /\ e.left > -LockWait =>
        /\ e.left <= LifeOf(e.value)
        /\ e.value.enabled /\ ~ enabled[p] =>
            sinceEnabled[p] + e.left <=
                3 * CallTime + GroupsTime(MaxPages) + LockWait + TTL
        /\ e.value.enabled /\ e.value.granted # granted[p] =>
            sinceGranted[p] + e.left <=
                CallTime + GroupsTime(MaxPages) + LockWait + TTL
        /\ ~ e.value.enabled /\ enabled[p] =>
            sinceEnabled[p] + e.left <= CallTime + LockWait + NegativeTTL

Followed(t) ==
    PlaceHolds(t) /\ EnabledFollowed(t) /\ GrantedFollowed(t) /\ AbsenceFollowed(t)

\* The strengthening of the three bounds that every step keeps.
IInv ==
    /\ TypeOK
    /\ \A t \in Thread : Followed(t)
    /\ \A p \in Principal : EntryFollowed(p)

\* What a thread has been told, and the claims a principal's answers may be
\* made of, by the bounds above.
ToldTo(t) ==
    IF pc[t] = "unavailable" THEN [failed |-> TRUE]
    ELSE IF pc[t] # "answered" THEN [pending |-> TRUE]
    ELSE [enabled |-> found[t].enabled,
          granted |-> IF found[t].granted THEN {"entitlement"} ELSE {}]

Recent(p) ==
    [fact : {"enabled"}, holds : {enabled[p]}]
    \cup [fact : {"entitlement"}, holds : {granted[p]}]
    \cup [fact : {"enabled"}, holds : {x \in {TRUE} : sinceEnabled[p] < EnabledLag}]
    \cup [fact : {"enabled"}, holds : {x \in {FALSE} : sinceEnabled[p] < AbsentLag}]
    \cup [fact : {"entitlement"}, holds : {x \in BOOLEAN : sinceGranted[p] < GrantedLag}]

Promise == INSTANCE EntitlementPromise WITH
    Entitlement <- {"entitlement"},
    NoAnswer <- [pending |-> TRUE], Unavailable <- [failed |-> TRUE],
    granted <- [p \in Principal |-> IF granted[p] THEN {"entitlement"} ELSE {}],
    lately <- [p \in Principal |-> Recent(p)],
    told <- [t \in Thread |-> ToldTo(t)]

\* Callers, which Requests composes from the promise, need know no more of the
\* cache than EntitlementPromise says: each claim in an answer was true within
\* its bound, and an answer stays until it is used.
ImplementsPromise == Promise!Spec

\* mark_unavailable is said to discard authorization state once Keycloak is
\* unavailable: what was read before it is not in the cache after it.
DiscardIsFinal == [][\A t \in Thread : pc[t] = "store" /\ pc'[t] = "answered"
                        => t \notin overtaken]_vars

\* While the client identifier the cache has kept is Keycloak's, lookups work
\* again once Keycloak stays up, for principals with and without roles.
LookupsRecover ==
    <>[](up /\ known \in {0, client}) => <>[](\A t \in Thread : pc[t] # "unavailable")

\* 503 represents unavailable Keycloak state: once Keycloak stays up, no
\* lookup ends in 503 any more.
OutagesEnd == <>[]up => <>[](\A t \in Thread : pc[t] # "unavailable")
===============================================================================
