----------------------------- MODULE ServiceToken -----------------------------
(***************************************************************************)
(* The service token of KeycloakClient in one pod (_get_token,             *)
(* _acquire_token, mark_unavailable of lib/keycloak.py) and the calls that *)
(* use it: lookups, whose handlers call mark_unavailable after any         *)
(* failure, readiness probes, which do after a failed call but not after a *)
(* failed token request, and usage metadata, which never do.               *)
(*                                                                         *)
(* The client's lock is held over the token request.  Keycloak may give    *)
(* tokens of any life, withdraw those it has given, and fail.  Time is     *)
(* counted in ticks; a token's time is what is left of it by Keycloak's    *)
(* clock, from which the pod's differs by a constant skew.                 *)
(***************************************************************************)
EXTENDS Integers

CONSTANTS
    Thread,
    Timeout,    \* bound on one HTTP call, from keycloak_timeout_seconds
    Leeway,     \* a token is not used in its last 60 seconds
    MaxSkew,    \* bound on the difference of the clocks
    Lives,      \* the lives of Keycloak's tokens
    MaxVoids,   \* bound on the times Keycloak withdraws its tokens
    MaxAhead,   \* bound on the token requests that keep a thread waiting
    NoToken, NoThread

ASSUME TimeAssumption ==
    /\ Timeout \in Nat \ {0} /\ MaxSkew \in Nat /\ Leeway \in Nat
    /\ Timeout + MaxSkew <= Leeway
    /\ Lives \subseteq Nat
    /\ MaxVoids \in Nat /\ MaxAhead \in Nat

\* A token's time, whether Keycloak has withdrawn it, and, in a call, whether
\* it came from the cache.
Token == [left : Nat, void : BOOLEAN, cached : BOOLEAN]

ASSUME NullAssumption == NoThread \notin Thread /\ NoToken \notin Token

VARIABLES
    up,         \* whether Keycloak answers
    life,       \* the life of the tokens Keycloak gives at present
    voids,      \* how often it has withdrawn all it had given
    skew,       \* the pod's clock, less Keycloak's
    token,      \* _token and _token_expiry
    lock,       \* the thread that holds the client's lock over a request
    pc,
    kind,       \* kind[t]: what sort of call t makes
    carried,    \* carried[t]: the token t's request brings, or its reply
    left,       \* ticks left to t's request
    waited,     \* ticks that t has waited for the lock
    ahead,      \* token requests that were under way meanwhile
    latest      \* the thread whose reply is the last that Keycloak sent

keycloak == <<up, life, voids, skew>>
waits == <<waited, ahead>>
vars == <<keycloak, token, lock, pc, kind, carried, left, waits, latest>>

Kind == {"lookup", "probe", "usage"}

Init ==
    /\ up = TRUE /\ life \in Lives /\ voids = 0
    /\ skew \in (-MaxSkew)..MaxSkew
    /\ token = NoToken
    /\ lock = NoThread
    /\ pc = [t \in Thread |-> "idle"]
    /\ kind \in [Thread -> {"usage"}]
    /\ carried = [t \in Thread |-> NoToken]
    /\ left = [t \in Thread |-> 0]
    /\ waited = [t \in Thread |-> 0]
    /\ ahead = [t \in Thread |-> 0]
    /\ latest = NoThread

-----------------------------------------------------------------------------
(* Keycloak                                                                *)

Outage ==
    /\ up' = ~ up
    /\ UNCHANGED <<life, voids, skew, token, lock, pc, kind, carried, left, waits, latest>>

ChangeLife ==
    /\ \E new \in Lives \ {life} : life' = new
    /\ UNCHANGED <<up, voids, skew, token, lock, pc, kind, carried, left, waits, latest>>

Voided(tok) == IF tok = NoToken THEN NoToken ELSE [tok EXCEPT !.void = TRUE]

\* The tokens given out so far are refused: a new signing key, or a change to
\* the bridge's client.
Withdraw ==
    /\ voids < MaxVoids /\ voids' = voids + 1
    /\ token' = Voided(token)
    /\ carried' = [t \in Thread |-> Voided(carried[t])]
    /\ UNCHANGED <<up, life, skew, lock, pc, kind, left, waits, latest>>

-----------------------------------------------------------------------------
(* The token                                                               *)

Goto(t, where, ticks) ==
    /\ pc' = [pc EXCEPT ![t] = where]
    /\ left' = [left EXCEPT ![t] = ticks]

\* A slip: the client tries every request once more.
RequestTwice(t, where) == Goto(t, where, 2 * Timeout)

Request(t, where) == Goto(t, where, Timeout)

Carry(t, tok) == carried' = [carried EXCEPT ![t] = tok]

\* The token request under way keeps t waiting from here on.
Queue(t) ==
    /\ waited' = [waited EXCEPT ![t] = 0]
    /\ ahead' = [ahead EXCEPT ![t] = IF lock = NoThread THEN 0 ELSE 1]

Leave(t) ==
    /\ waited' = [waited EXCEPT ![t] = 0]
    /\ ahead' = [ahead EXCEPT ![t] = 0]

Begin(t, k) ==
    /\ pc[t] = "idle"
    /\ kind' = [kind EXCEPT ![t] = k]
    /\ Goto(t, "get_token", 0)
    /\ Queue(t)
    /\ UNCHANGED <<keycloak, token, lock, carried, latest>>

\* A slip: a token is used to its last second.
NotExpired(tok) == tok # NoToken /\ tok.left - skew > 0

\* By the pod's clock.
Usable(tok) == tok # NoToken /\ tok.left - skew > Leeway

UseToken(t) ==
    /\ pc[t] = "get_token" /\ lock = NoThread /\ Usable(token)
    /\ Carry(t, [token EXCEPT !.cached = TRUE])
    /\ Request(t, "call")
    /\ Leave(t)
    /\ UNCHANGED <<keycloak, token, lock, kind, latest>>

Queued(t) == pc[t] \in {"get_token", "mark"}

\* Everyone else who waits waits for this request too.
KeepWaiting(t) ==
    /\ \A s \in Thread \ {t} : Queued(s) => ahead[s] < MaxAhead
    /\ ahead' = [s \in Thread |-> IF s = t THEN 0 ELSE IF Queued(s) THEN ahead[s] + 1 ELSE 0]
    /\ waited' = [waited EXCEPT ![t] = 0]

\* A slip: the lock is not held over the request.
PostUnlocked(t) ==
    /\ pc[t] = "get_token" /\ ~ Usable(token)
    /\ Request(t, "post")
    /\ KeepWaiting(t)
    /\ UNCHANGED <<keycloak, token, lock, kind, carried, latest>>

Post(t) ==
    /\ pc[t] = "get_token" /\ lock = NoThread /\ ~ Usable(token)
    /\ lock' = t
    /\ Request(t, "post")
    /\ KeepWaiting(t)
    /\ UNCHANGED <<keycloak, token, kind, carried, latest>>

\* Keycloak gives a token, and the reply is on its way.
GiveToken(t) ==
    /\ pc[t] = "post" /\ up
    /\ Carry(t, [left |-> life, void |-> FALSE, cached |-> FALSE])
    /\ latest' = t
    /\ Goto(t, "reply", left[t])
    /\ UNCHANGED <<keycloak, token, lock, kind, waits>>

\* Nothing depends on a reply that was the last once it is dealt with.
Unless(t) == IF latest = t THEN NoThread ELSE latest

StoreToken(t) ==
    /\ pc[t] = "reply" /\ carried[t].left - skew > 0
    /\ token' = carried[t]
    /\ lock' = NoThread
    /\ Request(t, "call")
    /\ latest' = Unless(t)
    /\ UNCHANGED <<keycloak, kind, carried, waits>>

\* The ways on from a failure, before the token was there and with it.
MarksWithoutToken == {"lookup"}
MarksAfterCall == {"lookup", "probe"}

\* A slip: the failing thread leaves with the lock.
TokenFailsLocked(t) ==
    /\ \/ pc[t] \in {"post", "reply"} /\ ~ up
       \/ pc[t] = "reply" /\ carried[t].left - skew <= 0
    /\ lock' = lock
    /\ Carry(t, NoToken)
    /\ Goto(t, IF kind[t] \in MarksWithoutToken THEN "mark" ELSE "unavailable", 0)
    /\ Queue(t)
    /\ latest' = Unless(t)
    /\ UNCHANGED <<keycloak, token, kind>>

\* The request fails, or the token it brought has expired by the pod's clock.
TokenFails(t) ==
    /\ \/ pc[t] \in {"post", "reply"} /\ ~ up
       \/ pc[t] = "reply" /\ carried[t].left - skew <= 0
    /\ lock' = NoThread
    /\ Carry(t, NoToken)
    /\ Goto(t, IF kind[t] \in MarksWithoutToken THEN "mark" ELSE "unavailable", 0)
    /\ latest' = Unless(t)
    /\ UNCHANGED <<keycloak, token, kind, waits>>

-----------------------------------------------------------------------------
(* The call                                                                *)

Accepted(tok) == ~ tok.void /\ tok.left > 0

CallSucceeds(t) ==
    /\ pc[t] = "call" /\ up /\ Accepted(carried[t])
    /\ Carry(t, NoToken)
    /\ Goto(t, "done", 0)
    /\ UNCHANGED <<keycloak, token, lock, kind, waits, latest>>

\* Keycloak is down, or refuses the token.
CallFails(t) ==
    /\ pc[t] = "call" /\ ~ (up /\ Accepted(carried[t]))
    /\ Carry(t, NoToken)
    /\ \/ kind[t] \in MarksAfterCall /\ Goto(t, "mark", 0) /\ Queue(t)
       \/ kind[t] \notin MarksAfterCall /\ Goto(t, "unavailable", 0) /\ UNCHANGED waits
    /\ UNCHANGED <<keycloak, token, lock, kind, latest>>

\* A slip: the entitlements are discarded, the token is kept.
MarkKeepingToken(t) ==
    /\ pc[t] = "mark" /\ lock = NoThread
    /\ Goto(t, "unavailable", 0)
    /\ Leave(t)
    /\ UNCHANGED <<keycloak, token, lock, kind, carried, latest>>

MarkUnavailable(t) ==
    /\ pc[t] = "mark" /\ lock = NoThread
    /\ token' = NoToken
    /\ Goto(t, "unavailable", 0)
    /\ Leave(t)
    /\ UNCHANGED <<keycloak, lock, kind, carried, latest>>

Respond(t) ==
    /\ pc[t] \in {"done", "unavailable"}
    /\ kind' = [kind EXCEPT ![t] = "usage"]
    /\ Goto(t, "idle", 0)
    /\ UNCHANGED <<keycloak, token, lock, carried, waits, latest>>

-----------------------------------------------------------------------------
Waiting(t) ==
    \/ pc[t] = "idle"
    \/ pc[t] \in {"post", "reply", "call"} /\ left[t] > 0
    \/ Queued(t) /\ lock # NoThread

Older(tok) == IF tok = NoToken \/ tok.left = 0 THEN tok ELSE [tok EXCEPT !.left = @ - 1]

Tick ==
    /\ \A t \in Thread : Waiting(t)
    /\ token' = Older(token)
    /\ carried' = [t \in Thread |-> Older(carried[t])]
    /\ left' = [t \in Thread |-> IF left[t] > 0 THEN left[t] - 1 ELSE 0]
    /\ waited' = [t \in Thread |-> IF Queued(t) THEN waited[t] + 1 ELSE waited[t]]
    /\ UNCHANGED <<keycloak, lock, pc, kind, ahead, latest>>

Work(t) ==
    \/ UseToken(t) \/ Post(t) \/ GiveToken(t) \/ StoreToken(t) \/ TokenFails(t)
    \/ CallSucceeds(t) \/ CallFails(t) \/ MarkUnavailable(t) \/ Respond(t)

Next ==
    \/ Outage \/ ChangeLife \/ Withdraw
    \/ \E t \in Thread : Work(t) \/ \E k \in Kind : Begin(t, k)
    \/ Tick

Spec == Init /\ [][Next]_vars

\* A thread that can run does; nothing is asked of who gets the lock.
Fairness == \A t \in Thread : WF_vars(Work(t))

FairSpec == Spec /\ Fairness

-----------------------------------------------------------------------------
(* Properties                                                              *)

Place == {"idle", "get_token", "post", "reply", "call", "mark", "done", "unavailable"}

\* The types of Keycloak's side, of the cached token and of the calls.
TypeOK ==
    /\ up \in BOOLEAN /\ life \in Lives /\ voids \in 0..MaxVoids
    /\ skew \in (-MaxSkew)..MaxSkew
    /\ token \in Token \cup {NoToken}
    /\ lock \in Thread \cup {NoThread}
    /\ pc \in [Thread -> Place] /\ kind \in [Thread -> Kind]
    /\ carried \in [Thread -> Token \cup {NoToken}]
    /\ left \in [Thread -> 0..Timeout]
    /\ waited \in [Thread -> Nat] /\ ahead \in [Thread -> Nat]
    /\ latest \in Thread \cup {NoThread}

\* The 60 seconds of leeway are there for the call and for clocks that differ:
\* a cached token does not expire on its way, whichever clock is ahead.
CachedTokensArriveInTime ==
    \A t \in Thread : pc[t] = "call" /\ carried[t].cached => carried[t].left > 0

\* Replies are stored in the order in which Keycloak gave the tokens: an older
\* token, perhaps withdrawn since, never replaces a newer one.
LatestTokenStored ==
    [][\A t \in Thread : pc[t] = "reply" /\ pc'[t] = "call" => latest = t]_vars

\* A wait for the client's lock - before any call and before mark_unavailable -
\* is as long as the token requests that were ahead, and no longer.  With
\* Keycloak hanging this is a timeout for each thread in the queue, which is
\* the bound that the other modules call LockWait and MarkDelay.
WaitIsPaidFor == \A t \in Thread : Queued(t) => waited[t] <= ahead[t] * Timeout

\* With Keycloak up and its tokens longer-lived than two calls and the skew,
\* lookups do not go on failing, whatever was cached when it withdrew its
\* tokens or went away: a failed one takes the token with it.
LookupsRecover ==
    <>[](up /\ life > 2 * Timeout + MaxSkew)
        => <>[](\A t \in Thread : pc[t] = "unavailable" => kind[t] = "usage")
===============================================================================
