------------------------------ MODULE JwksCache ------------------------------
(***************************************************************************)
(* lib/jwks.py in one pod: the background thread that refreshes Keycloak's *)
(* signing keys, the request threads that look keys up and refresh on an   *)
(* unknown identifier (_verified_token of controllers/api_keys.py), the    *)
(* handlers that invalidate the keys after a failed Keycloak call, and the *)
(* lifespan that stops the thread before it closes the HTTP client.        *)
(*                                                                         *)
(* A refresh holds _refresh_lock over its fetch; single accesses to _keys  *)
(* under _lock are atomic steps.  Time is counted in ticks, as ages and    *)
(* remaining waits: a thread that can run does so before the clock moves,  *)
(* and an HTTP call lasts at most Timeout ticks.                           *)
(***************************************************************************)
EXTENDS Integers, FiniteSets

CONSTANTS
    Verifier,           \* threads that verify a token
    Refresher,          \* the thread named jwks-refresh
    Kid,                \* signing key identifiers
    RefreshInterval, RetryInterval,     \* settings.jwks_*_interval_seconds
    Timeout,            \* bound on one HTTP call, from keycloak_timeout_seconds
    MarkDelay,          \* bound on mark_unavailable's wait for the client's lock,
                        \* which other threads hold over their token requests
    NoKeys,             \* _keys is None
    NoThread, NoKid

ASSUME IntervalAssumption ==
    /\ RefreshInterval \in Nat \ {0} /\ RetryInterval \in Nat \ {0}
    /\ Timeout \in Nat \ {0} /\ MarkDelay \in Nat

ASSUME ThreadAssumption == Refresher \notin Verifier /\ NoThread \notin Verifier \cup {Refresher}

VARIABLES
    published,  \* the keys Keycloak publishes now
    up,         \* whether Keycloak answers
    keys, age,  \* JWKSCache._keys, and the ticks since Keycloak gave them out
    lock,       \* the thread that holds _refresh_lock
    pc,         \* what each thread does next
    reply,      \* the response a thread's fetch got, with its age
    left,       \* ticks left to a thread's HTTP call or mark_unavailable, or to
                \* the Refresher's wait
    kid,        \* the key identifier of the token a Verifier has
    observed,   \* a handler's Keycloak call failed; it is about to invalidate
    life,       \* the lifespan of the application
    latest,     \* whose fetch got the latest outcome, and whether it failed
    missed      \* Verifiers whose token's key was not published all the while

service == <<published, up>>
cache == <<keys, age>>
vars == <<published, up, keys, age, lock, pc, reply, left, kid, observed, life,
          latest, missed>>

Thread == Verifier \cup {Refresher}
KeySet == SUBSET Kid \ {{}}     \* _parse_jwks refuses a set without a usable key
NoReply == [keys |-> NoKeys, age |-> 0]

Init ==
    /\ published \in KeySet /\ up = TRUE
    /\ keys = NoKeys /\ age = 0
    /\ lock = NoThread
    /\ pc = [t \in Thread |-> IF t = Refresher THEN "unstarted" ELSE "idle"]
    /\ reply = [t \in Thread |-> NoReply]
    /\ left = [t \in Thread |-> 0]
    /\ kid = [t \in Verifier |-> NoKid]
    /\ observed = FALSE
    /\ life = "starting"
    /\ latest = [thread |-> NoThread, failed |-> FALSE]
    /\ missed = {}

Goto(t, where) == pc' = [pc EXCEPT ![t] = where]

-----------------------------------------------------------------------------
(* Keycloak                                                                *)

Rotate ==
    /\ \E new \in KeySet \ {published} : published' = new
    /\ missed' = missed \cup {t \in Verifier : kid[t] # NoKid /\ kid[t] \notin published'}
    /\ UNCHANGED <<up, cache, lock, pc, reply, left, kid, observed, life, latest>>

Outage ==
    /\ up' = ~ up
    /\ UNCHANGED <<published, cache, lock, pc, reply, left, kid, observed, life, latest,
                   missed>>

-----------------------------------------------------------------------------
(* refresh(), by the background thread and by request threads              *)

\* A slip: refreshes are not serialised.
RefreshAtOnce(t) ==
    /\ pc[t] = "acquire"
    /\ left' = [left EXCEPT ![t] = Timeout]
    /\ Goto(t, "fetch")
    /\ UNCHANGED <<service, cache, lock, reply, kid, observed, life, latest, missed>>

AcquireRefreshLock(t) ==
    /\ pc[t] = "acquire" /\ lock = NoThread
    /\ lock' = t
    /\ left' = [left EXCEPT ![t] = Timeout]
    /\ Goto(t, "fetch")
    /\ UNCHANGED <<service, cache, reply, kid, observed, life, latest, missed>>

\* Keycloak answers fetch_jwks with what it publishes; the reply is on its way.
Serve(t) ==
    /\ pc[t] = "fetch" /\ up
    /\ reply' = [reply EXCEPT ![t] = [keys |-> published, age |-> 0]]
    /\ latest' = [thread |-> t, failed |-> FALSE]
    /\ Goto(t, "reply")
    /\ UNCHANGED <<service, cache, lock, left, kid, observed, life, missed>>

\* fetch_jwks or _parse_jwks raises; mark_unavailable comes first, the keys after.
FetchFails(t) ==
    /\ pc[t] \in {"fetch", "reply"} /\ ~ up
    /\ reply' = [reply EXCEPT ![t] = NoReply]
    /\ latest' = [thread |-> t, failed |-> TRUE]
    /\ left' = [left EXCEPT ![t] = MarkDelay]
    /\ Goto(t, "failed")
    /\ UNCHANGED <<service, cache, lock, kid, observed, life, missed>>

\* Where a thread goes on after refresh() returned.
AfterRefresh(t, succeeded) ==
    IF t = Refresher
    THEN /\ Goto(t, "wait")
         /\ left' = [left EXCEPT ![t] = IF succeeded THEN RefreshInterval ELSE RetryInterval]
    ELSE /\ Goto(t, IF succeeded THEN "second_lookup" ELSE "unavailable")
         /\ left' = [left EXCEPT ![t] = 0]

\* A slip: keys are withdrawn, new ones are not added.
StoreOldKeys(t) ==
    /\ pc[t] = "reply"
    /\ keys' = IF keys = NoKeys THEN reply[t].keys ELSE keys \cap reply[t].keys
    /\ age' = reply[t].age
    /\ reply' = [reply EXCEPT ![t] = NoReply]
    /\ lock' = NoThread
    /\ AfterRefresh(t, TRUE)
    /\ UNCHANGED <<service, kid, observed, life, latest, missed>>

StoreKeys(t) ==
    /\ pc[t] = "reply"
    /\ keys' = reply[t].keys /\ age' = reply[t].age
    /\ reply' = [reply EXCEPT ![t] = NoReply]
    /\ lock' = NoThread
    /\ AfterRefresh(t, TRUE)
    /\ UNCHANGED <<service, kid, observed, life, latest, missed>>

\* A slip: a failed refresh leaves the keys.
KeepKeys(t) ==
    /\ pc[t] = "failed"
    /\ lock' = NoThread
    /\ AfterRefresh(t, FALSE)
    /\ UNCHANGED <<service, cache, reply, kid, observed, life, latest, missed>>

\* A slip: a failed refresh keeps the lock.
ClearKeysKeepingLock(t) ==
    /\ pc[t] = "failed"
    /\ keys' = NoKeys /\ age' = 0
    /\ AfterRefresh(t, FALSE)
    /\ UNCHANGED <<service, lock, reply, kid, observed, life, latest, missed>>

ClearKeys(t) ==
    /\ pc[t] = "failed"
    /\ keys' = NoKeys /\ age' = 0
    /\ lock' = NoThread
    /\ AfterRefresh(t, FALSE)
    /\ UNCHANGED <<service, reply, kid, observed, life, latest, missed>>

-----------------------------------------------------------------------------
(* The background thread, and the handlers that invalidate                 *)

\* A slip: the loop does not look at the stop event.
LoopForever ==
    /\ pc[Refresher] = "loop"
    /\ Goto(Refresher, "acquire")
    /\ UNCHANGED <<service, cache, lock, reply, left, kid, observed, life, latest, missed>>

\* _run: until the stop event is set.
LoopOrExit ==
    /\ pc[Refresher] = "loop"
    /\ Goto(Refresher, IF life = "serving" THEN "acquire" ELSE "exited")
    /\ UNCHANGED <<service, cache, lock, reply, left, kid, observed, life, latest, missed>>

\* _stop.wait(delay) returns after the delay, or at once when stopped.
WaitEnds ==
    /\ pc[Refresher] = "wait"
    /\ left[Refresher] = 0 \/ life # "serving"
    /\ left' = [left EXCEPT ![Refresher] = 0]
    /\ Goto(Refresher, "loop")
    /\ UNCHANGED <<service, cache, lock, reply, kid, observed, life, latest, missed>>

\* The readiness probe or an authorization lookup fails at Keycloak ...
CallFails ==
    /\ life = "serving" /\ ~ up
    /\ observed' = TRUE
    /\ UNCHANGED <<service, cache, lock, pc, reply, left, kid, life, latest, missed>>

\* ... and its handler calls invalidate().
Invalidate ==
    /\ observed /\ observed' = FALSE
    /\ keys' = NoKeys /\ age' = 0
    /\ UNCHANGED <<service, lock, pc, reply, left, kid, life, latest, missed>>

-----------------------------------------------------------------------------
(* _verified_token, as far as the signing key                              *)

\* A request brings a token signed with one of the published keys.
Arrive(t, k) ==
    /\ life = "serving" /\ pc[t] = "idle" /\ k \in published
    /\ kid' = [kid EXCEPT ![t] = k]
    /\ Goto(t, "is_available")
    /\ UNCHANGED <<service, cache, lock, reply, left, observed, life, latest, missed>>

CheckAvailable(t) ==
    /\ pc[t] = "is_available"
    /\ Goto(t, IF keys = NoKeys THEN "unavailable" ELSE "first_lookup")
    /\ UNCHANGED <<service, cache, lock, reply, left, kid, observed, life, latest, missed>>

Known(k) == keys # NoKeys /\ k \in keys

FirstLookup(t) ==
    /\ pc[t] = "first_lookup"
    /\ Goto(t, IF Known(kid[t]) THEN "verified" ELSE "acquire")
    /\ UNCHANGED <<service, cache, lock, reply, left, kid, observed, life, latest, missed>>

SecondLookup(t) ==
    /\ pc[t] = "second_lookup"
    /\ Goto(t, IF Known(kid[t]) THEN "verified" ELSE "refused")
    /\ UNCHANGED <<service, cache, lock, reply, left, kid, observed, life, latest, missed>>

\* As far as the signing key decides: "refused" is 401, "unavailable" is 503.
Answered == {"verified", "refused", "unavailable"}

Respond(t) ==
    /\ t \in Verifier /\ pc[t] \in Answered
    /\ kid' = [kid EXCEPT ![t] = NoKid]
    /\ missed' = missed \ {t}
    /\ Goto(t, "idle")
    /\ UNCHANGED <<service, cache, lock, reply, left, observed, life, latest>>

-----------------------------------------------------------------------------
(* The lifespan                                                            *)

Start ==
    /\ life = "starting" /\ life' = "serving"
    /\ Goto(Refresher, "loop")
    /\ UNCHANGED <<service, cache, lock, reply, left, kid, observed, latest, missed>>

\* The server has drained its requests; stop() sets the event.
Stop ==
    /\ life = "serving" /\ life' = "stopping"
    /\ \A t \in Verifier : pc[t] = "idle"
    /\ ~ observed
    /\ UNCHANGED <<service, cache, lock, pc, reply, left, kid, observed, latest, missed>>

\* A slip: stop() does not join.
NotJoined == TRUE

Joined == pc[Refresher] = "exited"

\* stop() has joined the thread; the HTTP client is closed.
Close ==
    /\ life = "stopping" /\ Joined
    /\ life' = "closed"
    /\ UNCHANGED <<service, cache, lock, pc, reply, left, kid, observed, latest, missed>>

-----------------------------------------------------------------------------
Waiting(t) ==
    \/ pc[t] \in {"unstarted", "idle", "exited"}
    \/ pc[t] \in {"fetch", "reply", "failed", "wait"} /\ left[t] > 0
    \/ pc[t] = "acquire" /\ lock # NoThread

Larger(a, b) == IF a >= b THEN a ELSE b

\* How long keys are kept before a fetch begins that replaces or clears them.
\* The Refresher fetches them and waits for RefreshInterval; or its fetch fails,
\* a request thread that was queued on the refresh lock puts keys back, and the
\* Refresher waits for RetryInterval, which may be the longer one.
LongestKept == Larger(Timeout + RefreshInterval, RetryInterval)

\* The oldest keys the cache may serve: the next fetch replaces them, or fails
\* and clears them.
MaxAge == LongestKept + Timeout + MarkDelay

\* Time passes while every thread waits.  Ages are followed up to one tick
\* past the bound, and only while the application serves.
Tick ==
    /\ life = "serving" /\ age <= MaxAge
    /\ \A t \in Thread : Waiting(t)
    /\ age' = IF keys = NoKeys THEN 0 ELSE age + 1
    /\ left' = [t \in Thread |-> IF left[t] > 0 THEN left[t] - 1 ELSE 0]
    /\ reply' = [t \in Thread |->
            IF pc[t] = "reply" THEN [reply[t] EXCEPT !.age = @ + 1] ELSE reply[t]]
    /\ UNCHANGED <<service, keys, lock, pc, kid, observed, life, latest, missed>>

Refresh(t) ==
    Serve(t) \/ FetchFails(t) \/ StoreKeys(t) \/ ClearKeys(t)

Background == LoopOrExit \/ WaitEnds \/ AcquireRefreshLock(Refresher) \/ Refresh(Refresher)

Verify(t) ==
    CheckAvailable(t) \/ FirstLookup(t) \/ SecondLookup(t) \/ Refresh(t) \/ Respond(t)

Next ==
    \/ Rotate \/ Outage
    \/ CallFails \/ Invalidate
    \/ Background
    \/ \E t \in Verifier :
        \/ \E k \in Kid : Arrive(t, k)
        \/ AcquireRefreshLock(t)
        \/ Verify(t)
    \/ Start \/ Stop \/ Close
    \/ Tick

Spec == Init /\ [][Next]_vars

\* Threads run on, an HTTP call ends, and time passes however many requests
\* there are (SF: a request is not always waiting).  Nothing is asked of who
\* gets the refresh lock, of Keycloak, or of the arrival of requests.
Fairness ==
    /\ WF_vars(Start) /\ WF_vars(Close) /\ WF_vars(Invalidate) /\ SF_vars(Tick)
    /\ WF_vars(Background)
    /\ \A t \in Verifier : WF_vars(Verify(t)) /\ WF_vars(AcquireRefreshLock(t))

FairSpec == Spec /\ Fairness

-----------------------------------------------------------------------------
(* Properties                                                              *)

Place == {"unstarted", "loop", "wait", "exited", "acquire", "fetch", "reply", "failed",
          "idle", "is_available", "first_lookup", "second_lookup"} \cup Answered

\* The types of the cache, of Keycloak and of the threads.
TypeOK ==
    /\ published \in KeySet /\ up \in BOOLEAN
    /\ keys \in KeySet \cup {NoKeys} /\ age \in Nat
    /\ lock \in Thread \cup {NoThread}
    /\ pc \in [Thread -> Place]
    /\ reply \in [Thread -> [keys : KeySet \cup {NoKeys}, age : Nat]]
    /\ left \in [Thread -> Nat]
    /\ kid \in [Verifier -> Kid \cup {NoKid}]
    /\ observed \in BOOLEAN
    /\ life \in {"starting", "serving", "stopping", "closed"}
    /\ latest \in [thread : Thread \cup {NoThread}, failed : BOOLEAN]
    /\ missed \in SUBSET Verifier

\* is_available says whether the latest refresh succeeded: keys are never
\* served past a later failed fetch but for the moment it takes to clear
\* them.  A success that was fetched before the failure cannot undo it.
FailedRefreshStands ==
    keys # NoKeys /\ latest.failed => pc[latest.thread] = "failed"

\* A refresh never puts back what it fetched before another thread's fetch:
\* the keys of the cache do not go backwards.
OnlyLatestReplyStored ==
    [][\A t \in Thread : pc[t] = "reply" /\ pc'[t] \in {"wait", "second_lookup"}
            => latest.thread = t]_vars

\* A key withdrawn from Keycloak verifies tokens for MaxAge at most: a refresh
\* interval and an HTTP timeout, or the retry interval where it is longer, then
\* a timeout and a wait for the client's lock, whatever the contention for the
\* refresh lock.
KeysAreRecent == keys # NoKeys => age <= MaxAge

Refreshing == {"fetch", "reply", "failed"}
BackgroundPlace == {"unstarted", "loop", "wait", "exited", "acquire"} \cup Refreshing
VerifierPlace == Place \ {"unstarted", "loop", "wait", "exited"}

\* _refresh_lock is held by the thread in a refresh.
LockFollowsRefresh == \A t \in Thread : lock = t <=> pc[t] \in Refreshing

\* The lifespan and the places of the threads go together.
PlacesFollowLife ==
    /\ pc[Refresher] \in BackgroundPlace
    /\ \A t \in Verifier : pc[t] \in VerifierPlace
    /\ pc[Refresher] = "unstarted" <=> life = "starting"
    /\ pc[Refresher] = "exited" => life \in {"stopping", "closed"}
    /\ life \in {"stopping", "closed"} => \A t \in Verifier : pc[t] = "idle"
    /\ life = "closed" => pc[Refresher] = "exited"

\* A thread with an outcome has the latest one.
OutcomesAreLatest ==
    /\ latest.failed => latest.thread \in Thread
    /\ \A t \in Thread :
        /\ pc[t] = "reply" => latest = [thread |-> t, failed |-> FALSE]
        /\ pc[t] = "failed" => latest = [thread |-> t, failed |-> TRUE]

\* The time left until the keys are replaced or cleared makes up for their age:
\* the free lock finds the Refresher in its wait, which bounds the age of the
\* keys and of any reply that is about to be stored; the held lock is held for
\* a call and a wait at most.
AgesBounded ==
    /\ lock = NoThread => age <= LongestKept
    /\ pc[Refresher] = "wait" => age + left[Refresher] <= LongestKept
    /\ \A t \in Thread :
        /\ pc[t] = "reply" =>
                /\ reply[t].age + left[t] <= Timeout
                /\ pc[Refresher] = "wait" => reply[t].age + left[Refresher] <= LongestKept
        /\ pc[t] = "fetch" => left[t] <= Timeout
        /\ pc[t] \in {"fetch", "reply"} => age + left[t] <= LongestKept + Timeout
        /\ pc[t] = "failed" => age + left[t] <= MaxAge

\* The strengthening of the safety properties that every step keeps.
IInv ==
    /\ TypeOK
    /\ LockFollowsRefresh
    /\ PlacesFollowLife
    /\ OutcomesAreLatest
    /\ AgesBounded
    /\ FailedRefreshStands

\* The background thread has left the HTTP client alone before it is closed.
NoFetchAfterClose == life = "closed" => \A t \in Thread : pc[t] \notin {"fetch", "reply"}

\* stop() returns: the refresh or the wait under way ends, and no more begin.
StopTerminates == life = "stopping" ~> life = "closed"

\* Once Keycloak stays up the keys come back and stay, by the background
\* thread alone if need be: request threads do not refresh an empty cache.
Recovers == <>[](up /\ life = "serving") => <>[](keys # NoKeys)

\* docs/architecture/README.md: requests fail with 503 after a failure of
\* Keycloak is observed.  So a token whose key is published all the while is
\* never refused with 401 for want of its key.
PublishedKeyNever401 == \A t \in Verifier : pc[t] = "refused" => t \in missed
==============================================================================
