-------------------------- MODULE ServiceToken_proofs --------------------------
(***************************************************************************)
(* For any number of threads, any lives of tokens and any timeout: cached  *)
(* tokens arrive in time, replies are stored in Keycloak's order, and the  *)
(* wait for the client's lock is that of the token requests ahead.         *)
(*                                                                         *)
(* The argument: the thread that has the lock is the one whose token       *)
(* request is under way, which has as long to go as the others still have  *)
(* to wait for it; and a token taken from the cache has more time left     *)
(* than the call it goes with.                                             *)
(***************************************************************************)
EXTENDS ServiceToken, TLAPS

Posting(t) == pc[t] \in {"post", "reply"}

\* The lock is held over token requests, and over nothing else.
LockFollowsPost == \A t \in Thread : lock = t <=> Posting(t)

\* What a request brings and what its reply is; nobody is ahead of the thread
\* that has the lock.
Brought(t) ==
    /\ pc[t] \in {"post", "reply"} => waited[t] = 0 /\ ahead[t] = 0
    /\ pc[t] \in {"reply", "call"} => carried[t] # NoToken
    /\ pc[t] = "reply" => ~ carried[t].cached /\ latest = t
    /\ pc[t] = "call" /\ carried[t].cached => carried[t].left > left[t]

\* A thread has waited as long as the requests ahead, less what is left of the
\* one under way.
Paid(t) ==
    Queued(t) =>
        /\ waited[t] <= ahead[t] * Timeout
        /\ \A h \in Thread : lock = h => waited[t] + left[h] <= ahead[t] * Timeout

\* The strengthening that every step keeps.
IInv ==
    /\ TypeOK
    /\ LockFollowsPost
    /\ \A t \in Thread : Brought(t) /\ Paid(t)


LEMMA InitIInv == Init => IInv
<1> SUFFICES ASSUME Init PROVE IInv
    OBVIOUS
<1>1. TypeOK
    BY TimeAssumption DEF Init, TypeOK, Kind, Place
<1>2. LockFollowsPost
    BY NullAssumption DEF Init, LockFollowsPost, Posting
<1>3. ASSUME NEW t \in Thread PROVE Brought(t) /\ Paid(t)
    BY <1>3 DEF Init, Brought, Paid, Queued
<1> QED
    BY <1>1, <1>2, <1>3 DEF IInv

\* The time that the requests ahead take grows by a timeout with each.
LEMMA OneMore ==
    ASSUME NEW n \in Nat
    PROVE  /\ n * Timeout \in Nat /\ (n + 1) * Timeout = n * Timeout + Timeout
           /\ 0 * Timeout = 0 /\ 1 * Timeout = Timeout
BY TimeAssumption

-----------------------------------------------------------------------------
(* Keycloak and the clock                                                  *)

\* A withdrawn token is a token, and as old as it was.
LEMMA VoidedToken ==
    ASSUME NEW tok \in Token \cup {NoToken}
    PROVE  /\ Voided(tok) \in Token \cup {NoToken}
           /\ tok = NoToken => Voided(tok) = tok
           /\ tok # NoToken => /\ Voided(tok) \in Token
                              /\ Voided(tok).left = tok.left
                              /\ Voided(tok).cached = tok.cached
BY DEF Voided, Token

\* One that has grown older has a tick less, if it had any.
LEMMA OlderToken ==
    ASSUME NEW tok \in Token \cup {NoToken}
    PROVE  /\ Older(tok) \in Token \cup {NoToken}
           /\ tok = NoToken => Older(tok) = tok
           /\ tok # NoToken => /\ Older(tok) \in Token
                              /\ Older(tok).left >= tok.left - 1
                              /\ Older(tok).cached = tok.cached
BY DEF Older, Token

\* Keycloak's changes leave every request where it is.
LEMMA KeycloakIInv == ASSUME IInv, Outage \/ ChangeLife \/ Withdraw PROVE IInv'
<1>1. TypeOK'
    <2>1. CASE Outage \/ ChangeLife
        BY <2>1 DEF Outage, ChangeLife, IInv, TypeOK, waits
    <2>2. CASE Withdraw
        <3>1. token' \in Token \cup {NoToken}
            BY <2>2, VoidedToken DEF Withdraw, IInv, TypeOK
        <3>2. carried' \in [Thread -> Token \cup {NoToken}]
            BY <2>2, VoidedToken DEF Withdraw, IInv, TypeOK
        <3> QED
            BY <2>2, <3>1, <3>2, TimeAssumption DEF Withdraw, IInv, TypeOK, waits
    <2> QED
        BY <2>1, <2>2
<1>2. UNCHANGED <<lock, pc, left, waits, latest>>
    BY DEF Outage, ChangeLife, Withdraw
<1>3. LockFollowsPost'
    BY <1>2 DEF IInv, LockFollowsPost, Posting
<1>4. ASSUME NEW t \in Thread PROVE Brought(t)' /\ Paid(t)'
    <2>1. \/ carried'[t] = carried[t]
          \/ /\ carried[t] \in Token /\ carried'[t] \in Token
             /\ carried'[t].left = carried[t].left /\ carried'[t].cached = carried[t].cached
        <3>1. CASE Outage \/ ChangeLife
            BY <3>1 DEF Outage, ChangeLife
        <3>2. CASE Withdraw
            <4>1. carried'[t] = Voided(carried[t]) /\ carried[t] \in Token \cup {NoToken}
                BY <3>2 DEF Withdraw, IInv, TypeOK
            <4> QED
                BY <4>1, VoidedToken
        <3> QED
            BY <3>1, <3>2
    <2>2. Brought(t)'
        BY <1>2, <2>1, NullAssumption DEF IInv, Brought, waits
    <2>3. Paid(t)'
        BY <1>2 DEF IInv, Paid, Queued, waits
    <2> QED
        BY <2>2, <2>3
<1> QED
    BY <1>1, <1>3, <1>4 DEF IInv

\* While somebody waits time passes only over a token request, which has the
\* less to go.
LEMMA TickIInv == ASSUME IInv, Tick PROVE IInv'
<1> USE DEF Tick
<1>1. TypeOK'
    <2>1. token' \in Token \cup {NoToken}
        BY OlderToken DEF IInv, TypeOK
    <2>2. carried' \in [Thread -> Token \cup {NoToken}]
        BY OlderToken DEF IInv, TypeOK
    <2>3. left' \in [Thread -> 0..Timeout] /\ waited' \in [Thread -> Nat]
        BY TimeAssumption DEF IInv, TypeOK
    <2> QED
        BY <2>1, <2>2, <2>3 DEF IInv, TypeOK, keycloak
<1>2. LockFollowsPost'
    BY DEF IInv, LockFollowsPost, Posting
<1>3. ASSUME NEW t \in Thread PROVE Brought(t)'
    <2>1. /\ carried'[t] = Older(carried[t]) /\ carried[t] \in Token \cup {NoToken}
          /\ left'[t] = (IF left[t] > 0 THEN left[t] - 1 ELSE 0)
          /\ left[t] \in Nat
          /\ pc[t] = "call" => left[t] > 0
        BY TimeAssumption DEF IInv, TypeOK, Waiting, Queued
    <2>2. carried[t] # NoToken =>
            /\ carried'[t] # NoToken /\ carried'[t].cached = carried[t].cached
            /\ carried'[t].left >= carried[t].left - 1
            /\ carried[t].left \in Nat /\ carried'[t].left \in Nat
        BY <2>1, OlderToken, NullAssumption DEF Token
    <2>3. pc[t] \in {"post", "reply"} => waited'[t] = waited[t]
        BY DEF IInv, TypeOK, Queued
    <2> QED
        BY <2>1, <2>2, <2>3 DEF IInv, Brought
<1>4. ASSUME NEW t \in Thread, Queued(t) PROVE Paid(t)'
    <2>1. lock # NoThread
        BY <1>4 DEF Waiting, Queued
    <2>2. PICK h \in Thread : lock = h
        BY <2>1 DEF IInv, TypeOK
    <2>3. left[h] \in Nat /\ left[h] > 0 /\ left'[h] = left[h] - 1
        BY <2>2, TimeAssumption DEF IInv, TypeOK, LockFollowsPost, Posting, Waiting, Queued
    <2>4. waited[t] \in Nat /\ waited'[t] = waited[t] + 1 /\ ahead'[t] = ahead[t]
        BY <1>4 DEF IInv, TypeOK
    <2>5. waited[t] + left[h] <= ahead[t] * Timeout
        BY <1>4, <2>2 DEF IInv, Paid
    <2>6. ahead[t] * Timeout \in Nat
        BY OneMore DEF IInv, TypeOK
    <2>7. waited'[t] + left'[h] <= ahead[t] * Timeout /\ waited'[t] <= ahead[t] * Timeout
        BY <2>3, <2>4, <2>5, <2>6
    <2> QED
        BY <2>2, <2>4, <2>7 DEF Paid
<1>5. ASSUME NEW t \in Thread, ~ Queued(t) PROVE Paid(t)'
    BY <1>5 DEF Paid, Queued
<1> QED
    BY <1>1, <1>2, <1>3, <1>4, <1>5 DEF IInv

-----------------------------------------------------------------------------
(* The steps of one thread                                                 *)

OthersSame(t) ==
    \A s \in Thread \ {t} :
        UNCHANGED <<pc[s], carried[s], left[s], waited[s], ahead[s]>>

\* A step other than Post has to keep its own thread's part of the invariant,
\* and to leave the lock and the last reply to those whose they are.
LEMMA OneStep ==
    ASSUME IInv, NEW t \in Thread, OthersSame(t), TypeOK',
           lock' = lock \/ (lock = t /\ lock' = NoThread),
           lock' = t <=> Posting(t)',
           lock' = t => left'[t] <= left[t],
           latest' = latest \/ latest = t \/ lock = t,
           Brought(t)', Paid(t)'
    PROVE  IInv'
<1>1. LockFollowsPost'
    <2> SUFFICES ASSUME NEW s \in Thread, s # t PROVE lock' = s <=> Posting(s)'
        BY DEF LockFollowsPost
    <2>1. lock' = s <=> lock = s
        BY NullAssumption
    <2> QED
        BY <2>1 DEF IInv, LockFollowsPost, Posting, OthersSame
<1>2. ASSUME NEW s \in Thread, s # t PROVE Brought(s)'
    <2>1. UNCHANGED <<pc[s], carried[s], left[s], waited[s], ahead[s]>>
        BY <1>2 DEF OthersSame
    <2>2. pc[s] = "reply" => lock = s /\ latest = s
        BY DEF IInv, LockFollowsPost, Posting, Brought
    <2> QED
        BY <1>2, <2>1, <2>2 DEF IInv, Brought
<1>3. ASSUME NEW s \in Thread, s # t PROVE Paid(s)'
    <2>1. UNCHANGED <<pc[s], waited[s], ahead[s]>>
        BY <1>3 DEF OthersSame
    <2> SUFFICES ASSUME Queued(s)
                 PROVE  /\ waited[s] <= ahead[s] * Timeout
                        /\ \A h \in Thread : lock' = h =>
                                waited[s] + left'[h] <= ahead[s] * Timeout
        BY <2>1 DEF Paid, Queued
    <2>2. /\ waited[s] <= ahead[s] * Timeout
          /\ \A h \in Thread : lock = h => waited[s] + left[h] <= ahead[s] * Timeout
        BY DEF IInv, Paid
    <2>3. \A h \in Thread : lock' = h => lock = h /\ left'[h] <= left[h]
        BY NullAssumption, TimeAssumption DEF OthersSame, IInv, TypeOK
    <2>4. /\ waited[s] \in Nat /\ ahead[s] * Timeout \in Nat
          /\ \A h \in Thread : left[h] \in Nat /\ left'[h] \in Nat
        BY OneMore, TimeAssumption DEF IInv, TypeOK
    <2> QED
        BY <2>2, <2>3, <2>4
<1> QED
    BY <1>1, <1>2, <1>3 DEF IInv

\* Whoever joins the queue has the rest of one request before him.
LEMMA QueuePays ==
    ASSUME IInv, NEW t \in Thread, TypeOK', Queue(t), lock' = lock, lock # t,
           \A s \in Thread \ {t} : left'[s] = left[s]
    PROVE  Paid(t)'
<1>1. waited'[t] = 0 /\ ahead'[t] = (IF lock = NoThread THEN 0 ELSE 1)
    BY DEF Queue, IInv, TypeOK
<1>2. \A h \in Thread : left'[h] \in 0..Timeout
    BY DEF TypeOK
<1>3. 0 * Timeout = 0 /\ 1 * Timeout = Timeout
    BY OneMore
<1>4. CASE lock = NoThread
    BY <1>1, <1>3, <1>4, NullAssumption DEF Paid
<1>5. CASE lock # NoThread
    BY <1>1, <1>2, <1>3, <1>5, TimeAssumption DEF Paid
<1> QED
    BY <1>4, <1>5

LEMMA BeginIInv == ASSUME IInv, NEW t \in Thread, NEW k \in Kind, Begin(t, k) PROVE IInv'
<1> USE DEF Begin, Goto, Queue
<1>1. TypeOK'
    BY TimeAssumption DEF IInv, TypeOK, Place, keycloak
<1>2. OthersSame(t) /\ pc'[t] = "get_token"
    BY DEF OthersSame, IInv, TypeOK
<1>3. lock # t
    BY DEF IInv, LockFollowsPost, Posting
<1>4. Paid(t)'
    BY <1>1, <1>2, <1>3, QueuePays DEF OthersSame
<1>5. Brought(t)' /\ ~ Posting(t)'
    BY <1>2 DEF Brought, Posting
<1> QED
    BY <1>1, <1>2, <1>3, <1>4, <1>5, OneStep

\* A token from the cache has more time left than the call will take.
LEMMA UseTokenIInv == ASSUME IInv, NEW t \in Thread, UseToken(t) PROVE IInv'
<1> USE DEF UseToken, Goto, Request, Carry, Leave
<1>1. /\ token \in Token /\ skew \in Int /\ skew >= -MaxSkew
      /\ token.left \in Nat /\ token.left - skew > Leeway
    BY TimeAssumption DEF IInv, TypeOK, Usable, Token
<1>2. /\ [token EXCEPT !.cached = TRUE] \in Token
      /\ [token EXCEPT !.cached = TRUE].left = token.left
    BY <1>1 DEF Token
<1>3. TypeOK'
    BY <1>2, TimeAssumption DEF IInv, TypeOK, Place, keycloak
<1>4. /\ OthersSame(t) /\ pc'[t] = "call" /\ left'[t] = Timeout
      /\ carried'[t] = [token EXCEPT !.cached = TRUE]
    BY DEF OthersSame, IInv, TypeOK
<1>5. lock # t
    BY DEF IInv, LockFollowsPost, Posting
<1>6. token.left > Timeout
    BY <1>1, TimeAssumption
<1>7. Brought(t)' /\ ~ Posting(t)' /\ Paid(t)'
    BY <1>2, <1>4, <1>6, NullAssumption DEF Brought, Posting, Paid, Queued
<1> QED
    BY <1>3, <1>4, <1>5, <1>7, OneStep

\* Everyone who waits waits for a request more, and for its timeout more.
LEMMA PostIInv == ASSUME IInv, NEW t \in Thread, Post(t) PROVE IInv'
<1> USE DEF Post, Goto, Request, KeepWaiting
<1>1. TypeOK'
    BY TimeAssumption DEF IInv, TypeOK, Place, keycloak, Queued
<1>2. /\ pc'[t] = "post" /\ left'[t] = Timeout /\ lock = NoThread /\ lock' = t
      /\ \A s \in Thread \ {t} : UNCHANGED <<pc[s], carried[s], left[s], waited[s]>>
    BY DEF IInv, TypeOK
<1>3. LockFollowsPost'
    BY <1>2, NullAssumption DEF IInv, LockFollowsPost, Posting
<1>4. ASSUME NEW s \in Thread PROVE Brought(s)'
    <2>1. CASE s = t
        BY <2>1, <1>2 DEF IInv, TypeOK, Brought
    <2>2. CASE s # t
        <3>1. pc[s] # "post" /\ pc[s] # "reply"
            BY <1>2, NullAssumption DEF IInv, LockFollowsPost, Posting
        <3> QED
            BY <2>2, <3>1, <1>2 DEF IInv, Brought
    <2> QED
        BY <2>1, <2>2
<1>5. ASSUME NEW s \in Thread, Queued(s)' PROVE Paid(s)'
    <2>1. s # t /\ Queued(s)
        BY <1>2, <1>5 DEF Queued
    <2>2. ahead'[s] = ahead[s] + 1 /\ ahead[s] \in Nat /\ waited[s] \in Nat
        BY <2>1 DEF IInv, TypeOK
    <2>3. waited[s] <= ahead[s] * Timeout
        BY <2>1 DEF IInv, Paid
    <2>4. /\ ahead'[s] * Timeout = ahead[s] * Timeout + Timeout
          /\ ahead[s] * Timeout \in Nat /\ Timeout \in Nat
        BY <2>2, OneMore, TimeAssumption
    <2>5. waited'[s] + Timeout <= ahead'[s] * Timeout /\ waited'[s] <= ahead'[s] * Timeout
        BY <1>2, <2>1, <2>2, <2>3, <2>4
    <2> QED
        BY <1>2, <2>5 DEF Paid
<1>6. ASSUME NEW s \in Thread, ~ Queued(s)' PROVE Paid(s)'
    BY <1>6 DEF Paid
<1> QED
    BY <1>1, <1>3, <1>4, <1>5, <1>6 DEF IInv

\* The reply is on its way, and is the last.
LEMMA GiveTokenIInv == ASSUME IInv, NEW t \in Thread, GiveToken(t) PROVE IInv'
<1> USE DEF GiveToken, Goto, Carry, waits
<1>1. [left |-> life, void |-> FALSE, cached |-> FALSE] \in Token
    BY TimeAssumption DEF IInv, TypeOK, Token
<1>2. TypeOK'
    BY <1>1 DEF IInv, TypeOK, Place, keycloak
<1>3. /\ OthersSame(t) /\ pc'[t] = "reply" /\ left'[t] = left[t] /\ latest' = t
      /\ carried'[t] = [left |-> life, void |-> FALSE, cached |-> FALSE]
    BY DEF OthersSame, IInv, TypeOK
<1>4. lock = t /\ lock' = lock /\ left'[t] <= left[t]
    BY <1>3, TimeAssumption DEF IInv, TypeOK, LockFollowsPost, Posting
<1>5. Brought(t)' /\ Posting(t)' /\ Paid(t)'
    <2>1. waited[t] = 0 /\ ahead[t] = 0
        BY DEF IInv, Brought
    <2>2. ~ Queued(t)' /\ Posting(t)'
        BY <1>3 DEF Queued, Posting
    <2>3. carried'[t] # NoToken
        BY <1>1, <1>3, NullAssumption
    <2>4. ~ carried'[t].cached
        BY <1>3
    <2> QED
        BY <1>3, <2>1, <2>2, <2>3, <2>4 DEF Brought, Paid
<1> QED
    BY <1>2, <1>3, <1>4, <1>5, OneStep

\* The token is stored, and goes with the call.
LEMMA StoreTokenIInv == ASSUME IInv, NEW t \in Thread, StoreToken(t) PROVE IInv'
<1> USE DEF StoreToken, Goto, Request, waits
<1>1. carried[t] \in Token \cup {NoToken} /\ carried[t] # NoToken /\ ~ carried[t].cached
    BY DEF IInv, TypeOK, Brought
<1>2. TypeOK'
    BY <1>1, TimeAssumption DEF IInv, TypeOK, Place, keycloak, Unless
<1>3. OthersSame(t) /\ pc'[t] = "call" /\ carried' = carried
    BY DEF OthersSame, IInv, TypeOK
<1>4. lock = t /\ lock' = NoThread /\ lock' # t
    BY NullAssumption DEF IInv, LockFollowsPost, Posting
<1>5. Brought(t)' /\ ~ Posting(t)' /\ Paid(t)'
    BY <1>1, <1>3 DEF Brought, Posting, Paid, Queued
<1> QED
    BY <1>2, <1>3, <1>4, <1>5, OneStep

\* A thread that leaves with the lock gives it back, and may join the queue.
LEMMA TokenFailsIInv == ASSUME IInv, NEW t \in Thread, TokenFails(t) PROVE IInv'
<1> USE DEF TokenFails, Goto, Carry, waits
<1>1. TypeOK'
    BY TimeAssumption DEF IInv, TypeOK, Place, keycloak, Unless
<1>2. OthersSame(t) /\ pc'[t] \in {"mark", "unavailable"}
    BY DEF OthersSame, IInv, TypeOK
<1>3. lock = t /\ lock' = NoThread /\ lock' # t
    BY NullAssumption DEF IInv, LockFollowsPost, Posting
<1>4. Brought(t)' /\ ~ Posting(t)'
    BY <1>2 DEF Brought, Posting
<1>5. Paid(t)'
    <2>1. waited'[t] = 0 /\ ahead'[t] = 0 /\ 0 * Timeout = 0
        BY OneMore DEF IInv, Brought
    <2> QED
        BY <2>1, <1>3, NullAssumption DEF Paid
<1> QED
    BY <1>1, <1>2, <1>3, <1>4, <1>5, OneStep

\* A call ends.
LEMMA CallIInv ==
    ASSUME IInv, NEW t \in Thread, CallSucceeds(t) \/ CallFails(t)
    PROVE  IInv'
<1> USE DEF CallSucceeds, CallFails, Goto, Carry
<1>1. TypeOK'
    BY TimeAssumption DEF IInv, TypeOK, Place, keycloak, waits, Queue
<1>2. /\ OthersSame(t) /\ pc'[t] \in {"done", "mark", "unavailable"} /\ lock' = lock
      /\ latest' = latest /\ \A s \in Thread \ {t} : left'[s] = left[s]
    BY DEF OthersSame, IInv, TypeOK, waits, Queue
<1>3. lock # t
    BY DEF IInv, LockFollowsPost, Posting
<1>4. Brought(t)' /\ ~ Posting(t)'
    BY <1>2 DEF Brought, Posting
<1>5. Paid(t)'
    <2>1. CASE pc'[t] = "mark"
        <3>1. Queue(t)
            BY <2>1 DEF IInv, TypeOK
        <3> QED
            BY <3>1, <1>1, <1>2, <1>3, QueuePays
    <2>2. CASE pc'[t] # "mark"
        BY <2>2, <1>2 DEF Paid, Queued
    <2> QED
        BY <2>1, <2>2
<1> QED
    BY <1>1, <1>2, <1>3, <1>4, <1>5, OneStep

\* A lookup that failed gets to discard, and every call ends.
LEMMA EndIInv ==
    ASSUME IInv, NEW t \in Thread, MarkUnavailable(t) \/ Respond(t)
    PROVE  IInv'
<1> USE DEF MarkUnavailable, Respond, Goto, Leave
<1>1. TypeOK'
    BY TimeAssumption DEF IInv, TypeOK, Place, Kind, keycloak, waits
<1>2. OthersSame(t) /\ pc'[t] \in {"unavailable", "idle"} /\ lock' = lock /\ latest' = latest
    BY DEF OthersSame, IInv, TypeOK, waits
<1>3. lock # t
    BY DEF IInv, LockFollowsPost, Posting
<1>4. Brought(t)' /\ ~ Posting(t)' /\ Paid(t)'
    BY <1>2 DEF Brought, Posting, Paid, Queued
<1> QED
    BY <1>1, <1>2, <1>3, <1>4, OneStep

LEMMA NextIInv == IInv /\ [Next]_vars => IInv'
<1> SUFFICES ASSUME IInv, [Next]_vars PROVE IInv'
    OBVIOUS
<1>1. CASE Outage \/ ChangeLife \/ Withdraw
    BY <1>1, KeycloakIInv
<1>2. CASE Tick
    BY <1>2, TickIInv
<1>3. ASSUME NEW t \in Thread, Work(t) PROVE IInv'
    BY <1>3, UseTokenIInv, PostIInv, GiveTokenIInv, StoreTokenIInv, TokenFailsIInv, CallIInv,
       EndIInv DEF Work
<1>4. ASSUME NEW t \in Thread, NEW k \in Kind, Begin(t, k) PROVE IInv'
    BY <1>4, BeginIInv
<1>5. CASE UNCHANGED vars
    <2> USE <1>5 DEF vars, keycloak, waits
    <2>1. TypeOK'
        BY DEF IInv, TypeOK
    <2>2. LockFollowsPost'
        BY DEF IInv, LockFollowsPost, Posting
    <2>3. ASSUME NEW t \in Thread PROVE Brought(t)' /\ Paid(t)'
        BY DEF IInv, Brought, Paid, Queued
    <2> QED
        BY <2>1, <2>2, <2>3 DEF IInv
<1> QED
    BY <1>1, <1>2, <1>3, <1>4, <1>5 DEF Next

-----------------------------------------------------------------------------
(* The theorems                                                            *)

\* The inductive invariant holds in every reachable state.
THEOREM Invariance == Spec => []IInv
<1>1. Init => IInv
    BY InitIInv
<1>2. IInv /\ [Next]_vars => IInv'
    BY NextIInv
<1> QED
    BY <1>1, <1>2, PTL DEF Spec

\* Keycloak's side, the cached token and the calls keep their types.
THEOREM TypeCorrect == Spec => []TypeOK
<1>1. IInv => TypeOK
    BY DEF IInv
<1> QED
    BY <1>1, Invariance, PTL

\* A cached token does not expire on its way, whichever clock is ahead.
THEOREM Arrival == Spec => []CachedTokensArriveInTime
<1>1. IInv => CachedTokensArriveInTime
    <2> SUFFICES ASSUME IInv, NEW t \in Thread, pc[t] = "call", carried[t].cached
                 PROVE  carried[t].left > 0
        BY DEF CachedTokensArriveInTime
    <2>1. carried[t] \in Token /\ carried[t].left > left[t] /\ left[t] \in Nat
        BY TimeAssumption DEF IInv, TypeOK, Brought
    <2> QED
        BY <2>1 DEF Token
<1> QED
    BY <1>1, Invariance, PTL

\* The wait for the client's lock is that of the token requests ahead.
THEOREM WaitPaid == Spec => []WaitIsPaidFor
<1>1. IInv => WaitIsPaidFor
    BY DEF IInv, Paid, WaitIsPaidFor
<1> QED
    BY <1>1, Invariance, PTL

\* Tokens are stored in the order in which Keycloak gave them.
THEOREM Order == Spec => LatestTokenStored
<1>1. IInv /\ [Next]_vars =>
        [\A t \in Thread : pc[t] = "reply" /\ pc'[t] = "call" => latest = t]_vars
    BY DEF IInv, Brought
<1> QED
    BY <1>1, Invariance, PTL DEF Spec, LatestTokenStored
================================================================================
