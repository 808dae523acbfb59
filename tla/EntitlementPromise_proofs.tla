----------------------- MODULE EntitlementPromise_proofs -----------------------
(***************************************************************************)
(* The cache implements EntitlementPromise, for all values of the          *)
(* constants: from the invariant of EntitlementCache_proofs, every answer  *)
(* is made of claims that were true within their bounds, and Keycloak's    *)
(* changes and the passing of time are what the promise says they are.     *)
(***************************************************************************)
EXTENDS EntitlementCache_proofs

\* Nothing is held by a principal that is not enabled, in what is found and
\* what is kept.
AbsentHoldNothing ==
    /\ \A t \in Thread : /\ found[t].granted => found[t].enabled
                         /\ pc[t] = "user" => ~ found[t].granted
    /\ \A p \in Principal :
        entry[p] # NoEntry /\ entry[p].value.granted => entry[p].value.enabled

Enabledness(b) == [fact |-> "enabled", holds |-> b]
Possession(b) == [fact |-> "entitlement", holds |-> b]

\* The claims that answers about p may be made of.
LEMMA RecentClaims ==
    ASSUME NEW p \in Principal, NEW b \in BOOLEAN
    PROVE  /\ Enabledness(b) \in Recent(p) <=>
                \/ b = enabled[p]
                \/ b = TRUE /\ sinceEnabled[p] < EnabledLag
                \/ b = FALSE /\ sinceEnabled[p] < AbsentLag
           /\ Possession(b) \in Recent(p) <=>
                b = granted[p] \/ sinceGranted[p] < GrantedLag
BY DEF Recent, Enabledness, Possession

LEMMA RecentClaimsNext ==
    ASSUME NEW p \in Principal, NEW b \in BOOLEAN
    PROVE  /\ Enabledness(b) \in Recent(p)' <=>
                \/ b = enabled'[p]
                \/ b = TRUE /\ sinceEnabled'[p] < EnabledLag
                \/ b = FALSE /\ sinceEnabled'[p] < AbsentLag
           /\ Possession(b) \in Recent(p)' <=>
                b = granted'[p] \/ sinceGranted'[p] < GrantedLag
BY DEF Recent, Enabledness, Possession

\* There are no others.
LEMMA RecentAreClaims ==
    ASSUME NEW p \in Principal
    PROVE  /\ TypeOK => Recent(p) \subseteq Promise!Claim
           /\ TypeOK' => Recent(p)' \subseteq Promise!Claim
BY DEF Recent, TypeOK, Promise!Claim, Promise!Fact

\* Sets of claims are the same if they agree on each.
LEMMA ClaimByClaim ==
    ASSUME NEW A \in SUBSET Promise!Claim, NEW B \in SUBSET Promise!Claim,
           \A b \in BOOLEAN : /\ Enabledness(b) \in A => Enabledness(b) \in B
                              /\ Possession(b) \in A => Possession(b) \in B
    PROVE  A \subseteq B
<1> SUFFICES ASSUME NEW c \in A PROVE c \in B
    OBVIOUS
<1>1. c \in [fact : {"enabled", "entitlement"}, holds : BOOLEAN]
    BY DEF Promise!Claim, Promise!Fact
<1>2. c = Enabledness(c.holds) \/ c = Possession(c.holds)
    BY <1>1 DEF Enabledness, Possession
<1> QED
    BY <1>1, <1>2

\* An answer is none of the two that are told apart from answers.
LEMMA ToldApart ==
    /\ [failed |-> TRUE] # [pending |-> TRUE]
    /\ \A e, g : [enabled |-> e, granted |-> g] # [pending |-> TRUE]
<1>1. DOMAIN [failed |-> TRUE] # DOMAIN [pending |-> TRUE]
    OBVIOUS
<1>2. \A e, g : DOMAIN [enabled |-> e, granted |-> g] # DOMAIN [pending |-> TRUE]
    OBVIOUS
<1> QED
    BY <1>1, <1>2

LEMMA AbsentInit == Init => AbsentHoldNothing
BY DEF Init, AbsentHoldNothing, Absent

\* What is found first is that the principal is enabled, and only then what it
\* holds; what is kept is what was found.
LEMMA AbsentNext ==
    IInv /\ AbsentHoldNothing /\ [Next]_vars => AbsentHoldNothing'
<1> SUFFICES ASSUME IInv, AbsentHoldNothing, [Next]_vars PROVE AbsentHoldNothing'
    OBVIOUS
<1>1. ASSUME found' = found, entry' = entry,
             \A t \in Thread : pc'[t] = "user" => pc[t] = "user"
      PROVE  AbsentHoldNothing'
    BY <1>1 DEF AbsentHoldNothing
<1>2. ASSUME NEW t \in Thread, NEW where, entry' = entry, pc' = [pc EXCEPT ![t] = where],
             where = "user" => ~ found'[t].granted,
             \/ found' = [found EXCEPT ![t] = Absent]
             \/ found' = [found EXCEPT ![t].enabled = enabled[principal[t]]]
                /\ ~ found[t].granted
             \/ found' = [found EXCEPT ![t].granted = granted[principal[t]]]
                /\ found[t].enabled
             \/ found' = [found EXCEPT ![t] = entry[principal[t]].value]
                /\ entry[principal[t]] # NoEntry /\ principal[t] \in Principal
      PROVE  AbsentHoldNothing'
    <2>1. found'[t].granted => found'[t].enabled
        BY <1>2 DEF AbsentHoldNothing, Absent, IInv, TypeOK, Value
    <2>2. \A s \in Thread \ {t} : found'[s] = found[s] /\ pc'[s] = pc[s]
        BY <1>2 DEF IInv, TypeOK
    <2>3. pc'[t] = where
        BY <1>2 DEF IInv, TypeOK
    <2> QED
        BY <1>2, <2>1, <2>2, <2>3 DEF AbsentHoldNothing
<1>3. CASE Tick
    <2>1. ASSUME NEW p \in Principal, entry'[p] # NoEntry
          PROVE  entry[p] # NoEntry /\ entry'[p].value = entry[p].value
        BY <1>3, <2>1 DEF Tick, Ageing, IInv, TypeOK
    <2>2. found' = found /\ pc' = pc
        BY <1>3 DEF Tick, work
    <2> QED
        BY <2>1, <2>2 DEF AbsentHoldNothing
<1>4. CASE OtherFailure
    BY <1>4 DEF OtherFailure, Discard, AbsentHoldNothing, work
<1>5. ASSUME NEW t \in Thread, Store(t) PROVE AbsentHoldNothing'
    <2>1. /\ found' = found /\ pc' = [pc EXCEPT ![t] = "answered"]
          /\ entry' = [entry EXCEPT
                ![principal[t]] = [value |-> found[t], left |-> LifeOf(found[t])]]
        BY <1>5 DEF Store, work, Goto
    <2>2. ASSUME NEW p \in Principal, entry'[p] # NoEntry
          PROVE  entry'[p].value.granted => entry'[p].value.enabled
        <3>1. CASE p = principal[t]
            <4>1. entry'[p] = [value |-> found[t], left |-> LifeOf(found[t])]
                BY <2>1, <3>1 DEF IInv, TypeOK
            <4>2. entry'[p].value = found[t]
                BY <4>1
            <4> QED
                BY <4>2 DEF AbsentHoldNothing
        <3>2. CASE p # principal[t]
            BY <2>1, <2>2, <3>2 DEF AbsentHoldNothing, IInv, TypeOK
        <3> QED
            BY <3>1, <3>2
    <2> QED
        BY <2>1, <2>2 DEF AbsentHoldNothing, IInv, TypeOK
<1>6. ASSUME NEW t \in Thread, MarkUnavailable(t) PROVE AbsentHoldNothing'
    BY <1>6 DEF MarkUnavailable, Discard, AbsentHoldNothing, work, Goto, IInv, TypeOK
<1>7. ASSUME NEW t \in Thread, Lookup(t) PROVE AbsentHoldNothing'
    <2>1. principal[t] \in Principal
        BY <1>7 DEF Lookup, IInv, Followed, PlaceHolds
    <2>2. CASE Unexpired(entry[principal[t]], t)
        BY <1>2, <1>7, <2>1, <2>2 DEF Lookup, Unexpired, cache, Goto
    <2>3. CASE ~ Unexpired(entry[principal[t]], t)
        <3>1. ~ found'[t].granted
            BY <1>7, <2>3 DEF Lookup, Absent, IInv, TypeOK
        <3> QED
            BY <1>2, <1>7, <2>3, <3>1 DEF Lookup, cache, Goto
    <2> QED
        BY <2>2, <2>3
<1>8. ASSUME NEW t \in Thread, ServeUser(t) PROVE AbsentHoldNothing'
    <2>1. /\ entry' = entry /\ pc' = [pc EXCEPT ![t] = "user_reply"]
          /\ found' = [found EXCEPT ![t].enabled = enabled[principal[t]]]
        BY <1>8 DEF ServeUser, cache, Goto
    <2>2. ~ found[t].granted
        BY <1>8 DEF ServeUser, AbsentHoldNothing
    <2>3. "user_reply" # "user"
        OBVIOUS
    <2> QED
        BY <1>2, <2>1, <2>2, <2>3
<1>9. ASSUME NEW t \in Thread, ServeRoles(t) PROVE AbsentHoldNothing'
    <2>1. found[t].enabled
        BY <1>9 DEF ServeRoles, IInv, Followed, PlaceHolds
    <2> QED
        BY <1>2, <1>9, <2>1 DEF ServeRoles, cache, Goto
<1>10. ASSUME NEW t \in Thread, CallFails(t) \/ Respond(t) PROVE AbsentHoldNothing'
    BY <1>2, <1>10 DEF CallFails, Respond, cache, Goto
<1>11. ASSUME NEW t \in Thread,
              \/ UserReply(t) \/ ClientReply(t) \/ RolesReply(t) \/ GroupsReply(t)
              \/ \E p \in Principal : Call(t, p)
       PROVE  AbsentHoldNothing'
    BY <1>1, <1>11 DEF UserReply, ClientReply, RolesReply, GroupsReply, Call, cache, Goto,
                       IInv, TypeOK
<1>12. CASE \/ RecreateClient \/ Outage \/ UNCHANGED vars
            \/ \E p \in Principal : SetEnabled(p) \/ SetGranted(p)
    BY <1>1, <1>12 DEF RecreateClient, Outage, vars, SetEnabled, SetGranted, cache, work
<1> QED
    BY <1>3, <1>4, <1>5, <1>6, <1>7, <1>8, <1>9, <1>10, <1>11, <1>12 DEF Next, Work

\* Whatever answer a lookup comes to is made of claims that were true lately.
LEMMA AnswerIsPromised ==
    ASSUME IInv, AbsentHoldNothing, IInv', AbsentHoldNothing', NEW t \in Thread,
           UNCHANGED <<facts, principal>>, pc[t] # "idle",
           pc[t] \notin Answered, pc' = [pc EXCEPT ![t] = "answered"],
           \A s \in Thread \ {t} : found'[s] = found[s]
    PROVE  Promise!Next
<1> DEFINE p == principal[t]
           held == IF found'[t].granted THEN {"entitlement"} ELSE {}
<1>1. p \in Principal /\ UNCHANGED <<enabled, granted, sinceEnabled, sinceGranted>>
    BY DEF IInv, Followed, PlaceHolds, facts
<1>2. pc'[t] = "answered" /\ \A s \in Thread \ {t} : pc'[s] = pc[s]
    BY DEF IInv, TypeOK
<1>3. found'[t] \in Value
    BY DEF IInv, TypeOK
<1>4. /\ found'[t].enabled /\ ~ enabled[p] => sinceEnabled[p] < EnabledLag
      /\ found'[t].enabled /\ found'[t].granted # granted[p] => sinceGranted[p] < GrantedLag
      /\ ~ found'[t].enabled /\ enabled[p] => sinceEnabled[p] < AbsentLag
    BY <1>1, <1>2 DEF IInv, Followed, EnabledFollowed, GrantedFollowed, AbsenceFollowed
<1>5. ~ found'[t].enabled => ~ found'[t].granted
    BY DEF AbsentHoldNothing
<1>6. TypeOK /\ enabled[p] \in BOOLEAN /\ granted[p] \in BOOLEAN
    BY <1>1 DEF IInv, TypeOK
<1>7. ToldTo(t)' = [enabled |-> found'[t].enabled, granted |-> held]
    BY <1>2 DEF ToldTo
<1>8. [enabled |-> found'[t].enabled, granted |-> held] \in Promise!Answers(p)
    <2>1. CASE found'[t].enabled = FALSE
        <3>1. Enabledness(FALSE) \in Recent(p)
            BY <2>1, <1>1, <1>4, <1>6, RecentClaims
        <3>2. held = {}
            BY <2>1, <1>5
        <3> QED
            BY <3>1, <3>2, <2>1, <1>1
            DEF Promise!Answers, Promise!WasLately, Promise!Absent, Enabledness
    <2>2. CASE found'[t].enabled = TRUE
        <3>1. Enabledness(TRUE) \in Recent(p)
            BY <2>2, <1>1, <1>4, <1>6, RecentClaims
        <3>2. ("entitlement" \in held) \in BOOLEAN
              /\ ("entitlement" \in held <=> found'[t].granted)
            BY <1>3 DEF Value
        <3>3. ("entitlement" \in held) = granted[p] \/ sinceGranted[p] < GrantedLag
            BY <3>2, <2>2, <1>4, <1>6, <1>3 DEF Value
        <3>4. Possession("entitlement" \in held) \in Recent(p)
            BY <3>2, <3>3, <1>1, <1>6, RecentClaims
        <3>5. held \in SUBSET {"entitlement"}
            OBVIOUS
        <3> QED
            BY <3>1, <3>4, <3>5, <2>2, <1>1
            DEF Promise!Answers, Promise!WasLately, Promise!Holder, Enabledness, Possession
    <2> QED
        BY <2>1, <2>2, <1>3 DEF Value
<1>9. ToldTo(t) = [pending |-> TRUE]
    BY DEF ToldTo, Answered
<1>10. \A s \in Thread \ {t} : ToldTo(s)' = ToldTo(s)
    BY <1>2 DEF ToldTo
<1>11. Promise!Answer(t, p)
    <2>1. [s \in Thread |-> ToldTo(s)]' =
            [[s \in Thread |-> ToldTo(s)] EXCEPT ![t] = ToldTo(t)']
        BY <1>10
    <2>2. [q \in Principal |-> Recent(q)]' = [q \in Principal |-> Recent(q)]
        BY <1>1 DEF Recent
    <2> QED
        BY <2>1, <2>2, <1>1, <1>7, <1>8, <1>9 DEF Promise!Answer
<1> QED
    BY <1>1, <1>11 DEF Promise!Next

\* The entitlements of a principal, as the promise has them.
LEMMA Holding ==
    ASSUME NEW has \in [Principal -> BOOLEAN], NEW p \in Principal
    PROVE  LET held == [q \in Principal |-> IF has[q] THEN {"entitlement"} ELSE {}]
           IN  {[fact |-> e, holds |-> e \in held[p]] : e \in {"entitlement"}}
                    = {[fact |-> "entitlement", holds |-> has[p]]}
<1> DEFINE held == [q \in Principal |-> IF has[q] THEN {"entitlement"} ELSE {}]
<1>1. ("entitlement" \in held[p]) = has[p]
    OBVIOUS
<1> QED
    BY <1>1

\* The claims that are true now, and those that will be.
LEMMA PresentClaims ==
    ASSUME NEW p \in Principal, TypeOK, TypeOK'
    PROVE  /\ Promise!Present(p) = {Enabledness(enabled[p]), Possession(granted[p])}
           /\ Promise!Present(p)' = {Enabledness(enabled'[p]), Possession(granted'[p])}
<1>1. granted \in [Principal -> BOOLEAN] /\ granted' \in [Principal -> BOOLEAN]
    BY DEF TypeOK
<1> QED
    BY <1>1, Holding DEF Promise!Present, Enabledness, Possession

\* What has been true lately grows by what is true now, where it does so claim
\* by claim.
LEMMA Added ==
    ASSUME NEW p \in Principal, TypeOK, TypeOK',
           \A b \in BOOLEAN :
                /\ Enabledness(b) \in Recent(p)' <=>
                        Enabledness(b) \in Recent(p) \/ b = enabled'[p]
                /\ Possession(b) \in Recent(p)' <=>
                        Possession(b) \in Recent(p) \/ b = granted'[p]
    PROVE  Recent(p)' = Recent(p) \cup Promise!Present(p)'
<1> DEFINE B == Recent(p) \cup Promise!Present(p)'
<1>1. enabled'[p] \in BOOLEAN /\ granted'[p] \in BOOLEAN
    BY DEF TypeOK
<1>2. Promise!Present(p)' = {Enabledness(enabled'[p]), Possession(granted'[p])}
    BY PresentClaims
<1>3. Promise!Present(p)' \subseteq Promise!Claim
    BY <1>1, <1>2 DEF Promise!Claim, Promise!Fact, Enabledness, Possession
<1>4. Recent(p)' \in SUBSET Promise!Claim /\ B \in SUBSET Promise!Claim
    BY <1>3, RecentAreClaims
<1>5. ASSUME NEW b \in BOOLEAN
      PROVE  /\ Enabledness(b) \in B <=> Enabledness(b) \in Recent(p) \/ b = enabled'[p]
             /\ Possession(b) \in B <=> Possession(b) \in Recent(p) \/ b = granted'[p]
    <2>1. \A c \in BOOLEAN : /\ Enabledness(b) = Enabledness(c) <=> b = c
                             /\ Possession(b) = Possession(c) <=> b = c
                             /\ Enabledness(b) # Possession(c)
        BY DEF Enabledness, Possession
    <2> QED
        BY <2>1, <1>1, <1>2
<1> HIDE DEF B
<1>6. Recent(p)' \subseteq B
    BY <1>4, <1>5, ClaimByClaim
<1>7. B \subseteq Recent(p)'
    BY <1>4, <1>5, ClaimByClaim
<1> QED
    BY <1>6, <1>7 DEF B

\* Keycloak changes a fact, and both claims about it are of late.
LEMMA ChangeIsPromised ==
    ASSUME IInv, IInv', NEW p \in Principal, SetEnabled(p) \/ SetGranted(p)
    PROVE  Promise!Next
<1>1. [t \in Thread |-> ToldTo(t)]' = [t \in Thread |-> ToldTo(t)]
    BY DEF SetEnabled, SetGranted, work, ToldTo
<1>2. TypeOK /\ TypeOK'
    BY DEF IInv
<1>3. 0 < EnabledLag /\ 0 < AbsentLag /\ 0 < GrantedLag
    BY Lags
<1>4. CASE SetEnabled(p)
    <2>1. /\ enabled' = [enabled EXCEPT ![p] = ~ @] /\ granted' = granted
          /\ sinceEnabled' = [sinceEnabled EXCEPT ![p] = 0] /\ sinceGranted' = sinceGranted
        BY <1>4 DEF SetEnabled
    <2>2. \A q \in Principal \ {p} : Recent(q)' = Recent(q)
        BY <2>1, <1>2 DEF Recent, TypeOK
    <2>3. sinceEnabled'[p] = 0 /\ enabled'[p] = ~ enabled[p] /\ enabled[p] \in BOOLEAN
        BY <2>1, <1>2 DEF TypeOK
    <2>4. Recent(p)' = Recent(p) \cup Promise!Present(p)'
        <3>1. ASSUME NEW b \in BOOLEAN
              PROVE  /\ Enabledness(b) \in Recent(p)'
                     /\ Enabledness(b) \in Recent(p) \/ b = enabled'[p]
                     /\ Possession(b) \in Recent(p)' <=>
                            Possession(b) \in Recent(p) \/ b = granted'[p]
            BY <2>1, <2>3, <1>3, RecentClaims, RecentClaimsNext
        <3> QED
            BY <3>1, <1>2, Added
    <2>5. Promise!Change(p, "enabled")
        BY <1>1, <2>1, <2>2, <2>4 DEF Promise!Change
    <2> QED
        BY <2>5 DEF Promise!Next, Promise!Fact
<1>5. CASE SetGranted(p)
    <2>1. /\ granted' = [granted EXCEPT ![p] = ~ @] /\ enabled' = enabled
          /\ sinceGranted' = [sinceGranted EXCEPT ![p] = 0] /\ sinceEnabled' = sinceEnabled
        BY <1>5 DEF SetGranted
    <2>2. \A q \in Principal \ {p} : Recent(q)' = Recent(q)
        BY <2>1, <1>2 DEF Recent, TypeOK
    <2>3. sinceGranted'[p] = 0 /\ granted'[p] = ~ granted[p] /\ granted[p] \in BOOLEAN
        BY <2>1, <1>2 DEF TypeOK
    <2>4. Recent(p)' = Recent(p) \cup Promise!Present(p)'
        <3>1. ASSUME NEW b \in BOOLEAN
              PROVE  /\ Possession(b) \in Recent(p)'
                     /\ Possession(b) \in Recent(p) \/ b = granted'[p]
                     /\ Enabledness(b) \in Recent(p)' <=>
                            Enabledness(b) \in Recent(p) \/ b = enabled'[p]
            BY <2>1, <2>3, <1>3, RecentClaims, RecentClaimsNext
        <3> QED
            BY <3>1, <1>2, Added
    <2>5. enabled = [enabled EXCEPT ![p] = @]
        BY <1>2 DEF TypeOK
    <2>6. [q \in Principal |-> IF granted[q] THEN {"entitlement"} ELSE {}]' =
            [[q \in Principal |-> IF granted[q] THEN {"entitlement"} ELSE {}] EXCEPT ![p] =
                IF "entitlement" \in @ THEN @ \ {"entitlement"} ELSE @ \cup {"entitlement"}]
        <3>1. \A q \in Principal \ {p} : granted'[q] = granted[q]
            BY <2>1, <1>2 DEF TypeOK
        <3>2. CASE granted[p] = TRUE
            BY <3>1, <3>2, <2>3
        <3>3. CASE granted[p] = FALSE
            BY <3>1, <3>3, <2>3
        <3> QED
            BY <3>2, <3>3, <2>3
    <2>7. [q \in Principal |-> Recent(q)]' =
            [[q \in Principal |-> Recent(q)] EXCEPT ![p] = @ \cup Promise!Present(p)']
        BY <2>2, <2>4
    <2>8. Promise!Change(p, "entitlement")
        BY <1>1, <2>1, <2>5, <2>6, <2>7 DEF Promise!Change
    <2> QED
        BY <2>8 DEF Promise!Next, Promise!Fact
<1> QED
    BY <1>4, <1>5

\* Time settles claims that have been out of date for long.
LEMMA TickIsPromised == ASSUME IInv, IInv', Tick PROVE Promise!Next
<1>1. [t \in Thread |-> ToldTo(t)]' = [t \in Thread |-> ToldTo(t)]
    BY DEF Tick, work, ToldTo
<1>2. TypeOK /\ TypeOK' /\ UNCHANGED <<enabled, granted>>
    BY DEF IInv, Tick
<1>3. ASSUME NEW p \in Principal
      PROVE  sinceEnabled'[p] >= sinceEnabled[p] /\ sinceGranted'[p] >= sinceGranted[p]
    BY Lags, <1>2 DEF Tick, Older, TypeOK
<1>4. EnabledLag \in Nat /\ AbsentLag \in Nat /\ GrantedLag \in Nat /\ MaxAge \in Nat
    BY Lags
<1>5. ASSUME NEW p \in Principal
      PROVE  /\ Recent(p)' \subseteq Recent(p)
             /\ Recent(p)' \subseteq Promise!Claim
             /\ Promise!Present(p) \subseteq Recent(p)'
    <2>1. /\ sinceEnabled[p] \in Nat /\ sinceGranted[p] \in Nat
          /\ sinceEnabled'[p] \in Nat /\ sinceGranted'[p] \in Nat
          /\ enabled[p] \in BOOLEAN /\ granted[p] \in BOOLEAN
        BY <1>2, <1>4 DEF TypeOK
    <2>2. /\ sinceEnabled'[p] < EnabledLag => sinceEnabled[p] < EnabledLag
          /\ sinceEnabled'[p] < AbsentLag => sinceEnabled[p] < AbsentLag
          /\ sinceGranted'[p] < GrantedLag => sinceGranted[p] < GrantedLag
        BY <2>1, <1>3, <1>4
    <2>3. Recent(p)' \subseteq Recent(p)
        BY <2>2, <1>2 DEF Recent
    <2>4. Recent(p)' \subseteq Promise!Claim
        BY <1>2, RecentAreClaims
    <2>5. Promise!Present(p) \subseteq Recent(p)'
        BY <2>1, <1>2, PresentClaims, RecentClaimsNext
    <2> QED
        BY <2>3, <2>4, <2>5
<1>6. Promise!Settle
    BY <1>1, <1>2, <1>5 DEF Promise!Settle
<1> QED
    BY <1>6 DEF Promise!Next

\* At first nothing but the present is of late.
LEMMA InitIsPromised == Init => Promise!Init
<1> SUFFICES ASSUME Init PROVE Promise!Init
    OBVIOUS
<1>1. TypeOK
    BY InitIInv DEF IInv
<1>2. \A t \in Thread : ToldTo(t) = [pending |-> TRUE]
    BY DEF Init, ToldTo
<1>3. ASSUME NEW p \in Principal PROVE Recent(p) = Promise!Present(p)
    <2>1. EnabledLag <= MaxAge /\ AbsentLag <= MaxAge /\ GrantedLag <= MaxAge
          /\ EnabledLag \in Nat /\ AbsentLag \in Nat /\ GrantedLag \in Nat /\ MaxAge \in Nat
        <3>1. GroupsTime(MaxPages) \in Nat /\ EnabledLag \in Nat /\ AbsentLag \in Nat
              /\ GrantedLag \in Nat /\ MaxAge \in Nat
            BY Lags
        <3> HIDE DEF GroupsTime
        <3> QED
            BY <3>1, Lags
    <2>2. sinceEnabled[p] = MaxAge /\ sinceGranted[p] = MaxAge
        BY DEF Init
    <2>3. ~ (sinceEnabled[p] < EnabledLag) /\ ~ (sinceEnabled[p] < AbsentLag)
          /\ ~ (sinceGranted[p] < GrantedLag)
        BY <2>1, <2>2
    <2>4. Recent(p) = {Enabledness(enabled[p]), Possession(granted[p])}
        <3> DEFINE B == {Enabledness(enabled[p]), Possession(granted[p])}
        <3>1. enabled[p] \in BOOLEAN /\ granted[p] \in BOOLEAN
            BY <1>1 DEF TypeOK
        <3>2. Recent(p) \in SUBSET Promise!Claim
            BY <1>1, RecentAreClaims
        <3>3. B \in SUBSET Promise!Claim
            BY <3>1 DEF Promise!Claim, Promise!Fact, Enabledness, Possession
        <3>4. ASSUME NEW b \in BOOLEAN
              PROVE  /\ Enabledness(b) \in Recent(p) <=> Enabledness(b) \in B
                     /\ Possession(b) \in Recent(p) <=> Possession(b) \in B
            <4>1. \A c \in BOOLEAN : /\ Enabledness(b) = Enabledness(c) <=> b = c
                                     /\ Possession(b) = Possession(c) <=> b = c
                                     /\ Enabledness(b) # Possession(c)
                BY DEF Enabledness, Possession
            <4> QED
                BY <4>1, <3>1, <2>3, RecentClaims
        <3> HIDE DEF B
        <3>5. Recent(p) \subseteq B
            BY <3>2, <3>3, <3>4, ClaimByClaim
        <3>6. B \subseteq Recent(p)
            BY <3>2, <3>3, <3>4, ClaimByClaim
        <3> QED
            BY <3>5, <3>6 DEF B
    <2>5. granted \in [Principal -> BOOLEAN]
        BY <1>1 DEF TypeOK
    <2> QED
        BY <2>4, <2>5, Holding DEF Promise!Present, Enabledness, Possession
<1>4. enabled \in [Principal -> BOOLEAN] /\ granted \in [Principal -> BOOLEAN]
    BY DEF Init
<1>5. [p \in Principal |-> IF granted[p] THEN {"entitlement"} ELSE {}]
        \in [Principal -> SUBSET {"entitlement"}]
    OBVIOUS
<1> QED
    BY <1>2, <1>3, <1>4, <1>5 DEF Promise!Init

\* Steps that nobody who asks can see.
LEMMA UnseenStep ==
    ASSUME UNCHANGED facts, \A t \in Thread : ToldTo(t)' = ToldTo(t)
    PROVE  UNCHANGED Promise!promiseVars
<1>1. UNCHANGED <<enabled, granted, sinceEnabled, sinceGranted>>
    BY DEF facts
<1> QED
    BY <1>1 DEF Promise!promiseVars, Recent

\* Every step is one of the promise, or is not seen.
LEMMA NextIsPromised ==
    ASSUME IInv, AbsentHoldNothing, IInv', AbsentHoldNothing', [Next]_vars
    PROVE  [Promise!Next]_(Promise!promiseVars)
<1> USE DEF Goto, service, cache, work
<1>1. CASE \E p \in Principal : SetEnabled(p) \/ SetGranted(p)
    BY <1>1, ChangeIsPromised
<1>2. CASE Tick
    BY <1>2, TickIsPromised
<1>3. CASE RecreateClient \/ Outage \/ OtherFailure \/ UNCHANGED vars
    BY <1>3, UnseenStep DEF RecreateClient, Outage, OtherFailure, vars, facts, ToldTo
<1>4. ASSUME NEW t \in Thread,
             \/ ServeUser(t) \/ UserReply(t) \/ ClientReply(t) \/ ServeRoles(t)
             \/ RolesReply(t) \/ GroupsReply(t) \/ CallFails(t)
             \/ \E p \in Principal : Call(t, p)
             \/ Lookup(t) /\ pc'[t] # "answered"
      PROVE  UNCHANGED Promise!promiseVars
    <2>1. /\ UNCHANGED facts /\ pc[t] \notin Answered /\ pc'[t] \notin Answered
          /\ \A s \in Thread \ {t} : pc'[s] = pc[s] /\ found'[s] = found[s]
        BY <1>4 DEF ServeUser, UserReply, ClientReply, ServeRoles, RolesReply, GroupsReply,
                    CallFails, Call, Lookup, IInv, TypeOK, Answered, Calling
    <2>2. \A s \in Thread : ToldTo(s)' = ToldTo(s)
        BY <2>1 DEF ToldTo, Answered
    <2> QED
        BY <2>1, <2>2, UnseenStep
<1>5. ASSUME NEW t \in Thread, Lookup(t), pc'[t] = "answered" PROVE Promise!Next
    <2>1. /\ UNCHANGED <<facts, principal>> /\ pc[t] = "lookup"
          /\ pc' = [pc EXCEPT ![t] = "answered"]
          /\ \A s \in Thread \ {t} : found'[s] = found[s]
        BY <1>5 DEF Lookup, IInv, TypeOK
    <2> QED
        BY <2>1, AnswerIsPromised DEF Answered
<1>6. ASSUME NEW t \in Thread, Store(t) PROVE Promise!Next
    <2>1. /\ UNCHANGED <<facts, principal>> /\ pc[t] = "store"
          /\ pc' = [pc EXCEPT ![t] = "answered"] /\ found' = found
        BY <1>6 DEF Store
    <2> QED
        BY <2>1, AnswerIsPromised DEF Answered
<1>7. ASSUME NEW t \in Thread, MarkUnavailable(t) PROVE Promise!Next
    <2>1. /\ UNCHANGED <<enabled, granted, sinceEnabled, sinceGranted, found>>
          /\ pc[t] = "failed" /\ pc'[t] = "unavailable"
          /\ \A s \in Thread \ {t} : pc'[s] = pc[s]
        BY <1>7 DEF MarkUnavailable, Discard, facts, IInv, TypeOK
    <2>2. principal[t] \in Principal
        BY <2>1 DEF IInv, Followed, PlaceHolds
    <2>3. ToldTo(t) = [pending |-> TRUE] /\ ToldTo(t)' = [failed |-> TRUE]
        BY <2>1 DEF ToldTo
    <2>4. \A s \in Thread \ {t} : ToldTo(s)' = ToldTo(s)
        BY <2>1 DEF ToldTo
    <2>5. \A p \in Principal : Recent(p)' = Recent(p)
        BY <2>1 DEF Recent
    <2>6. Promise!Answer(t, principal[t])
        BY <2>1, <2>3, <2>4, <2>5 DEF Promise!Answer
    <2> QED
        BY <2>2, <2>6 DEF Promise!Next
<1>8. ASSUME NEW t \in Thread, Respond(t) PROVE Promise!Next
    <2>1. /\ UNCHANGED <<enabled, granted, sinceEnabled, sinceGranted>>
          /\ pc[t] \in Answered /\ pc'[t] = "idle"
          /\ \A s \in Thread \ {t} : pc'[s] = pc[s] /\ found'[s] = found[s]
        BY <1>8 DEF Respond, facts, IInv, TypeOK
    <2>2. ToldTo(t) # [pending |-> TRUE] /\ ToldTo(t)' = [pending |-> TRUE]
        BY <2>1, ToldApart DEF ToldTo, Answered
    <2>3. \A s \in Thread \ {t} : ToldTo(s)' = ToldTo(s)
        BY <2>1 DEF ToldTo
    <2>4. \A p \in Principal : Recent(p)' = Recent(p)
        BY <2>1 DEF Recent
    <2>5. Promise!Forget(t)
        BY <2>1, <2>2, <2>3, <2>4 DEF Promise!Forget
    <2> QED
        BY <2>5 DEF Promise!Next
<1> QED
    BY <1>1, <1>2, <1>3, <1>4, <1>5, <1>6, <1>7, <1>8 DEF Next, Work

\* The cache implements EntitlementPromise, which Requests is built on.
THEOREM Implementation == Spec => ImplementsPromise
<1>1. Init => Promise!Init /\ AbsentHoldNothing
    BY InitIsPromised, AbsentInit
<1>2. IInv /\ AbsentHoldNothing /\ [Next]_vars => AbsentHoldNothing'
    BY AbsentNext
<1>3. IInv /\ AbsentHoldNothing /\ IInv' /\ AbsentHoldNothing' /\ [Next]_vars
        => [Promise!Next]_(Promise!promiseVars)
    BY NextIsPromised
<1> QED
    BY <1>1, <1>2, <1>3, Invariance, PTL DEF Spec, ImplementsPromise, Promise!Spec
================================================================================
