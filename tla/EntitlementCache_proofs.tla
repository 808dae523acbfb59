------------------------ MODULE EntitlementCache_proofs ------------------------
(***************************************************************************)
(* For any number of request threads, principals, pages and recreated      *)
(* clients, and whatever the timeouts and the two lives, either of which   *)
(* may be the longer: IInv of EntitlementCache is inductive, and with it   *)
(* no lookup is behind Keycloak by more than EnabledLag, GrantedLag and    *)
(* AbsentLag.                                                              *)
(*                                                                         *)
(* A fact that changes in Keycloak is zero ticks old, and whoever has read *)
(* it before has at most one step left in its place; every step hands its  *)
(* age and the next step's length on, Store to the entry, Lookup from it.  *)
(***************************************************************************)
EXTENDS EntitlementCache, TLAPS

\* The pages of the groups take time by the page.
LEMMA GroupsTimes ==
    /\ \A n \in Nat : GroupsTime(n) \in Nat /\ GroupsTime(n + 1) = GroupsTime(n) + CallTime
    /\ \A n \in Nat : n <= MaxPages => GroupsTime(n) <= GroupsTime(MaxPages)
    /\ GroupsTime(1) = CallTime
<1> USE TimeAssumption DEF GroupsTime
<1>1. \A n \in Nat : n * CallTime \in Nat
    OBVIOUS
<1>2. \A n \in Nat : (n + 1) * CallTime = n * CallTime + CallTime
    OBVIOUS
<1>3. ASSUME NEW n \in Nat, n <= MaxPages PROVE n * CallTime <= MaxPages * CallTime
    <2>1. (MaxPages - n) \in Nat /\ (MaxPages - n) * CallTime \in Nat
        BY <1>3, <1>1
    <2>2. (MaxPages - n) * CallTime = MaxPages * CallTime - n * CallTime
        BY <1>3
    <2> QED
        BY <2>1, <2>2, <1>1, <1>3
<1> QED
    BY <1>1, <1>2, <1>3

\* The bounds are numbers of ticks, and positive; ages are followed past them.
LEMMA Lags ==
    /\ GroupsTime(MaxPages) \in Nat
    /\ EnabledLag \in Nat \ {0} /\ GrantedLag \in Nat \ {0} /\ AbsentLag \in Nat \ {0}
    /\ MaxAge \in Nat /\ MaxAge' = MaxAge
    /\ EnabledLag < MaxAge /\ AbsentLag < MaxAge /\ GrantedLag <= EnabledLag
    /\ LongestLife \in Nat /\ TTL <= LongestLife /\ NegativeTTL <= LongestLife
<1>1. GroupsTime(MaxPages) \in Nat
    BY GroupsTimes, TimeAssumption
<1>2. /\ CallTime \in Nat \ {0} /\ LockWait \in Nat /\ TTL \in Nat \ {0}
      /\ NegativeTTL \in Nat \ {0}
    BY TimeAssumption
<1>3. EnabledLag \in Nat \ {0} /\ GrantedLag \in Nat \ {0} /\ AbsentLag \in Nat \ {0}
    BY <1>1, <1>2 DEF EnabledLag, GrantedLag, AbsentLag
<1>4. MaxAge \in Nat /\ EnabledLag < MaxAge /\ AbsentLag < MaxAge
    BY <1>3 DEF MaxAge, Larger
<1>5. MaxAge' = MaxAge
    BY DEF MaxAge, Larger, EnabledLag, AbsentLag, GroupsTime
<1>6. GrantedLag <= EnabledLag
    BY <1>1, <1>2 DEF GrantedLag, EnabledLag
<1>7. LongestLife \in Nat /\ TTL <= LongestLife /\ NegativeTTL <= LongestLife
    BY <1>2 DEF LongestLife, Larger
<1> QED
    BY <1>1, <1>3, <1>4, <1>5, <1>6, <1>7

\* The empty cache satisfies the invariant.
LEMMA InitIInv == Init => IInv
<1> SUFFICES ASSUME Init PROVE IInv
    OBVIOUS
<1>1. TypeOK
    <2>1. Absent \in Value
        BY DEF Absent, Value
    <2> QED
        BY <2>1, Lags, TimeAssumption DEF Init, TypeOK, Calling, Answered
<1>2. \A t \in Thread : Followed(t)
    BY DEF Init, Followed, PlaceHolds, EnabledFollowed, GrantedFollowed, AbsenceFollowed,
           Calling
<1>3. \A p \in Principal : EntryFollowed(p)
    BY DEF Init, EntryFollowed
<1> QED
    BY <1>1, <1>2, <1>3 DEF IInv

\* The other lookups stay as they are.
OthersStay(t) ==
    \A s \in Thread \ {t} :
        /\ pc'[s] = pc[s] /\ left'[s] = left[s]
        /\ principal'[s] = principal[s]
        /\ found'[s] = found[s] /\ page'[s] = page[s]

\* A step of one lookup that leaves Keycloak and the entries alone.
LEMMA OwnStep ==
    ASSUME IInv, NEW t \in Thread, TypeOK', Followed(t)',
           UNCHANGED <<facts, entry>>,
           OthersStay(t)
    PROVE  IInv'
<1>1. UNCHANGED <<enabled, granted, sinceEnabled, sinceGranted, entry>>
    BY DEF facts
<1>2. ASSUME NEW s \in Thread \ {t} PROVE Followed(s)'
    <2>1. PlaceHolds(s)'
        BY <1>2 DEF IInv, OthersStay, Followed, PlaceHolds
    <2>2. EnabledFollowed(s)'
        BY <1>1, <1>2 DEF IInv, OthersStay, Followed, EnabledFollowed
    <2>3. GrantedFollowed(s)'
        BY <1>1, <1>2 DEF IInv, OthersStay, Followed, GrantedFollowed
    <2>4. AbsenceFollowed(s)'
        BY <1>1, <1>2 DEF IInv, OthersStay, Followed, AbsenceFollowed
    <2> QED
        BY <2>1, <2>2, <2>3, <2>4 DEF Followed
<1>3. \A p \in Principal : EntryFollowed(p)'
    BY <1>1 DEF IInv, EntryFollowed
<1> QED
    BY <1>2, <1>3 DEF IInv

\* Keycloak enables or disables a principal: whatever was read is behind by
\* what is left of the present step or of the entry's life.
LEMMA SetEnabledIInv ==
    ASSUME IInv, NEW q \in Principal, SetEnabled(q)
    PROVE  IInv'
<1>1. /\ enabled' = [enabled EXCEPT ![q] = ~ @]
      /\ sinceEnabled' = [sinceEnabled EXCEPT ![q] = 0]
      /\ UNCHANGED <<granted, sinceGranted, client, up, entry, known, pc, principal, found,
                     uuid, page, left, overtaken>>
    BY DEF SetEnabled, cache, work
<1>2. TypeOK'
    BY <1>1, Lags DEF IInv, TypeOK
<1>3. \A p \in Principal :
        /\ p = q => sinceEnabled'[p] = 0
        /\ p # q => enabled'[p] = enabled[p] /\ sinceEnabled'[p] = sinceEnabled[p]
    BY <1>1 DEF IInv, TypeOK
<1>4. ASSUME NEW t \in Thread PROVE Followed(t)'
    <2>0. Followed(t) /\ TypeOK
        BY DEF IInv
    <2>1. PlaceHolds(t)'
        BY <1>1, <2>0 DEF Followed, PlaceHolds
    <2>2. GrantedFollowed(t)'
        BY <1>1, <2>0 DEF Followed, GrantedFollowed
    <2>3. EnabledFollowed(t)' /\ AbsenceFollowed(t)'
        <3>1. CASE pc[t] # "idle" /\ principal[t] # q
            <4>1. principal[t] \in Principal
                BY <2>0, <3>1 DEF Followed, PlaceHolds
            <4> QED
                BY <1>1, <1>3, <2>0, <3>1, <4>1 DEF Followed, EnabledFollowed, AbsenceFollowed
        <3>2. CASE pc[t] # "idle" /\ principal[t] = q
            <4>1. sinceEnabled'[principal[t]] = 0 /\ left[t] \in Nat /\ page[t] \in Nat
                BY <1>3, <2>0, <3>2 DEF TypeOK
            <4>2. GroupsTime(page[t]) \in Nat
                BY <4>1, GroupsTimes
            <4> QED
                BY <1>1, <2>0, <3>2, <4>1, <4>2, Lags, TimeAssumption
                DEF Followed, PlaceHolds, EnabledFollowed, AbsenceFollowed, Calling
        <3>3. CASE pc[t] = "idle"
            BY <1>1, <3>3 DEF EnabledFollowed, AbsenceFollowed
        <3> QED
            BY <3>1, <3>2, <3>3
    <2> QED
        BY <2>1, <2>2, <2>3 DEF Followed
<1>5. ASSUME NEW p \in Principal PROVE EntryFollowed(p)'
    <2>1. CASE p # q
        BY <1>1, <1>3, <2>1 DEF IInv, EntryFollowed
    <2>2. CASE p = q /\ entry[p] # NoEntry /\ entry[p].left > -LockWait
        <3>1. /\ sinceEnabled'[p] = 0 /\ entry[p].left \in Int
              /\ entry[p].left <= LifeOf(entry[p].value)
            BY <1>3, <2>2 DEF IInv, TypeOK, EntryFollowed
        <3>2. IF entry[p].value.enabled THEN entry[p].left <= TTL
                                        ELSE entry[p].left <= NegativeTTL
            BY <3>1 DEF LifeOf
        <3> QED
            BY <1>1, <2>2, <3>1, <3>2, Lags, TimeAssumption DEF IInv, EntryFollowed
    <2>3. CASE ~ (entry[p] # NoEntry /\ entry[p].left > -LockWait)
        BY <1>1, <2>3 DEF EntryFollowed
    <2> QED
        BY <2>1, <2>2, <2>3
<1> QED
    BY <1>2, <1>4, <1>5 DEF IInv

\* Keycloak grants or withdraws an entitlement.
LEMMA SetGrantedIInv ==
    ASSUME IInv, NEW q \in Principal, SetGranted(q)
    PROVE  IInv'
<1>1. /\ granted' = [granted EXCEPT ![q] = ~ @]
      /\ sinceGranted' = [sinceGranted EXCEPT ![q] = 0]
      /\ UNCHANGED <<enabled, sinceEnabled, client, up, entry, known, pc, principal, found,
                     uuid, page, left, overtaken>>
    BY DEF SetGranted, cache, work
<1>2. TypeOK'
    BY <1>1, Lags DEF IInv, TypeOK
<1>3. \A p \in Principal :
        /\ p = q => sinceGranted'[p] = 0
        /\ p # q => granted'[p] = granted[p] /\ sinceGranted'[p] = sinceGranted[p]
    BY <1>1 DEF IInv, TypeOK
<1>4. ASSUME NEW t \in Thread PROVE Followed(t)'
    <2>0. Followed(t) /\ TypeOK
        BY DEF IInv
    <2>1. PlaceHolds(t)'
        BY <1>1, <2>0 DEF Followed, PlaceHolds
    <2>2. EnabledFollowed(t)' /\ AbsenceFollowed(t)'
        BY <1>1, <2>0 DEF Followed, EnabledFollowed, AbsenceFollowed
    <2>3. GrantedFollowed(t)'
        <3>1. CASE pc[t] # "idle" /\ principal[t] # q
            <4>1. principal[t] \in Principal
                BY <2>0, <3>1 DEF Followed, PlaceHolds
            <4> QED
                BY <1>1, <1>3, <2>0, <3>1, <4>1 DEF Followed, GrantedFollowed
        <3>2. CASE pc[t] # "idle" /\ principal[t] = q
            <4>1. sinceGranted'[principal[t]] = 0 /\ left[t] \in Nat /\ page[t] \in Nat
                BY <1>3, <2>0, <3>2 DEF TypeOK
            <4>2. GroupsTime(page[t]) \in Nat
                BY <4>1, GroupsTimes
            <4> QED
                BY <1>1, <2>0, <3>2, <4>1, <4>2, Lags, TimeAssumption
                DEF Followed, PlaceHolds, GrantedFollowed, Calling
        <3>3. CASE pc[t] = "idle"
            BY <1>1, <3>3 DEF GrantedFollowed
        <3> QED
            BY <3>1, <3>2, <3>3
    <2> QED
        BY <2>1, <2>2, <2>3 DEF Followed
<1>5. ASSUME NEW p \in Principal PROVE EntryFollowed(p)'
    <2>1. CASE p # q
        BY <1>1, <1>3, <2>1 DEF IInv, EntryFollowed
    <2>2. CASE p = q /\ entry[p] # NoEntry /\ entry[p].left > -LockWait
        <3>1. /\ sinceGranted'[p] = 0 /\ entry[p].left \in Int
              /\ entry[p].left <= LifeOf(entry[p].value)
            BY <1>3, <2>2 DEF IInv, TypeOK, EntryFollowed
        <3>2. IF entry[p].value.enabled THEN entry[p].left <= TTL
                                        ELSE entry[p].left <= NegativeTTL
            BY <3>1 DEF LifeOf
        <3> QED
            BY <1>1, <2>2, <3>1, <3>2, Lags, TimeAssumption DEF IInv, EntryFollowed
    <2>3. CASE ~ (entry[p] # NoEntry /\ entry[p].left > -LockWait)
        BY <1>1, <2>3 DEF EntryFollowed
    <2> QED
        BY <2>1, <2>2, <2>3
<1> QED
    BY <1>2, <1>4, <1>5 DEF IInv

\* The client is recreated, Keycloak is lost or comes back.
LEMMA ServiceIInv == ASSUME IInv, RecreateClient \/ Outage PROVE IInv'
<1>1. /\ client' \in 1..MaxClients /\ up' \in BOOLEAN
      /\ UNCHANGED <<enabled, granted, sinceEnabled, sinceGranted, entry, known, pc,
                     principal, found, uuid, page, left, overtaken>>
    <2>1. CASE RecreateClient
        BY <2>1, TimeAssumption DEF RecreateClient, facts, cache, work, IInv, TypeOK
    <2>2. CASE Outage
        BY <2>2 DEF Outage, facts, cache, work, IInv, TypeOK
    <2> QED
        BY <2>1, <2>2
<1>2. TypeOK'
    BY <1>1 DEF IInv, TypeOK
<1>3. \A t \in Thread : Followed(t)'
    BY <1>1 DEF IInv, Followed, PlaceHolds, EnabledFollowed, GrantedFollowed, AbsenceFollowed
<1>4. \A p \in Principal : EntryFollowed(p)'
    BY <1>1 DEF IInv, EntryFollowed
<1> QED
    BY <1>2, <1>3, <1>4 DEF IInv

-----------------------------------------------------------------------------
(* The steps of a lookup                                                   *)

\* A lookup begins, gives up, or ends: it has nothing to be behind with.
LEMMA NothingReadIInv ==
    ASSUME IInv, NEW t \in Thread,
           CallFails(t) \/ Respond(t) \/ \E p \in Principal : Call(t, p)
    PROVE  IInv'
<1>1. PICK where \in {"idle", "lookup", "failed"} :
        /\ pc' = [pc EXCEPT ![t] = where]
        /\ where # "idle" => principal'[t] \in Principal
    BY DEF CallFails, Respond, Call, Goto, IInv, Followed, PlaceHolds, Calling, TypeOK
<1>2. /\ principal' \in [Thread -> Principal \cup {NoPrincipal}]
      /\ found' \in [Thread -> Value]
      /\ uuid' \in [Thread -> 0..MaxClients]
      /\ page' \in [Thread -> 0..MaxPages]
      /\ left' \in [Thread -> Nat]
      /\ overtaken' \in SUBSET Thread
      /\ \A s \in Thread \ {t} :
            /\ left'[s] = left[s] /\ principal'[s] = principal[s]
            /\ found'[s] = found[s] /\ page'[s] = page[s]
      /\ UNCHANGED <<facts, client, up, entry, known>>
    <2>1. Absent \in Value
        BY DEF Absent, Value
    <2> QED
        BY <2>1, TimeAssumption
        DEF CallFails, Respond, Call, Goto, IInv, TypeOK, service, cache, work
<1>3. TypeOK'
    BY <1>1, <1>2 DEF IInv, TypeOK, facts
<1>4. /\ pc'[t] = where /\ \A s \in Thread \ {t} : pc'[s] = pc[s]
    BY <1>1 DEF IInv, TypeOK
<1>5. Followed(t)'
    BY <1>1, <1>4 DEF Followed, PlaceHolds, EnabledFollowed, GrantedFollowed, AbsenceFollowed,
                      Calling
<1> QED
    BY <1>2, <1>3, <1>4, <1>5, OwnStep DEF OthersStay

\* A live entry is behind by less than what the clock's reading adds to it.
LEMMA LookupIInv ==
    ASSUME IInv, NEW t \in Thread, Lookup(t)
    PROVE  IInv'
<1> DEFINE p == principal[t]
           e == entry[p]
<1>1. /\ pc[t] = "lookup" /\ p \in Principal /\ left[t] \in Nat
      /\ UNCHANGED <<enabled, granted, sinceEnabled, sinceGranted, client, up, entry, known,
                     principal, uuid, page, overtaken>>
    BY DEF Lookup, IInv, Followed, PlaceHolds, TypeOK, service, facts, cache
<1>2. CASE Unexpired(e, t)
    <2>1. /\ found' = [found EXCEPT ![t] = e.value]
          /\ pc' = [pc EXCEPT ![t] = "answered"] /\ left' = [left EXCEPT ![t] = 0]
        BY <1>2 DEF Lookup, Goto
    <2>2. /\ e # NoEntry /\ e.value \in Value /\ e.left \in Int
          /\ e.left > left[t] - LockWait /\ e.left > -LockWait
        BY <1>1, <1>2, TimeAssumption DEF Unexpired, IInv, TypeOK
    <2>3. TypeOK'
        BY <1>1, <2>1, <2>2 DEF IInv, TypeOK, Answered
    <2>4. /\ pc'[t] = "answered" /\ found'[t] = e.value /\ principal'[t] = p
          /\ OthersStay(t)
        BY <1>1, <2>1 DEF IInv, TypeOK, OthersStay
    <2>5. /\ sinceEnabled[p] \in Nat /\ sinceGranted[p] \in Nat
          /\ EntryFollowed(p)
        BY <1>1 DEF IInv, TypeOK
    <2>6. e.value.enabled /\ ~ enabled[p] => sinceEnabled[p] < EnabledLag
        BY <2>2, <2>5, Lags, TimeAssumption DEF EntryFollowed, EnabledLag
    <2>7. e.value.enabled /\ e.value.granted # granted[p] => sinceGranted[p] < GrantedLag
        BY <2>2, <2>5, Lags, TimeAssumption DEF EntryFollowed, GrantedLag
    <2>8. ~ e.value.enabled /\ enabled[p] => sinceEnabled[p] < AbsentLag
        BY <2>2, <2>5, Lags, TimeAssumption DEF EntryFollowed, AbsentLag
    <2>9. PlaceHolds(t)'
        BY <1>1, <2>4 DEF PlaceHolds, Calling
    <2>10. EnabledFollowed(t)'
        BY <1>1, <2>4, <2>6 DEF EnabledFollowed
    <2>11. GrantedFollowed(t)'
        BY <1>1, <2>4, <2>7 DEF GrantedFollowed
    <2>12. AbsenceFollowed(t)'
        BY <1>1, <2>4, <2>8 DEF AbsenceFollowed
    <2> QED
        BY <1>1, <2>3, <2>4, <2>9, <2>10, <2>11, <2>12, OwnStep DEF facts, Followed
<1>3. CASE ~ Unexpired(e, t)
    <2>1. /\ found' = [found EXCEPT ![t] = Absent]
          /\ pc' = [pc EXCEPT ![t] = "user"] /\ left' = [left EXCEPT ![t] = CallTime]
        BY <1>3 DEF Lookup, Goto
    <2>2. Absent \in Value
        BY DEF Absent, Value
    <2>3. TypeOK'
        BY <1>1, <2>1, <2>2, TimeAssumption DEF IInv, TypeOK, Calling
    <2>4. /\ pc'[t] = "user" /\ left'[t] = CallTime
          /\ OthersStay(t)
        BY <1>1, <2>1 DEF IInv, TypeOK, OthersStay
    <2>5. Followed(t)'
        BY <1>1, <2>4, TimeAssumption
        DEF Followed, PlaceHolds, EnabledFollowed, GrantedFollowed, AbsenceFollowed
    <2> QED
        BY <1>1, <2>3, <2>4, <2>5, OwnStep DEF facts
<1> QED
    BY <1>2, <1>3

\* What every step of a fetch has in common.
LEMMA FetchSteps ==
    ASSUME IInv, NEW t \in Thread, NEW where, NEW ticks, Goto(t, where, ticks),
           pc[t] # "idle", principal' = principal,
           \A s \in Thread \ {t} : found'[s] = found[s] /\ page'[s] = page[s]
    PROVE  /\ pc'[t] = where /\ left'[t] = ticks
           /\ principal[t] \in Principal /\ principal'[t] = principal[t]
           /\ left[t] \in Nat /\ page[t] \in 0..MaxPages
           /\ sinceEnabled[principal[t]] \in Nat /\ sinceGranted[principal[t]] \in Nat
           /\ OthersStay(t)
<1>1. principal[t] \in Principal
    BY DEF IInv, Followed, PlaceHolds
<1> QED
    BY <1>1 DEF IInv, TypeOK, Goto, OthersStay

\* Keycloak tells whether the principal is enabled: as of now.
LEMMA ServeUserIInv ==
    ASSUME IInv, NEW t \in Thread, ServeUser(t)
    PROVE  IInv'
<1> DEFINE p == principal[t]
<1>1. /\ pc[t] = "user" /\ Goto(t, "user_reply", left[t])
      /\ found' = [found EXCEPT ![t].enabled = enabled[p]]
      /\ UNCHANGED <<enabled, granted, sinceEnabled, sinceGranted, client, up, entry, known,
                     principal, uuid, page, overtaken>>
    BY DEF ServeUser, service, facts, cache
<1>2. \A s \in Thread \ {t} : found'[s] = found[s] /\ page'[s] = page[s]
    BY <1>1 DEF IInv, TypeOK
<1>3. /\ pc'[t] = "user_reply" /\ left'[t] = left[t] /\ p \in Principal
      /\ principal'[t] = p /\ left[t] \in Nat
      /\ OthersStay(t)
    BY <1>1, <1>2, FetchSteps
<1>4. enabled[p] \in BOOLEAN /\ found[t] \in Value
    BY <1>3 DEF IInv, TypeOK
<1>5. found'[t] = [found[t] EXCEPT !.enabled = enabled[p]]
    BY <1>1 DEF IInv, TypeOK
<1>6. found'[t].enabled = enabled[p] /\ found'[t] \in Value
    BY <1>4, <1>5 DEF Value
<1>7. TypeOK'
    <2>1. found' \in [Thread -> Value]
        BY <1>1, <1>2, <1>6 DEF IInv, TypeOK
    <2>2. pc' = [pc EXCEPT ![t] = "user_reply"] /\ left' = [left EXCEPT ![t] = left[t]]
        BY <1>1 DEF Goto
    <2> QED
        BY <1>1, <2>1, <2>2 DEF IInv, TypeOK, Calling
<1>8. PlaceHolds(t)'
    BY <1>1, <1>3 DEF IInv, Followed, PlaceHolds, Calling
<1>9. EnabledFollowed(t)' /\ AbsenceFollowed(t)'
    BY <1>1, <1>3, <1>6 DEF EnabledFollowed, AbsenceFollowed
<1>10. GrantedFollowed(t)'
    BY <1>3 DEF GrantedFollowed
<1> QED
    BY <1>1, <1>3, <1>7, <1>8, <1>9, <1>10, OwnStep DEF facts, Followed

\* The reply is looked at: a principal that is not enabled is stored so, the
\* others are asked about further.
LEMMA UserReplyIInv ==
    ASSUME IInv, NEW t \in Thread, UserReply(t)
    PROVE  IInv'
<1>1. /\ pc[t] = "user_reply"
      /\ UNCHANGED <<enabled, granted, sinceEnabled, sinceGranted, client, up, entry, known,
                     principal, found, page, overtaken>>
      /\ uuid' \in [Thread -> 0..MaxClients]
    BY DEF UserReply, service, facts, cache, IInv, TypeOK
<1>2. CASE ~ found[t].enabled
    <2>1. Goto(t, "store", LockWait)
        BY <1>2 DEF UserReply
    <2>2. /\ pc'[t] = "store" /\ left'[t] = LockWait /\ principal[t] \in Principal
          /\ principal'[t] = principal[t] /\ left[t] \in Nat
          /\ sinceEnabled[principal[t]] \in Nat
          /\ OthersStay(t)
        BY <1>1, <2>1, FetchSteps
    <2>3. TypeOK'
        BY <1>1, <2>1, TimeAssumption DEF Goto, IInv, TypeOK
    <2>4. PlaceHolds(t)'
        BY <2>2, TimeAssumption DEF PlaceHolds, Calling
    <2>5. EnabledFollowed(t)' /\ GrantedFollowed(t)'
        BY <1>1, <1>2 DEF EnabledFollowed, GrantedFollowed
    <2>6. AbsenceFollowed(t)'
        BY <1>1, <2>2, TimeAssumption DEF IInv, Followed, AbsenceFollowed
    <2> QED
        BY <1>1, <2>2, <2>3, <2>4, <2>5, <2>6, OwnStep DEF facts, Followed
<1>3. CASE found[t].enabled
    <2>1. PICK where \in {"client", "roles"} : Goto(t, where, CallTime)
        BY <1>3 DEF UserReply
    <2>2. /\ pc'[t] = where /\ left'[t] = CallTime /\ principal[t] \in Principal
          /\ principal'[t] = principal[t] /\ left[t] \in Nat
          /\ sinceEnabled[principal[t]] \in Nat
          /\ OthersStay(t)
        BY <1>1, <2>1, FetchSteps
    <2>3. TypeOK'
        BY <1>1, <2>1, TimeAssumption DEF Goto, IInv, TypeOK, Calling
    <2>4. PlaceHolds(t)'
        BY <1>1, <1>3, <2>2, TimeAssumption DEF PlaceHolds, Calling
    <2>5. EnabledFollowed(t)'
        BY <1>1, <2>2, TimeAssumption DEF IInv, Followed, EnabledFollowed
    <2>6. GrantedFollowed(t)' /\ AbsenceFollowed(t)'
        BY <1>1, <1>3, <2>2 DEF GrantedFollowed, AbsenceFollowed
    <2> QED
        BY <1>1, <2>2, <2>3, <2>4, <2>5, <2>6, OwnStep DEF facts, Followed
<1> QED
    BY <1>2, <1>3

\* The client's identifier is learnt.
LEMMA ClientReplyIInv ==
    ASSUME IInv, NEW t \in Thread, ClientReply(t)
    PROVE  IInv'
<1>1. /\ pc[t] = "client" /\ Goto(t, "roles", CallTime)
      /\ UNCHANGED <<enabled, granted, sinceEnabled, sinceGranted, client, up, entry,
                     principal, found, page, overtaken>>
      /\ uuid' \in [Thread -> 0..MaxClients] /\ known' \in 0..MaxClients
    BY TimeAssumption DEF ClientReply, service, facts, IInv, TypeOK
<1>2. /\ pc'[t] = "roles" /\ left'[t] = CallTime /\ principal[t] \in Principal
      /\ principal'[t] = principal[t] /\ left[t] \in Nat
      /\ sinceEnabled[principal[t]] \in Nat
      /\ OthersStay(t)
    BY <1>1, FetchSteps
<1>3. TypeOK'
    BY <1>1, TimeAssumption DEF Goto, IInv, TypeOK, Calling
<1>4. found[t].enabled
    BY <1>1 DEF IInv, Followed, PlaceHolds
<1>5. PlaceHolds(t)'
    BY <1>1, <1>2, <1>4, TimeAssumption DEF PlaceHolds, Calling
<1>6. EnabledFollowed(t)'
    BY <1>1, <1>2, TimeAssumption DEF IInv, Followed, EnabledFollowed
<1>7. GrantedFollowed(t)' /\ AbsenceFollowed(t)'
    BY <1>2 DEF GrantedFollowed, AbsenceFollowed
<1> QED
    BY <1>1, <1>2, <1>3, <1>5, <1>6, <1>7, OwnStep DEF facts, Followed

\* Keycloak tells the roles, as of now, or refuses an identifier gone stale.
LEMMA ServeRolesIInv ==
    ASSUME IInv, NEW t \in Thread, ServeRoles(t)
    PROVE  IInv'
<1> DEFINE p == principal[t]
<1>1. /\ pc[t] = "roles"
      /\ UNCHANGED <<enabled, granted, sinceEnabled, sinceGranted, client, up, entry, known,
                     principal, uuid, page, overtaken>>
    BY DEF ServeRoles, service, facts, cache
<1>2. CASE uuid[t] = client
    <2>1. /\ Goto(t, "roles_reply", left[t])
          /\ found' = [found EXCEPT ![t].granted = granted[p]]
        BY <1>2 DEF ServeRoles
    <2>2. \A s \in Thread \ {t} : found'[s] = found[s] /\ page'[s] = page[s]
        BY <1>1, <2>1 DEF IInv, TypeOK
    <2>3. /\ pc'[t] = "roles_reply" /\ left'[t] = left[t] /\ p \in Principal
          /\ principal'[t] = p /\ OthersStay(t)
        BY <1>1, <2>1, <2>2, FetchSteps
    <2>4. granted[p] \in BOOLEAN /\ found[t] \in Value
        BY <2>3 DEF IInv, TypeOK
    <2>5. found'[t] = [found[t] EXCEPT !.granted = granted[p]]
        BY <2>1 DEF IInv, TypeOK
    <2>6. /\ found'[t] \in Value /\ found'[t].granted = granted[p]
          /\ found'[t].enabled = found[t].enabled
        BY <2>4, <2>5 DEF Value
    <2>7. TypeOK'
        <3>1. found' \in [Thread -> Value]
            BY <2>1, <2>2, <2>6 DEF IInv, TypeOK
        <3>2. pc' = [pc EXCEPT ![t] = "roles_reply"] /\ left' = [left EXCEPT ![t] = left[t]]
            BY <2>1 DEF Goto
        <3> QED
            BY <1>1, <3>1, <3>2 DEF IInv, TypeOK, Calling
    <2>8. PlaceHolds(t)'
        BY <1>1, <2>3, <2>6 DEF IInv, Followed, PlaceHolds, Calling
    <2>9. EnabledFollowed(t)'
        BY <1>1, <2>3, <2>6 DEF IInv, Followed, EnabledFollowed
    <2>10. GrantedFollowed(t)'
        BY <1>1, <2>3, <2>6 DEF GrantedFollowed
    <2>11. AbsenceFollowed(t)'
        BY <2>3 DEF AbsenceFollowed
    <2> QED
        BY <1>1, <2>3, <2>7, <2>8, <2>9, <2>10, <2>11, OwnStep DEF facts, Followed
<1>3. CASE uuid[t] # client
    <2>1. /\ Goto(t, "failed", LockWait)
          /\ found' = [found EXCEPT ![t] = Absent]
        BY <1>3 DEF ServeRoles
    <2>2. \A s \in Thread \ {t} : found'[s] = found[s] /\ page'[s] = page[s]
        BY <1>1, <2>1 DEF IInv, TypeOK
    <2>3. /\ pc'[t] = "failed" /\ left'[t] = LockWait /\ p \in Principal
          /\ principal'[t] = p /\ OthersStay(t)
        BY <1>1, <2>1, <2>2, FetchSteps
    <2>4. Absent \in Value
        BY DEF Absent, Value
    <2>5. TypeOK'
        BY <1>1, <2>1, <2>4, TimeAssumption DEF Goto, IInv, TypeOK
    <2>6. Followed(t)'
        BY <2>3 DEF Followed, PlaceHolds, EnabledFollowed, GrantedFollowed, AbsenceFollowed,
                    Calling
    <2> QED
        BY <1>1, <2>3, <2>5, <2>6, OwnStep DEF facts
<1> QED
    BY <1>2, <1>3

\* The roles are followed by the groups, page by page, each a call more.
LEMMA PageIInv ==
    ASSUME IInv, NEW t \in Thread, RolesReply(t) \/ GroupsReply(t)
    PROVE  IInv'
<1> DEFINE p == principal[t]
<1>1. /\ UNCHANGED <<enabled, granted, sinceEnabled, sinceGranted, client, up, entry, known,
                     principal, found, uuid, overtaken>>
      /\ page' = [page EXCEPT ![t] = page'[t]]
      /\ pc[t] \in {"roles_reply", "groups"}
    BY DEF RolesReply, GroupsReply, service, facts, cache, IInv, TypeOK
<1>2. \A s \in Thread \ {t} : found'[s] = found[s] /\ page'[s] = page[s]
    BY <1>1 DEF IInv, TypeOK
<1>3. /\ found[t].enabled /\ page[t] \in 0..MaxPages /\ p \in Principal
      /\ left[t] \in Nat /\ sinceEnabled[p] \in Nat /\ sinceGranted[p] \in Nat
    BY <1>1 DEF IInv, Followed, PlaceHolds, TypeOK
<1>4. MaxPages \in Nat /\ CallTime \in Nat /\ LockWait \in Nat
    BY TimeAssumption
<1>5. CASE Goto(t, "groups", CallTime)
    <2>1. \/ /\ pc[t] = "roles_reply" /\ page'[t] = 1
          \/ /\ pc[t] = "groups" /\ page'[t] = page[t] + 1 /\ page[t] < MaxPages
        <3>1. pc' = [pc EXCEPT ![t] = "groups"]
            BY <1>5 DEF Goto
        <3>2. pc'[t] # "store"
            BY <3>1 DEF IInv, TypeOK
        <3> QED
            BY <3>2, <1>1 DEF RolesReply, GroupsReply, Goto, IInv, TypeOK
    <2>2. /\ pc'[t] = "groups" /\ left'[t] = CallTime
          /\ principal'[t] = p /\ OthersStay(t)
        BY <1>1, <1>2, <1>5, FetchSteps
    <2>3. page'[t] \in 0..MaxPages
        BY <1>3, <2>1, TimeAssumption
    <2>4. TypeOK'
        BY <1>1, <1>5, <2>3, TimeAssumption DEF Goto, IInv, TypeOK, Calling
    <2>5. /\ GroupsTime(page'[t]) \in Nat
          /\ \/ pc[t] = "roles_reply" /\ GroupsTime(page'[t]) = CallTime
             \/ pc[t] = "groups" /\ GroupsTime(page'[t]) = GroupsTime(page[t]) + CallTime
          /\ GroupsTime(page[t]) \in Nat
        <3>1. page[t] \in Nat /\ page'[t] \in Nat
            BY <1>3, <1>4, <2>3
        <3>2. GroupsTime(page[t]) \in Nat /\ GroupsTime(page'[t]) \in Nat
            BY <3>1, GroupsTimes
        <3>3. GroupsTime(page[t] + 1) = GroupsTime(page[t]) + CallTime
            BY <3>1, GroupsTimes
        <3>4. GroupsTime(1) = CallTime
            BY GroupsTimes
        <3> QED
            BY <2>1, <3>2, <3>3, <3>4
    <2>6. PlaceHolds(t)'
        BY <1>1, <1>3, <1>4, <2>2 DEF PlaceHolds, Calling
    <2>7. EnabledFollowed(t)'
        <3> SUFFICES ASSUME ~ enabled[p]
                     PROVE  sinceEnabled[p] + CallTime <= 3 * CallTime + GroupsTime(page'[t])
            BY <1>1, <2>2 DEF EnabledFollowed, GroupsTime
        <3>1. EnabledFollowed(t)
            BY DEF IInv, Followed
        <3> QED
            BY <3>1, <1>1, <1>3, <1>4, <2>5 DEF EnabledFollowed
    <2>8. GrantedFollowed(t)'
        <3> SUFFICES ASSUME found[t].granted # granted[p]
                     PROVE  sinceGranted[p] + CallTime <= CallTime + GroupsTime(page'[t])
            BY <1>1, <2>2 DEF GrantedFollowed, GroupsTime
        <3>1. GrantedFollowed(t)
            BY DEF IInv, Followed
        <3> QED
            BY <3>1, <1>1, <1>3, <1>4, <2>5 DEF GrantedFollowed
    <2>9. AbsenceFollowed(t)'
        BY <2>2 DEF AbsenceFollowed
    <2> QED
        BY <1>1, <2>2, <2>4, <2>6, <2>7, <2>8, <2>9, OwnStep DEF facts, Followed
<1>6. CASE Goto(t, "store", LockWait)
    <2>1. pc[t] = "groups" /\ page'[t] = 0
        <3>1. pc' = [pc EXCEPT ![t] = "store"]
            BY <1>6 DEF Goto
        <3>2. pc'[t] # "groups"
            BY <3>1 DEF IInv, TypeOK
        <3> QED
            BY <3>2, <1>1 DEF RolesReply, GroupsReply, Goto, IInv, TypeOK
    <2>2. /\ pc'[t] = "store" /\ left'[t] = LockWait
          /\ principal'[t] = p /\ OthersStay(t)
        BY <1>1, <1>2, <1>6, FetchSteps
    <2>3. TypeOK'
        BY <1>1, <1>6, <2>1, TimeAssumption DEF Goto, IInv, TypeOK
    <2>4. /\ GroupsTime(page[t]) \in Nat /\ GroupsTime(MaxPages) \in Nat
          /\ GroupsTime(page[t]) <= GroupsTime(MaxPages)
        <3>1. page[t] \in Nat /\ page[t] <= MaxPages
            BY <1>3, <1>4
        <3> QED
            BY <3>1, <1>4, GroupsTimes, Zenon
    <2>5. PlaceHolds(t)'
        BY <1>1, <1>3, <1>4, <2>2 DEF PlaceHolds, Calling
    <2>6. EnabledFollowed(t)' /\ GrantedFollowed(t)'
        <3>1. EnabledFollowed(t) /\ GrantedFollowed(t)
            BY DEF IInv, Followed
        <3>2. GroupsTime(MaxPages)' = GroupsTime(MaxPages)
            BY DEF GroupsTime
        <3> QED
            BY <3>1, <3>2, <1>1, <1>3, <1>4, <2>1, <2>2, <2>4
            DEF EnabledFollowed, GrantedFollowed
    <2>7. AbsenceFollowed(t)'
        BY <1>1, <1>3, <2>2 DEF AbsenceFollowed
    <2> QED
        BY <1>1, <2>2, <2>3, <2>5, <2>6, <2>7, OwnStep DEF facts, Followed
<1> QED
    BY <1>5, <1>6 DEF RolesReply, GroupsReply

\* What was found becomes the entry, as far behind as it is, for a life.
LEMMA StoreIInv ==
    ASSUME IInv, NEW t \in Thread, Store(t)
    PROVE  IInv'
<1> DEFINE p == principal[t]
           v == found[t]
<1>1. /\ pc[t] = "store" /\ Goto(t, "answered", 0)
      /\ entry' = [entry EXCEPT ![p] = [value |-> v, left |-> LifeOf(v)]]
      /\ UNCHANGED <<enabled, granted, sinceEnabled, sinceGranted, client, up, known,
                     principal, found, uuid, page, overtaken>>
    BY DEF Store, service, facts, work
<1>2. /\ pc'[t] = "answered" /\ left'[t] = 0 /\ p \in Principal /\ OthersStay(t)
      /\ principal'[t] = p /\ found'[t] = v /\ left[t] \in Nat
      /\ sinceEnabled[p] \in Nat /\ sinceGranted[p] \in Nat
    BY <1>1, FetchSteps
<1>3. /\ v \in Value /\ Followed(t)
      /\ v.enabled => LifeOf(v) = TTL
      /\ ~ v.enabled => LifeOf(v) = NegativeTTL
      /\ LifeOf(v) \in (-LockWait)..LongestLife
    BY TimeAssumption, Lags DEF IInv, TypeOK, Value, LifeOf
<1>4. /\ TTL \in Nat \ {0} /\ NegativeTTL \in Nat \ {0} /\ LockWait \in Nat
      /\ CallTime \in Nat /\ GroupsTime(MaxPages) \in Nat
    BY TimeAssumption, Lags
<1>5. /\ v.enabled /\ ~ enabled[p] =>
            sinceEnabled[p] <= 3 * CallTime + GroupsTime(MaxPages) + LockWait
      /\ v.enabled /\ v.granted # granted[p] =>
            sinceGranted[p] <= CallTime + GroupsTime(MaxPages) + LockWait
      /\ ~ v.enabled /\ enabled[p] => sinceEnabled[p] <= CallTime + LockWait
    BY <1>1, <1>2, <1>3, <1>4 DEF Followed, EnabledFollowed, GrantedFollowed, AbsenceFollowed
<1>6. TypeOK'
    <2>1. [value |-> v, left |-> LifeOf(v)] \in [value : Value, left : (-LockWait)..LongestLife]
        BY <1>3
    <2>2. entry' \in [Principal -> [value : Value, left : (-LockWait)..LongestLife] \cup {NoEntry}]
        BY <1>1, <2>1 DEF IInv, TypeOK
    <2> QED
        BY <1>1, <2>2 DEF Goto, IInv, TypeOK, Answered
<1>7. Followed(t)'
    <2>1. PlaceHolds(t)'
        BY <1>2 DEF PlaceHolds, Calling
    <2>2. EnabledFollowed(t)'
        BY <1>1, <1>2, <1>4, <1>5 DEF EnabledFollowed, EnabledLag
    <2>3. GrantedFollowed(t)'
        BY <1>1, <1>2, <1>4, <1>5 DEF GrantedFollowed, GrantedLag
    <2>4. AbsenceFollowed(t)'
        BY <1>1, <1>2, <1>4, <1>5 DEF AbsenceFollowed, AbsentLag
    <2> QED
        BY <2>1, <2>2, <2>3, <2>4 DEF Followed
<1>8. ASSUME NEW s \in Thread \ {t} PROVE Followed(s)'
    BY <1>1, <1>2
    DEF OthersStay, IInv, Followed, PlaceHolds, EnabledFollowed, GrantedFollowed,
        AbsenceFollowed
<1>9. ASSUME NEW q \in Principal PROVE EntryFollowed(q)'
    <2>1. CASE q # p
        <3>1. entry'[q] = entry[q]
            BY <1>1, <2>1 DEF IInv, TypeOK
        <3> QED
            BY <1>1, <3>1 DEF IInv, EntryFollowed
    <2>2. CASE q = p
        <3>1. entry'[q] = [value |-> v, left |-> LifeOf(v)]
            BY <1>1, <2>2 DEF IInv, TypeOK
        <3>2. entry'[q].value = v /\ entry'[q].left = LifeOf(v)
            BY <3>1
        <3>3. /\ LifeOf(v) <= LifeOf(v)
              /\ LifeOf(entry'[q].value) = LifeOf(v)
            BY <1>3, <1>4, <3>2
        <3>4. /\ v.enabled /\ ~ enabled[p] =>
                    sinceEnabled[p] + LifeOf(v) <=
                        3 * CallTime + GroupsTime(MaxPages) + LockWait + TTL
              /\ v.enabled /\ v.granted # granted[p] =>
                    sinceGranted[p] + LifeOf(v) <=
                        CallTime + GroupsTime(MaxPages) + LockWait + TTL
              /\ ~ v.enabled /\ enabled[p] =>
                    sinceEnabled[p] + LifeOf(v) <= CallTime + LockWait + NegativeTTL
            BY <1>2, <1>3, <1>4, <1>5
        <3>5. GroupsTime(MaxPages)' = GroupsTime(MaxPages)
            BY DEF GroupsTime
        <3> QED
            BY <1>1, <2>2, <3>2, <3>3, <3>4, <3>5 DEF EntryFollowed
    <2> QED
        BY <2>1, <2>2
<1> QED
    BY <1>6, <1>7, <1>8, <1>9 DEF IInv

\* The entries are discarded, by a lookup that failed or by another failure.
LEMMA DiscardIInv ==
    ASSUME IInv, OtherFailure \/ \E t \in Thread : MarkUnavailable(t)
    PROVE  IInv'
<1>1. /\ entry' = [p \in Principal |-> NoEntry]
      /\ UNCHANGED <<enabled, granted, sinceEnabled, sinceGranted, client, up, known,
                     principal, found, uuid, page>>
      /\ overtaken' \in SUBSET Thread
    BY DEF OtherFailure, MarkUnavailable, Discard, service, facts, work
<1>2. /\ pc' \in [Thread -> {"idle", "lookup", "store", "failed"} \cup Calling \cup Answered]
      /\ left' \in [Thread -> Nat]
      /\ \A s \in Thread :
            \/ pc'[s] = pc[s] /\ left'[s] = left[s]
            \/ pc[s] = "failed" /\ pc'[s] = "unavailable"
    BY DEF OtherFailure, MarkUnavailable, Goto, IInv, TypeOK, Answered
<1>3. TypeOK'
    BY <1>1, <1>2 DEF IInv, TypeOK
<1>4. ASSUME NEW s \in Thread PROVE Followed(s)'
    BY <1>1, <1>2
    DEF IInv, Followed, PlaceHolds, EnabledFollowed, GrantedFollowed, AbsenceFollowed, Calling
<1>5. \A p \in Principal : EntryFollowed(p)'
    BY <1>1 DEF EntryFollowed
<1> QED
    BY <1>3, <1>4, <1>5 DEF IInv

-----------------------------------------------------------------------------
\* A tick passes: what ages a fact runs down the steps and the lives.
LEMMA TickIInv == ASSUME IInv, Tick PROVE IInv'
<1>1. /\ \A t \in Thread : Waiting(t)
      /\ sinceEnabled' = Older(sinceEnabled) /\ sinceGranted' = Older(sinceGranted)
      /\ entry' = [p \in Principal |-> Ageing(entry[p])]
      /\ left' = [t \in Thread |-> IF left[t] > 0 THEN left[t] - 1 ELSE 0]
      /\ UNCHANGED <<enabled, granted, client, up, known, pc, principal, found, uuid, page,
                     overtaken>>
    BY DEF Tick, work
<1>2. ASSUME NEW p \in Principal
      PROVE  /\ sinceEnabled[p] \in Nat /\ sinceEnabled'[p] \in 0..MaxAge
             /\ sinceGranted[p] \in Nat /\ sinceGranted'[p] \in 0..MaxAge
             /\ sinceEnabled'[p] <= sinceEnabled[p] + 1
             /\ sinceGranted'[p] <= sinceGranted[p] + 1
    BY <1>1, Lags DEF Older, IInv, TypeOK
<1>3. ASSUME NEW p \in Principal, entry[p] # NoEntry
      PROVE  /\ entry[p].left \in (-LockWait)..LongestLife /\ entry[p].value \in Value
             /\ \/ entry[p].left = -LockWait /\ entry'[p] = entry[p]
                \/ /\ entry[p].left > -LockWait
                   /\ entry'[p] = [entry[p] EXCEPT !.left = @ - 1]
                   /\ entry'[p].value = entry[p].value
                   /\ entry'[p].left = entry[p].left - 1
    <2>1. entry[p] \in [value : Value, left : (-LockWait)..LongestLife]
        BY <1>3 DEF IInv, TypeOK
    <2>2. entry'[p] = IF entry[p].left = -LockWait
                      THEN entry[p] ELSE [entry[p] EXCEPT !.left = @ - 1]
        BY <1>1, <1>3 DEF Ageing
    <2> QED
        BY <2>1, <2>2, TimeAssumption
<1>4. ASSUME NEW p \in Principal, entry[p] = NoEntry PROVE entry'[p] = NoEntry
    BY <1>1, <1>4 DEF Ageing
<1>5. TypeOK'
    <2>1. sinceEnabled' \in [Principal -> 0..MaxAge] /\ sinceGranted' \in [Principal -> 0..MaxAge]
        BY <1>1, <1>2 DEF Older
    <2>2. ASSUME NEW p \in Principal
          PROVE  entry'[p] \in [value : Value, left : (-LockWait)..LongestLife] \cup {NoEntry}
        <3>1. CASE entry[p] = NoEntry
            BY <1>4, <3>1
        <3>2. CASE entry[p] # NoEntry
            <4>1. entry[p] \in [value : Value, left : (-LockWait)..LongestLife]
                BY <3>2 DEF IInv, TypeOK
            <4>2. entry[p].left > -LockWait => entry[p].left - 1 \in (-LockWait)..LongestLife
                <5>1. LockWait \in Nat /\ LongestLife \in Nat /\ entry[p].left \in (-LockWait)..LongestLife
                    BY <4>1, TimeAssumption, Lags
                <5> QED
                    BY <5>1
            <4> QED
                BY <1>3, <3>2, <4>1, <4>2
        <3> QED
            BY <3>1, <3>2
    <2>3. entry' \in [Principal -> [value : Value, left : (-LockWait)..LongestLife] \cup {NoEntry}]
        BY <1>1, <2>2
    <2>4. left' \in [Thread -> Nat]
        BY <1>1 DEF IInv, TypeOK
    <2>5. MaxAge' = MaxAge
        BY Lags
    <2> QED
        BY <1>1, <2>1, <2>3, <2>4, <2>5 DEF IInv, TypeOK
<1>6. ASSUME NEW t \in Thread, pc[t] # "idle"
      PROVE  /\ principal[t] \in Principal /\ pc[t] # "answered"
             /\ left[t] \in Nat /\ left'[t] = left[t] - 1
             /\ GroupsTime(page[t]) \in Nat
             /\ sinceEnabled'[principal[t]] + left'[t] <= sinceEnabled[principal[t]] + left[t]
             /\ sinceGranted'[principal[t]] + left'[t] <= sinceGranted[principal[t]] + left[t]
    <2>1. pc[t] \notin Answered /\ left[t] > 0 /\ left[t] \in Nat /\ page[t] \in Nat
        BY <1>1, <1>6 DEF Waiting, IInv, TypeOK
    <2>2. left'[t] = left[t] - 1 /\ left'[t] \in Nat
        BY <1>1, <2>1
    <2>3. principal[t] \in Principal
        BY <1>6 DEF IInv, Followed, PlaceHolds
    <2>4. GroupsTime(page[t]) \in Nat
        BY <2>1, GroupsTimes
    <2>5. /\ sinceEnabled'[principal[t]] + left'[t] <= sinceEnabled[principal[t]] + left[t]
          /\ sinceGranted'[principal[t]] + left'[t] <= sinceGranted[principal[t]] + left[t]
        <3>1. /\ sinceEnabled[principal[t]] \in Nat /\ sinceEnabled'[principal[t]] \in Nat
              /\ sinceGranted[principal[t]] \in Nat /\ sinceGranted'[principal[t]] \in Nat
              /\ sinceEnabled'[principal[t]] <= sinceEnabled[principal[t]] + 1
              /\ sinceGranted'[principal[t]] <= sinceGranted[principal[t]] + 1
            BY <1>2, <2>3, Lags
        <3> QED
            BY <2>1, <2>2, <3>1
    <2> QED
        BY <2>1, <2>2, <2>3, <2>4, <2>5 DEF Answered
<1>7. ASSUME NEW t \in Thread PROVE Followed(t)'
    <2>1. CASE pc[t] = "idle"
        BY <1>1, <2>1
        DEF Followed, PlaceHolds, EnabledFollowed, GrantedFollowed, AbsenceFollowed, Calling
    <2>2. CASE pc[t] # "idle"
        <3>1. /\ Followed(t) /\ pc'[t] = pc[t] /\ principal'[t] = principal[t]
              /\ found'[t] = found[t] /\ page'[t] = page[t]
            BY <1>1 DEF IInv
        <3>2. /\ CallTime \in Nat /\ LockWait \in Nat /\ GroupsTime(MaxPages) \in Nat
              /\ sinceEnabled[principal[t]] \in Nat /\ sinceGranted[principal[t]] \in Nat
              /\ sinceEnabled'[principal[t]] \in Nat /\ sinceGranted'[principal[t]] \in Nat
            BY <1>2, <1>6, <2>2, Lags, TimeAssumption
        <3>3. GroupsTime(page[t])' = GroupsTime(page[t])
            BY <3>1 DEF GroupsTime
        <3>4. GroupsTime(MaxPages)' = GroupsTime(MaxPages)
            BY DEF GroupsTime
        <3>5. PlaceHolds(t)'
            BY <1>6, <2>2, <3>1, <3>2 DEF Followed, PlaceHolds
        <3>6. EnabledFollowed(t)'
            BY <1>1, <1>6, <2>2, <3>1, <3>2, <3>3, <3>4 DEF Followed, EnabledFollowed
        <3>7. GrantedFollowed(t)'
            BY <1>1, <1>6, <2>2, <3>1, <3>2, <3>3, <3>4 DEF Followed, GrantedFollowed
        <3>8. AbsenceFollowed(t)'
            BY <1>1, <1>6, <2>2, <3>1, <3>2 DEF Followed, AbsenceFollowed
        <3> QED
            BY <3>5, <3>6, <3>7, <3>8 DEF Followed
    <2> QED
        BY <2>1, <2>2
<1>8. ASSUME NEW p \in Principal PROVE EntryFollowed(p)'
    <2>1. CASE entry[p] = NoEntry
        BY <1>4, <2>1 DEF EntryFollowed
    <2>2. CASE entry[p] # NoEntry
        <3>1. CASE entry[p].left = -LockWait /\ entry'[p] = entry[p]
            <4>1. ~ (entry'[p].left > -LockWait)
                BY <3>1, TimeAssumption
            <4> QED
                BY <4>1 DEF EntryFollowed
        <3>2. CASE /\ entry[p].left > -LockWait
                   /\ entry'[p].value = entry[p].value
                   /\ entry'[p].left = entry[p].left - 1
            <4>1. entry[p].left \in Int /\ LifeOf(entry[p].value) \in Nat
                <5>1. entry[p].left \in (-LockWait)..LongestLife /\ LongestLife \in Nat
                      /\ LockWait \in Nat
                    BY <1>3, <2>2, TimeAssumption, Lags
                <5>2. TTL \in Nat /\ NegativeTTL \in Nat
                    BY TimeAssumption
                <5> QED
                    BY <5>1, <5>2 DEF LifeOf
            <4>2. /\ sinceEnabled'[p] + entry'[p].left <= sinceEnabled[p] + entry[p].left
                  /\ sinceGranted'[p] + entry'[p].left <= sinceGranted[p] + entry[p].left
                  /\ entry'[p].left <= entry[p].left /\ entry'[p].left \in Int
                BY <1>2, <3>2, <4>1
            <4>3. /\ EntryFollowed(p) /\ GroupsTime(MaxPages) \in Nat
                  /\ GroupsTime(MaxPages)' = GroupsTime(MaxPages)
                  /\ LifeOf(entry'[p].value) = LifeOf(entry[p].value)
                BY <3>2, Lags DEF IInv, GroupsTime
            <4> QED
                BY <1>1, <1>2, <2>2, <3>2, <4>1, <4>2, <4>3, TimeAssumption DEF EntryFollowed
        <3> QED
            BY <1>3, <2>2, <3>1, <3>2
    <2> QED
        BY <2>1, <2>2
<1> QED
    BY <1>5, <1>7, <1>8 DEF IInv

\* Every step keeps the invariant.
LEMMA NextIInv == IInv /\ [Next]_vars => IInv'
<1> SUFFICES ASSUME IInv, [Next]_vars PROVE IInv'
    OBVIOUS
<1>1. ASSUME NEW p \in Principal, SetEnabled(p) \/ SetGranted(p) PROVE IInv'
    BY <1>1, SetEnabledIInv, SetGrantedIInv
<1>2. CASE RecreateClient \/ Outage
    BY <1>2, ServiceIInv
<1>3. CASE OtherFailure
    BY <1>3, DiscardIInv
<1>4. ASSUME NEW t \in Thread, NEW p \in Principal, Call(t, p) PROVE IInv'
    BY <1>4, NothingReadIInv
<1>5. ASSUME NEW t \in Thread, Work(t) PROVE IInv'
    BY <1>5, NothingReadIInv, LookupIInv, ServeUserIInv, UserReplyIInv, ClientReplyIInv,
       ServeRolesIInv, PageIInv, StoreIInv, DiscardIInv
    DEF Work
<1>6. CASE Tick
    BY <1>6, TickIInv
<1>7. CASE UNCHANGED vars
    <2>1. UNCHANGED <<enabled, granted, sinceEnabled, sinceGranted, client, up, entry, known,
                      pc, principal, found, uuid, page, left, overtaken>>
        BY <1>7 DEF vars, service, facts, cache, work
    <2>2. TypeOK'
        BY <2>1 DEF IInv, TypeOK
    <2>3. \A t \in Thread : Followed(t)'
        BY <2>1
        DEF IInv, Followed, PlaceHolds, EnabledFollowed, GrantedFollowed, AbsenceFollowed
    <2>4. \A p \in Principal : EntryFollowed(p)'
        BY <2>1 DEF IInv, EntryFollowed
    <2> QED
        BY <2>2, <2>3, <2>4 DEF IInv
<1> QED
    BY <1>1, <1>2, <1>3, <1>4, <1>5, <1>6, <1>7 DEF Next

\* The inductive invariant holds in every reachable state.
THEOREM Invariance == Spec => []IInv
<1>1. Init => IInv
    BY InitIInv
<1>2. IInv /\ [Next]_vars => IInv'
    BY NextIInv
<1> QED
    BY <1>1, <1>2, PTL DEF Spec

\* The caches, the lookups and Keycloak keep their types.
THEOREM TypeCorrect == Spec => []TypeOK
<1>1. IInv => TypeOK
    BY DEF IInv
<1> QED
    BY <1>1, Invariance, PTL

\* A principal is not served as enabled for longer than EnabledLag after it
\* was disabled.
THEOREM Disabling == Spec => []DisablingTakesEffect
<1>1. IInv => DisablingTakesEffect
    BY DEF IInv, Followed, EnabledFollowed, DisablingTakesEffect, Told
<1> QED
    BY <1>1, Invariance, PTL

\* A change of an entitlement is seen within GrantedLag.
THEOREM Granting == Spec => []GrantsTakeEffect
<1>1. IInv => GrantsTakeEffect
    BY DEF IInv, Followed, GrantedFollowed, GrantsTakeEffect, Told
<1> QED
    BY <1>1, Invariance, PTL

\* A principal is not refused for longer than AbsentLag after it was enabled.
THEOREM Enabling == Spec => []EnablingTakesEffect
<1>1. IInv => EnablingTakesEffect
    BY DEF IInv, Followed, AbsenceFollowed, EnablingTakesEffect, Told
<1> QED
    BY <1>1, Invariance, PTL
===============================================================================
