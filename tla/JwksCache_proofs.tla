--------------------------- MODULE JwksCache_proofs ---------------------------
(***************************************************************************)
(* For any number of request threads and key identifiers, and whatever the *)
(* timeout, the waits and the two intervals, either of which may be the    *)
(* longer: IInv of JwksCache is inductive, and with it keys are never      *)
(* older than MaxAge, a failed refresh stands, a refresh never stores an   *)
(* overtaken reply, and no fetch outlives the HTTP client.                 *)
(*                                                                         *)
(* The argument about ages: as a call, a wait for the client's lock or the *)
(* Refresher's wait runs down, the age of the keys, and of a reply on its  *)
(* way, goes up by as much; only the holder of the lock starts a call, and *)
(* it finds keys no older than LongestKept.                                *)
(***************************************************************************)
EXTENDS JwksCache, TLAPS

\* Keys are kept for the longer of the two waits that end their time.
LEMMA Keeping ==
    /\ LongestKept \in Nat /\ MaxAge \in Nat
    /\ Timeout + RefreshInterval <= LongestKept /\ RetryInterval <= LongestKept
    /\ MaxAge = LongestKept + Timeout + MarkDelay
BY IntervalAssumption DEF LongestKept, MaxAge, Larger

\* Nothing is cached, and no thread has done anything yet.
LEMMA InitIInv == Init => IInv
<1> SUFFICES ASSUME Init PROVE IInv
    OBVIOUS
<1> USE IntervalAssumption, ThreadAssumption, Keeping DEF Init
<1>1. TypeOK
    BY DEF TypeOK, Place, Answered, Thread, NoReply
<1>2. LockFollowsRefresh
    BY DEF LockFollowsRefresh, Refreshing, Thread
<1>3. PlacesFollowLife
    BY DEF PlacesFollowLife, BackgroundPlace, VerifierPlace, Place, Answered, Thread,
           Refreshing
<1>4. OutcomesAreLatest
    BY DEF OutcomesAreLatest, Thread
<1>5. AgesBounded
    BY DEF AgesBounded, Thread
<1>6. FailedRefreshStands
    BY DEF FailedRefreshStands
<1> QED
    BY <1>1, <1>2, <1>3, <1>4, <1>5, <1>6 DEF IInv

\* Keycloak rotates its keys, is lost or comes back; a handler's call fails.
LEMMA OutsideIInv ==
    ASSUME IInv,
           published' \in KeySet, up' \in BOOLEAN, observed' \in BOOLEAN,
           missed' \in SUBSET Verifier,
           UNCHANGED <<cache, lock, pc, reply, left, kid, life, latest>>
    PROVE  IInv'
BY DEF IInv, cache, TypeOK, LockFollowsRefresh, PlacesFollowLife, OutcomesAreLatest,
       AgesBounded, FailedRefreshStands, MaxAge

\* invalidate() clears the keys.
LEMMA InvalidateIInv == ASSUME IInv, Invalidate PROVE IInv'
<1> USE IntervalAssumption, Keeping DEF IInv, Invalidate, service
<1>1. TypeOK'
    BY DEF TypeOK
<1>2. LockFollowsRefresh' /\ PlacesFollowLife' /\ OutcomesAreLatest'
    BY DEF LockFollowsRefresh, PlacesFollowLife, OutcomesAreLatest
<1>3. AgesBounded'
    BY DEF TypeOK, AgesBounded, MaxAge, Thread
<1>4. FailedRefreshStands'
    BY DEF FailedRefreshStands
<1> QED
    BY <1>1, <1>2, <1>3, <1>4

\* A request thread goes on outside a refresh: Arrive, the lookups, Respond.
LEMMA VerifierMoves ==
    ASSUME IInv, NEW t \in Verifier, NEW where \in VerifierPlace \ Refreshing,
           pc[t] \notin Refreshing, pc[t] = "idle" => life = "serving",
           Goto(t, where),
           kid' \in [Verifier -> Kid \cup {NoKid}], missed' \in SUBSET Verifier,
           UNCHANGED <<service, cache, lock, reply, left, observed, life, latest>>
    PROVE  IInv'
<1> USE ThreadAssumption DEF IInv
<1>1. t \in Thread /\ t # Refresher /\ where \in Place
    BY DEF Thread, VerifierPlace
<1>2. /\ pc' = [pc EXCEPT ![t] = where]
      /\ UNCHANGED <<published, up, keys, age, lock, reply, left, observed, life, latest>>
    BY DEF Goto, service, cache
<1>3. TypeOK'
    BY <1>1, <1>2 DEF TypeOK
<1>4. /\ \A s \in Thread : pc'[s] \in Refreshing <=> pc[s] \in Refreshing
      /\ \A s \in Thread : pc[s] \in Refreshing => pc'[s] = pc[s]
      /\ pc'[Refresher] = pc[Refresher]
    BY <1>1, <1>2 DEF TypeOK, Thread
<1>5. LockFollowsRefresh'
    BY <1>2, <1>4 DEF LockFollowsRefresh
<1>6. PlacesFollowLife'
    BY <1>1, <1>2, <1>4 DEF TypeOK, PlacesFollowLife
<1>7. OutcomesAreLatest'
    BY <1>2, <1>4 DEF OutcomesAreLatest, Refreshing
<1>8. AgesBounded'
    BY <1>2, <1>4 DEF AgesBounded, Refreshing, MaxAge
<1>9. FailedRefreshStands'
    BY <1>2, <1>4 DEF FailedRefreshStands, OutcomesAreLatest, Refreshing
<1> QED
    BY <1>3, <1>5, <1>6, <1>7, <1>8, <1>9

\* The background thread goes on outside a refresh: LoopOrExit and WaitEnds.
LEMMA RefresherMoves ==
    ASSUME IInv, NEW where \in {"loop", "acquire", "exited"},
           pc[Refresher] \in {"loop", "wait"},
           where = "exited" => life # "serving",
           left' \in [Thread -> Nat],
           \A t \in Verifier : left'[t] = left[t],
           Goto(Refresher, where),
           UNCHANGED <<service, cache, lock, reply, kid, observed, life, latest, missed>>
    PROVE  IInv'
<1> USE ThreadAssumption DEF IInv
<1>1. Refresher \in Thread /\ Refresher \notin Verifier
    BY DEF Thread
<1>2. /\ pc' = [pc EXCEPT ![Refresher] = where]
      /\ UNCHANGED <<published, up, keys, age, lock, reply, kid, observed, life, latest,
                     missed>>
    BY DEF Goto, service, cache
<1>3. TypeOK'
    BY <1>1, <1>2 DEF TypeOK, Place
<1>4. /\ pc'[Refresher] = where
      /\ \A s \in Verifier : pc'[s] = pc[s]
      /\ \A s \in Thread : pc'[s] \in Refreshing <=> pc[s] \in Refreshing
      /\ \A s \in Thread : pc[s] \in Refreshing =>
            pc'[s] = pc[s] /\ left'[s] = left[s]
    BY <1>1, <1>2 DEF TypeOK, Thread, Refreshing
<1>5. LockFollowsRefresh'
    BY <1>2, <1>4 DEF LockFollowsRefresh
<1>6. PlacesFollowLife'
    BY <1>1, <1>2, <1>4 DEF TypeOK, PlacesFollowLife, BackgroundPlace
<1>7. OutcomesAreLatest'
    BY <1>2, <1>4 DEF OutcomesAreLatest, Refreshing
<1>8. AgesBounded'
    BY <1>2, <1>4 DEF AgesBounded, Refreshing, MaxAge
<1>9. FailedRefreshStands'
    BY <1>2, <1>4 DEF FailedRefreshStands, OutcomesAreLatest, Refreshing
<1> QED
    BY <1>3, <1>5, <1>6, <1>7, <1>8, <1>9

-----------------------------------------------------------------------------
(* A refresh                                                               *)

\* A thread takes the free lock: the keys are no older than LongestKept.
LEMMA AcquireIInv ==
    ASSUME IInv, NEW t \in Thread, AcquireRefreshLock(t)
    PROVE  IInv'
<1> USE ThreadAssumption, IntervalAssumption, Keeping DEF IInv
<1>1. /\ pc[t] = "acquire" /\ lock = NoThread /\ lock' = t
      /\ left' = [left EXCEPT ![t] = Timeout]
      /\ pc' = [pc EXCEPT ![t] = "fetch"]
      /\ UNCHANGED <<published, up, keys, age, reply, kid, observed, life, latest, missed>>
    BY DEF AcquireRefreshLock, Goto, service, cache
<1>2. TypeOK'
    BY <1>1 DEF TypeOK, Place
<1>3. /\ pc'[t] = "fetch" /\ left'[t] = Timeout
      /\ \A s \in Thread \ {t} : pc'[s] = pc[s] /\ left'[s] = left[s]
    BY <1>1 DEF TypeOK
<1>4. \A s \in Thread : pc[s] \notin Refreshing
    BY <1>1 DEF LockFollowsRefresh, Thread
<1>5. LockFollowsRefresh'
    BY <1>1, <1>3, <1>4 DEF LockFollowsRefresh, Refreshing
<1>6. PlacesFollowLife'
    BY <1>1, <1>3 DEF PlacesFollowLife, BackgroundPlace, VerifierPlace, Place, Refreshing,
                      Thread
<1>7. OutcomesAreLatest'
    BY <1>1, <1>3, <1>4 DEF OutcomesAreLatest, Refreshing
<1>8. AgesBounded'
    BY <1>1, <1>3, <1>4 DEF TypeOK, AgesBounded, Refreshing, Thread
<1>9. FailedRefreshStands'
    BY <1>1, <1>4 DEF FailedRefreshStands, OutcomesAreLatest, Refreshing
<1> QED
    BY <1>2, <1>5, <1>6, <1>7, <1>8, <1>9

\* Only the holder of the lock refreshes.
LEMMA OneRefreshes ==
    ASSUME LockFollowsRefresh, NEW t \in Thread, pc[t] \in Refreshing
    PROVE  lock = t /\ \A s \in Thread \ {t} : pc[s] \notin Refreshing
BY DEF LockFollowsRefresh

\* A refresh goes on under the lock: Keycloak answers, or the fetch fails.
LEMMA FetchIInv ==
    ASSUME IInv, NEW t \in Thread, Serve(t) \/ FetchFails(t)
    PROVE  IInv'
<1> USE ThreadAssumption, IntervalAssumption, Keeping DEF IInv
<1>1. /\ pc[t] \in {"fetch", "reply"}
      /\ \/ /\ pc' = [pc EXCEPT ![t] = "reply"] /\ left' = left
            /\ pc[t] = "fetch"
            /\ reply' = [reply EXCEPT ![t] = [keys |-> published, age |-> 0]]
            /\ latest' = [thread |-> t, failed |-> FALSE]
         \/ /\ pc' = [pc EXCEPT ![t] = "failed"] /\ left' = [left EXCEPT ![t] = MarkDelay]
            /\ reply' = [reply EXCEPT ![t] = NoReply]
            /\ latest' = [thread |-> t, failed |-> TRUE]
      /\ UNCHANGED <<published, up, keys, age, lock, kid, observed, life, missed>>
    BY DEF Serve, FetchFails, Goto, service, cache
<1>2. TypeOK'
    <2>1. /\ [keys |-> published, age |-> 0] \in [keys : KeySet \cup {NoKeys}, age : Nat]
          /\ NoReply \in [keys : KeySet \cup {NoKeys}, age : Nat]
        BY DEF TypeOK, NoReply
    <2>2. reply' \in [Thread -> [keys : KeySet \cup {NoKeys}, age : Nat]]
        BY <1>1, <2>1 DEF TypeOK
    <2>3. latest' \in [thread : Thread \cup {NoThread}, failed : BOOLEAN]
        <3>1. CASE Serve(t)
            BY <3>1 DEF Serve
        <3>2. CASE FetchFails(t)
            BY <3>2 DEF FetchFails
        <3> QED
            BY <3>1, <3>2
    <2>4. "reply" \in Place /\ "failed" \in Place
        BY DEF Place
    <2>5. pc' \in [Thread -> Place]
        BY <2>4 DEF Serve, FetchFails, Goto, TypeOK
    <2>6. left' \in [Thread -> Nat]
        BY DEF Serve, FetchFails, Goto, TypeOK
    <2> QED
        BY <1>1, <2>2, <2>3, <2>5, <2>6 DEF TypeOK
<1>3. /\ \/ pc'[t] = "reply" /\ latest' = [thread |-> t, failed |-> FALSE]
         \/ pc'[t] = "failed" /\ latest' = [thread |-> t, failed |-> TRUE]
      /\ \A s \in Thread \ {t} : pc'[s] = pc[s] /\ left'[s] = left[s]
    BY <1>1 DEF TypeOK
<1>4. lock = t /\ \A s \in Thread \ {t} : pc[s] \notin Refreshing
    BY <1>1, OneRefreshes DEF Refreshing
<1>5. LockFollowsRefresh'
    BY <1>1, <1>3, <1>4 DEF LockFollowsRefresh, Refreshing
<1>6. PlacesFollowLife'
    BY <1>1, <1>3 DEF PlacesFollowLife, BackgroundPlace, VerifierPlace, Place, Refreshing,
                      Thread
<1>7. OutcomesAreLatest'
    BY <1>3, <1>4 DEF OutcomesAreLatest, Refreshing
<1>8. AgesBounded'
    <2>1. lock' = t /\ t # NoThread
        BY <1>1, <1>4 DEF Thread
    <2>2. pc'[Refresher] = "wait" => pc[Refresher] = "wait" /\ left'[Refresher] = left[Refresher]
        BY <1>3 DEF Thread
    <2>3. CASE pc'[t] = "reply"
        <3>1. reply'[t].age = 0 /\ left'[t] = left[t] /\ pc[t] = "fetch" /\ age' = age
            BY <1>1, <2>3 DEF TypeOK
        <3>2. /\ left[t] <= Timeout /\ left[t] \in Nat /\ age \in Nat
              /\ age + left[t] <= LongestKept + Timeout
            BY <3>1 DEF AgesBounded, TypeOK
        <3>3. pc'[Refresher] = "wait" =>
                /\ left'[Refresher] \in Nat
                /\ age' + left'[Refresher] <= LongestKept
                /\ reply'[t].age + left'[Refresher] <= LongestKept
            <4>1. pc[Refresher] = "wait" =>
                    left[Refresher] \in Nat /\ age + left[Refresher] <= LongestKept
                BY DEF AgesBounded, TypeOK, Thread
            <4> QED
                BY <2>2, <3>1, <3>2, <4>1
        <3>4. reply'[t].age + left'[t] <= Timeout
            BY <3>1, <3>2
        <3> QED
            BY <1>3, <1>4, <2>1, <2>3, <3>1, <3>2, <3>3, <3>4 DEF AgesBounded, Refreshing
    <2>4. CASE pc'[t] = "failed"
        <3>1. left'[t] = MarkDelay /\ age' = age
            BY <1>1, <2>4 DEF TypeOK
        <3>2. age + left[t] <= LongestKept + Timeout
            BY <1>1 DEF AgesBounded
        <3>3. age + MarkDelay <= MaxAge
            BY <3>2 DEF TypeOK
        <3> QED
            BY <1>1, <1>3, <1>4, <2>1, <2>2, <2>4, <3>1, <3>3
            DEF AgesBounded, Refreshing
    <2> QED
        BY <1>3, <2>3, <2>4
<1>9. FailedRefreshStands'
    BY <1>3 DEF FailedRefreshStands
<1> QED
    BY <1>2, <1>5, <1>6, <1>7, <1>8, <1>9

\* refresh() ends: with keys no older than a call, or with none.
LEMMA RefreshEndsIInv ==
    ASSUME IInv, NEW t \in Thread, StoreKeys(t) \/ ClearKeys(t)
    PROVE  IInv'
<1> USE ThreadAssumption, IntervalAssumption DEF IInv
<1>1. /\ pc[t] \in {"reply", "failed"}
      /\ pc' \in [Thread -> Place] /\ left' \in [Thread -> Nat]
      /\ IF t = Refresher THEN pc'[t] = "wait" ELSE pc'[t] \in {"second_lookup", "unavailable"}
      /\ t = Refresher =>
            left'[t] <= IF pc[t] = "reply" THEN RefreshInterval ELSE RetryInterval
      /\ \A s \in Thread \ {t} :
            pc'[s] = pc[s] /\ left'[s] = left[s] /\ reply'[s] = reply[s]
      /\ lock' = NoThread
      /\ reply' \in [Thread -> [keys : KeySet \cup {NoKeys}, age : Nat]]
      /\ \/ pc[t] = "reply" /\ keys' = reply[t].keys /\ age' = reply[t].age
         \/ pc[t] = "failed" /\ keys' = NoKeys /\ age' = 0
      /\ UNCHANGED <<published, up, kid, observed, life, latest, missed>>
    <2>1. CASE StoreKeys(t)
        <3>1. NoReply \in [keys : KeySet \cup {NoKeys}, age : Nat]
            BY DEF NoReply
        <3>2. /\ reply' \in [Thread -> [keys : KeySet \cup {NoKeys}, age : Nat]]
              /\ \A s \in Thread \ {t} : reply'[s] = reply[s]
            BY <2>1, <3>1 DEF StoreKeys, TypeOK
        <3>3. /\ pc' \in [Thread -> Place] /\ left' \in [Thread -> Nat]
              /\ \A s \in Thread \ {t} : pc'[s] = pc[s] /\ left'[s] = left[s]
            BY <2>1 DEF StoreKeys, AfterRefresh, Goto, TypeOK, Place, Answered
        <3>4. /\ pc[t] = "reply"
              /\ IF t = Refresher THEN pc'[t] = "wait" /\ left'[t] = RefreshInterval
                 ELSE pc'[t] = "second_lookup"
            BY <2>1 DEF StoreKeys, AfterRefresh, Goto, TypeOK
        <3> QED
            BY <2>1, <3>2, <3>3, <3>4 DEF StoreKeys, service
    <2>2. CASE ClearKeys(t)
        <3>1. /\ reply' \in [Thread -> [keys : KeySet \cup {NoKeys}, age : Nat]]
              /\ \A s \in Thread \ {t} : reply'[s] = reply[s]
            BY <2>2 DEF ClearKeys, TypeOK
        <3>2. /\ pc' \in [Thread -> Place] /\ left' \in [Thread -> Nat]
              /\ \A s \in Thread \ {t} : pc'[s] = pc[s] /\ left'[s] = left[s]
            BY <2>2 DEF ClearKeys, AfterRefresh, Goto, TypeOK, Place, Answered
        <3>3. /\ pc[t] = "failed"
              /\ IF t = Refresher THEN pc'[t] = "wait" /\ left'[t] = RetryInterval
                 ELSE pc'[t] = "unavailable"
            BY <2>2 DEF ClearKeys, AfterRefresh, Goto, TypeOK
        <3> QED
            BY <2>2, <3>1, <3>2, <3>3 DEF ClearKeys, service
    <2> QED
        BY <2>1, <2>2
<1>2. reply[t].keys \in KeySet \cup {NoKeys} /\ reply[t].age \in Nat
      /\ (pc[t] = "reply" => reply[t].age <= Timeout)
    BY DEF TypeOK, AgesBounded
<1>3. TypeOK'
    BY <1>1, <1>2 DEF TypeOK
<1>4. \A s \in Thread \ {t} : pc[s] \notin Refreshing
    BY <1>1, OneRefreshes DEF Refreshing
<1>5. \A s \in Thread : pc'[s] \notin Refreshing
    BY <1>1, <1>4 DEF Refreshing
<1>6. LockFollowsRefresh'
    BY <1>1, <1>5 DEF LockFollowsRefresh, Thread
<1>7. PlacesFollowLife'
    <2>1. CASE t = Refresher
        BY <1>1, <2>1 DEF PlacesFollowLife, BackgroundPlace, Thread
    <2>2. CASE t # Refresher
        BY <1>1, <2>2 DEF PlacesFollowLife, VerifierPlace, Place, Answered, Refreshing, Thread
    <2> QED
        BY <2>1, <2>2
<1>8. OutcomesAreLatest'
    BY <1>1, <1>5 DEF OutcomesAreLatest, Refreshing
<1>9. AgesBounded'
    <2>1. age' \in Nat /\ age' <= Timeout
        BY <1>1, <1>2
    <2>2. LongestKept \in Nat /\ age' <= LongestKept
        BY <2>1, Keeping
    <2>3. ASSUME pc'[Refresher] = "wait" PROVE age' + left'[Refresher] <= LongestKept
        <3>1. left'[Refresher] \in Nat
            BY <1>1 DEF Thread
        <3>2. CASE t = Refresher
            BY <1>1, <1>2, <2>1, <3>1, <3>2, Keeping DEF TypeOK
        <3>3. CASE t # Refresher
            <4>1. pc[Refresher] = "wait" /\ left'[Refresher] = left[Refresher]
                BY <1>1, <2>3, <3>3 DEF Thread
            <4>2. CASE pc[t] = "reply"
                BY <1>1, <4>1, <4>2 DEF AgesBounded
            <4>3. CASE pc[t] = "failed"
                <5>1. left[Refresher] \in Nat /\ age \in Nat
                    BY DEF TypeOK, Thread
                <5> QED
                    BY <1>1, <2>2, <4>1, <4>3, <5>1 DEF AgesBounded
            <4> QED
                BY <1>1, <4>2, <4>3
        <3> QED
            BY <3>2, <3>3
    <2> QED
        BY <1>5, <2>2, <2>3 DEF AgesBounded, Refreshing
<1>10. FailedRefreshStands'
    <2>1. CASE pc[t] = "reply"
        <3>1. latest.failed = FALSE
            BY <2>1 DEF OutcomesAreLatest
        <3> QED
            BY <1>1, <3>1 DEF FailedRefreshStands
    <2>2. CASE pc[t] = "failed"
        BY <1>1, <2>2 DEF FailedRefreshStands
    <2> QED
        BY <1>1, <2>1, <2>2
<1> QED
    BY <1>3, <1>6, <1>7, <1>8, <1>9, <1>10

-----------------------------------------------------------------------------
(* The lifespan and the clock                                              *)

\* The background thread is started, told to stop, and joined.
LEMMA LifespanIInv == ASSUME IInv, Start \/ Stop \/ Close PROVE IInv'
<1> USE ThreadAssumption, IntervalAssumption, Keeping DEF IInv
<1>1. UNCHANGED <<published, up, keys, age, lock, reply, left, kid, observed, latest, missed>>
    BY DEF Start, Stop, Close, service, cache
<1>2. Refresher \in Thread /\ \A s \in Verifier : s \in Thread /\ s # Refresher
    BY DEF Thread
<1>3. CASE Start
    <2>1. /\ life = "starting" /\ life' = "serving" /\ pc[Refresher] = "unstarted"
          /\ pc' = [pc EXCEPT ![Refresher] = "loop"]
        BY <1>3 DEF Start, Goto, PlacesFollowLife
    <2>2. /\ pc'[Refresher] = "loop" /\ \A s \in Thread \ {Refresher} : pc'[s] = pc[s]
        BY <2>1, <1>2 DEF TypeOK
    <2>3. TypeOK'
        BY <1>1, <2>1 DEF TypeOK, Place
    <2>4. LockFollowsRefresh'
        BY <1>1, <2>1, <2>2 DEF LockFollowsRefresh, Refreshing
    <2>5. PlacesFollowLife'
        BY <1>2, <2>1, <2>2 DEF PlacesFollowLife, BackgroundPlace
    <2>6. OutcomesAreLatest'
        BY <1>1, <2>1, <2>2 DEF OutcomesAreLatest
    <2>7. AgesBounded'
        BY <1>1, <2>1, <2>2 DEF AgesBounded, MaxAge
    <2>8. FailedRefreshStands'
        BY <1>1, <2>1, <2>2 DEF FailedRefreshStands, OutcomesAreLatest
    <2> QED
        BY <2>3, <2>4, <2>5, <2>6, <2>7, <2>8
<1>4. CASE Stop \/ Close
    <2>1. /\ pc' = pc
          /\ \/ /\ life = "serving" /\ life' = "stopping"
                /\ \A t \in Verifier : pc[t] = "idle"
             \/ life = "stopping" /\ life' = "closed" /\ pc[Refresher] = "exited"
        BY <1>4 DEF Stop, Close, Joined
    <2>2. TypeOK' /\ LockFollowsRefresh' /\ OutcomesAreLatest' /\ FailedRefreshStands'
        BY <1>1, <2>1
        DEF TypeOK, LockFollowsRefresh, OutcomesAreLatest, FailedRefreshStands
    <2>3. PlacesFollowLife'
        BY <2>1 DEF PlacesFollowLife
    <2>4. AgesBounded'
        BY <1>1, <2>1 DEF AgesBounded, MaxAge
    <2> QED
        BY <2>2, <2>3, <2>4
<1> QED
    BY <1>3, <1>4

\* A tick passes: what the keys age, a call, a wait or the interval runs down.
LEMMA TickIInv == ASSUME IInv, Tick PROVE IInv'
<1> USE ThreadAssumption, IntervalAssumption, Keeping DEF IInv
<1>1. /\ life = "serving" /\ \A t \in Thread : Waiting(t)
      /\ age' = (IF keys = NoKeys THEN 0 ELSE age + 1)
      /\ left' = [t \in Thread |-> IF left[t] > 0 THEN left[t] - 1 ELSE 0]
      /\ reply' = [t \in Thread |->
            IF pc[t] = "reply" THEN [reply[t] EXCEPT !.age = @ + 1] ELSE reply[t]]
      /\ UNCHANGED <<published, up, keys, lock, pc, kid, observed, life, latest, missed>>
    BY DEF Tick, service
<1>2. TypeOK'
    BY <1>1 DEF TypeOK
<1>3. LockFollowsRefresh' /\ PlacesFollowLife' /\ OutcomesAreLatest' /\ FailedRefreshStands'
    BY <1>1 DEF LockFollowsRefresh, PlacesFollowLife, OutcomesAreLatest, FailedRefreshStands
<1>4. age \in Nat /\ age' \in Nat /\ age' <= age + 1
    BY <1>1 DEF TypeOK
<1>5. ASSUME NEW t \in Thread, pc[t] \in Refreshing \cup {"wait"}
      PROVE  left[t] \in Nat /\ left'[t] = left[t] - 1 /\ age' + left'[t] <= age + left[t]
    <2>1. left[t] > 0 /\ left[t] \in Nat
        BY <1>1, <1>5 DEF Waiting, Refreshing, TypeOK
    <2>2. left'[t] = left[t] - 1
        BY <1>1, <2>1
    <2> QED
        BY <1>4, <2>1, <2>2
<1>6. lock = NoThread => pc[Refresher] = "wait"
    BY <1>1 DEF Waiting, PlacesFollowLife, BackgroundPlace, LockFollowsRefresh, Thread,
                Refreshing
<1>7. AgesBounded'
    <2>1. pc[Refresher] = "wait" =>
            /\ age' + left'[Refresher] <= LongestKept
            /\ left'[Refresher] \in Nat
        BY <1>2, <1>4, <1>5 DEF AgesBounded, Thread, TypeOK
    <2>2. lock = NoThread => age' <= LongestKept
        BY <1>4, <1>6, <2>1
    <2>3. ASSUME NEW t \in Thread
          PROVE  /\ pc[t] = "reply" =>
                        /\ reply'[t].age + left'[t] <= Timeout
                        /\ pc[Refresher] = "wait" =>
                                reply'[t].age + left'[Refresher] <= LongestKept
                 /\ pc[t] = "fetch" => left'[t] <= Timeout
                 /\ pc[t] \in {"fetch", "reply"} =>
                        age' + left'[t] <= LongestKept + Timeout
                 /\ pc[t] = "failed" => age' + left'[t] <= MaxAge
        <3>1. pc[t] = "reply" => reply'[t].age = reply[t].age + 1 /\ reply[t].age \in Nat
            BY <1>1 DEF TypeOK
        <3>2. MaxAge \in Nat /\ LongestKept \in Nat
            BY Keeping
        <3>3. left'[t] \in Nat
            BY <1>2 DEF TypeOK
        <3>4. ASSUME pc[t] = "reply", pc[Refresher] = "wait"
              PROVE  reply'[t].age + left'[Refresher] <= LongestKept
            <4>1. /\ left[Refresher] \in Nat /\ left'[Refresher] = left[Refresher] - 1
                  /\ reply[t].age + left[Refresher] <= LongestKept
                BY <1>5, <3>4 DEF AgesBounded, Thread
            <4> QED
                BY <3>1, <3>2, <3>4, <4>1
        <3> QED
            BY <1>4, <1>5, <3>1, <3>2, <3>3, <3>4 DEF AgesBounded, Refreshing
    <2> QED
        BY <1>1, <2>1, <2>2, <2>3 DEF AgesBounded, MaxAge
<1> QED
    BY <1>2, <1>3, <1>7

-----------------------------------------------------------------------------
\* Every step keeps the invariant.
LEMMA NextIInv == IInv /\ [Next]_vars => IInv'
<1> SUFFICES ASSUME IInv, [Next]_vars PROVE IInv'
    OBVIOUS
<1> USE ThreadAssumption DEF Thread
<1>1. CASE Rotate \/ Outage \/ CallFails
    <2>1. /\ published' \in KeySet /\ up' \in BOOLEAN /\ observed' \in BOOLEAN
          /\ missed' \in SUBSET Verifier
          /\ UNCHANGED <<cache, lock, pc, reply, left, kid, life, latest>>
        BY <1>1 DEF Rotate, Outage, CallFails, service, IInv, TypeOK
    <2> QED
        BY <2>1, OutsideIInv
<1>2. CASE Invalidate
    BY <1>2, InvalidateIInv
<1>3. CASE LoopOrExit
    BY <1>3, RefresherMoves DEF LoopOrExit, IInv, TypeOK
<1>4. CASE WaitEnds
    BY <1>4, RefresherMoves DEF WaitEnds, IInv, TypeOK
<1>5. ASSUME NEW t \in Thread, AcquireRefreshLock(t) PROVE IInv'
    BY <1>5, AcquireIInv
<1>6. ASSUME NEW t \in Thread, Refresh(t) PROVE IInv'
    BY <1>6, FetchIInv, RefreshEndsIInv DEF Refresh
<1>7. ASSUME NEW t \in Verifier, NEW k \in Kid, Arrive(t, k) PROVE IInv'
    <2>1. kid' \in [Verifier -> Kid \cup {NoKid}] /\ missed' \in SUBSET Verifier
        BY <1>7 DEF Arrive, IInv, TypeOK
    <2> QED
        BY <1>7, <2>1, VerifierMoves DEF Arrive, VerifierPlace, Place, Refreshing
<1>8. ASSUME NEW t \in Verifier, CheckAvailable(t) \/ FirstLookup(t) \/ SecondLookup(t)
      PROVE  IInv'
    <2>1. kid' \in [Verifier -> Kid \cup {NoKid}] /\ missed' \in SUBSET Verifier
        BY <1>8 DEF CheckAvailable, FirstLookup, SecondLookup, IInv, TypeOK
    <2>2. PICK where \in VerifierPlace \ Refreshing : Goto(t, where)
        BY <1>8 DEF CheckAvailable, FirstLookup, SecondLookup, VerifierPlace, Place,
                    Answered, Refreshing
    <2>3. /\ pc[t] \notin Refreshing /\ pc[t] # "idle"
          /\ UNCHANGED <<service, cache, lock, reply, left, observed, life, latest>>
        BY <1>8 DEF CheckAvailable, FirstLookup, SecondLookup, Refreshing
    <2> QED
        BY <2>1, <2>2, <2>3, VerifierMoves
<1>9. ASSUME NEW t \in Verifier, Respond(t) PROVE IInv'
    <2>1. kid' \in [Verifier -> Kid \cup {NoKid}] /\ missed' \in SUBSET Verifier
        BY <1>9 DEF Respond, IInv, TypeOK
    <2>2. /\ pc[t] \notin Refreshing /\ pc[t] # "idle" /\ Goto(t, "idle")
          /\ UNCHANGED <<service, cache, lock, reply, left, observed, life, latest>>
        BY <1>9 DEF Respond, Answered, Refreshing
    <2>3. "idle" \in VerifierPlace \ Refreshing
        BY DEF VerifierPlace, Place, Refreshing
    <2> QED
        BY <2>1, <2>2, <2>3, VerifierMoves
<1>10. CASE Start \/ Stop \/ Close
    BY <1>10, LifespanIInv
<1>11. CASE Tick
    BY <1>11, TickIInv
<1>12. CASE UNCHANGED vars
    BY <1>12
    DEF vars, service, cache, IInv, TypeOK, LockFollowsRefresh, PlacesFollowLife,
        OutcomesAreLatest, AgesBounded, FailedRefreshStands
<1> QED
    BY <1>1, <1>2, <1>3, <1>4, <1>5, <1>6, <1>7, <1>8, <1>9, <1>10, <1>11, <1>12
    DEF Next, Background, Verify

\* The inductive invariant holds in every reachable state.
THEOREM Invariance == Spec => []IInv
<1>1. Init => IInv
    BY InitIInv
<1>2. IInv /\ [Next]_vars => IInv'
    BY NextIInv
<1> QED
    BY <1>1, <1>2, PTL DEF Spec

\* The cache, the threads and Keycloak keep their types.
THEOREM TypeCorrect == Spec => []TypeOK
<1>1. IInv => TypeOK
    BY DEF IInv
<1> QED
    BY <1>1, Invariance, PTL

\* Keys are served for MaxAge at most, whichever of the intervals is the longer.
THEOREM Recency == Spec => []KeysAreRecent
<1>1. IInv => KeysAreRecent
    <2> SUFFICES ASSUME IInv PROVE age <= MaxAge
        BY DEF KeysAreRecent
    <2> USE IntervalAssumption, Keeping DEF IInv, TypeOK
    <2>1. CASE lock = NoThread
        BY <2>1 DEF AgesBounded, MaxAge
    <2>2. CASE lock # NoThread
        <3>1. lock \in Thread /\ pc[lock] \in Refreshing /\ left[lock] \in Nat
            BY <2>2 DEF LockFollowsRefresh
        <3>2. \/ age + left[lock] <= LongestKept + Timeout
              \/ age + left[lock] <= MaxAge
            BY <3>1 DEF AgesBounded, Refreshing
        <3> QED
            BY <3>1, <3>2 DEF MaxAge
    <2> QED
        BY <2>1, <2>2
<1> QED
    BY <1>1, Invariance, PTL

\* Keys are not served past a later failed refresh.
THEOREM FailureStands == Spec => []FailedRefreshStands
<1>1. IInv => FailedRefreshStands
    BY DEF IInv
<1> QED
    BY <1>1, Invariance, PTL

\* No thread is in a fetch when the HTTP client is closed.
THEOREM NoLateFetch == Spec => []NoFetchAfterClose
<1>1. IInv => NoFetchAfterClose
    BY DEF IInv, PlacesFollowLife, NoFetchAfterClose, Thread
<1> QED
    BY <1>1, Invariance, PTL

\* A refresh stores only what the latest fetch got.
THEOREM LatestStored == Spec => OnlyLatestReplyStored
<1>1. IInv => \A t \in Thread : pc[t] = "reply" => latest.thread = t
    BY DEF IInv, OutcomesAreLatest
<1>2. IInv /\ [Next]_vars =>
        [\A t \in Thread : pc[t] = "reply" /\ pc'[t] \in {"wait", "second_lookup"}
            => latest.thread = t]_vars
    BY <1>1
<1> QED
    BY <1>2, Invariance, PTL DEF Spec, OnlyLatestReplyStored
===============================================================================
