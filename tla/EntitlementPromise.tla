-------------------------- MODULE EntitlementPromise --------------------------
(***************************************************************************)
(* What get_principal_entitlements promises its callers, whatever it has   *)
(* cached: an answer is made of claims about the principal that were true  *)
(* lately - each one, not all of them at one instant - or there is none.   *)
(* EntitlementCache implements this with the bounds it derives for         *)
(* "lately"; Requests is built on it.                                      *)
(***************************************************************************)
CONSTANTS
    Thread, Principal,
    Entitlement,
    NoAnswer,       \* told[t] of a thread that has none
    Unavailable     \* the answer of a failed lookup

VARIABLES
    enabled,    \* enabled[p]: p exists in Keycloak and is enabled
    granted,    \* granted[p]: the entitlements Keycloak gives p
    lately,     \* lately[p]: the claims about p that were true a short while ago
    told        \* told[t]: what thread t has been told

promiseVars == <<enabled, granted, lately, told>>

Fact == {"enabled"} \cup Entitlement
Claim == [fact : Fact, holds : BOOLEAN]

\* The claims about p that are true now.
Present(p) ==
    {[fact |-> "enabled", holds |-> enabled[p]]}
        \cup {[fact |-> e, holds |-> e \in granted[p]] : e \in Entitlement}

Absent == [enabled |-> FALSE, granted |-> {}]
Holder(held) == [enabled |-> TRUE, granted |-> held]

WasLately(p, fact, holds) == [fact |-> fact, holds |-> holds] \in lately[p]

\* What a caller may be told of p.
Answers(p) ==
    (IF WasLately(p, "enabled", FALSE) THEN {Absent} ELSE {})
        \cup {Holder(held) : held \in {S \in SUBSET Entitlement :
                /\ WasLately(p, "enabled", TRUE)
                /\ \A e \in Entitlement : WasLately(p, e, e \in S)}}

Init ==
    /\ enabled \in [Principal -> BOOLEAN] /\ granted \in [Principal -> SUBSET Entitlement]
    /\ lately = [p \in Principal |-> Present(p)]
    /\ told = [t \in Thread |-> NoAnswer]

\* One fact about p changes at a time.
Change(p, fact) ==
    /\ enabled' = [enabled EXCEPT ![p] = IF fact = "enabled" THEN ~ @ ELSE @]
    /\ granted' = [granted EXCEPT ![p] =
            IF fact = "enabled" THEN @ ELSE IF fact \in @ THEN @ \ {fact} ELSE @ \cup {fact}]
    /\ lately' = [lately EXCEPT ![p] = @ \cup Present(p)']
    /\ told' = told

\* What has changed is out of date after a while.
Settle ==
    /\ lately' \in [Principal -> SUBSET Claim]
    /\ \A p \in Principal : Present(p) \subseteq lately'[p] /\ lately'[p] \subseteq lately[p]
    /\ UNCHANGED <<enabled, granted, told>>

\* All of it at once: a special case, which leaves no more answers than there
\* would have been.
SettleAll ==
    /\ lately' = [p \in Principal |-> Present(p)]
    /\ UNCHANGED <<enabled, granted, told>>

Answer(t, p) ==
    /\ told[t] = NoAnswer
    /\ \E a \in Answers(p) \cup {Unavailable} : told' = [told EXCEPT ![t] = a]
    /\ UNCHANGED <<enabled, granted, lately>>

Forget(t) ==
    /\ told[t] # NoAnswer
    /\ told' = [told EXCEPT ![t] = NoAnswer]
    /\ UNCHANGED <<enabled, granted, lately>>

Next ==
    \/ \E p \in Principal, fact \in Fact : Change(p, fact)
    \/ Settle
    \/ \E t \in Thread : Forget(t) \/ \E p \in Principal : Answer(t, p)

Spec == Init /\ [][Next]_promiseVars
===============================================================================
