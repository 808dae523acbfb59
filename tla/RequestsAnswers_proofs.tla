------------------------- MODULE RequestsAnswers_proofs -------------------------
(***************************************************************************)
(* Proofs about what Requests answers, for any threads, queries, keys and  *)
(* slots: every check leaves evidence behind, in the facts that a request  *)
(* remembers, and what the slots' reader has got so far is explained by    *)
(* the files as they were and by the order in which they were replaced.    *)
(* Then: the components are used as they promise to be, revoking a key and *)
(* disabling an account last, and every stored row has been asked for.     *)
(***************************************************************************)
EXTENDS Requests_proofs

-----------------------------------------------------------------------------
(* What a request remembers                                                *)

\* What is true now has been true, and what has stayed true is true now.
Remembers(t) == InProgress(t) => Facts(t) \subseteq ever[t] /\ steady[t] \subseteq Facts(t)

-----------------------------------------------------------------------------
(* The slots                                                               *)

Wrote(t, kind, s) == \E i \in DOMAIN writes[t] : writes[t][i] = <<kind, s>>

\* A grant that has been read, while its slot's verifier has not.
Holds(t, s, grant) == reading[t].slot = s /\ s \in Slots!Slot /\ reading[t].grant = grant

WasConfigured(t, e) == <<"configured", e>> \in ever[t]
WasBroken(t) == \E s \in Slots!Slot : <<"broken", s>> \in ever[t]
HadDuplicates(t) == <<"duplicates", TRUE>> \in ever[t]

\* Every entry for the credential was configured, or is torn.
TornRead(t) ==
    \A k \in Secret : k = query[t].credential =>
        /\ \A e \in Slots!Loaded(t) :
            e.verifier = k => WasConfigured(t, e) \/ GrantFirst(t, e.slot)
        /\ \A s \in Slots!Slot, g \in Descriptor : Holds(t, s, g) =>
            \/ grantFile[s] = g
            \/ WasConfigured(t, EntryOf(s, g, k))
            \/ Wrote(t, "grant", s) /\ (verifierFile[s] = k => GrantFirst(t, s))

\* What a reader does not get past.
Bad(grant, verifier) ==
    \/ {grant, verifier} \cap {Garbled, Missing} # {}
    \/ verifier # Blank /\ ~ (grant \in Descriptor /\ verifier \in Secret)

\* No slot that has stayed broken has been passed.
BrokenRead(t) ==
    \A s \in Slots!Slot : <<"broken", s>> \in steady[t] =>
        /\ s < reading[t].slot => GrantFirst(t, s)
        /\ \A g \in Descriptor \cup {Malformed} : Holds(t, s, g) =>
            \/ grantFile[s] = g
            \/ GrantFirst(t, s)
            \/ Wrote(t, "grant", s) /\ Bad(g, verifierFile[s])

\* No entry that has stayed configured has been missed.
KeptRead(t) ==
    \A e \in Slots!Entry : <<"configured", e>> \in steady[t] =>
        /\ e.slot < reading[t].slot => e \in Slots!Loaded(t)
        /\ e.slot = reading[t].slot => reading[t].grant \in {NoFile, e.key}

\* An entry that is not configured any more: whatever is configured beside it
\* was a duplicate of it if it has the same verifier.
Outdated(t, e) ==
    /\ Len(writes[t]) = 1 /\ writes[t][1][2] = e.slot
    /\ \A f \in Slots!Configured : f.slot # e.slot /\ f.verifier = e.verifier => HadDuplicates(t)

\* With at most one file replaced there is a cause for whatever goes wrong.
CauseRead(t) ==
    Len(writes[t]) < 2 =>
        /\ reading[t].fault = "configuration" => WasBroken(t)
        /\ \A d, e \in Slots!Loaded(t) :
            d.slot # e.slot /\ d.verifier = e.verifier => HadDuplicates(t)
        /\ \A e \in Slots!Loaded(t) : e \in Slots!Configured \/ Outdated(t, e)
        /\ \A s \in Slots!Slot, g \in Descriptor : Holds(t, s, g) =>
            \/ grantFile[s] = g
            \/ /\ Len(writes[t]) = 1
               /\ \A v \in Secret : verifierFile[s] = v => Outdated(t, EntryOf(s, g, v))
        /\ \A s \in Slots!Slot : Holds(t, s, Malformed) =>
            \/ WasBroken(t)
            \/ verifierFile[s] = Blank /\ (grantFile[s] = Malformed \/ Len(writes[t]) = 1)

\* What a request that reads the slots knows of them.
SlotsRead(t) ==
    InProgress(t) /\ ByKey(t) => TornRead(t) /\ BrokenRead(t) /\ KeptRead(t) /\ CauseRead(t)

-----------------------------------------------------------------------------
(* Evidence for the checks                                                 *)

Gated(t) == InProgress(t) /\ ByKey(t) /\ pc[t] # "gate" => <<"available", TRUE>> \in ever[t]

\* The row that the table has answered was live, and is if any is.
SaidValid(t) ==
    LET k == query[t].credential
        row == answer[t].row
    IN  /\ k \in KeyId /\ row \in Row
        /\ <<"live", k, row.owner>> \in ever[t]
        /\ \A o \in User : <<"live", k, o>> \in steady[t] => o = row.owner

SaidInvalid(t) == \A o \in User : <<"live", query[t].credential, o>> \notin steady[t]

\* What the key table has answered.
KeyChecked(t) ==
    /\ pc[t] = "result" =>
        /\ answer[t].kind = "valid" => SaidValid(t)
        /\ answer[t].kind = "invalid" => SaidInvalid(t)
    /\ pc[t] \in {"ask", "told"} /\ call[t] # NoCall =>
            SaidValid(t) /\ principal[t] = answer[t].row.owner
    /\ pc[t] \in {"token_gate", "signing_key", "second_lookup"} /\ Op(t) = "caller" =>
            SaidInvalid(t)

\* Whoever has a name, or is known to, is among those that have had it.
NamesKept == \A c \in Client : {holder[c], known[c]} \ {NoUuid} \subseteq named[c]

\* So is the client that a request has found.
Resolved(t) == pc[t] \in {"client", "service_account"} => uuid[t] \in named[ClientOf(t)]

\* p was the account of a client that has had the name in t's grant.
WasAccount(t, p) == \E i \in named[ClientOf(t)] : <<"account", i, p>> \in ever[t]

\* p has stayed the account of the only client that has had the name c.
KeptAccount(t, c, p) ==
    \E i \in Uuid : named[c] \subseteq {i} /\ <<"account", i, p>> \in steady[t]

\* Whose entitlements are asked for.
AccountFound(t) ==
    pc[t] \in {"ask", "told"} =>
        /\ ByKey(t) /\ call[t] = NoCall =>
            /\ principal[t] \in ServiceAccount
            /\ WasAccount(t, principal[t])
            /\ \A p : KeptAccount(t, ClientOf(t), p) => p = principal[t]
        /\ ~ ByKey(t) => principal[t] = query[t].target
        /\ Op(t) = "create" => MayTarget(query[t])

\* Keycloak has named t's principal as enabled, and as the holder of held.
ToldHolder(t, held) ==
    /\ held \subseteq Permission /\ told[t] = Keycloak!Holder(held)
    /\ Claimed(t, principal[t], "enabled", TRUE)
    /\ \A e \in held : Claimed(t, principal[t], e, TRUE)

ToldTruth(t) ==
    pc[t] = "told" =>
        \/ told[t] = Unavailable
        \/ told[t] = Keycloak!Absent /\ Claimed(t, principal[t], "enabled", FALSE)
        \/ \E held \in SUBSET Permission : ToldHolder(t, held)

\* A creation on its way to the key table.
GrantAllowed(t) ==
    pc[t] \in {"connect", "statement", "result"} /\ Op(t) = "create" =>
        /\ MayTarget(query[t])
        /\ \A e \in query[t].grant : Claimed(t, query[t].target, e, TRUE)

Evidence(t) ==
    /\ Gated(t) /\ KeyChecked(t) /\ Resolved(t) /\ AccountFound(t)
    /\ ToldTruth(t) /\ GrantAllowed(t)

\* All that is known of a request in progress.
History(t) == Remembers(t) /\ SlotsRead(t) /\ Evidence(t)

\* A managed key that has been accepted names a client.
ClientNamed ==
    \A t \in Thread : Accepted(t) /\ query[t].credential \in Secret => ClientOf(t) \in Client

\* The inductive invariant: places, evidence and what is promised of the answers.
IInv ==
    /\ Types /\ Control /\ NamesKept /\ ClientNamed
    /\ \A t \in Thread : History(t)
    /\ AcceptedWasJustified /\ TornOnlyIfGrantFirst /\ BrokenSlotRefusesAll
    /\ KeptKeyNeverRefused /\ UnavailabilityHasCause /\ GrantsWithinTarget

-----------------------------------------------------------------------------
(* The facts of an instant                                                 *)

\* The facts of an instant, one kind at a time: the state of the pod,
LEMMA AvailableFact ==
    ASSUME NEW t \in Thread, NEW b PROVE <<"available", b>> \in Facts(t) <=> b = open
BY DEF Facts, SlotFacts

\* what was said of the principals,
LEMMA ClaimFact ==
    ASSUME NEW t \in Thread, NEW p \in Concerned(t), NEW fact, NEW holds,
           Keycloak!WasLately(p, fact, holds)
    PROVE  <<"claim", p, fact, holds>> \in Facts(t)
<1> DEFINE c == [fact |-> fact, holds |-> holds]
<1>1. c \in lately[p] /\ c.fact = fact /\ c.holds = holds
    BY DEF Keycloak!WasLately
<1> HIDE DEF c
<1>2. <<"claim", p, fact, holds>> \in
        UNION {{<<"claim", r, d.fact, d.holds>> : d \in lately[r]} : r \in Concerned(t)}
    BY <1>1
<1> QED
    BY <1>2 DEF Facts

\* the live keys,
LEMMA LiveFact ==
    ASSUME NEW t \in Thread, NEW k, NEW o
    PROVE  <<"live", k, o>> \in Facts(t)
                <=> k \in KeyId /\ Presents(t, {k}) /\ Live(k) /\ o = rows[k].owner
<1> DEFINE keys == {j \in KeyId : Presents(t, {j}) /\ Live(j)}
           owner(j) == rows[j].owner
<1>1. <<"live", k, o>> \in Facts(t) <=> <<"live", k, o>> \in {<<"live", j, owner(j)>> : j \in keys}
    <2> HIDE DEF keys, owner
    <2> QED
        BY DEF Facts, SlotFacts, keys, owner
<1>2. <<"live", k, o>> \in {<<"live", j, owner(j)>> : j \in keys} <=> k \in keys /\ o = owner(k)
    <2> HIDE DEF keys, owner
    <2> QED
        OBVIOUS
<1> QED
    BY <1>1, <1>2

\* the service accounts,
LEMMA AccountFact ==
    ASSUME NEW t \in Thread, NEW i, NEW a
    PROVE  <<"account", i, a>> \in Facts(t)
                <=> i \in Uuid /\ Presents(t, Secret) /\ a = account[i]
BY DEF Facts, SlotFacts

\* and the slots.
LEMMA SlotFact ==
    ASSUME NEW t \in Thread, ByKey(t)
    PROVE  /\ \A s : <<"broken", s>> \in Facts(t) <=> s \in Slots!Slot /\ Slots!Broken(s)
           /\ \A d : <<"duplicates", d>> \in Facts(t) <=> d = Slots!Duplicates(Slots!Configured)
           /\ \A e : <<"configured", e>> \in Facts(t)
                        <=> e \in Slots!Configured /\ e.verifier = query[t].credential
BY DEF Facts, SlotFacts

-----------------------------------------------------------------------------
(* What a step does to a request's memory                                  *)

\* An answer stands, with the memory it was given from.
Frozen(t) ==
    /\ pc[t] = "answered" /\ Still(t)
    /\ ever'[t] = ever[t] /\ steady'[t] = steady[t] /\ writes'[t] = writes[t]

\* A request in progress adds what is true now to what it remembers.
Follows(t) ==
    /\ Facts(t)' \subseteq ever'[t] /\ ever[t] \subseteq ever'[t]
    /\ steady'[t] \subseteq Facts(t)' /\ steady'[t] \subseteq steady[t]

\* The file that is replaced while a request goes on is noted.
Noted(t) ==
    writes'[t] = IF ByKey(t)' /\ Replaced # {}
                 THEN Append(writes[t], CHOOSE file \in Replaced : TRUE) ELSE writes[t]

Arrives(t) == \E q \in Asks[t] : Arrive(t, q)

\* A request steps while it is in progress, or leaves with its answer.
LEMMA HandlePlace ==
    ASSUME Types, NEW t \in Thread, Handle(t)
    PROVE  Respond(t) \/ (InProgress(t) /\ pc'[t] # "idle")
<1>1. pc \in [Thread -> Place]
    BY DEF Types, TypeOK
<1>2. /\ \A status, permissions : Grants(t, status, permissions) => pc'[t] = "answered"
      /\ \A status : Says(t, status) => pc'[t] = "answered"
      /\ \A where : Goto(t, where) => pc'[t] = where
    BY <1>1 DEF Grants, Says, Goto
<1>3. CASE ReadSlots(t)
    BY <1>3 DEF ReadSlots, work, InProgress
<1>4. CASE KeyFound(t)
    BY <1>2, <1>4 DEF KeyFound, TokenVerified, InProgress
<1>5. ASSUME ~ ReadSlots(t), ~ KeyFound(t), ~ Respond(t) PROVE pc[t] \notin {"idle", "answered"}
    BY <1>5 DEF Handle, Gate, TokenGate, RefreshSucceeds, RefreshFails, KeyMissing, Match,
        ResolveClient, KnownClient, FindClient, StoreClient, FindAccount, Connect, ConnectFails,
        Statement, ProbeStatement, Result, Ask, Decide, ContextTooLarge, CallFails, Calling,
        Resolving, ProbeSucceeds, Invalidate
<1>6. ASSUME ~ ReadSlots(t), ~ KeyFound(t), ~ Respond(t) PROVE pc'[t] # "idle"
    BY <1>2, <1>6 DEF Handle, Gate, TokenGate, RefreshSucceeds, RefreshFails, KeyMissing, Match,
        ResolveClient, KnownClient, FindClient, StoreClient, FindAccount, Connect, ConnectFails,
        Statement, ProbeStatement, Result, Ask, Decide, ContextTooLarge, CallFails, ProbeSucceeds,
        Invalidate
<1> QED
    BY <1>3, <1>4, <1>5, <1>6 DEF InProgress

\* From one state of a request to the next.
LEMMA Steps ==
    ASSUME Types, Next, NEW t \in Thread
    PROVE  \/ pc'[t] = "idle"
           \/ Frozen(t)
           \/ pc[t] = "idle" /\ Arrives(t)
           \/ InProgress(t) /\ Still(t) /\ Follows(t) /\ Noted(t)
           \/ InProgress(t) /\ Handle(t) /\ pc'[t] # "idle" /\ Follows(t) /\ Noted(t)
<1>1. CASE Still(t)
    <2>1. pc'[t] = pc[t]
        BY <1>1 DEF Still
    <2>2. pc[t] = "answered" => Frozen(t)
        BY <1>1, <2>1 DEF Next, Remember, Frozen
    <2>3. InProgress(t) => Follows(t) /\ Noted(t)
        BY <2>1 DEF Next, Remember, Follows, Noted, InProgress
    <2> QED
        BY <1>1, <2>1, <2>2, <2>3 DEF InProgress
<1>2. CASE Handle(t)
    <2>1. CASE Respond(t)
        BY <2>1 DEF Respond, Types, TypeOK
    <2>2. CASE InProgress(t) /\ pc'[t] # "idle"
        BY <1>2, <2>2 DEF Next, Remember, Follows, Noted, InProgress
    <2> QED
        BY <1>2, <2>1, <2>2, HandlePlace
<1>3. CASE Arrives(t)
    BY <1>3 DEF Arrives, Arrive
<1> QED
    BY <1>1, <1>2, <1>3, Actor DEF OthersStill, Arrives

\* What has just arrived knows of the present.
LEMMA ArrivalMemory ==
    ASSUME Types, Next, NEW t \in Thread, pc[t] = "idle", pc'[t] # "idle"
    PROVE  Facts(t)' \subseteq ever'[t] /\ steady'[t] \subseteq Facts(t)'
BY DEF Next, Remember

\* A request in progress remembers whatever happens.
LEMMA RemembersNext ==
    ASSUME Types, Next, NEW t \in Thread PROVE Remembers(t)'
<1> SUFFICES ASSUME InProgress(t)' PROVE Facts(t)' \subseteq ever'[t] /\ steady'[t] \subseteq Facts(t)'
    BY DEF Remembers
<1>1. pc'[t] # "idle" /\ ~ Frozen(t)
    BY DEF InProgress, Frozen, Still
<1> QED
    BY <1>1, Steps, ArrivalMemory DEF Follows

\* Nothing but the owner of the files makes a request note anything.
LEMMA Undisturbed ==
    ASSUME UNCHANGED <<grantFile, verifierFile>>, NEW t \in Thread, Noted(t)
    PROVE  writes'[t] = writes[t]
BY DEF Noted, Replaced

\* The steps that replace no file.
LEMMA FilesStay ==
    ASSUME Next PROVE ReplaceFile \/ UNCHANGED <<grantFile, verifierFile>>
BY WorldUntouched, Outside DEF Next, slotVars

-----------------------------------------------------------------------------
(* What has been read of the slots                                         *)

\* The order of replacements is a matter of a request's notes alone.
LEMMA SameNotes ==
    ASSUME NEW t \in Thread, writes'[t] = writes[t]
    PROVE  /\ \A s : GrantFirst(t, s)' <=> GrantFirst(t, s)
           /\ \A kind, s : Wrote(t, kind, s)' <=> Wrote(t, kind, s)
BY DEF GrantFirst, Wrote

\* The slots are what their files are.
LEMMA SameFiles ==
    ASSUME UNCHANGED <<grantFile, verifierFile>>
    PROVE  Slots!Configured' = Slots!Configured /\ \A s : Slots!Broken(s)' <=> Slots!Broken(s)
<1>1. \A s : Slots!Active(s)' <=> Slots!Active(s)
    BY DEF Slots!Active
<1> QED
    BY <1>1 DEF Slots!Configured, Slots!Broken

\* What has been loaded stays loaded.
LEMMA SameReading ==
    ASSUME NEW t \in Thread, reading'[t] = reading[t]
    PROVE  /\ Slots!Loaded(t)' = Slots!Loaded(t)
           /\ \A s, g : Holds(t, s, g)' <=> Holds(t, s, g)
BY DEF Slots!Loaded, Holds

\* What a request remembers of the slots is never taken back.
LEMMA MoreEvidence ==
    ASSUME NEW t \in Thread, ever[t] \subseteq ever'[t]
    PROVE  /\ \A e : WasConfigured(t, e) => WasConfigured(t, e)'
           /\ WasBroken(t) => WasBroken(t)'
           /\ HadDuplicates(t) => HadDuplicates(t)'
BY DEF WasConfigured, WasBroken, HadDuplicates

\* A step that reads and replaces no file.
LEMMA SlotsKept ==
    ASSUME NEW t \in Thread, SlotsRead(t), InProgress(t), ByKey(t),
           reading'[t] = reading[t], query'[t] = query[t], Follows(t),
           UNCHANGED <<grantFile, verifierFile>>, writes'[t] = writes[t]
    PROVE  SlotsRead(t)'
<1>1. TornRead(t) /\ BrokenRead(t) /\ KeptRead(t) /\ CauseRead(t)
    BY DEF SlotsRead
<1>2. /\ ever[t] \subseteq ever'[t] /\ steady'[t] \subseteq steady[t]
      /\ \A e : WasConfigured(t, e) => WasConfigured(t, e)'
      /\ WasBroken(t) => WasBroken(t)'
      /\ HadDuplicates(t) => HadDuplicates(t)'
    BY MoreEvidence DEF Follows
<1>3. \A e : Outdated(t, e) => Outdated(t, e)'
    BY <1>2, SameFiles DEF Outdated
<1>4. TornRead(t)'
    BY <1>1, <1>2, SameNotes, SameReading DEF TornRead, Slots!Slot
<1>5. BrokenRead(t)'
    BY <1>1, <1>2, SameNotes, SameReading DEF BrokenRead, Slots!Slot, Bad
<1>6. KeptRead(t)'
    BY <1>1, <1>2, SameReading DEF KeptRead, Slots!Entry, Slots!Slot
<1>7. CauseRead(t)'
    BY <1>1, <1>2, <1>3, SameFiles, SameReading DEF CauseRead, Slots!Slot
<1> QED
    BY <1>4, <1>5, <1>6, <1>7 DEF SlotsRead

\* At first nothing has been read.
LEMMA SlotsArrive ==
    ASSUME Types, Control, NEW t \in Thread, Arrives(t) PROVE SlotsRead(t)'
<1>1. reading'[t] = Slots!Unread
    BY DEF Control, OnCourse, Loading, Arrives, Arrive, Components, slotVars
<1>2. Slots!Loaded(t)' = {} /\ reading'[t].slot = 1
    BY <1>1 DEF Slots!Loaded, Slots!Unread
<1>3. \A s, g : g \in Descriptor \cup {Malformed} => ~ Holds(t, s, g)'
    BY <1>1, FileAssumption DEF Holds, Slots!Unread
<1>4. reading'[t].fault # "configuration" /\ reading'[t].grant = NoFile
    BY <1>1 DEF Slots!Unread
<1>5. \A s \in Slots!Slot : s \in Int /\ ~ s < 1
    BY SizeAssumption DEF Slots!Slot
<1>6. TornRead(t)' /\ CauseRead(t)'
    BY <1>2, <1>3, <1>4 DEF TornRead, CauseRead, Slots!Slot
<1>7. BrokenRead(t)'
    BY <1>2, <1>3, <1>5 DEF BrokenRead, Slots!Slot
<1>8. KeptRead(t)'
    BY <1>2, <1>4, <1>5 DEF KeptRead, Slots!Slot, Slots!Entry
<1> QED
    BY <1>6, <1>7, <1>8 DEF SlotsRead

\* A request's notes, when a file is replaced.
LEMMA NotesGrow ==
    ASSUME Types, NEW t \in Thread, NEW file \in File, writes'[t] = Append(writes[t], file)
    PROVE  /\ \A s : GrantFirst(t, s) => GrantFirst(t, s)'
           /\ \A kind, s : Wrote(t, kind, s) => Wrote(t, kind, s)'
           /\ Wrote(t, file[1], file[2])'
           /\ \A s : file = <<"verifier", s>> /\ Wrote(t, "grant", s) => GrantFirst(t, s)'
           /\ Len(writes'[t]) < 2 => Len(writes[t]) = 0 /\ Len(writes'[t]) = 1 /\ writes'[t][1] = file
<1>1. /\ writes[t] \in Seq(File) /\ Len(writes[t]) \in Nat
      /\ DOMAIN writes[t] = 1..Len(writes[t])
    BY DEF Types
<1>2. /\ Len(writes'[t]) = Len(writes[t]) + 1 /\ DOMAIN writes'[t] = 1..(Len(writes[t]) + 1)
      /\ \A i \in 1..Len(writes[t]) : writes'[t][i] = writes[t][i]
      /\ writes'[t][Len(writes[t]) + 1] = file
    BY <1>1
<1>3. file = <<file[1], file[2]>>
    BY DEF File
<1>4. ASSUME NEW s, GrantFirst(t, s) PROVE GrantFirst(t, s)'
    <2>1. PICK i, j \in DOMAIN writes[t] :
            i < j /\ writes[t][i] = <<"grant", s>> /\ writes[t][j] = <<"verifier", s>>
        BY <1>4 DEF GrantFirst
    <2>2. /\ i \in DOMAIN writes'[t] /\ writes'[t][i] = <<"grant", s>>
          /\ j \in DOMAIN writes'[t] /\ writes'[t][j] = <<"verifier", s>>
        BY <1>1, <1>2, <2>1
    <2> QED
        BY <2>1, <2>2 DEF GrantFirst
<1>5. \A kind, s : Wrote(t, kind, s) => Wrote(t, kind, s)'
    BY <1>1, <1>2 DEF Wrote
<1>6. Wrote(t, file[1], file[2])'
    <2>1. Len(writes[t]) + 1 \in DOMAIN writes'[t] /\ writes'[t][Len(writes[t]) + 1] = <<file[1], file[2]>>
        BY <1>1, <1>2, <1>3
    <2> QED
        BY <2>1 DEF Wrote
<1>7. ASSUME NEW s, file = <<"verifier", s>>, Wrote(t, "grant", s) PROVE GrantFirst(t, s)'
    <2>1. PICK i \in 1..Len(writes[t]) : writes[t][i] = <<"grant", s>>
        BY <1>1, <1>7 DEF Wrote
    <2>2. /\ writes'[t][i] = <<"grant", s>> /\ writes'[t][Len(writes[t]) + 1] = <<"verifier", s>>
          /\ i \in DOMAIN writes'[t] /\ Len(writes[t]) + 1 \in DOMAIN writes'[t]
          /\ i < Len(writes[t]) + 1
        BY <1>1, <1>2, <1>7, <2>1
    <2> QED
        BY <2>2 DEF GrantFirst
<1>8. Len(writes'[t]) < 2 => Len(writes[t]) = 0 /\ Len(writes'[t]) = 1 /\ writes'[t][1] = file
    BY <1>1, <1>2
<1> QED
    BY <1>4, <1>5, <1>6, <1>7, <1>8

\* What is configured is what an active slot's files say.
LEMMA ConfiguredEntries ==
    /\ \A e : e \in Slots!Configured <=>
        \E s \in Slots!Slot : Slots!Active(s) /\ e = EntryOf(s, grantFile[s], verifierFile[s])
    /\ \A s \in Slots!Slot : Slots!Active(s) =>
            EntryOf(s, grantFile[s], verifierFile[s]) \in Slots!Configured
    /\ \A e \in Slots!Configured :
        /\ e.slot \in Slots!Slot /\ Slots!Active(e.slot)
        /\ e.key = grantFile[e.slot] /\ e.verifier = verifierFile[e.slot]
        /\ e = EntryOf(e.slot, e.key, e.verifier)
BY DEF Slots!Configured, EntryOf

\* A broken slot is one that no reader gets past.
LEMMA BrokenIsBad ==
    ASSUME NEW s PROVE Slots!Broken(s) <=> Bad(grantFile[s], verifierFile[s])
BY DEF Slots!Broken, Slots!Active, Bad

\* One of two files of slot r is replaced.
ReplacedFile(r, file) ==
    \/ /\ file = <<"grant", r>> /\ verifierFile' = verifierFile /\ grantFile'[r] # grantFile[r]
       /\ \A s \in Slots!Slot : s # r => grantFile'[s] = grantFile[s]
    \/ /\ file = <<"verifier", r>> /\ grantFile' = grantFile /\ verifierFile'[r] # verifierFile[r]
       /\ \A s \in Slots!Slot : s # r => verifierFile'[s] = verifierFile[s]

\* A step replaces at most one file, and its kind is on record.
LEMMA ReplacedFiles ==
    ASSUME Types, ReplaceFile
    PROVE  \E r \in Slots!Slot, file \in File :
                /\ ReplacedFile(r, file)
                /\ Replaced = {file} /\ (CHOOSE f \in Replaced : TRUE) = file
<1>1. /\ grantFile \in [Slots!Slot -> Slots!GrantContent]
      /\ verifierFile \in [Slots!Slot -> Slots!VerifierContent]
    BY FilesTyped
<1>2. ASSUME NEW r \in Slots!Slot, NEW content, Slots!ReplaceGrant(r, content)
      PROVE  ReplacedFile(r, <<"grant", r>>) /\ Replaced = {<<"grant", r>>}
    <2>1. ReplacedFile(r, <<"grant", r>>)
        BY <1>1, <1>2 DEF Slots!ReplaceGrant, ReplacedFile
    <2>2. /\ \A s \in Slots!Slot : grantFile[s] # grantFile'[s] <=> s = r
          /\ \A s \in Slots!Slot : verifierFile[s] = verifierFile'[s]
        BY <1>1, <1>2 DEF Slots!ReplaceGrant
    <2> QED
        BY <2>1, <2>2 DEF Replaced
<1>3. ASSUME NEW r \in Slots!Slot, NEW content, Slots!ReplaceVerifier(r, content)
      PROVE  ReplacedFile(r, <<"verifier", r>>) /\ Replaced = {<<"verifier", r>>}
    <2>1. ReplacedFile(r, <<"verifier", r>>)
        BY <1>1, <1>3 DEF Slots!ReplaceVerifier, ReplacedFile
    <2>2. /\ \A s \in Slots!Slot : verifierFile[s] # verifierFile'[s] <=> s = r
          /\ \A s \in Slots!Slot : grantFile[s] = grantFile'[s]
        BY <1>1, <1>3 DEF Slots!ReplaceVerifier
    <2> QED
        BY <2>1, <2>2 DEF Replaced
<1>4. \A r \in Slots!Slot : <<"grant", r>> \in File /\ <<"verifier", r>> \in File
    BY DEF File
<1>5. \A file : Replaced = {file} => (CHOOSE f \in Replaced : TRUE) = file
    OBVIOUS
<1>6. PICK r \in Slots!Slot : \/ \E content : Slots!ReplaceGrant(r, content)
                              \/ \E content : Slots!ReplaceVerifier(r, content)
    BY DEF ReplaceFile
<1>7. \/ ReplacedFile(r, <<"grant", r>>) /\ Replaced = {<<"grant", r>>}
      \/ ReplacedFile(r, <<"verifier", r>>) /\ Replaced = {<<"verifier", r>>}
    BY <1>2, <1>3, <1>6
<1> QED
    BY <1>4, <1>5, <1>7

\* A step that replaces a file, under a reader's eyes.
LEMMA SlotsReplaced ==
    ASSUME Types, Types', NEW t \in Thread, SlotsRead(t), Remembers(t), InProgress(t), ByKey(t),
           Still(t), Follows(t), Noted(t), ReplaceFile
    PROVE  SlotsRead(t)'
<1>1. TornRead(t) /\ BrokenRead(t) /\ KeptRead(t) /\ CauseRead(t)
    BY DEF SlotsRead
<1>2. reading'[t] = reading[t] /\ query'[t] = query[t] /\ query[t].credential' = query[t].credential
    BY DEF Still
<1>3. ByKey(t)'
    BY <1>2 DEF ByKey, Op
<1>4. PICK r \in Slots!Slot, file \in File :
            ReplacedFile(r, file) /\ writes'[t] = Append(writes[t], file)
    BY <1>3, ReplacedFiles DEF Noted
<1>5. /\ \A s : GrantFirst(t, s) => GrantFirst(t, s)'
      /\ \A kind, s : Wrote(t, kind, s) => Wrote(t, kind, s)'
      /\ Wrote(t, file[1], file[2])'
      /\ \A s : file = <<"verifier", s>> /\ Wrote(t, "grant", s) => GrantFirst(t, s)'
      /\ Len(writes'[t]) < 2 => Len(writes[t]) = 0 /\ Len(writes'[t]) = 1 /\ writes'[t][1] = file
    BY <1>4, NotesGrow
<1>6. /\ ever[t] \subseteq ever'[t] /\ steady'[t] \subseteq steady[t]
      /\ \A e : WasConfigured(t, e) => WasConfigured(t, e)'
      /\ WasBroken(t) => WasBroken(t)'
      /\ HadDuplicates(t) => HadDuplicates(t)'
    BY MoreEvidence DEF Follows
<1>7. /\ Facts(t) \subseteq ever[t] /\ steady[t] \subseteq Facts(t)
      /\ Facts(t)' \subseteq ever'[t]
    BY DEF Remembers, Follows
<1>8. /\ Slots!Loaded(t)' = Slots!Loaded(t)
      /\ \A s, g : Holds(t, s, g)' <=> Holds(t, s, g)
    BY <1>2, SameReading
<1>9. file = <<"grant", r>> \/ file = <<"verifier", r>>
    BY <1>4 DEF ReplacedFile
<1>10. /\ \A s \in Slots!Slot : s # r => grantFile'[s] = grantFile[s] /\ verifierFile'[s] = verifierFile[s]
       /\ file = <<"grant", r>> => verifierFile' = verifierFile
       /\ file = <<"verifier", r>> => grantFile' = grantFile
    BY <1>4 DEF ReplacedFile
<1>11. TornRead(t)'
    <2> SUFFICES ASSUME NEW k \in Secret, k = query[t].credential
                 PROVE  /\ \A e \in Slots!Loaded(t)' : e.verifier = k =>
                            WasConfigured(t, e)' \/ GrantFirst(t, e.slot)'
                        /\ \A s \in Slots!Slot, g \in Descriptor : Holds(t, s, g)' =>
                            \/ grantFile'[s] = g
                            \/ WasConfigured(t, EntryOf(s, g, k))'
                            \/ Wrote(t, "grant", s)' /\ (verifierFile'[s] = k => GrantFirst(t, s)')
        BY <1>2 DEF TornRead, Slots!Slot
    <2>1. \A e \in Slots!Loaded(t) : e.verifier = k => WasConfigured(t, e)' \/ GrantFirst(t, e.slot)'
        BY <1>1, <1>5, <1>6 DEF TornRead
    <2>2. ASSUME NEW s \in Slots!Slot, NEW g \in Descriptor, Holds(t, s, g), grantFile'[s] # g,
                 ~ WasConfigured(t, EntryOf(s, g, k))'
          PROVE  Wrote(t, "grant", s)' /\ (verifierFile'[s] = k => GrantFirst(t, s)')
        <3>1. CASE grantFile[s] = g
            <4>1. s = r /\ file = <<"grant", s>> /\ verifierFile' = verifierFile
                BY <1>9, <1>10, <2>2, <3>1
            <4>2. Wrote(t, "grant", s)'
                BY <1>5, <4>1
            <4>3. verifierFile[s] # k
                <5> SUFFICES ASSUME verifierFile[s] = k PROVE FALSE
                    OBVIOUS
                <5>2. Slots!Active(s)
                    BY <2>2, <3>1 DEF Slots!Active
                <5>3. EntryOf(s, g, k) \in Slots!Configured /\ EntryOf(s, g, k).verifier = k
                    BY <3>1, <5>2, ConfiguredEntries DEF EntryOf
                <5>4. <<"configured", EntryOf(s, g, k)>> \in Facts(t)
                    BY <5>3, SlotFact
                <5> QED
                    BY <1>6, <1>7, <2>2, <5>4 DEF WasConfigured
            <4> QED
                BY <4>1, <4>2, <4>3
        <3>2. CASE grantFile[s] # g
            <4>1. Wrote(t, "grant", s) /\ (verifierFile[s] = k => GrantFirst(t, s))
                BY <1>1, <1>6, <2>2, <3>2 DEF TornRead
            <4>2. CASE file = <<"verifier", s>>
                BY <1>5, <4>1, <4>2
            <4>3. CASE file # <<"verifier", s>>
                BY <1>5, <1>9, <1>10, <4>1, <4>3
            <4> QED
                BY <4>2, <4>3
        <3> QED
            BY <3>1, <3>2
    <2> QED
        BY <1>8, <2>1, <2>2
<1>12. BrokenRead(t)'
    <2>1. ASSUME NEW s \in Slots!Slot, <<"broken", s>> \in steady'[t],
                 NEW g \in Descriptor \cup {Malformed}, Holds(t, s, g), grantFile'[s] # g,
                 ~ GrantFirst(t, s)'
          PROVE  Wrote(t, "grant", s)' /\ Bad(g, verifierFile'[s])
        <3>1. <<"broken", s>> \in steady[t] /\ Slots!Broken(s)
            BY <1>6, <1>7, <2>1, SlotFact
        <3>2. CASE grantFile[s] = g
            <4>1. s = r /\ file = <<"grant", s>> /\ verifierFile' = verifierFile
                BY <1>9, <1>10, <2>1, <3>2
            <4> QED
                BY <1>5, <3>1, <3>2, <4>1, BrokenIsBad
        <3>3. CASE grantFile[s] # g
            <4>1. Wrote(t, "grant", s) /\ Bad(g, verifierFile[s])
                BY <1>1, <1>5, <2>1, <3>1, <3>3 DEF BrokenRead
            <4>2. file # <<"verifier", s>>
                BY <1>5, <2>1, <4>1
            <4> QED
                BY <1>5, <1>9, <1>10, <4>1, <4>2
        <3> QED
            BY <3>2, <3>3
    <2>2. \A s \in Slots!Slot : <<"broken", s>> \in steady'[t] /\ s < reading[t].slot => GrantFirst(t, s)'
        BY <1>1, <1>5, <1>6 DEF BrokenRead
    <2> QED
        BY <1>2, <1>8, <2>1, <2>2 DEF BrokenRead, Slots!Slot, Bad
<1>13. KeptRead(t)'
    BY <1>1, <1>2, <1>6, <1>8 DEF KeptRead, Slots!Entry, Slots!Slot
<1>14. CauseRead(t)'
    <2> SUFFICES ASSUME Len(writes'[t]) < 2 PROVE CauseRead(t)'
        BY DEF CauseRead
    <2>1. Len(writes[t]) = 0 /\ Len(writes'[t]) = 1 /\ writes'[t][1][2] = r
        BY <1>5, <1>9
    <2>2. \A e : ~ Outdated(t, e)
        BY <2>1 DEF Outdated
    <2>3. /\ reading[t].fault = "configuration" => WasBroken(t)
          /\ \A d, e \in Slots!Loaded(t) :
                d.slot # e.slot /\ d.verifier = e.verifier => HadDuplicates(t)
          /\ \A e \in Slots!Loaded(t) : e \in Slots!Configured
          /\ \A s \in Slots!Slot, g \in Descriptor : Holds(t, s, g) => grantFile[s] = g
          /\ \A s \in Slots!Slot : Holds(t, s, Malformed) =>
                WasBroken(t) \/ (verifierFile[s] = Blank /\ grantFile[s] = Malformed)
        BY <1>1, <2>1, <2>2 DEF CauseRead
    \* An entry of slot r that was configured before, and is not any more.
    <2>4. ASSUME NEW e \in Slots!Configured, e.slot = r PROVE Outdated(t, e)'
        <3>1. ASSUME NEW f \in Slots!Configured', f.slot # e.slot, f.verifier = e.verifier
              PROVE  HadDuplicates(t)'
            <4>1. f \in Slots!Configured
                <5>1. PICK s \in Slots!Slot :
                        Slots!Active(s)' /\ f = EntryOf(s, grantFile'[s], verifierFile'[s])
                    BY <3>1 DEF Slots!Configured, EntryOf, Slots!Slot
                <5>2. s # r
                    BY <2>4, <3>1, <5>1 DEF EntryOf
                <5>3. grantFile'[s] = grantFile[s] /\ verifierFile'[s] = verifierFile[s]
                    BY <1>10, <5>2
                <5> QED
                    BY <5>1, <5>3, ConfiguredEntries DEF Slots!Active
            <4>2. Slots!Duplicates(Slots!Configured) = TRUE
                BY <2>4, <3>1, <4>1 DEF Slots!Duplicates
            <4> QED
                BY <1>6, <1>7, <4>2, SlotFact DEF HadDuplicates
        <3> QED
            BY <2>1, <2>4, <3>1 DEF Outdated
    <2>5. ASSUME NEW e \in Slots!Configured, e.slot # r PROVE e \in Slots!Configured'
        <3>1. /\ e.slot \in Slots!Slot /\ Slots!Active(e.slot)
              /\ e = EntryOf(e.slot, grantFile[e.slot], verifierFile[e.slot])
            BY ConfiguredEntries
        <3>2. grantFile'[e.slot] = grantFile[e.slot] /\ verifierFile'[e.slot] = verifierFile[e.slot]
            BY <1>10, <2>5, <3>1
        <3> QED
            BY <3>1, <3>2 DEF Slots!Configured, Slots!Active, EntryOf, Slots!Slot
    <2>6. \A e \in Slots!Loaded(t) : e \in Slots!Configured' \/ Outdated(t, e)'
        BY <2>3, <2>4, <2>5
    <2>7. ASSUME NEW s \in Slots!Slot, NEW g \in Descriptor, Holds(t, s, g), grantFile'[s] # g,
                 NEW v \in Secret, verifierFile'[s] = v
          PROVE  Outdated(t, EntryOf(s, g, v))'
        <3>1. grantFile[s] = g /\ s = r /\ verifierFile' = verifierFile
            BY <1>9, <1>10, <2>3, <2>7
        <3>2. Slots!Active(s)
            BY <2>7, <3>1 DEF Slots!Active
        <3>3. EntryOf(s, g, v) \in Slots!Configured /\ EntryOf(s, g, v).slot = r
            BY <2>7, <3>1, <3>2, ConfiguredEntries DEF EntryOf
        <3> QED
            BY <2>4, <3>3
    <2>8. ASSUME NEW s \in Slots!Slot, Holds(t, s, Malformed), ~ WasBroken(t)'
          PROVE  verifierFile'[s] = Blank
        <3>1. verifierFile[s] = Blank /\ grantFile[s] = Malformed
            BY <1>6, <2>3, <2>8
        <3> SUFFICES ASSUME verifierFile'[s] # Blank PROVE FALSE
            OBVIOUS
        <3>2. s = r /\ grantFile' = grantFile
            BY <1>9, <1>10, <3>1
        <3>3. Slots!Broken(s)'
            BY <3>1, <3>2, FileAssumption DEF Slots!Broken, Slots!Active
        <3>4. <<"broken", s>> \in Facts(t)'
            BY <1>3, <3>3 DEF Facts, SlotFacts, Slots!Slot
        <3> QED
            BY <1>7, <2>8, <3>4 DEF WasBroken, Slots!Slot
    <2> QED
        BY <1>2, <1>6, <1>8, <2>1, <2>3, <2>6, <2>7, <2>8 DEF CauseRead, Slots!Slot
<1> QED
    BY <1>11, <1>12, <1>13, <1>14 DEF SlotsRead

\* What a reader may rely on when the files stay and nothing is noted.
LEMMA Present ==
    ASSUME NEW t \in Thread, ByKey(t), Remembers(t), InProgress(t)
    PROVE  /\ \A s \in Slots!Slot : <<"broken", s>> \in steady[t] => Bad(grantFile[s], verifierFile[s])
           /\ \A s \in Slots!Slot : Bad(grantFile[s], verifierFile[s]) => WasBroken(t)
           /\ \A e : <<"configured", e>> \in steady[t] => e \in Slots!Configured
           /\ \A e \in Slots!Configured : e.verifier = query[t].credential => WasConfigured(t, e)
           /\ Slots!Duplicates(Slots!Configured) => HadDuplicates(t)
<1>1. Facts(t) \subseteq ever[t] /\ steady[t] \subseteq Facts(t)
    BY DEF Remembers
<1>2. Slots!Duplicates(Slots!Configured) \in BOOLEAN
    BY DEF Slots!Duplicates
<1>3. Slots!Duplicates(Slots!Configured) => <<"duplicates", TRUE>> \in Facts(t)
    <2> SUFFICES ASSUME Slots!Duplicates(Slots!Configured) PROVE <<"duplicates", TRUE>> \in Facts(t)
        OBVIOUS
    <2>1. Slots!Duplicates(Slots!Configured) = TRUE
        BY <1>2, Zenon
    <2> QED
        BY <2>1, SlotFact
<1> QED
    BY <1>1, <1>3, SlotFact, BrokenIsBad DEF WasBroken, WasConfigured, HadDuplicates

\* A reader's step, and what it has got then.
LEMMA SlotsReadOn ==
    ASSUME Types, NEW t \in Thread, SlotsRead(t), Remembers(t), InProgress(t), ByKey(t),
           ReadSlots(t), Follows(t), Noted(t)
    PROVE  SlotsRead(t)'
<1> DEFINE s == At(t)
           g == reading[t].grant
           v == verifierFile[s]
<1>1. TornRead(t) /\ BrokenRead(t) /\ KeptRead(t) /\ CauseRead(t)
    BY DEF SlotsRead
<1>2. UNCHANGED <<grantFile, verifierFile>> /\ query'[t] = query[t]
    BY DEF ReadSlots, work, Slots!ReadGrant, Slots!ReadVerifier, Slots!files
<1>3. /\ writes'[t] = writes[t]
      /\ \A r : GrantFirst(t, r)' <=> GrantFirst(t, r)
      /\ \A kind, r : Wrote(t, kind, r)' <=> Wrote(t, kind, r)
    BY <1>2, Undisturbed, SameNotes
<1>4. /\ ever[t] \subseteq ever'[t] /\ steady'[t] \subseteq steady[t]
      /\ \A e : WasConfigured(t, e) => WasConfigured(t, e)'
      /\ WasBroken(t) => WasBroken(t)'
      /\ HadDuplicates(t) => HadDuplicates(t)'
    BY MoreEvidence DEF Follows
<1>5. Slots!Configured' = Slots!Configured
    BY <1>2, SameFiles
<1>6. \A e : Outdated(t, e) => Outdated(t, e)'
    BY <1>3, <1>4, <1>5 DEF Outdated
<1>7. /\ s \in Slots!Slot /\ s \in Int /\ reading[t].slot = s /\ \A r \in Slots!Slot : r \in Int
      /\ g \in Descriptor \cup {Malformed, NoFile} /\ v \in Slots!VerifierContent
      /\ grantFile[s] \in Slots!GrantContent
      /\ ReaderFailed(t) \/ GrantRead(t) \/ SlotSkipped(t) \/ SlotLoaded(t)
    BY ReaderSteps, FilesTyped, SizeAssumption DEF Slots!Slot, At, ReadingState
<1>8. /\ Malformed \notin Descriptor \cup Secret /\ Malformed \notin {Garbled, Missing, Blank}
      /\ Blank \notin {Garbled, Missing} /\ Blank \notin Secret /\ NoFile \notin Descriptor \cup {Malformed}
      /\ {Garbled, Missing} \cap (Descriptor \cup Secret) = {}
    BY FileAssumption DEF Credential
<1>9. g # NoFile => Holds(t, s, g)
    BY <1>7 DEF Holds
<1>10. CASE ReaderFailed(t)
    <2>1. /\ Slots!Loaded(t)' = Slots!Loaded(t) /\ reading'[t].slot = reading[t].slot
          /\ reading'[t].grant = reading[t].grant /\ \A r, d : Holds(t, r, d)' <=> Holds(t, r, d)
        BY <1>10, <1>2 DEF ReaderFailed, Holds, At
    <2>2. TornRead(t)'
        BY <1>1, <1>2, <1>3, <1>4, <2>1 DEF TornRead, Slots!Slot
    <2>3. BrokenRead(t)'
        BY <1>1, <1>2, <1>3, <1>4, <2>1 DEF BrokenRead, Slots!Slot, Bad
    <2>4. KeptRead(t)'
        BY <1>1, <1>2, <1>4, <2>1 DEF KeptRead, Slots!Entry, Slots!Slot
    <2>5. Len(writes[t]) < 2 => WasBroken(t)
        <3>1. CASE Bad(grantFile[s], v)
            BY <1>7, <3>1, Present
        <3>2. CASE ~ Bad(grantFile[s], v)
            <4>1. g = Malformed /\ v # Blank
                BY <1>8, <1>10, <3>2 DEF ReaderFailed, Bad
            <4> QED
                BY <1>1, <1>7, <1>8, <1>9, <4>1 DEF CauseRead
        <3> QED
            BY <3>1, <3>2
    <2>6. CauseRead(t)'
        BY <1>1, <1>2, <1>3, <1>4, <1>5, <1>6, <2>1, <2>5 DEF CauseRead, Slots!Slot
    <2> QED
        BY <2>2, <2>3, <2>4, <2>6 DEF SlotsRead
<1>11. CASE GrantRead(t)
    <2>1. /\ Slots!Loaded(t)' = Slots!Loaded(t) /\ reading'[t].slot = reading[t].slot
          /\ reading'[t].fault = "none" /\ reading'[t].grant = grantFile[s]
          /\ \A r, d : Holds(t, r, d)' => r = s /\ d = grantFile[s]
        BY <1>7, <1>11 DEF GrantRead, Holds, At
    <2>2. TornRead(t)'
        BY <1>1, <1>2, <1>3, <1>4, <2>1 DEF TornRead, Slots!Slot
    <2>3. BrokenRead(t)'
        BY <1>1, <1>2, <1>3, <1>4, <2>1 DEF BrokenRead, Slots!Slot
    <2>4. KeptRead(t)'
        BY <1>1, <1>2, <1>4, <1>7, <2>1, Present, ConfiguredEntries DEF KeptRead, Slots!Entry, Slots!Slot
    <2>5. grantFile[s] = Malformed => v = Blank \/ WasBroken(t)
        BY <1>7, <1>8, Present DEF Bad
    <2>6. CauseRead(t)'
        BY <1>1, <1>2, <1>3, <1>4, <1>5, <1>6, <2>1, <2>5 DEF CauseRead, Slots!Slot
    <2> QED
        BY <2>2, <2>3, <2>4, <2>6 DEF SlotsRead
<1>12. CASE SlotSkipped(t)
    <2>1. /\ Slots!Loaded(t)' = Slots!Loaded(t) /\ reading'[t].slot = s + 1
          /\ reading'[t].fault = "none" /\ reading'[t].grant = NoFile
          /\ \A r, d : d \in Descriptor \cup {Malformed} => ~ Holds(t, r, d)'
        BY <1>8, <1>12 DEF SlotSkipped, Holds, At
    <2>2. TornRead(t)'
        BY <1>1, <1>2, <1>3, <1>4, <2>1 DEF TornRead, Slots!Slot
    <2>3. <<"broken", s>> \in steady[t] => GrantFirst(t, s)
        BY <1>1, <1>7, <1>8, <1>9, <1>12, Present DEF SlotSkipped, Bad, BrokenRead
    <2>4. BrokenRead(t)'
        BY <1>1, <1>2, <1>3, <1>4, <1>7, <2>1, <2>3 DEF BrokenRead, Slots!Slot
    <2>5. \A e : <<"configured", e>> \in steady[t] => e.slot # s
        BY <1>8, <1>12, Present, ConfiguredEntries DEF SlotSkipped, Slots!Active
    <2>6. KeptRead(t)'
        BY <1>1, <1>2, <1>4, <1>7, <2>1, <2>5 DEF KeptRead, Slots!Entry, Slots!Slot
    <2>7. CauseRead(t)'
        BY <1>1, <1>2, <1>3, <1>4, <1>5, <1>6, <2>1 DEF CauseRead, Slots!Slot
    <2> QED
        BY <2>2, <2>4, <2>6, <2>7 DEF SlotsRead
<1>13. CASE SlotLoaded(t)
    <2> DEFINE new == EntryOf(s, g, v)
    <2>1. /\ Slots!Loaded(t)' = Slots!Loaded(t) \cup {new} /\ reading'[t].slot = s + 1
          /\ reading'[t].fault = "none" /\ reading'[t].grant = NoFile
          /\ \A r, d : d \in Descriptor \cup {Malformed} => ~ Holds(t, r, d)'
          /\ g \in Descriptor /\ v \in Secret
        BY <1>8, <1>13 DEF SlotLoaded, Holds, At
    <2>2. Holds(t, s, g) /\ ~ Bad(g, v)
        BY <1>8, <1>9, <2>1 DEF Bad
    <2>3. new.slot = s /\ new.key = g /\ new.verifier = v
        BY DEF EntryOf
    <2>4. grantFile[s] = g => new \in Slots!Configured
        BY <1>7, <2>1, ConfiguredEntries DEF Slots!Active
    <2>5. v = query[t].credential => WasConfigured(t, new) \/ GrantFirst(t, s)
        BY <1>1, <1>7, <2>1, <2>2, <2>3, <2>4, Present DEF TornRead
    <2>6. <<"broken", s>> \in steady[t] => GrantFirst(t, s)
        BY <1>1, <1>7, <2>1, <2>2, Present DEF BrokenRead
    <2>7. ASSUME NEW e \in Slots!Entry, <<"configured", e>> \in steady[t], e.slot = s PROVE e = new
        BY <1>1, <1>7, <1>8, <2>1, <2>7, Present, ConfiguredEntries DEF KeptRead
    <2>8. Len(writes[t]) < 2 => new \in Slots!Configured \/ Outdated(t, new)
        BY <1>1, <1>7, <2>1, <2>2, <2>4 DEF CauseRead
    <2>9. ASSUME Len(writes[t]) < 2, NEW e \in Slots!Loaded(t), e.slot # s, e.verifier = v
          PROVE  HadDuplicates(t)
        <3>1. e \in Slots!Configured \/ Outdated(t, e)
            BY <1>1, <2>9 DEF CauseRead
        <3>2. CASE e \in Slots!Configured /\ new \in Slots!Configured
            BY <2>3, <2>9, <3>2, Present DEF Slots!Duplicates
        <3>3. CASE Outdated(t, e) /\ new \in Slots!Configured
            BY <2>3, <2>9, <3>3 DEF Outdated
        <3>4. CASE e \in Slots!Configured /\ Outdated(t, new)
            BY <2>3, <2>9, <3>4 DEF Outdated
        <3>5. CASE Outdated(t, e) /\ Outdated(t, new)
            BY <2>3, <2>9, <3>5 DEF Outdated
        <3> QED
            BY <2>8, <2>9, <3>1, <3>2, <3>3, <3>4, <3>5
    <2> HIDE DEF new
    <2>10. TornRead(t)'
        BY <1>1, <1>2, <1>3, <1>4, <2>1, <2>3, <2>5 DEF TornRead, Slots!Slot
    <2>11. BrokenRead(t)'
        BY <1>1, <1>2, <1>3, <1>4, <1>7, <2>1, <2>6 DEF BrokenRead, Slots!Slot
    <2>12. KeptRead(t)'
        BY <1>1, <1>2, <1>4, <1>7, <2>1, <2>7 DEF KeptRead, Slots!Entry, Slots!Slot
    <2>13. CauseRead(t)'
        BY <1>1, <1>2, <1>3, <1>4, <1>5, <1>6, <2>1, <2>3, <2>8, <2>9 DEF CauseRead, Slots!Slot
    <2> QED
        BY <2>10, <2>11, <2>12, <2>13 DEF SlotsRead
<1> QED
    BY <1>7, <1>10, <1>11, <1>12, <1>13

\* The credential of a request does not change.
LEMMA SameQuery ==
    ASSUME Types, Next, NEW t \in Thread, InProgress(t), InProgress(t)',
           Still(t) \/ Handle(t)
    PROVE  /\ query'[t] = query[t] /\ Op(t)' = Op(t) /\ ByKey(t)' = ByKey(t)
           /\ ReadSlots(t) \/ reading'[t] = reading[t]
<1>1. ~ Respond(t)
    BY DEF Respond, InProgress, Types, TypeOK
<1>2. query'[t] = query[t] /\ (ReadSlots(t) \/ reading'[t] = reading[t])
    BY <1>1, Kept DEF Still, Keeps, ReadSlots, Connect, work, slotVars
<1> QED
    BY <1>2 DEF Op, ByKey

\* What has been read of the slots has its evidence, whatever happens.
LEMMA SlotsNext ==
    ASSUME Types, Types', Control, Next, NEW t \in Thread, SlotsRead(t), Remembers(t)
    PROVE  SlotsRead(t)'
<1> SUFFICES ASSUME InProgress(t)', ByKey(t)' PROVE SlotsRead(t)'
    BY DEF SlotsRead
<1>1. CASE Arrives(t)
    BY <1>1, SlotsArrive
<1>2. CASE InProgress(t) /\ Still(t) /\ Follows(t) /\ Noted(t)
    <2>1. ByKey(t) /\ query'[t] = query[t] /\ reading'[t] = reading[t]
        BY <1>2, SameQuery DEF Still
    <2>2. CASE ReplaceFile
        BY <1>2, <2>1, <2>2, SlotsReplaced
    <2>3. CASE UNCHANGED <<grantFile, verifierFile>>
        BY <1>2, <2>1, <2>3, Undisturbed, SlotsKept
    <2> QED
        BY <2>2, <2>3, FilesStay
<1>3. CASE InProgress(t) /\ Handle(t) /\ Follows(t) /\ Noted(t)
    <2>1. ByKey(t) /\ query'[t] = query[t]
        BY <1>3, SameQuery
    <2>2. UNCHANGED <<grantFile, verifierFile>>
        BY <1>3, WorldUntouched
    <2>3. CASE ReadSlots(t)
        BY <1>3, <2>1, <2>3, SlotsReadOn
    <2>4. CASE reading'[t] = reading[t]
        BY <1>3, <2>1, <2>2, <2>4, Undisturbed, SlotsKept
    <2> QED
        BY <1>3, <2>3, <2>4, SameQuery
<1>4. pc'[t] # "idle" /\ ~ Frozen(t)
    BY DEF InProgress, Frozen, Still
<1> QED
    BY <1>1, <1>2, <1>3, <1>4, Steps

-----------------------------------------------------------------------------
(* Evidence                                                                *)

\* Where a step takes thread t, and what it replies.
LEMMA Moves ==
    ASSUME Types, NEW t \in Thread
    PROVE  /\ \A status, permissions : Grants(t, status, permissions) =>
                /\ pc'[t] = "answered"
                /\ reply'[t].status = status /\ reply'[t].permissions = permissions
           /\ \A status : Says(t, status) =>
                pc'[t] = "answered" /\ reply'[t].status = status /\ reply'[t].permissions = {}
           /\ \A where : Goto(t, where) => pc'[t] = where
BY DEF Grants, Says, Goto, Types, TypeOK

\* Which handler leads where, while a request is in progress.
LEMMA Sources ==
    ASSUME Types, NEW t \in Thread, Handle(t), InProgress(t)'
    PROVE  /\ pc[t] = "gate" => Gate(t)
           /\ pc'[t] = "result" => Statement(t)
           /\ pc'[t] = "ask" => KeyFound(t) \/ FindAccount(t) \/ Result(t)
           /\ pc'[t] = "told" => Ask(t)
           /\ pc'[t] = "token_gate" => Result(t)
           /\ pc'[t] = "signing_key" => Gate(t) \/ TokenGate(t)
           /\ pc'[t] = "second_lookup" => RefreshSucceeds(t)
           /\ pc'[t] = "connect" => KeyFound(t) \/ Match(t) \/ Decide(t)
           /\ pc'[t] = "statement" => Connect(t)
           /\ pc'[t] = "client" => FindClient(t)
           /\ pc'[t] = "service_account" => KnownClient(t) \/ StoreClient(t)
<1>1. /\ \A status, permissions : Grants(t, status, permissions) => pc'[t] = "answered"
      /\ \A status : Says(t, status) => pc'[t] = "answered"
      /\ \A where : Goto(t, where) => pc'[t] = where
    BY Moves
<1>2. pc'[t] # "answered" /\ pc'[t] # "idle"
    BY DEF InProgress
<1>3. CASE ReadSlots(t)
    BY <1>3 DEF ReadSlots, work
<1>4. CASE KeyFound(t)
    BY <1>1, <1>2, <1>4 DEF KeyFound, TokenVerified
<1>5. CASE Gate(t) \/ TokenGate(t) \/ RefreshSucceeds(t) \/ RefreshFails(t) \/ KeyMissing(t) \/ Match(t)
    BY <1>1, <1>2, <1>5 DEF Gate, TokenGate, RefreshSucceeds, RefreshFails, KeyMissing, Match
<1>6. CASE FindAccount(t) \/ Connect(t) \/ ConnectFails(t) \/ Statement(t) \/ Result(t)
    BY <1>1, <1>2, <1>6 DEF FindAccount, Connect, ConnectFails, Statement, Result
<1>7. CASE ProbeStatement(t) \/ Ask(t) \/ Decide(t) \/ ContextTooLarge(t)
    BY <1>1, <1>2, <1>7 DEF ProbeStatement, Ask, Decide, ContextTooLarge
<1>8. CASE CallFails(t)
    BY <1>1, <1>8 DEF CallFails, Calling, Resolving
<1>10. CASE ProbeSucceeds(t) \/ Invalidate(t)
    BY <1>1, <1>2, <1>10 DEF ProbeSucceeds, Invalidate
<1>11. CASE Respond(t)
    BY <1>2, <1>11 DEF Respond, Types, TypeOK
<1>9. CASE ResolveClient(t)
    BY <1>1, <1>2, <1>9 DEF ResolveClient, KnownClient, FindClient, StoreClient
<1> QED
    BY <1>3, <1>4, <1>5, <1>6, <1>7, <1>8, <1>9, <1>10, <1>11 DEF Handle

\* What has been true stays so, and what is not steady any more does not become it.
LEMMA Grows ==
    ASSUME NEW t \in Thread, Follows(t), Remembers(t), InProgress(t)
    PROVE  /\ ever[t] \subseteq ever'[t] /\ steady'[t] \subseteq steady[t]
           /\ Facts(t) \subseteq ever'[t] /\ steady'[t] \subseteq Facts(t)
BY DEF Follows, Remembers

\* Whoever has passed the gate has seen the pod available.
LEMMA GatedNext ==
    ASSUME Types, Control, Next, NEW t \in Thread, Gated(t), Remembers(t), InProgress(t),
           Still(t) \/ Handle(t), Follows(t)
    PROVE  Gated(t)'
<1> SUFFICES ASSUME InProgress(t)', ByKey(t)', pc'[t] # "gate"
             PROVE  <<"available", TRUE>> \in ever'[t]
    BY DEF Gated
<1>1. ByKey(t)
    BY SameQuery
<1>2. CASE pc[t] # "gate"
    BY <1>1, <1>2, Grows DEF Gated
<1>3. CASE Gate(t)
    <2>1. open
        BY <1>3 DEF Gate, Says, Grants, InProgress, Types, TypeOK
    <2>2. open = TRUE
        BY <2>1 DEF Types, TypeOK
    <2> QED
        BY <2>2, AvailableFact, Grows
<1> QED
    BY <1>2, <1>3, Sources DEF Still

\* What was said of a key, at a later moment.
LEMMA SaidKept ==
    ASSUME NEW t \in Thread, query'[t] = query[t], ever[t] \subseteq ever'[t],
           steady'[t] \subseteq steady[t]
    PROVE  /\ SaidValid(t) /\ answer'[t] = answer[t] => SaidValid(t)'
           /\ SaidInvalid(t) => SaidInvalid(t)'
BY DEF SaidValid, SaidInvalid

\* What a look-up in the key table says is true at that moment.
LEMMA Checked ==
    ASSUME Types, NEW t \in Thread, OnCourse(t), Remembers(t), InProgress(t), Follows(t),
           Statement(t)
    PROVE  /\ answer'[t].kind = "valid" => SaidValid(t)'
           /\ answer'[t].kind = "invalid" => SaidInvalid(t)'
<1>1. pc[t] = "statement" /\ query'[t] = query[t]
    BY DEF Statement, KeptFromStep
<1>2. call[t] = CallFor(query[t]) /\ Op(t) \notin {"permissions", "probe"}
    BY <1>1 DEF OnCourse, Connected, Statement
<1> SUFFICES ASSUME answer'[t].kind \in {"valid", "invalid"}
             PROVE  /\ answer'[t].kind = "valid" => SaidValid(t)'
                    /\ answer'[t].kind = "invalid" => SaidInvalid(t)'
    OBVIOUS
<1> DEFINE k == query[t].credential
<1>3. call[t].op = "get" /\ call[t].key \in Credential
    BY StatementAnswers
<1>4. ByKey(t) /\ call[t].key = k /\ k \in Credential
    BY <1>1, <1>2, <1>3, Queries, Calls DEF OnCourse, ByKey, Op
<1>5. \A o : <<"live", k, o>> \in Facts(t) <=> k \in KeyId /\ Live(k) /\ o = rows[k].owner
    BY <1>4, LiveFact DEF Presents
<1>6. ASSUME answer'[t].kind = "valid" PROVE SaidValid(t)'
    <2>1. answer'[t].row = rows[k] /\ rows[k] # NoRow /\ now < rows[k].expires
        BY <1>4, <1>6, StatementAnswers
    <2>2. rows[k] \in Row /\ k \in KeyId
        BY <1>4, <2>1 DEF Types
    <2>3. <<"live", k, rows[k].owner>> \in Facts(t)
        BY <1>5, <2>1, <2>2 DEF Live
    <2> QED
        BY <1>1, <1>5, <2>1, <2>2, <2>3, Grows DEF SaidValid, Row
<1>7. ASSUME answer'[t].kind = "invalid" PROVE SaidInvalid(t)'
    <2>1. ~ Live(k)
        BY <1>4, <1>7, StatementAnswers DEF Live
    <2> QED
        BY <1>1, <1>5, <2>1, Grows DEF SaidInvalid
<1> QED
    BY <1>6, <1>7

\* What the table has said was true when it said it.
LEMMA KeyCheckedNext ==
    ASSUME Types, Control, Next, NEW t \in Thread, KeyChecked(t), Remembers(t), InProgress(t),
           Still(t) \/ Handle(t), Follows(t)
    PROVE  KeyChecked(t)'
<1> SUFFICES ASSUME InProgress(t)' PROVE KeyChecked(t)'
    BY DEF KeyChecked, InProgress
<1>1. /\ query'[t] = query[t] /\ Op(t)' = Op(t) /\ ByKey(t)' = ByKey(t)
      /\ OnCourse(t)
    BY SameQuery DEF Control
<1>2. /\ SaidValid(t) /\ answer'[t] = answer[t] => SaidValid(t)'
      /\ SaidInvalid(t) => SaidInvalid(t)'
    BY <1>1, SaidKept, Grows
<1>3. CASE Still(t)
    BY <1>1, <1>2, <1>3 DEF KeyChecked, Still
<1>4. ASSUME Handle(t), pc'[t] = "result"
      PROVE  /\ answer'[t].kind = "valid" => SaidValid(t)'
             /\ answer'[t].kind = "invalid" => SaidInvalid(t)'
    BY <1>1, <1>4, Sources, Checked
<1>5. ASSUME Handle(t), pc'[t] = "ask", call'[t] # NoCall
      PROVE  SaidValid(t)' /\ principal'[t] = answer'[t].row.owner
    <2>1. CASE Result(t)
        <3>1. pc[t] = "result" /\ answer'[t] = answer[t] /\ answer[t].kind = "valid"
            BY <1>5, <2>1 DEF Result, Components, ledgerVars, Says, Grants, Goto, Types, TypeOK
        <3>2. principal'[t] = answer[t].row.owner
            BY <2>1, <3>1 DEF Result, Types, TypeOK
        <3> QED
            BY <1>2, <3>1, <3>2 DEF KeyChecked
    <2>2. CASE FindAccount(t)
        BY <1>1, <1>5, <2>2 DEF FindAccount, Components, ledgerVars, OnCourse, Connected, Before
    <2>3. CASE KeyFound(t)
        <3>1. call'[t] = call[t] /\ pc[t] \in {"signing_key", "second_lookup"}
            BY <2>3 DEF KeyFound, Components, ledgerVars
        <3>2. ByKey(t) /\ Op(t) = "caller"
            BY <1>1, <1>5, <3>1 DEF OnCourse, OnPath, Connected, WithKeycloak, ByKey
        <3>3. pc'[t] = "answered"
            BY <2>3, <3>2 DEF KeyFound, TokenVerified, Grants, Op, Types, TypeOK
        <3> QED
            BY <1>5, <3>3
    <2> QED
        BY <1>5, <2>1, <2>2, <2>3, Sources
<1>6. ASSUME Handle(t), pc'[t] = "told", call'[t] # NoCall
      PROVE  SaidValid(t)' /\ principal'[t] = answer'[t].row.owner
    <2>1. pc[t] = "ask" /\ UNCHANGED <<call, answer, principal>>
        BY <1>6, Sources DEF Ask, ledgerVars, KeptFromStep
    <2> QED
        BY <1>2, <1>6, <2>1 DEF KeyChecked
<1>7. ASSUME Handle(t), pc'[t] \in {"token_gate", "signing_key", "second_lookup"}, Op(t) = "caller"
      PROVE  SaidInvalid(t)'
    <2>1. CASE pc'[t] = "token_gate"
        <3>1. pc[t] = "result" /\ answer[t].kind = "invalid"
            BY <1>7, <2>1, Sources, Moves DEF Result
        <3> QED
            BY <1>2, <3>1 DEF KeyChecked
    <2>2. CASE pc'[t] # "token_gate"
        <3>1. Gate(t) => pc'[t] # "signing_key"
            BY <1>7, Moves DEF Gate, ByKey
        <3>2. pc[t] \in {"token_gate", "signing_key"}
            BY <1>7, <2>2, <3>1, Sources DEF TokenGate, RefreshSucceeds
        <3> QED
            BY <1>2, <1>7, <3>2 DEF KeyChecked
    <2> QED
        BY <2>1, <2>2
<1> QED
    BY <1>1, <1>3, <1>4, <1>5, <1>6, <1>7 DEF KeyChecked

\* Who has had a name has had it for good.
LEMMA NamedGrow ==
    ASSUME Types, Next, NEW c \in Client
    PROVE  named[c] \subseteq named'[c] /\ {holder'[c]} \ {NoUuid} \subseteq named'[c]
BY DEF Next, Remember

\* The names are kept, and only clients that have had them are known by them.
LEMMA NamesKeptNext ==
    ASSUME Types, Control, Next, NamesKept, \A t \in Thread : Resolved(t) PROVE NamesKept'
<1> SUFFICES ASSUME NEW c \in Client PROVE {holder'[c], known'[c]} \ {NoUuid} \subseteq named'[c]
    BY DEF NamesKept
<1>1. {known[c]} \ {NoUuid} \subseteq named[c]
    BY DEF NamesKept
<1>2. ASSUME NEW t \in Thread, StoreClient(t) PROVE {known'[c]} \ {NoUuid} \subseteq named[c]
    <2>1. uuid[t] \in named[ClientOf(t)]
        BY <1>2 DEF StoreClient, Resolved
    <2>2. known'[c] = (IF c = ClientOf(t) THEN uuid[t] ELSE known[c])
        BY <1>2 DEF StoreClient, Types, TypeOK
    <2> QED
        BY <1>1, <2>1, <2>2
<1>3. known' = known \/ \E t \in Thread : StoreClient(t)
    BY Untouched, Outside DEF Next, Arrive, Components, clients
<1> QED
    BY <1>1, <1>2, <1>3, NamedGrow

\* A client that has been found has had the name.
LEMMA ResolvedNext ==
    ASSUME Types, Control, Next, NamesKept, NEW t \in Thread, Resolved(t), InProgress(t),
           Still(t) \/ Handle(t)
    PROVE  Resolved(t)'
<1> SUFFICES ASSUME pc'[t] \in {"client", "service_account"}
             PROVE  uuid'[t] \in named'[ClientOf(t)']
    BY DEF Resolved
<1>1. InProgress(t)' /\ uuid \in [Thread -> Uuid \cup {NoUuid}]
    BY DEF InProgress, Types, TypeOK
<1>2. query'[t] = query[t]
    BY <1>1, SameQuery
<1>3. ASSUME pc[t] \in {"account", "client", "service_account"}, reading'[t] = reading[t],
             uuid'[t] \in named[ClientOf(t)]
      PROVE  uuid'[t] \in named'[ClientOf(t)']
    <2>1. ClientOf(t) \in Client
        BY <1>3, ClientTyped
    <2>2. ClientOf(t)' = ClientOf(t)
        BY <1>2, <1>3, SameSearch DEF ClientOf
    <2> QED
        BY <1>3, <2>1, <2>2, NamedGrow
<1>4. CASE Still(t)
    BY <1>3, <1>4 DEF Still, Resolved
<1>5. CASE StoreClient(t)
    BY <1>3, <1>5 DEF StoreClient, KeptFromStep, slotVars, Resolved
<1>6. CASE KnownClient(t) \/ FindClient(t)
    <2>1. pc[t] = "account" /\ reading' = reading
        BY <1>6 DEF KnownClient, FindClient, Components, slotVars
    <2>2. ClientOf(t) \in Client
        BY <2>1, ClientTyped
    <2>3. uuid'[t] \in {holder[ClientOf(t)], known[ClientOf(t)]} \ {NoUuid}
        BY <1>1, <1>6, Moves DEF KnownClient, FindClient
    <2>4. uuid'[t] \in named[ClientOf(t)]
        BY <2>2, <2>3 DEF NamesKept
    <2> QED
        BY <1>3, <2>1, <2>4
<1> QED
    BY <1>1, <1>4, <1>5, <1>6, Sources

\* What has stayed the only client's account had been it before.
LEMMA KeptBefore ==
    ASSUME Types, Next, NEW t \in Thread, steady'[t] \subseteq steady[t], NEW c \in Client, NEW p,
           KeptAccount(t, c, p)'
    PROVE  KeptAccount(t, c, p)
BY NamedGrow DEF KeptAccount

\* The principal of a managed key was the account of a client with its name.
LEMMA AccountFoundNext ==
    ASSUME Types, Control, Next, NEW t \in Thread, AccountFound(t), Remembers(t), InProgress(t),
           Resolved(t), Still(t) \/ Handle(t), Follows(t)
    PROVE  AccountFound(t)'
<1> SUFFICES ASSUME pc'[t] \in {"ask", "told"} PROVE AccountFound(t)'
    BY DEF AccountFound
<1>1. InProgress(t)' /\ OnCourse(t)
    BY DEF InProgress, Control
<1>2. query'[t] = query[t] /\ Op(t)' = Op(t) /\ ByKey(t)' = ByKey(t)
    BY <1>1, SameQuery
<1>3. /\ ever[t] \subseteq ever'[t] /\ steady'[t] \subseteq steady[t]
      /\ Facts(t) \subseteq ever'[t] /\ steady'[t] \subseteq Facts(t)
    BY Grows
<1>4. ASSUME reading'[t] = reading[t], call'[t] = call[t], principal'[t] = principal[t],
             pc[t] \in {"ask", "told"}
      PROVE  AccountFound(t)'
    <2>1. ASSUME ByKey(t), call[t] = NoCall
          PROVE  /\ principal[t] \in ServiceAccount /\ WasAccount(t, principal[t])'
                 /\ \A p : KeptAccount(t, ClientOf(t), p)' => p = principal[t]
        <3>1. ClientOf(t) \in Client /\ ClientOf(t)' = ClientOf(t)
            BY <1>1, <1>2, <1>4, <2>1, MatchTyped, SameSearch, FileAssumption
            DEF ClientOf, InProgress
        <3>2. /\ principal[t] \in ServiceAccount /\ WasAccount(t, principal[t])
              /\ \A p : KeptAccount(t, ClientOf(t), p) => p = principal[t]
            BY <1>4, <2>1 DEF AccountFound
        <3>3. WasAccount(t, principal[t])'
            BY <1>3, <1>4, <3>1, <3>2, NamedGrow DEF WasAccount
        <3>4. ASSUME NEW p, KeptAccount(t, ClientOf(t), p)' PROVE p = principal[t]
            BY <1>3, <3>1, <3>2, <3>4, KeptBefore DEF KeptAccount
        <3> QED
            BY <3>2, <3>3, <3>4
    <2> QED
        BY <1>2, <1>4, <2>1 DEF AccountFound, MayTarget
<1>5. CASE Still(t)
    BY <1>4, <1>5 DEF Still
<1>6. CASE Ask(t)
    BY <1>4, <1>6 DEF Ask, ledgerVars, slotVars, KeptFromStep
<1>7. CASE FindAccount(t)
    <2> DEFINE c == ClientOf(t)
    <2>0. PICK p : p = account[uuid[t]]
        OBVIOUS
    <2>1. pc[t] = "service_account" /\ UNCHANGED <<reading, call>>
        BY <1>7 DEF FindAccount, Components, ledgerVars, slotVars
    <2>2. call[t] = NoCall /\ ByKey(t)
        BY <1>1, <2>1 DEF OnCourse, Connected, OnPath, Before
    <2>3. query[t].credential \in Secret
        BY <1>1, <2>1, <2>2, MatchTyped DEF InProgress
    <2>4. c \in Client /\ c' = c
        BY <1>2, <2>1, ClientTyped, SameSearch DEF ClientOf
    <2>5. p # NoPrincipal /\ principal'[t] = p
        BY <1>7, <2>0, Moves DEF FindAccount, Types, TypeOK
    <2>6. p \in ServiceAccount /\ uuid[t] \in Uuid /\ uuid[t] \in named[c]
        BY <2>0, <2>1, <2>5 DEF Types, TypeOK, Resolved
    <2>7. \A i \in Uuid : \A a : <<"account", i, a>> \in Facts(t) <=> a = account[i]
        BY <2>2, <2>3, AccountFact DEF Presents
    <2>8. WasAccount(t, p)'
        <3>1. uuid[t] \in named'[c'] /\ <<"account", uuid[t], p>> \in ever'[t]
            BY <1>3, <2>0, <2>4, <2>6, <2>7, NamedGrow
        <3> QED
            BY <3>1 DEF WasAccount
    <2>9. ASSUME NEW a, KeptAccount(t, c, a)' PROVE a = p
        <3>1. KeptAccount(t, c, a)
            BY <1>3, <2>4, <2>9, KeptBefore DEF KeptAccount
        <3>2. PICK i \in Uuid : named[c] \subseteq {i} /\ <<"account", i, a>> \in steady[t]
            BY <3>1 DEF KeptAccount
        <3>3. i = uuid[t] /\ <<"account", i, a>> \in Facts(t)
            BY <2>6, <3>2 DEF Remembers
        <3> QED
            BY <2>0, <2>7, <3>3
    <2>10. ByKey(t)' /\ Op(t)' # "create"
        BY <1>2, <2>2 DEF ByKey
    <2>11. principal'[t] \in ServiceAccount /\ WasAccount(t, principal[t])'
        BY <2>5, <2>6, <2>8 DEF WasAccount
    <2>12. \A a : KeptAccount(t, ClientOf(t), a)' => a = principal'[t]
        BY <2>4, <2>5, <2>9
    <2> QED
        BY <2>10, <2>11, <2>12 DEF AccountFound
<1>8. CASE Result(t)
    <2>1. pc[t] = "result" /\ call'[t] = call[t] /\ answer[t].kind = "valid"
        BY <1>8, Moves DEF Result, Components, ledgerVars
    <2>2. ByKey(t) /\ call[t] # NoCall
        BY <1>1, <2>1 DEF OnCourse, OnPath, Connected
    <2> QED
        BY <1>2, <2>1, <2>2 DEF AccountFound, ByKey
<1>9. CASE KeyFound(t)
    <2>1. pc[t] \in {"signing_key", "second_lookup"} /\ Op(t) # "caller"
        BY <1>9, Moves DEF KeyFound, TokenVerified, Op
    <2>2. ~ ByKey(t)
        BY <1>1, <2>1 DEF OnCourse, OnPath, ByKey
    <2>3. MayTarget(query[t]) /\ principal'[t] = query[t].target
        BY <1>9, <2>1, Moves DEF KeyFound, TokenVerified, Op, Types, TypeOK
    <2> QED
        BY <1>2, <2>2, <2>3 DEF AccountFound, MayTarget
<1> QED
    BY <1>1, <1>5, <1>6, <1>7, <1>8, <1>9, Sources

\* A principal that is asked about is one whose claims are remembered.
LEMMA AsksConcerned ==
    ASSUME Types, Control, NEW t \in Thread, KeyChecked(t), AccountFound(t), pc[t] = "ask"
    PROVE  principal[t] \in Concerned(t)
<1>1. OnCourse(t) /\ InProgress(t)
    BY DEF Control, InProgress
<1>2. CASE ByKey(t) /\ call[t] = NoCall
    <2>1. query[t].credential \in Secret \ KeyId
        BY <1>1, <1>2, MatchTyped, CredentialAssumption
    <2> QED
        BY <1>2, <2>1 DEF AccountFound, Concerned, Presents
<1>3. CASE ByKey(t) /\ call[t] # NoCall
    BY <1>3 DEF KeyChecked, SaidValid, Concerned, Presents, Row
<1>4. CASE ~ ByKey(t)
    BY <1>1, <1>4 DEF AccountFound, OnCourse, OnPath, Concerned, Presents, ByKey
<1> QED
    BY <1>2, <1>3, <1>4

\* What Keycloak has said of a principal had been true lately.
LEMMA ToldTruthNext ==
    ASSUME Types, Control, Next, NEW t \in Thread, ToldTruth(t), KeyChecked(t), AccountFound(t),
           Remembers(t), InProgress(t), Still(t) \/ Handle(t), Follows(t)
    PROVE  ToldTruth(t)'
<1> SUFFICES ASSUME pc'[t] = "told" PROVE ToldTruth(t)'
    BY DEF ToldTruth
<1>1. /\ ever[t] \subseteq ever'[t] /\ Facts(t) \subseteq ever'[t]
    BY Grows
<1>2. CASE Still(t)
    BY <1>1, <1>2 DEF ToldTruth, ToldHolder, Claimed, Still, Keycloak!Holder
<1>3. CASE Ask(t)
    <2>1. pc[t] = "ask" /\ principal'[t] = principal[t]
        BY <1>3 DEF Ask, KeptFromStep
    <2>2. principal[t] \in Concerned(t)
        BY <2>1, AsksConcerned
    <2>3. \A fact, holds : Keycloak!WasLately(principal[t], fact, holds) =>
                <<"claim", principal[t], fact, holds>> \in ever'[t]
        BY <1>1, <2>2, ClaimFact
    <2>4. PICK a \in Keycloak!Answers(principal[t]) \cup {Unavailable} : told'[t] = a
        BY <1>3 DEF Ask, Keycloak!Answer, Types
    <2>5. CASE a = Unavailable
        BY <2>4, <2>5 DEF ToldTruth
    <2>6. CASE a = Keycloak!Absent /\ Keycloak!WasLately(principal[t], "enabled", FALSE)
        BY <2>1, <2>3, <2>4, <2>6 DEF ToldTruth, Claimed, Keycloak!Absent
    <2>7. ASSUME NEW held \in SUBSET Permission, a = Keycloak!Holder(held),
                 Keycloak!WasLately(principal[t], "enabled", TRUE),
                 \A e \in Permission : Keycloak!WasLately(principal[t], e, e \in held)
          PROVE  ToldTruth(t)'
        <3>1. ASSUME NEW e \in held PROVE Keycloak!WasLately(principal[t], e, TRUE)
            <4>1. e \in Permission /\ (e \in held) = TRUE
                BY <3>1
            <4> QED
                BY <2>7, <4>1
        <3> QED
            BY <2>1, <2>3, <2>4, <2>7, <3>1 DEF ToldTruth, ToldHolder, Claimed, Keycloak!Holder
    <2> QED
        BY <2>4, <2>5, <2>6, <2>7 DEF Keycloak!Answers
<1> QED
    BY <1>2, <1>3, Sources DEF InProgress

\* A creation that goes on is within its target.
LEMMA GrantAllowedNext ==
    ASSUME Types, Control, Next, NEW t \in Thread, GrantAllowed(t), AccountFound(t), ToldTruth(t),
           Remembers(t), InProgress(t), Still(t) \/ Handle(t), Follows(t)
    PROVE  GrantAllowed(t)'
<1> SUFFICES ASSUME pc'[t] \in {"connect", "statement", "result"}, Op(t)' = "create"
             PROVE  GrantAllowed(t)'
    BY DEF GrantAllowed
<1>1. InProgress(t)' /\ OnCourse(t)
    BY DEF InProgress, Control
<1>2. query'[t] = query[t] /\ Op(t) = "create" /\ ~ ByKey(t)
    BY <1>1, SameQuery DEF ByKey
<1>3. ever[t] \subseteq ever'[t]
    BY Grows
<1>4. ASSUME pc[t] \in {"connect", "statement", "result"} PROVE GrantAllowed(t)'
    BY <1>2, <1>3, <1>4 DEF GrantAllowed, MayTarget, Claimed
<1>5. CASE Still(t)
    BY <1>4, <1>5 DEF Still
<1>6. CASE Handle(t) /\ pc'[t] # "connect"
    BY <1>1, <1>4, <1>6, Sources DEF Statement, Connect
<1>7. CASE KeyFound(t)
    BY <1>2, <1>7, Moves DEF KeyFound, TokenVerified, Op
<1>8. CASE Match(t)
    BY <1>1, <1>2, <1>8 DEF Match, OnCourse, OnPath
<1>9. CASE Decide(t)
    <2>1. /\ pc[t] = "told" /\ told[t] # Unavailable /\ told[t].enabled
          /\ query[t].grant \subseteq told[t].granted
        BY <1>2, <1>9, Moves DEF Decide, Ungranted
    <2>2. told[t] # Keycloak!Absent
        BY <2>1 DEF Keycloak!Absent
    <2>3. PICK held \in SUBSET Permission : ToldHolder(t, held)
        BY <2>1, <2>2 DEF ToldTruth
    <2>4. told[t].granted = held
        BY <2>3 DEF ToldHolder, Keycloak!Holder
    <2>5. principal[t] = query[t].target /\ MayTarget(query[t])
        BY <1>2, <2>1 DEF AccountFound
    <2> QED
        BY <1>2, <1>3, <2>1, <2>3, <2>4, <2>5 DEF GrantAllowed, ToldHolder, MayTarget, Claimed
<1> QED
    BY <1>1, <1>5, <1>6, <1>7, <1>8, <1>9, Sources

\* What has just arrived has passed no check.
LEMMA EvidenceArrives ==
    ASSUME Types, Next, NEW t \in Thread, Arrives(t) PROVE Evidence(t)'
<1>1. /\ pc'[t] \in {"answered", "connect", "gate"}
      /\ pc'[t] = "connect" => Op(t)' = "probe" /\ ~ ByKey(t)'
    BY Moves DEF Arrives, Arrive, Op, ByKey, Types, TypeOK
<1> QED
    BY <1>1 DEF Evidence, Gated, KeyChecked, Resolved, AccountFound, ToldTruth, GrantAllowed,
        InProgress

\* All of the evidence together.
LEMMA EvidenceNext ==
    ASSUME Types, Control, Next, NamesKept, NEW t \in Thread, Evidence(t), Remembers(t)
    PROVE  Evidence(t)'
<1>1. CASE pc'[t] \in {"idle", "answered"}
    BY <1>1 DEF Evidence, Gated, KeyChecked, Resolved, AccountFound, ToldTruth, GrantAllowed,
        InProgress
<1>2. CASE Arrives(t)
    BY <1>2, EvidenceArrives
<1>3. CASE InProgress(t) /\ (Still(t) \/ Handle(t)) /\ Follows(t)
    BY <1>3, GatedNext, KeyCheckedNext, ResolvedNext, AccountFoundNext, ToldTruthNext,
       GrantAllowedNext
    DEF Evidence
<1> QED
    BY <1>1, <1>2, <1>3, Steps DEF Frozen, Still

-----------------------------------------------------------------------------
(* What is answered                                                        *)

\* The handlers' last steps, and what they leave as it was.
LEMMA Answering ==
    ASSUME Types, Next, NEW t \in Thread, InProgress(t), Handle(t), Noted(t), pc'[t] = "answered"
    PROVE  /\ query'[t] = query[t] /\ reading'[t] = reading[t] /\ call'[t] = call[t]
           /\ answer'[t] = answer[t] /\ told'[t] = told[t] /\ writes'[t] = writes[t]
           /\ principal'[t] = principal[t] \/ (FindAccount(t) /\ reply'[t].status = 401)
           /\ Matched(t)' = Matched(t) /\ Op(t)' = Op(t) /\ ByKey(t)' = ByKey(t)
           /\ \/ Gate(t) \/ TokenGate(t) \/ KeyFound(t) \/ RefreshFails(t) \/ KeyMissing(t)
              \/ Match(t) \/ FindAccount(t) \/ ConnectFails(t) \/ ProbeStatement(t) \/ Result(t)
              \/ Decide(t) \/ ContextTooLarge(t) \/ ProbeSucceeds(t) \/ Invalidate(t)
<1>1. ~ ReadSlots(t)
    BY DEF ReadSlots, work
<1>2. /\ ~ Respond(t) /\ ~ RefreshSucceeds(t) /\ ~ ResolveClient(t) /\ ~ Connect(t)
      /\ ~ Statement(t) /\ ~ Ask(t) /\ ~ CallFails(t)
    BY Moves DEF Respond, RefreshSucceeds, ResolveClient, KnownClient, FindClient, StoreClient,
        Connect, Statement, Ask, CallFails, Types, TypeOK
<1>3. /\ query'[t] = query[t] /\ reading'[t] = reading[t] /\ call'[t] = call[t]
    BY <1>1, <1>2, Kept DEF Keeps
<1>4. answer'[t] = answer[t] /\ told'[t] = told[t]
    BY <1>1, <1>2, Untouched DEF ledgerVars, promiseVars
<1>5. writes'[t] = writes[t]
    BY WorldUntouched, Undisturbed
<1>6. \/ Gate(t) \/ TokenGate(t) \/ KeyFound(t) \/ RefreshFails(t) \/ KeyMissing(t)
      \/ Match(t) \/ FindAccount(t) \/ ConnectFails(t) \/ ProbeStatement(t) \/ Result(t)
      \/ Decide(t) \/ ContextTooLarge(t) \/ ProbeSucceeds(t) \/ Invalidate(t)
    BY <1>1, <1>2 DEF Handle
<1>7. principal'[t] = principal[t] \/ (FindAccount(t) /\ reply'[t].status = 401)
    BY <1>6, Moves DEF Gate, TokenGate, KeyFound, TokenVerified, RefreshFails, KeyMissing, Match,
        FindAccount, ConnectFails, ProbeStatement, Result, Decide, ContextTooLarge, ProbeSucceeds,
        Invalidate, KeptFromStep
<1> QED
    BY <1>3, <1>4, <1>5, <1>6, <1>7, SameSearch

\* An answer is old, or the refusal of a malformed request, or a handler's.
LEMMA Answered ==
    ASSUME Types, Next, NEW t \in Thread, pc'[t] = "answered"
    PROVE  \/ Frozen(t)
           \/ query'[t].form # 200 /\ reply'[t].status \in {401, 403, 415, 422}
           \/ InProgress(t) /\ Handle(t) /\ Follows(t) /\ Noted(t)
<1>1. ASSUME NEW q \in Asks[t], Arrive(t, q)
      PROVE  query'[t].form # 200 /\ reply'[t].status \in {401, 403, 415, 422}
    <2>1. query'[t] = q /\ q.form # 200 /\ reply'[t].status = q.form
        BY <1>1, Moves DEF Arrive, Types, TypeOK
    <2>2. q.form \in {200, 401, 403, 415, 422}
        BY QueryAssumption DEF WellFormed
    <2> QED
        BY <2>1, <2>2
<1> QED
    BY <1>1, Steps DEF Arrives, Still, InProgress

\* An answer that stands is judged as it was.
LEMMA FrozenAnswer ==
    ASSUME NEW t \in Thread, Frozen(t)
    PROVE  /\ query'[t] = query[t] /\ reading'[t] = reading[t] /\ call'[t] = call[t]
           /\ answer'[t] = answer[t] /\ told'[t] = told[t] /\ writes'[t] = writes[t]
           /\ principal'[t] = principal[t] /\ reply'[t] = reply[t] /\ pc'[t] = pc[t]
           /\ ever'[t] = ever[t] /\ steady'[t] = steady[t]
           /\ Matched(t)' = Matched(t) /\ Op(t)' = Op(t) /\ ByKey(t)' = ByKey(t)
           /\ \A s : GrantFirst(t, s)' <=> GrantFirst(t, s)
BY SameSearch, SameNotes DEF Frozen, Still

\* The steps by which a credential is accepted.
LEMMA Accepting ==
    ASSUME Types, Control, Next, NEW t \in Thread, Handle(t), InProgress(t), Noted(t), Accepted(t)'
    PROVE  /\ \/ /\ KeyFound(t) /\ Op(t) = "caller" /\ query[t].credential \in Token
                 /\ Verdict[query[t].credential] = 200
                 /\ reply'[t].permissions = Roles[query[t].credential]
              \/ /\ Decide(t) /\ pc[t] = "told" /\ told[t] # Unavailable /\ told[t].enabled
                 /\ reply'[t].permissions = Effective(t)
           /\ ByKey(t) /\ pc[t] # "gate"
<1>1. /\ pc'[t] = "answered" /\ reply'[t].status = 200 /\ ByKey(t) /\ OnCourse(t)
    BY Answering DEF Accepted, Told, Control
<1>2. CASE KeyFound(t)
    <2>1. pc[t] \in {"signing_key", "second_lookup"}
        BY <1>2 DEF KeyFound
    <2>2. Op(t) = "caller" /\ query[t].credential \in Token
        BY <1>1, <2>1 DEF OnCourse, OnPath, ByKey
    <2> QED
        BY <1>1, <1>2, <2>1, <2>2, Moves DEF KeyFound, TokenVerified, Op
<1>3. CASE Result(t)
    <2>1. pc[t] = "result" /\ answer[t].kind \in {"invalid", "error", "valid"}
        BY <1>1, <1>3 DEF Result, OnCourse, OnPath
    <2> QED
        BY <1>1, <1>3, <2>1, Moves DEF Result, StatusOf
<1>4. CASE Decide(t)
    BY <1>1, <1>4, Moves DEF Decide
<1>5. CASE ProbeSucceeds(t)
    BY <1>1, <1>5 DEF ProbeSucceeds, OnCourse, OnPath, ByKey
<1>6. ~ (Gate(t) \/ TokenGate(t) \/ RefreshFails(t) \/ KeyMissing(t) \/ Match(t) \/ FindAccount(t)
            \/ ConnectFails(t) \/ ProbeStatement(t) \/ ContextTooLarge(t) \/ Invalidate(t))
    BY <1>1, Moves DEF Gate, TokenGate, RefreshFails, KeyMissing, Match, FindAccount, ConnectFails,
        ProbeStatement, ContextTooLarge, Invalidate
<1> QED
    BY <1>1, <1>2, <1>3, <1>4, <1>5, <1>6, Answering

\* A handler that has been told comes from one of the two look-ups.
LEMMA TwoWays ==
    ASSUME Types, Control, NEW t \in Thread, KeyChecked(t), pc[t] = "told", ByKey(t)
    PROVE  \/ /\ call[t] = NoCall /\ query[t].credential \in Secret
              /\ Matched(t) \in Slots!Loaded(t) /\ Matched(t).verifier = query[t].credential
              /\ \A e \in Slots!Loaded(t) : e.verifier = query[t].credential => e = Matched(t)
           \/ /\ call[t] # NoCall /\ query[t].credential \in KeyId /\ Matches(t) = {}
              /\ SaidValid(t) /\ principal[t] = answer[t].row.owner
<1>1. OnCourse(t) /\ InProgress(t)
    BY DEF Control, InProgress
<1>2. CASE call[t] = NoCall
    BY <1>1, <1>2, MatchTyped
<1>3. CASE call[t] # NoCall
    BY <1>1, <1>3 DEF KeyChecked, SaidValid, OnCourse, Searched
<1> QED
    BY <1>2, <1>3

\* An accepted managed key names a client.
LEMMA ClientNamedNext ==
    ASSUME Types, Control, Next, \A t \in Thread : History(t), ClientNamed PROVE ClientNamed'
<1> SUFFICES ASSUME NEW t \in Thread, Accepted(t)', query'[t].credential \in Secret
             PROVE  ClientOf(t)' \in Client
    BY DEF ClientNamed
<1>1. CASE Frozen(t)
    <2>1. Accepted(t) /\ query[t].credential \in Secret /\ ClientOf(t)' = ClientOf(t)
        BY <1>1, FrozenAnswer DEF Accepted, Told, ClientOf
    <2> QED
        BY <2>1 DEF ClientNamed
<1>2. CASE InProgress(t) /\ Handle(t) /\ Follows(t) /\ Noted(t)
    <2>1. ClientOf(t)' = ClientOf(t) /\ query'[t] = query[t]
        BY <1>2, Answering DEF Accepted, Told, ClientOf
    <2>2. ByKey(t) /\ pc[t] = "told" /\ OnCourse(t) /\ KeyChecked(t)
        BY <1>2, <2>1, Accepting, CredentialAssumption DEF Control, History, Evidence
    <2>3. call[t] = NoCall
        BY <2>1, <2>2, TwoWays, CredentialAssumption
    <2>4. Matched(t).key \in Descriptor
        BY <1>2, <2>2, <2>3, MatchTyped
    <2> QED
        BY <2>1, <2>4, FileAssumption DEF ClientOf
<1> QED
    BY <1>1, <1>2, Answered DEF Accepted, Told

\* The properties of the answers, one step at a time: acceptance,
LEMMA AcceptedNext ==
    ASSUME Types, Control, Next, \A t \in Thread : History(t), ClientNamed, AcceptedWasJustified
    PROVE  AcceptedWasJustified'
<1> SUFFICES ASSUME NEW t \in Thread, Accepted(t)'
             PROVE  LET k == query'[t].credential
                    IN  /\ <<"available", TRUE>> \in ever'[t]
                        /\ k \in Token => /\ Op(t)' = "caller" /\ Verdict[k] = 200
                                          /\ reply'[t].permissions = Roles[k]
                        /\ k \notin Token => Held(t)' /\ reply'[t].permissions \subseteq GrantOf(t)'
                        /\ k \in KeyId => <<"live", k, principal'[t]>> \in ever'[t]
                        /\ k \in Secret => WasAccount(t, principal[t])'
    BY DEF AcceptedWasJustified, WasAccount
<1> SUFFICES ASSUME NEW k, k = query'[t].credential
             PROVE  /\ <<"available", TRUE>> \in ever'[t]
                    /\ k \in Token => /\ Op(t)' = "caller" /\ Verdict[k] = 200
                                      /\ reply'[t].permissions = Roles[k]
                    /\ k \notin Token => Held(t)' /\ reply'[t].permissions \subseteq GrantOf(t)'
                    /\ k \in KeyId => <<"live", k, principal'[t]>> \in ever'[t]
                    /\ k \in Secret => WasAccount(t, principal[t])'
    OBVIOUS
<1>1. pc'[t] = "answered" /\ reply'[t].status = 200
    BY DEF Accepted, Told
<1>2. CASE Frozen(t)
    <2>1. Accepted(t)
        BY <1>2, FrozenAnswer DEF Accepted, Told
    <2>2. GrantOf(t)' = GrantOf(t)
        BY <1>2, FrozenAnswer DEF GrantOf
    <2>3. /\ query'[t] = query[t] /\ principal'[t] = principal[t] /\ ever'[t] = ever[t]
          /\ reply'[t] = reply[t] /\ Matched(t)' = Matched(t) /\ Op(t)' = Op(t)
        BY <1>2, FrozenAnswer
    <2>4. Held(t)' <=> Held(t)
        BY <2>3 DEF Held, Claimed
    <2>5. /\ <<"available", TRUE>> \in ever[t]
          /\ k \in Token => /\ Op(t) = "caller" /\ Verdict[k] = 200
                            /\ reply[t].permissions = Roles[k]
          /\ k \notin Token => Held(t) /\ reply[t].permissions \subseteq GrantOf(t)
          /\ k \in KeyId => <<"live", k, principal[t]>> \in ever[t]
          /\ k \in Secret => WasAccount(t, principal[t])
        BY <2>1, <2>3 DEF AcceptedWasJustified, WasAccount
    <2>6. k \in Secret => WasAccount(t, principal[t])'
        <3>1. k \in Secret => ClientOf(t) \in Client /\ ClientOf(t)' = ClientOf(t)
            BY <2>1, <2>3 DEF ClientNamed, ClientOf
        <3> QED
            BY <2>3, <2>5, <3>1, NamedGrow DEF WasAccount
    <2> QED
        BY <2>2, <2>3, <2>4, <2>5, <2>6
<1>3. CASE InProgress(t) /\ Handle(t) /\ Follows(t) /\ Noted(t)
    <2>1. /\ query'[t] = query[t] /\ Op(t)' = Op(t) /\ Matched(t)' = Matched(t)
          /\ principal'[t] = principal[t] /\ GrantOf(t)' = GrantOf(t)
        BY <1>1, <1>3, Answering DEF GrantOf
    <2>2. Evidence(t) /\ Remembers(t) /\ OnCourse(t)
        BY DEF History, Control
    <2>3. ever[t] \subseteq ever'[t]
        BY <1>3, <2>2, Grows
    <2>4. ByKey(t) /\ pc[t] # "gate" /\ <<"available", TRUE>> \in ever'[t]
        BY <1>3, <2>2, <2>3, Accepting DEF Evidence, Gated
    <2>5. CASE k \in Token
        <3>1. pc[t] = "told" => FALSE
            BY <2>1, <2>2, <2>4, <2>5, TwoWays, CredentialAssumption DEF Evidence
        <3> QED
            BY <1>3, <2>1, <2>4, <2>5, <3>1, Accepting, CredentialAssumption
    <2>6. CASE k \notin Token
        <3>1. /\ pc[t] = "told" /\ told[t] # Unavailable /\ told[t].enabled
              /\ reply'[t].permissions = GrantOf(t) \cap told[t].granted
            BY <1>3, <2>1, <2>6, Accepting DEF Effective
        <3>2. PICK held \in SUBSET Permission : ToldHolder(t, held)
            <4>1. told[t] # Keycloak!Absent
                BY <3>1 DEF Keycloak!Absent
            <4> QED
                BY <2>2, <3>1, <4>1 DEF Evidence, ToldTruth
        <3>3. told[t].granted = held
            BY <3>2 DEF ToldHolder, Keycloak!Holder
        <3>4. Held(t)' /\ reply'[t].permissions \subseteq GrantOf(t)'
            BY <2>1, <2>3, <3>1, <3>2, <3>3 DEF Held, ToldHolder, Claimed
        <3>5. CASE call[t] = NoCall
            <4>1. k \notin KeyId /\ WasAccount(t, principal[t])
                BY <2>1, <2>2, <2>4, <3>1, <3>5, TwoWays, CredentialAssumption
                DEF Evidence, AccountFound
            <4>2. ClientOf(t) \in Client /\ ClientOf(t)' = ClientOf(t)
                BY <1>3, <2>1, <2>2, <2>4, <3>1, <3>5, MatchTyped, FileAssumption DEF ClientOf
            <4>3. WasAccount(t, principal[t])'
                BY <2>1, <2>3, <4>1, <4>2, NamedGrow DEF WasAccount
            <4> QED
                BY <2>4, <2>6, <3>4, <4>1, <4>3
        <3>6. CASE call[t] # NoCall
            <4>1. SaidValid(t) /\ k \in KeyId /\ principal[t] = answer[t].row.owner
                BY <2>1, <2>2, <2>4, <3>1, <3>6, TwoWays DEF Evidence
            <4>2. <<"live", k, principal'[t]>> \in ever'[t] /\ k \notin Secret
                BY <2>1, <2>3, <4>1, CredentialAssumption DEF SaidValid
            <4> QED
                BY <2>4, <2>6, <3>4, <4>2
        <3> QED
            BY <3>5, <3>6
    <2> QED
        BY <2>5, <2>6
<1> QED
    BY <1>1, <1>2, <1>3, Answered

\* torn slots,
LEMMA TornNext ==
    ASSUME Types, Control, Next, \A t \in Thread : History(t), TornOnlyIfGrantFirst
    PROVE  TornOnlyIfGrantFirst'
<1> SUFFICES ASSUME NEW t \in Thread, Accepted(t)', query'[t].credential \in Secret,
                    <<"configured", Matched(t)'>> \notin ever'[t],
                    NEW s, s = (Matched(t).slot)'
             PROVE  GrantFirst(t, s)'
    BY DEF TornOnlyIfGrantFirst, GrantFirst
<1>1. pc'[t] = "answered" /\ reply'[t].status = 200
    BY DEF Accepted, Told
<1>2. CASE Frozen(t)
    <2>1. Accepted(t)
        BY <1>2, FrozenAnswer DEF Accepted, Told
    <2> QED
        BY <1>2, <2>1, FrozenAnswer DEF TornOnlyIfGrantFirst
<1>3. CASE InProgress(t) /\ Handle(t) /\ Follows(t) /\ Noted(t)
    <2>1. query'[t] = query[t] /\ Matched(t)' = Matched(t) /\ writes'[t] = writes[t]
        BY <1>1, <1>3, Answering
    <2>2. Evidence(t) /\ Remembers(t) /\ SlotsRead(t)
        BY DEF History
    <2>3. ever[t] \subseteq ever'[t]
        BY <1>3, <2>2, Grows
    <2>4. pc[t] = "told" /\ ByKey(t)
        BY <1>3, <2>1, Accepting, CredentialAssumption
    <2>5. Matched(t) \in Slots!Loaded(t) /\ Matched(t).verifier = query[t].credential
        BY <2>1, <2>2, <2>4, TwoWays, CredentialAssumption DEF Evidence
    <2>6. ~ WasConfigured(t, Matched(t))
        BY <2>1, <2>3 DEF WasConfigured
    <2>7. GrantFirst(t, Matched(t).slot)
        BY <1>3, <2>1, <2>2, <2>4, <2>5, <2>6 DEF SlotsRead, TornRead
    <2> QED
        BY <2>1, <2>7, SameNotes
<1> QED
    BY <1>1, <1>2, <1>3, Answered

\* broken slots,
LEMMA BrokenNext ==
    ASSUME Types, Control, Next, \A t \in Thread : History(t), BrokenSlotRefusesAll
    PROVE  BrokenSlotRefusesAll'
<1> SUFFICES ASSUME NEW t \in Thread, pc'[t] = "answered", ByKey(t)', query'[t].form = 200,
                    NEW s \in Slots!Slot, <<"broken", s>> \in steady'[t], ~ GrantFirst(t, s)'
             PROVE  reply'[t].status \in {500, 503}
    BY DEF BrokenSlotRefusesAll, Slots!Slot
<1>1. CASE Frozen(t)
    BY <1>1, FrozenAnswer DEF BrokenSlotRefusesAll, Frozen
<1>2. CASE InProgress(t) /\ Handle(t) /\ Follows(t) /\ Noted(t)
    <2>1. ByKey(t) /\ ~ GrantFirst(t, s)
        BY <1>2, Answering, SameNotes
    <2>2. <<"broken", s>> \in steady[t] /\ SlotsRead(t) /\ OnCourse(t)
        BY <1>2, Grows DEF History, Control
    <2>3. CASE pc[t] \notin {"gate", "slots"}
        <3>1. reading[t].slot = NSlots + 1 /\ s < NSlots + 1
            BY <1>2, <2>1, <2>2, <2>3, SizeAssumption DEF OnCourse, Searched, Slots!Slot
        <3> QED
            BY <1>2, <2>1, <2>2, <3>1 DEF SlotsRead, BrokenRead
    <2>4. CASE Gate(t)
        BY <2>1, <2>4, Moves DEF Gate
    <2>5. CASE Match(t)
        BY <2>5, Moves DEF Match
    <2>6. pc[t] \in {"gate", "slots"} => Gate(t) \/ Match(t)
        <3>1. TokenGate(t) \/ KeyFound(t) \/ RefreshFails(t) \/ KeyMissing(t)
                => pc[t] \notin {"gate", "slots"}
            BY DEF TokenGate, KeyFound, RefreshFails, KeyMissing
        <3>2. FindAccount(t) \/ ConnectFails(t) \/ ProbeStatement(t) \/ Result(t)
                => pc[t] \notin {"gate", "slots"}
            BY DEF FindAccount, ConnectFails, ProbeStatement, Result
        <3>3. Decide(t) \/ ContextTooLarge(t) \/ ProbeSucceeds(t) \/ Invalidate(t)
                => pc[t] \notin {"gate", "slots"}
            BY DEF Decide, ContextTooLarge, ProbeSucceeds, Invalidate
        <3> QED
            BY <1>2, <3>1, <3>2, <3>3, Answering
    <2> QED
        BY <2>3, <2>4, <2>5, <2>6
<1> QED
    BY <1>1, <1>2, Answered

\* Only what is a key's identifier is a live key.
LEMMA LiveKeys ==
    ASSUME NEW t \in Thread PROVE \A k, u : <<"live", k, u>> \in Facts(t) => k \in KeyId
BY LiveFact

\* A slot that has stayed configured is among those that have been read.
LEMMA KeptEntry ==
    ASSUME Types, NEW t \in Thread, OnCourse(t), SlotsRead(t), Remembers(t), InProgress(t), ByKey(t),
           pc[t] \notin {"gate", "slots", "connect"}, NEW e, <<"configured", e>> \in steady[t]
    PROVE  /\ call[t] = NoCall /\ query[t].credential \in Secret
           /\ e = Matched(t)
<1>1. e \in Slots!Configured /\ e.verifier = query[t].credential
    BY SlotFact DEF Remembers
<1>2. e \in Slots!Entry /\ e.slot < NSlots + 1
    BY <1>1, ConfiguredEntries, SizeAssumption DEF Slots!Active, Slots!Entry, Slots!Slot, EntryOf
<1>3. e \in Slots!Loaded(t)
    BY <1>2 DEF SlotsRead, KeptRead, OnCourse, Searched
<1>4. Matches(t) # {}
    BY <1>1, <1>3 DEF Matches, Slots!Matching
<1>5. call[t] = NoCall
    BY <1>4 DEF OnCourse, Searched
<1> QED
    BY <1>1, <1>3, <1>5, MatchTyped

\* The steps by which a well-formed credential is answered 401.
LEMMA Refusing ==
    ASSUME Types, Control, Next, NEW t \in Thread, Handle(t), InProgress(t), Noted(t),
           Told(t, 401)', ByKey(t)
    PROVE  \/ TokenGate(t) /\ pc[t] = "token_gate" /\ Op(t) = "caller"
           \/ (KeyFound(t) \/ KeyMissing(t)) /\ query[t].credential \in Token
           \/ FindAccount(t) /\ pc[t] = "service_account" /\ account[uuid[t]] = NoPrincipal
           \/ Result(t) /\ pc[t] = "result" /\ answer[t].kind = "invalid"
           \/ Decide(t) /\ pc[t] = "told" /\ told[t] # Unavailable /\ ~ told[t].enabled
<1>1. /\ pc'[t] = "answered" /\ reply'[t].status = 401 /\ OnCourse(t)
    BY DEF Told, Control
<1>2. CASE KeyFound(t) \/ KeyMissing(t)
    BY <1>1, <1>2 DEF KeyFound, KeyMissing, OnCourse, OnPath, ByKey
<1>3. CASE FindAccount(t)
    BY <1>1, <1>3, Moves DEF FindAccount
<1>4. CASE Result(t)
    <2>1. pc[t] = "result" /\ answer[t].kind \in {"invalid", "error", "valid"}
        BY <1>1, <1>4 DEF Result, OnCourse, OnPath
    <2> QED
        BY <1>1, <1>4, <2>1, Moves DEF Result, StatusOf
<1>5. CASE Decide(t)
    BY <1>1, <1>5, Moves DEF Decide
<1>6. CASE TokenGate(t)
    BY <1>1, <1>6 DEF TokenGate, OnCourse, OnPath
<1>7. ~ (Gate(t) \/ RefreshFails(t) \/ Match(t) \/ ConnectFails(t) \/ ProbeStatement(t)
            \/ ContextTooLarge(t) \/ ProbeSucceeds(t) \/ Invalidate(t))
    BY <1>1, Moves DEF Gate, RefreshFails, Match, ConnectFails, ProbeStatement, ContextTooLarge,
        ProbeSucceeds, Invalidate
<1> QED
    BY <1>1, <1>2, <1>3, <1>4, <1>5, <1>6, <1>7, Answering

\* Whoever's key lives on has been said to be disabled.
Excused(t) ==
    /\ \A u \in User : <<"live", query[t].credential, u>> \in steady[t] => ~ Undisputed(t, u)
    /\ \A e \in Slots!Entry : e.verifier = query[t].credential /\ <<"configured", e>> \in steady[t] =>
        \A p \in ServiceAccount : KeptAccount(t, e.key.client, p) => ~ Undisputed(t, p)

\* An answer that waits for its client keeps its excuse.
LEMMA ExcusedStays ==
    ASSUME NEW t \in Thread, query'[t] = query[t], steady'[t] = steady[t], ever'[t] = ever[t],
           \A c \in Client : named[c] \subseteq named'[c], Excused(t)
    PROVE  Excused(t)'
<1>1. \A p : Undisputed(t, p)' <=> Undisputed(t, p)
    BY DEF Undisputed, Claimed
<1>2. Slots!Entry' = Slots!Entry
    BY DEF Slots!Entry, Slots!Slot
<1>3. \A e \in Slots!Entry : \A p :
        KeptAccount(t, e.key.client, p)' => KeptAccount(t, e.key.client, p)
    BY FileAssumption DEF KeptAccount, Slots!Entry
<1> QED
    BY <1>1, <1>2, <1>3 DEF Excused

\* keys that live on,
LEMMA KeptKeyNext ==
    ASSUME Types, Control, Next, \A t \in Thread : History(t), KeptKeyNeverRefused
    PROVE  KeptKeyNeverRefused'
<1>0. \A t \in Thread : Told(t, 401) /\ ByKey(t) /\ query[t].form = 200 => Excused(t)
    BY DEF KeptKeyNeverRefused, Excused, KeptAccount
<1> SUFFICES ASSUME NEW t \in Thread, Told(t, 401)', ByKey(t)', query'[t].form = 200
             PROVE  Excused(t)'
    BY DEF KeptKeyNeverRefused, Excused, KeptAccount
<1>1. pc'[t] = "answered" /\ reply'[t].status = 401
    BY DEF Told
<1>2. CASE Frozen(t)
    <2>1. Told(t, 401) /\ ByKey(t) /\ query[t].form = 200
        BY <1>2, FrozenAnswer DEF Told
    <2> QED
        BY <1>0, <1>2, <2>1, ExcusedStays, FrozenAnswer, NamedGrow
<1>3. CASE InProgress(t) /\ Handle(t) /\ Follows(t) /\ Noted(t)
    <2>0. PICK k, q : k = query'[t].credential /\ q = principal[t]
        OBVIOUS
    <2>1. query[t].credential = k /\ ByKey(t)
        BY <1>1, <1>3, <2>0, Answering
    <2>2. /\ KeyChecked(t) /\ Resolved(t) /\ AccountFound(t) /\ ToldTruth(t)
          /\ Remembers(t) /\ SlotsRead(t) /\ OnCourse(t)
        BY DEF History, Evidence, Control
    <2>3. ever[t] \subseteq ever'[t] /\ steady'[t] \subseteq steady[t] /\ steady[t] \subseteq Facts(t)
        BY <1>3, <2>2, Grows DEF Remembers
    <2>4. \A u : <<"live", k, u>> \in steady[t] => k \in KeyId
        BY <2>3, LiveKeys
    <2>5. \A i, p : <<"account", i, p>> \in steady[t] => p = account[i]
        BY <2>3, AccountFact
    <2>6. pc[t] \notin {"gate", "slots", "connect"} =>
            \A e : <<"configured", e>> \in steady[t] =>
                call[t] = NoCall /\ k \in Secret /\ e = Matched(t)
        BY <1>3, <2>1, <2>2, KeptEntry
    <2>7. \/ TokenGate(t) /\ pc[t] = "token_gate" /\ Op(t) = "caller"
          \/ (KeyFound(t) \/ KeyMissing(t)) /\ k \in Token
          \/ FindAccount(t) /\ pc[t] = "service_account" /\ account[uuid[t]] = NoPrincipal
          \/ Result(t) /\ pc[t] = "result" /\ answer[t].kind = "invalid"
          \/ Decide(t) /\ pc[t] = "told" /\ told[t] # Unavailable /\ ~ told[t].enabled
        BY <1>3, <2>1, Refusing
    <2>8. ASSUME \/ pc[t] = "token_gate" /\ Op(t) = "caller"
                 \/ pc[t] = "result" /\ answer[t].kind = "invalid"
          PROVE  /\ \A u \in User : <<"live", k, u>> \notin steady[t]
                 /\ \A e : <<"configured", e>> \notin steady[t]
        <3>1. SaidInvalid(t) /\ call[t] # NoCall
            BY <2>2, <2>8 DEF KeyChecked, OnCourse, Connected
        <3> QED
            BY <2>1, <2>6, <2>8, <3>1 DEF SaidInvalid
    <2>9. ASSUME KeyFound(t) \/ KeyMissing(t), k \in Token
          PROVE  /\ \A u \in User : <<"live", k, u>> \notin steady[t]
                 /\ \A e : <<"configured", e>> \notin steady[t]
        <3>1. pc[t] \in {"signing_key", "second_lookup"}
            BY <2>9 DEF KeyFound, KeyMissing
        <3> QED
            BY <2>4, <2>6, <2>9, <3>1, CredentialAssumption
    <2>10. ASSUME pc[t] = "service_account", account[uuid[t]] = NoPrincipal
           PROVE  /\ \A u \in User : <<"live", k, u>> \notin steady[t]
                  /\ \A e : \A p \in ServiceAccount :
                        ~ (<<"configured", e>> \in steady[t] /\ KeptAccount(t, e.key.client, p))
        <3>1. call[t] = NoCall /\ k \in Secret
            BY <1>3, <2>1, <2>2, <2>10, MatchTyped DEF OnCourse, Connected, Before
        <3>2. \A p \in ServiceAccount : p # NoPrincipal
            BY NullAssumption DEF Principal
        <3>3. uuid[t] \in named[ClientOf(t)]
            BY <2>2, <2>10 DEF Resolved
        <3>4. ASSUME NEW e, NEW p \in ServiceAccount, <<"configured", e>> \in steady[t],
                     KeptAccount(t, e.key.client, p)
              PROVE  FALSE
            <4>1. e.key.client = ClientOf(t)
                BY <2>6, <2>10, <3>4 DEF ClientOf
            <4>2. PICK i \in Uuid : named[ClientOf(t)] \subseteq {i} /\ <<"account", i, p>> \in steady[t]
                BY <3>4, <4>1 DEF KeptAccount
            <4>3. i = uuid[t]
                BY <3>3, <4>2
            <4> QED
                BY <2>5, <2>10, <3>2, <4>2, <4>3
        <3> QED
            BY <2>4, <3>1, <3>4, CredentialAssumption
    <2>11. ASSUME pc[t] = "told", told[t] # Unavailable, ~ told[t].enabled
           PROVE  /\ \A u \in User : <<"live", k, u>> \in steady[t] => u = q
                  /\ \A e : <<"configured", e>> \in steady[t] =>
                        \A p \in ServiceAccount : KeptAccount(t, e.key.client, p) => p = q
                  /\ <<"claim", q, "enabled", FALSE>> \in ever'[t]
        <3>1. \A held : told[t] # Keycloak!Holder(held)
            BY <2>11 DEF Keycloak!Holder
        <3>2. Claimed(t, q, "enabled", FALSE)
            BY <2>0, <2>2, <2>11, <3>1 DEF ToldTruth, ToldHolder
        <3>3. <<"claim", q, "enabled", FALSE>> \in ever'[t]
            BY <2>3, <3>2 DEF Claimed
        <3>4. CASE call[t] = NoCall
            <4>1. k \in Secret /\ k \notin KeyId
                BY <2>1, <2>2, <2>11, <3>4, TwoWays, CredentialAssumption
            <4>2. \A p \in ServiceAccount : KeptAccount(t, Matched(t).key.client, p) => p = q
                BY <2>0, <2>1, <2>2, <2>11, <3>4 DEF AccountFound, ClientOf
            <4>3. \A u \in User : <<"live", k, u>> \in steady[t] => u = q
                BY <2>4, <4>1
            <4>4. \A e : <<"configured", e>> \in steady[t] => e = Matched(t)
                BY <2>6, <2>11
            <4> QED
                BY <3>3, <4>2, <4>3, <4>4
        <3>5. CASE call[t] # NoCall
            <4>1. SaidValid(t) /\ q = answer[t].row.owner
                BY <2>0, <2>1, <2>2, <2>11, <3>5, TwoWays
            <4>2. \A u \in User : <<"live", k, u>> \in steady[t] => u = q
                BY <2>1, <4>1 DEF SaidValid
            <4>3. \A e : <<"configured", e>> \notin steady[t]
                BY <2>6, <2>11, <3>5
            <4> QED
                BY <3>3, <4>2, <4>3
        <3> QED
            BY <3>4, <3>5
    <2>12. ASSUME NEW u \in User, <<"live", query'[t].credential, u>> \in steady'[t]
           PROVE  ~ Undisputed(t, u)'
        <3>1. <<"live", k, u>> \in steady[t]
            BY <2>0, <2>3, <2>12
        <3>2. pc[t] = "told" /\ told[t] # Unavailable /\ ~ told[t].enabled
            BY <2>7, <2>8, <2>9, <2>10, <3>1
        <3>3. u = q
            BY <2>11, <3>1, <3>2
        <3>4. <<"claim", u, "enabled", FALSE>> \in ever'[t]
            BY <2>11, <3>2, <3>3
        <3> QED
            BY <3>4, Zenon DEF Undisputed, Claimed
    <2>13. ASSUME NEW e \in Slots!Entry',
                  e.verifier = query'[t].credential /\ <<"configured", e>> \in steady'[t],
                  NEW p \in ServiceAccount, KeptAccount(t, e.key.client, p)'
           PROVE  ~ Undisputed(t, p)'
        <3>1. <<"configured", e>> \in steady[t] /\ KeptAccount(t, e.key.client, p)
            <4>1. e.key.client \in Client
                BY <2>13, FileAssumption DEF Slots!Entry
            <4> QED
                BY <2>3, <2>13, <4>1, KeptBefore
        <3>2. pc[t] = "told" /\ told[t] # Unavailable /\ ~ told[t].enabled
            BY <2>7, <2>8, <2>9, <2>10, <3>1
        <3>3. p = q
            BY <2>11, <3>1, <3>2
        <3>4. <<"claim", p, "enabled", FALSE>> \in ever'[t]
            BY <2>11, <3>2, <3>3
        <3> QED
            BY <3>4, Zenon DEF Undisputed, Claimed
    <2> QED
        BY <2>12, <2>13, Zenon DEF Excused
<1>4. Frozen(t) \/ (InProgress(t) /\ Handle(t) /\ Follows(t) /\ Noted(t))
    BY <1>1, Answered
<1> QED
    BY <1>2, <1>3, <1>4

\* unavailability,
LEMMA UnavailabilityNext ==
    ASSUME Types, Control, Next, \A t \in Thread : History(t), UnavailabilityHasCause
    PROVE  UnavailabilityHasCause'
<1> DEFINE Cause(t) ==
        \/ <<"available", FALSE>> \in ever[t]
        \/ WasBroken(t) \/ HadDuplicates(t)
        \/ Len(writes[t]) >= 2
        \/ told[t] \notin {NoAnswer, Unavailable} /\ told[t].enabled
<1> SUFFICES ASSUME NEW t \in Thread, Told(t, 503)', Op(t)' # "probe" PROVE Cause(t)'
    BY DEF UnavailabilityHasCause, WasBroken, HadDuplicates, Slots!Slot
<1>1. pc'[t] = "answered" /\ reply'[t].status = 503
    BY DEF Told
<1>2. CASE Frozen(t)
    <2>1. Told(t, 503) /\ Op(t) # "probe"
        BY <1>2, FrozenAnswer DEF Told
    <2>2. Cause(t)
        BY <2>1 DEF UnavailabilityHasCause, WasBroken, HadDuplicates
    <2> QED
        BY <1>2, <2>2, FrozenAnswer DEF WasBroken, HadDuplicates, Slots!Slot
<1>3. CASE InProgress(t) /\ Handle(t) /\ Follows(t) /\ Noted(t)
    <2>1. Op(t) # "probe" /\ told'[t] = told[t] /\ writes'[t] = writes[t]
        BY <1>1, <1>3, Answering
    <2>2. SlotsRead(t) /\ Remembers(t) /\ OnCourse(t)
        BY DEF History, Control
    <2>3. open' = FALSE => <<"available", FALSE>> \in ever'[t]
        BY <1>3 DEF Follows, Facts, SlotFacts
    <2>4. (WasBroken(t) => WasBroken(t)') /\ (HadDuplicates(t) => HadDuplicates(t)')
        BY <1>3, MoreEvidence DEF Follows
    <2>5. open \in BOOLEAN /\ Len(writes[t]) \in Nat
        BY DEF Types, TypeOK
    <2>6. CASE Gate(t) \/ TokenGate(t)
        <3>1. ~ open /\ open' = open
            BY <1>1, <2>6, Moves DEF Gate, TokenGate, Components
        <3> QED
            BY <2>3, <2>5, <3>1
    <2>7. CASE RefreshFails(t) \/ Invalidate(t)
        BY <2>3, <2>7 DEF RefreshFails, Invalidate
    <2>8. CASE Match(t)
        <3>1. ByKey(t) /\ (reading[t].fault = "configuration" \/ Slots!Duplicates(Slots!Loaded(t)))
            BY <1>1, <2>2, <2>8, Moves DEF Match, OnCourse, OnPath
        <3>2. Len(writes[t]) < 2 => WasBroken(t) \/ HadDuplicates(t)
            BY <1>3, <2>2, <3>1 DEF SlotsRead, CauseRead, Slots!Duplicates
        <3> QED
            BY <2>1, <2>4, <2>5, <3>2
    <2>9. CASE ContextTooLarge(t)
        <3>1. told[t] # NoAnswer /\ told[t] # Unavailable /\ told[t].enabled
            BY <2>9 DEF ContextTooLarge, Types
        <3> QED
            BY <2>1, <3>1
    <2>10. CASE KeyFound(t)
        <3>1. Op(t) = "caller" => Verdict[query[t].credential] \in {200, 401, 403}
            BY <2>2, <2>10, CredentialAssumption DEF KeyFound, OnCourse, OnPath
        <3>2. Op(t) # "caller" => query[t].token \in {0, 200, 401, 422}
            <4>1. pc[t] # "idle" /\ (Op(t) = "caller" \/ Op(t) \in {"create", "revoke", "permissions", "list"})
                BY <2>2, <2>10 DEF KeyFound, OnCourse, OnPath
            <4> QED
                BY <2>2, <4>1, Queries DEF OnCourse, WellFormed, Op
        <3> QED
            BY <1>1, <2>10, <3>1, <3>2, Moves DEF KeyFound, TokenVerified, Op
    <2>11. CASE Result(t)
        <3>1. pc[t] = "result" /\ answer[t].kind \in Kinds
            BY <2>11 DEF Result, Types
        <3> QED
            BY <1>1, <2>11, <3>1, Moves DEF Result, StatusOf, Kinds
    <2>12. CASE ConnectFails(t) \/ ProbeStatement(t) \/ ProbeSucceeds(t)
        BY <1>1, <2>1, <2>12, Moves DEF ConnectFails, ProbeStatement, ProbeSucceeds
    <2>13. CASE KeyMissing(t) \/ FindAccount(t) \/ Decide(t)
        BY <1>1, <2>13, Moves DEF KeyMissing, FindAccount, Decide
    <2> HIDE DEF Cause
    <2> QED
        BY <1>1, <1>3, <2>6, <2>7, <2>8, <2>9, <2>10, <2>11, <2>12, <2>13, Answering
<1> QED
    BY <1>1, <1>2, <1>3, Answered

\* and new keys.
LEMMA GrantsNext ==
    ASSUME Types, Control, Next, \A t \in Thread : History(t), GrantsWithinTarget
    PROVE  GrantsWithinTarget'
<1> SUFFICES ASSUME NEW t \in Thread, Told(t, 200)', Op(t)' = "create"
             PROVE  /\ query'[t].by \in {Admin, query'[t].target}
                    /\ \A e \in query'[t].grant :
                        <<"claim", query'[t].target, e, TRUE>> \in ever'[t]
    BY DEF GrantsWithinTarget, Claimed
<1>1. pc'[t] = "answered" /\ reply'[t].status = 200
    BY DEF Told
<1>2. CASE Frozen(t)
    <2>1. Told(t, 200) /\ Op(t) = "create"
        BY <1>2, FrozenAnswer DEF Told
    <2> QED
        BY <1>2, <2>1, FrozenAnswer DEF GrantsWithinTarget, Claimed
<1>3. CASE InProgress(t) /\ Handle(t) /\ Follows(t) /\ Noted(t)
    <2>1. Op(t) = "create" /\ ~ ByKey(t) /\ query'[t] = query[t]
        BY <1>1, <1>3, Answering DEF ByKey
    <2>2. GrantAllowed(t) /\ Remembers(t) /\ OnCourse(t)
        BY DEF History, Evidence, Control
    <2>3. CASE Result(t)
        BY <1>3, <2>1, <2>2, <2>3, Grows DEF Result, GrantAllowed, MayTarget, Claimed
    <2>4. ~ KeyFound(t)
        BY <1>1, <2>1, Moves DEF KeyFound, TokenVerified, Op
    <2>5. ~ Decide(t)
        BY <1>1, <2>1, Moves DEF Decide
    <2>6. ~ ProbeSucceeds(t)
        BY <2>1, <2>2 DEF ProbeSucceeds, OnCourse, OnPath
    <2>7. ~ (Gate(t) \/ TokenGate(t) \/ RefreshFails(t) \/ KeyMissing(t) \/ Match(t) \/ FindAccount(t)
                \/ ConnectFails(t) \/ ProbeStatement(t) \/ ContextTooLarge(t) \/ Invalidate(t))
        BY <1>1, Moves DEF Gate, TokenGate, RefreshFails, KeyMissing, Match, FindAccount,
            ConnectFails, ProbeStatement, ContextTooLarge, Invalidate
    <2> QED
        BY <1>1, <1>3, <2>3, <2>4, <2>5, <2>6, <2>7, Answering
<1>4. Frozen(t) \/ (InProgress(t) /\ Handle(t) /\ Follows(t) /\ Noted(t))
    BY <1>1, Answered
<1> QED
    BY <1>2, <1>3, <1>4

-----------------------------------------------------------------------------
(* The invariant                                                           *)

\* The invariant at the start, in every step and when nothing happens.
LEMMA IInvInit == Init => IInv
<1> SUFFICES ASSUME Init PROVE IInv
    OBVIOUS
<1>1. Types /\ Control
    BY TypesInit, ControlInit
<1>2. \A t \in Thread : pc[t] = "idle"
    BY DEF Init
<1>3. \A t \in Thread : History(t)
    BY <1>2 DEF History, Remembers, SlotsRead, Evidence, Gated, KeyChecked, Resolved, AccountFound,
        ToldTruth, GrantAllowed, InProgress
<1>4. \A t \in Thread : ~ Accepted(t) /\ \A status : ~ Told(t, status)
    BY <1>2 DEF Accepted, Told
<1>5. ClientNamed /\ AcceptedWasJustified /\ TornOnlyIfGrantFirst
    BY <1>4 DEF ClientNamed, AcceptedWasJustified, TornOnlyIfGrantFirst
<1>6. BrokenSlotRefusesAll
    BY <1>2 DEF BrokenSlotRefusesAll
<1>7. KeptKeyNeverRefused
    BY <1>4 DEF KeptKeyNeverRefused
<1>8. UnavailabilityHasCause /\ GrantsWithinTarget
    BY <1>4 DEF UnavailabilityHasCause, GrantsWithinTarget
<1>9. NamesKept
    BY DEF Init, NamesKept
<1> QED
    BY <1>1, <1>3, <1>5, <1>6, <1>7, <1>8, <1>9 DEF IInv

\* One lemma for each of its parts.
LEMMA IInvNext == IInv /\ Next => IInv'
<1> SUFFICES ASSUME IInv, Next PROVE IInv'
    OBVIOUS
<1>1. /\ Types /\ Control /\ NamesKept /\ ClientNamed
      /\ \A t \in Thread : History(t)
    BY DEF IInv
<1>2. Types' /\ Control' /\ NamesKept' /\ ClientNamed'
    BY <1>1, TypesNext, ControlNext, NamesKeptNext, ClientNamedNext DEF History, Evidence
<1>3. \A t \in Thread : History(t)'
    BY <1>1, <1>2, RemembersNext, SlotsNext, EvidenceNext DEF History
<1> QED
    BY <1>1, <1>2, <1>3, AcceptedNext, TornNext, BrokenNext, KeptKeyNext, UnavailabilityNext,
       GrantsNext DEF IInv

\* A step of none of the variables keeps it.
LEMMA FactsStutter ==
    ASSUME UNCHANGED vars, NEW t \in Thread PROVE Facts(t)' = Facts(t)
<1>1. UNCHANGED <<now, rows, lately, grantFile, verifierFile, account, open, query>>
    BY DEF vars, ledgerVars, promiseVars, slotVars, clients, work
<1>2. Op(t)' = Op(t) /\ ByKey(t)' = ByKey(t)
    BY <1>1 DEF Op, ByKey
<1>3. SlotFacts(t)' = SlotFacts(t)
    <2>1. \A d : Slots!Duplicates(d)' <=> Slots!Duplicates(d)
        BY DEF Slots!Duplicates
    <2> QED
        BY <1>1, <2>1, SameFiles DEF SlotFacts, Slots!Slot, Slots!Duplicates
<1>4. \A kind : Presents(t, kind)' <=> Presents(t, kind)
    BY <1>1, <1>2 DEF Presents
<1>5. Concerned(t)' = Concerned(t)
    BY <1>1, <1>2, <1>4 DEF Concerned
<1>6. {k \in KeyId : Presents(t, {k}) /\ Live(k)}' = {k \in KeyId : Presents(t, {k}) /\ Live(k)}
    BY <1>1, <1>4 DEF Live
<1>7. (UNION {{<<"claim", p, c.fact, c.holds>> : c \in lately[p]} : p \in Concerned(t)})'
        = UNION {{<<"claim", p, c.fact, c.holds>> : c \in lately[p]} : p \in Concerned(t)}
    BY <1>1, <1>5
<1>8. {<<"live", k, rows[k].owner>> : k \in {j \in KeyId : Presents(t, {j}) /\ Live(j)}}'
        = {<<"live", k, rows[k].owner>> : k \in {j \in KeyId : Presents(t, {j}) /\ Live(j)}}
    BY <1>1, <1>6
<1>9. {<<"account", i, account[i]>> : i \in {j \in Uuid : Presents(t, Secret)}}'
        = {<<"account", i, account[i]>> : i \in {j \in Uuid : Presents(t, Secret)}}
    BY <1>1, <1>4
<1> QED
    BY <1>1, <1>2, <1>3, <1>7, <1>8, <1>9 DEF Facts

\* What has been gathered stays when nothing happens.
LEMMA HistoryStutters ==
    ASSUME UNCHANGED vars, NEW t \in Thread, History(t) PROVE History(t)'
<1>1. UNCHANGED <<call, answer, told, grantFile, verifierFile, reading, pc, query, reply,
                  principal, uuid, writes, named, ever, steady>>
    BY DEF vars, ledgerVars, promiseVars, slotVars, work, history
<1>2. InProgress(t)' <=> InProgress(t)
    BY <1>1 DEF InProgress
<1>3. Remembers(t)'
    BY <1>1, <1>2, FactsStutter DEF History, Remembers
<1>4. ByKey(t)' = ByKey(t) /\ Op(t)' = Op(t) /\ Matched(t)' = Matched(t)
    BY <1>1, SameSearch
<1>5. SlotsRead(t)'
    <2>1. ASSUME InProgress(t) PROVE Follows(t)
        BY <1>1, <2>1, FactsStutter DEF Follows, History, Remembers
    <2>2. CASE InProgress(t) /\ ByKey(t)
        BY <1>1, <2>1, <2>2, SlotsKept DEF History
    <2>3. CASE ~ (InProgress(t) /\ ByKey(t))
        BY <1>2, <1>4, <2>3 DEF SlotsRead
    <2> QED
        BY <2>2, <2>3
<1>6. /\ SaidValid(t) => SaidValid(t)'
      /\ SaidInvalid(t) => SaidInvalid(t)'
    BY <1>1, SaidKept
<1>7. Gated(t)' /\ KeyChecked(t)'
    BY <1>1, <1>2, <1>4, <1>6 DEF History, Evidence, Gated, KeyChecked
<1>8. Resolved(t)' /\ AccountFound(t)' /\ GrantAllowed(t)'
    <2>1. ClientOf(t)' = ClientOf(t)
        BY <1>4 DEF ClientOf
    <2>2. \A p : /\ WasAccount(t, p)' <=> WasAccount(t, p)
                 /\ KeptAccount(t, ClientOf(t), p)' <=> KeptAccount(t, ClientOf(t), p)
        BY <1>1, <2>1 DEF WasAccount, KeptAccount
    <2>3. (WasAccount(t, principal[t]))' <=> WasAccount(t, principal[t])
        BY <1>1, <2>1 DEF WasAccount
    <2> QED
        BY <1>1, <1>4, <2>1, <2>2, <2>3
        DEF History, Evidence, Resolved, AccountFound, GrantAllowed, MayTarget, Claimed
<1>9. ToldTruth(t)'
    BY <1>1 DEF History, Evidence, ToldTruth, ToldHolder, Claimed, Keycloak!Holder, Keycloak!Absent
<1> QED
    BY <1>3, <1>5, <1>7, <1>8, <1>9 DEF History, Evidence

\* So do the properties of the answers.
LEMMA IInvStutters ==
    ASSUME UNCHANGED vars, IInv PROVE IInv'
<1>1. UNCHANGED <<call, answer, told, reading, pc, query, reply, principal, writes, ever, steady,
                  holder, known, named>>
    BY DEF vars, ledgerVars, promiseVars, slotVars, clients, work, history
<1>2. Types /\ Control /\ \A t \in Thread : History(t)
    BY DEF IInv
<1>3. \A t \in Thread : History(t)'
    BY <1>2, HistoryStutters
<1>4. \A t \in Thread :
        /\ ByKey(t)' = ByKey(t) /\ Op(t)' = Op(t) /\ Matched(t)' = Matched(t)
        /\ \A s : GrantFirst(t, s)' <=> GrantFirst(t, s)
    BY <1>1, SameSearch, SameNotes
<1>5. \A t \in Thread : (Accepted(t)' <=> Accepted(t)) /\ \A n : Told(t, n)' <=> Told(t, n)
    BY <1>1, <1>4 DEF Accepted, Told
<1>6. AcceptedWasJustified'
    <2>1. \A t \in Thread : GrantOf(t)' = GrantOf(t) /\ (Held(t)' <=> Held(t))
        BY <1>1, <1>4 DEF GrantOf, Held, Claimed
    <2>2. \A t \in Thread : ClientOf(t)' = ClientOf(t)
        BY <1>4 DEF ClientOf
    <2> QED
        BY <1>1, <1>4, <1>5, <2>1, <2>2 DEF IInv, AcceptedWasJustified
<1>7. TornOnlyIfGrantFirst' /\ NamesKept' /\ ClientNamed'
    BY <1>1, <1>4, <1>5 DEF IInv, TornOnlyIfGrantFirst, NamesKept, ClientNamed, ClientOf
<1>8. BrokenSlotRefusesAll'
    BY <1>1, <1>4 DEF IInv, BrokenSlotRefusesAll, Slots!Slot
<1>9. KeptKeyNeverRefused'
    <2>1. \A t \in Thread : Told(t, 401) /\ ByKey(t) /\ query[t].form = 200 => Excused(t)
        BY DEF IInv, KeptKeyNeverRefused, Excused, KeptAccount
    <2> SUFFICES ASSUME NEW t \in Thread, Told(t, 401)', ByKey(t)', query'[t].form = 200
                 PROVE  Excused(t)'
        BY DEF KeptKeyNeverRefused, Excused, KeptAccount
    <2>2. Told(t, 401) /\ ByKey(t) /\ query[t].form = 200
        BY <1>1, <1>4, <1>5
    <2> QED
        BY <1>1, <2>1, <2>2, ExcusedStays
<1>10. UnavailabilityHasCause'
    BY <1>1, <1>4, <1>5 DEF IInv, UnavailabilityHasCause, Slots!Slot
<1>11. GrantsWithinTarget'
    BY <1>1, <1>4, <1>5 DEF IInv, GrantsWithinTarget, Claimed
<1> QED
    BY <1>2, <1>3, <1>6, <1>7, <1>8, <1>9, <1>10, <1>11, ControlStutters DEF IInv

\* The inductive invariant.
LEMMA Invariance == Spec => []IInv
BY IInvInit, IInvNext, IInvStutters, PTL DEF Spec

-----------------------------------------------------------------------------
(* Theorems                                                                *)

\* An accepted credential was live, and Keycloak available, at some time of the
\* request; a managed key's principal was, at some time of the request, the
\* account of a client that has had the name in the grant since the pod started;
\* and the answer grants nothing beyond the key's own grant and what its principal
\* held lately, however requests, revocations, files, the changes of clients and
\* names in Keycloak, and its other answers interleave.
THEOREM Justified == Spec => []AcceptedWasJustified
BY Invariance, PTL DEF IInv

\* A managed secret is accepted with a grant it was never configured with only
\* if its owner replaced the grant before the verifier.
THEOREM TornGrants == Spec => []TornOnlyIfGrantFirst
BY Invariance, PTL DEF IInv

\* While a slot stays broken no credential is accepted or called invalid,
\* unless that slot's grant and then its verifier are replaced meanwhile.
THEOREM BrokenSlots == Spec => []BrokenSlotRefusesAll
BY Invariance, PTL DEF IInv

\* A key that stays live, of a principal that stays enabled, is not refused; a
\* managed one, where one client alone has had its name since the pod started.
THEOREM KeptKeys == Spec => []KeptKeyNeverRefused
BY Invariance, PTL DEF IInv

\* No request is answered 503 without something that was unavailable, broken,
\* being replaced or too large.
THEOREM Unavailability == Spec => []UnavailabilityHasCause
BY Invariance, PTL DEF IInv

\* A key that has been created is within what its owner held, and asked for by
\* the owner or an administrator.
THEOREM GrantsWithin == Spec => []GrantsWithinTarget
BY Invariance, PTL DEF IInv

-----------------------------------------------------------------------------
(* The components keep their promises' specifications                      *)

\* What is true of a principal now is true lately.
Current == \A p \in Principal : Keycloak!Present(p) \subseteq lately[p]

\* Keycloak's next steps are those that Requests lets it take.
LEMMA CurrentNext ==
    ASSUME Types, Current, Next PROVE Current'
<1>1. lately \in [Principal -> SUBSET Keycloak!Claim]
    BY DEF Types
<1>2. CASE UNCHANGED <<enabled, granted, lately>>
    BY <1>2 DEF Current, Keycloak!Present
<1>3. ASSUME NEW q \in Principal, ChangePrincipal(q) PROVE Current'
    <2>1. PICK fact \in Varying : Keycloak!Change(q, fact)
        BY <1>3 DEF ChangePrincipal
    <2>2. SUFFICES ASSUME NEW p \in Principal PROVE Keycloak!Present(p)' \subseteq lately'[p]
        BY DEF Current
    <2>3. CASE p = q
        BY <1>1, <2>1, <2>3 DEF Keycloak!Change
    <2>4. CASE p # q
        <3>1. enabled'[p] = enabled[p] /\ granted'[p] = granted[p] /\ lately'[p] = lately[p]
            BY <1>1, <2>1, <2>4 DEF Keycloak!Change
        <3> QED
            BY <3>1 DEF Current, Keycloak!Present
    <2> QED
        BY <2>3, <2>4
<1>4. CASE Settle
    <2>1. /\ UNCHANGED <<enabled, granted>>
          /\ \A p \in Principal : lately'[p] = Keycloak!Present(p)
        BY <1>4 DEF Settle, Keycloak!SettleAll
    <2> QED
        BY <2>1 DEF Current, Keycloak!Present
<1>5. \/ UNCHANGED <<enabled, granted, lately>> \/ Settle
      \/ \E q \in Principal : ChangePrincipal(q)
    BY Actor, WorldUntouched, Outside DEF promiseVars
<1> QED
    BY <1>2, <1>3, <1>4, <1>5

\* Every step is a step of the key table's promise or none of its business.
LEMMA LedgerStep ==
    ASSUME Types, Control, Next PROVE Ledger!Next \/ UNCHANGED ledgerVars
<1>1. ASSUME NEW t \in Thread, Connect(t) PROVE Ledger!Next \/ UNCHANGED ledgerVars
    <2>1. CASE Op(t) = "probe"
        BY <1>1, <2>1 DEF Connect
    <2>2. CASE Op(t) # "probe"
        <3>1. pc[t] = "connect" /\ OnCourse(t) /\ Ledger!Begin(t, CallFor(query[t]))
            BY <1>1, <2>2 DEF Connect, Control
        <3>2. WellFormed(query[t]) /\ Op(t) # "permissions"
            BY <3>1, Queries DEF OnCourse, OnPath
        <3>3. CallFor(query[t]) \in Ledger!Call
            BY <2>2, <3>2, Calls DEF Op
        <3> QED
            BY <3>1, <3>3 DEF Ledger!Next
    <2> QED
        BY <2>1, <2>2
<1>2. ASSUME NEW t \in Thread, Statement(t) PROVE Ledger!Next
    BY <1>2 DEF Statement, Ledger!Next, Credential
<1>3. ASSUME NEW t \in Thread, Respond(t) PROVE Ledger!Next \/ UNCHANGED ledgerVars
    BY <1>3 DEF Respond, Ledger!Next
<1>4. ASSUME NEW t \in Thread, NEW q, Arrive(t, q) PROVE UNCHANGED ledgerVars
    BY <1>4 DEF Arrive, Components
<1>5. CASE KeysStored \/ Settle
    BY <1>5 DEF KeysStored, Settle
<1>6. CASE Elsewhere
    <2>1. CASE Day
        BY <2>1 DEF Day, Ledger!Next
    <2>2. CASE ~ Day
        BY <1>6, <2>2 DEF Elsewhere, ChangePrincipal, ChangeAccount, ChangeHolder, ReplaceFile,
            KeysCleared
    <2> QED
        BY <2>1, <2>2
<1> QED
    BY <1>1, <1>2, <1>3, <1>4, <1>5, <1>6, Untouched DEF Next

\* And one of the promise about entitlements, or none of its business either.
LEMMA KeycloakStep ==
    ASSUME IInv, Current, Next PROVE Keycloak!Next \/ UNCHANGED promiseVars
<1>1. Types /\ Control /\ \A t \in Thread : KeyChecked(t) /\ AccountFound(t)
    BY DEF IInv, History, Evidence
<1>2. ASSUME NEW t \in Thread, Ask(t) PROVE Keycloak!Next
    <2>1. principal[t] \in Concerned(t)
        BY <1>1, <1>2, AsksConcerned DEF Ask
    <2>2. Concerned(t) \subseteq Principal
        <3>1. Asked(t) /\ pc[t] = "ask"
            BY <1>1, <1>2 DEF Ask, Control, OnCourse
        <3> QED
            BY <3>1, Queries DEF Concerned, Principal
    <2> QED
        BY <1>2, <2>1, <2>2 DEF Ask, Keycloak!Next
<1>3. ASSUME NEW t \in Thread, Respond(t) PROVE Keycloak!Next \/ UNCHANGED promiseVars
    BY <1>3 DEF Respond, Keycloak!Next
<1>4. ASSUME NEW t \in Thread, NEW q, Arrive(t, q) PROVE UNCHANGED promiseVars
    BY <1>4 DEF Arrive, Components
<1>5. CASE KeysStored
    BY <1>5 DEF KeysStored
<1>6. CASE Settle
    <2>1. lately' = [p \in Principal |-> Keycloak!Present(p)]
        BY <1>6 DEF Settle, Keycloak!SettleAll
    <2>2. \A p \in Principal : Keycloak!Present(p) \subseteq Keycloak!Claim
        BY <1>1, PresentClaims DEF Types
    <2>3. Keycloak!Settle
        BY <1>6, <2>1, <2>2 DEF Settle, Keycloak!SettleAll, Keycloak!Settle, Current
    <2> QED
        BY <2>3 DEF Keycloak!Next
<1>7. CASE Elsewhere
    <2>1. ASSUME NEW p \in Principal, ChangePrincipal(p) PROVE Keycloak!Next
        BY <2>1, FactAssumption DEF ChangePrincipal, Keycloak!Next
    <2>2. CASE ~ \E p \in Principal : ChangePrincipal(p)
        BY <1>7, <2>2 DEF Elsewhere, ChangeAccount, ChangeHolder, ReplaceFile, KeysCleared, Day
    <2> QED
        BY <2>1, <2>2
<1> QED
    BY <1>2, <1>3, <1>4, <1>5, <1>6, <1>7, Untouched DEF Next

\* The handlers use the key table and the entitlements only as their promises
\* allow: what ApiKeyStore and EntitlementCache are proved to implement is what
\* the theorems above are about.
THEOREM Composition == Spec => Ledger!Spec /\ Keycloak!Spec
<1>1. Init => Ledger!Init /\ Keycloak!Init /\ Current
    BY DEF Init, Keycloak!Init, Current
<1>2. Current /\ UNCHANGED vars => Current'
    BY DEF vars, promiseVars, Current, Keycloak!Present
<1>3. IInv /\ Current /\ [Next]_vars => Current'
    BY <1>2, CurrentNext DEF IInv
<1>4. IInv /\ Current /\ [Next]_vars
      => [Ledger!Next]_(Ledger!ledgerVars) /\ [Keycloak!Next]_(Keycloak!promiseVars)
    BY LedgerStep, KeycloakStep
    DEF IInv, vars, ledgerVars, promiseVars, Ledger!ledgerVars, Keycloak!promiseVars
<1> QED
    BY <1>1, <1>3, <1>4, Invariance, PTL DEF Spec, Ledger!Spec, Keycloak!Spec

-----------------------------------------------------------------------------
(* Revocation                                                              *)

\* Key k is no more.
Gone(k) == k \in issued /\ rows[k] = NoRow

\* Request t has not seen key k live.
Unseen(t, k) == \A o : <<"live", k, o>> \notin ever[t]

AcceptedWith(t, k) == Accepted(t) /\ query[t].credential = k

\* What is not stored is not live for anybody.
LEMMA GoneIsNotLive ==
    ASSUME NEW t \in Thread, NEW k
    PROVE  (\A o : rows[k] = NoRow => <<"live", k, o>> \notin Facts(t))'
<1>1. \A o : rows[k] = NoRow => <<"live", k, o>> \notin Facts(t)
    BY LiveFact DEF Live
<1> QED
    BY <1>1, PTL

\* A key that is gone stays so: its identifier is not given out again.
LEMMA GoneForGood ==
    ASSUME Types, Control, NEW k \in KeyId, Gone(k), Next PROVE Gone(k)'
<1>1. rows \in [Credential -> Row \cup {NoRow}] /\ k \in Credential
    BY DEF Types, Credential
<1>2. CASE UNCHANGED ledgerVars
    BY <1>2 DEF ledgerVars, Gone
<1>3. ASSUME NEW r \in Thread, NEW j \in Credential, Ledger!Create(r, j) PROVE Gone(k)'
    BY <1>1, <1>3 DEF Ledger!Create, Gone
<1>4. ASSUME NEW r \in Thread, Ledger!Revoke(r) PROVE Gone(k)'
    BY <1>1, <1>4 DEF Ledger!Revoke, Gone
<1>5. CASE Ledger!Next
    BY <1>3, <1>4, <1>5 DEF Ledger!Next, Ledger!Tick, Ledger!Begin, Ledger!Refuse,
        Ledger!NotFound, Ledger!Get, Ledger!List, Ledger!Fail, Ledger!Reply, Gone
<1> QED
    BY <1>2, <1>5, LedgerStep

\* Nobody starts to see it either.
LEMMA UnseenForGood ==
    ASSUME Types, Control, NEW t \in Thread, NEW k \in KeyId, Gone(k), Unseen(t, k), Next
    PROVE  Unseen(t, k)'
<1>1. rows'[k] = NoRow
    BY GoneForGood DEF Gone
<1>2. \A o : <<"live", k, o>> \notin Facts(t)'
    BY <1>1, GoneIsNotLive
<1>3. ever'[t] = {} \/ ever'[t] = ever[t] \/ ever'[t] = ever[t] \cup Facts(t)'
    BY DEF Next, Remember
<1> QED
    BY <1>2, <1>3 DEF Unseen

\* A request remembers nothing of the one before it:
Forgotten == \A t \in Thread : pc[t] = "idle" => ever[t] = {}

\* whoever is idle has an empty memory.
LEMMA IdleForgets == Spec => []Forgotten
<1>1. Init => Forgotten
    BY DEF Init, Forgotten
<1>2. Forgotten /\ [Next]_vars => Forgotten'
    BY DEF Next, Remember, vars, work, history, Forgotten
<1> QED
    BY <1>1, <1>2, PTL DEF Spec

\* Once revocation has taken a key out of the table, whichever thread's request
\* did it and wherever the others are in their checks, no request that arrives
\* from then on is accepted with it.
THEOREM RevocationIsFinal ==
    ASSUME NEW t \in Thread, NEW k \in KeyId
    PROVE  Spec => [](Gone(k) /\ pc[t] = "idle" => [](~ AcceptedWith(t, k)))
<1> DEFINE Lost == Gone(k) /\ Unseen(t, k)
<1>1. IInv /\ Lost /\ [Next]_vars => Lost'
    <2>1. IInv /\ Lost /\ Next => Lost'
        BY GoneForGood, UnseenForGood DEF IInv
    <2>2. Lost /\ UNCHANGED vars => Lost'
        BY DEF vars, ledgerVars, history, Gone, Unseen
    <2> QED
        BY <2>1, <2>2
<1>2. IInv /\ Lost => ~ AcceptedWith(t, k)
    <2> SUFFICES ASSUME AcceptedWasJustified, AcceptedWith(t, k) PROVE ~ Unseen(t, k)
        BY DEF IInv
    <2>1. Accepted(t) /\ query[t].credential = k
        BY DEF AcceptedWith
    <2>2. query[t].credential \in KeyId =>
            <<"live", query[t].credential, principal[t]>> \in ever[t]
        BY <2>1 DEF AcceptedWasJustified
    <2> QED
        BY <2>1, <2>2 DEF Unseen
<1>3. Forgotten /\ Gone(k) /\ pc[t] = "idle" => Lost
    BY DEF Unseen, Forgotten
<1> QED
    BY <1>1, <1>2, <1>3, IdleForgets, Invariance, PTL DEF Spec

-----------------------------------------------------------------------------
(* Creation                                                                *)

\* A row that is about to be stored is what a creation asked for, with a right to.
NewRowsAreAsked ==
    \A k \in KeyId : rows[k] = NoRow /\ rows'[k] # NoRow =>
        \E t \in Thread :
            /\ Op(t) = "create" /\ MayTarget(query[t])
            /\ rows'[k].owner = query[t].target /\ rows'[k].grant = query[t].grant
            /\ \A e \in query[t].grant : Claimed(t, query[t].target, e, TRUE)

\* Every key that is ever stored is within what its owner held and was asked
\* for by him or an administrator: also one whose commit's answer was lost, of
\* which GrantsWithinTarget does not speak because the caller was told 500.
THEOREM RowsAreAsked == Spec => [][NewRowsAreAsked]_vars
<1>1. ASSUME IInv, Next, NEW k \in KeyId, rows[k] = NoRow, rows'[k] # NoRow
      PROVE  \E t \in Thread : Statement(t) /\ Ledger!Create(t, k)
    <2>1. rows \in [Credential -> Row \cup {NoRow}] /\ k \in Credential
        BY <1>1 DEF IInv, Types, Credential
    <2>2. PICK t \in Thread : Connect(t) \/ Statement(t) \/ Respond(t)
        BY <1>1, Untouched, Outside DEF Next, Arrive, Components, ledgerVars
    <2>3. Statement(t)
        BY <1>1, <2>2 DEF Connect, Respond, ledgerVars, Ledger!Begin, Ledger!Reply
    <2>4. ~ Ledger!Revoke(t)
        BY <1>1, <2>1 DEF Ledger!Revoke
    <2>5. PICK j \in KeyId : Ledger!Create(t, j)
        BY <1>1, <2>3, <2>4 DEF Statement, Ledger!Refuse, Ledger!NotFound, Ledger!Get,
            Ledger!List, Ledger!Fail
    <2>6. j = k
        BY <1>1, <2>1, <2>5 DEF Ledger!Create
    <2> QED
        BY <2>3, <2>5, <2>6
<1>2. ASSUME IInv, Next PROVE NewRowsAreAsked
    <2> SUFFICES ASSUME NEW k \in KeyId, rows[k] = NoRow, rows'[k] # NoRow
                 PROVE  \E t \in Thread :
                            /\ Op(t) = "create" /\ MayTarget(query[t])
                            /\ rows'[k].owner = query[t].target
                            /\ rows'[k].grant = query[t].grant
                            /\ \A e \in query[t].grant : Claimed(t, query[t].target, e, TRUE)
        BY DEF NewRowsAreAsked
    <2>1. PICK t \in Thread : Statement(t) /\ Ledger!Create(t, k)
        BY <1>1, <1>2
    <2>2. pc[t] = "statement" /\ OnCourse(t) /\ GrantAllowed(t) /\ Op(t) # "probe"
        BY <1>2, <2>1 DEF IInv, Control, History, Evidence, Statement
    <2>3. call[t] = CallFor(query[t]) /\ WellFormed(query[t]) /\ Op(t) # "permissions"
        BY <2>2, Queries DEF OnCourse, Connected
    <2>4. /\ Op(t) = "create"
          /\ call[t].user = query[t].target /\ call[t].grant = query[t].grant
        BY <2>1, <2>3, <2>2, Calls DEF Ledger!Create, Op, WellFormed
    <2>5. rows'[k].owner = call[t].user /\ rows'[k].grant = call[t].grant
        <3>1. PICK i \in 0..now : rows' = [rows EXCEPT ![k] = Ledger!RowFor(call[t], i)]
            BY <2>1 DEF Ledger!Create
        <3>2. k \in DOMAIN rows
            BY <1>2 DEF IInv, Types, Credential
        <3> QED
            BY <3>1, <3>2 DEF Ledger!RowFor
    <2> QED
        BY <2>2, <2>4, <2>5 DEF GrantAllowed
<1>3. IInv /\ [Next]_vars => [NewRowsAreAsked]_vars
    BY <1>2
<1> QED
    BY <1>3, Invariance, PTL DEF Spec

-----------------------------------------------------------------------------
(* Disabling                                                               *)

Disabled(p) == ~ enabled[p]

\* Nothing lately has said that p is enabled.
Disused(p) == ~ Keycloak!WasLately(p, "enabled", TRUE)

\* Request t has not heard it either.
Unheard(t, p) == ~ Claimed(t, p, "enabled", TRUE)

AcceptedFor(t, p) == Accepted(t) /\ query[t].credential \notin Token /\ principal[t] = p

\* A claim that is remembered has been made lately.
LEMMA ClaimMade ==
    ASSUME NEW t \in Thread, NEW p \in Principal, Concerned(t) \subseteq Principal,
           lately \in [Principal -> SUBSET Keycloak!Claim],
           <<"claim", p, "enabled", TRUE>> \in Facts(t)
    PROVE  ~ Disused(p)
<1> DEFINE claims(r) == {<<"claim", r, c.fact, c.holds>> : c \in lately[r]}
<1>1. <<"claim", p, "enabled", TRUE>> \in UNION {claims(r) : r \in Concerned(t)}
    BY DEF Facts, SlotFacts
<1>2. PICK r \in Concerned(t) : <<"claim", p, "enabled", TRUE>> \in claims(r)
    BY <1>1
<1>3. PICK c \in lately[r] : <<"claim", p, "enabled", TRUE>> = <<"claim", r, c.fact, c.holds>>
    BY <1>2
<1>4. c \in Keycloak!Claim /\ r = p /\ c.fact = "enabled" /\ c.holds = TRUE
    BY <1>3
<1>5. c = [fact |-> "enabled", holds |-> TRUE]
    BY <1>4 DEF Keycloak!Claim
<1> QED
    BY <1>3, <1>4, <1>5 DEF Disused, Keycloak!WasLately

\* What a request depends on are principals, in every state with a course.
LEMMA ConcernedPrincipals ==
    ASSUME Control, NEW t \in Thread, pc[t] # "idle"
    PROVE  Concerned(t) \subseteq Principal
<1>1. Asked(t)
    BY DEF Control, OnCourse
<1> QED
    BY <1>1, Queries DEF Concerned, Principal

\* So whoever is disused is not remembered as enabled, after a step either.
LEMMA DisusedIsUnheard ==
    ASSUME NEW t \in Thread, NEW p \in Principal
    PROVE  (Types /\ Control /\ pc[t] # "idle" /\ Disused(p)
                => <<"claim", p, "enabled", TRUE>> \notin Facts(t))'
<1>1. Types /\ Control /\ pc[t] # "idle" /\ Disused(p)
        => <<"claim", p, "enabled", TRUE>> \notin Facts(t)
    BY ConcernedPrincipals, ClaimMade DEF Types
<1> QED
    BY <1>1, PTL

\* Of a principal that stays disabled nobody says anything else.
LEMMA DisusedForGood ==
    ASSUME Types, NEW p \in Principal, Disused(p), Disabled(p)', Next PROVE Disused(p)'
<1>1. /\ lately \in [Principal -> SUBSET Keycloak!Claim]
      /\ enabled \in [Principal -> BOOLEAN]
    BY DEF Types
<1>2. [fact |-> "enabled", holds |-> TRUE] \notin Keycloak!Present(p)'
    <2>1. ~ enabled'[p]
        BY DEF Disabled
    <2>2. [fact |-> "enabled", holds |-> TRUE] # [fact |-> "enabled", holds |-> enabled'[p]]
        <3>1. [fact |-> "enabled", holds |-> TRUE].holds = TRUE
            OBVIOUS
        <3>2. [fact |-> "enabled", holds |-> enabled'[p]].holds = enabled'[p]
            OBVIOUS
        <3> QED
            BY <2>1, <3>1, <3>2
    <2>3. \A e \in Permission :
            [fact |-> "enabled", holds |-> TRUE] # [fact |-> e, holds |-> e \in granted'[p]]
        <3> SUFFICES ASSUME NEW e \in Permission
                     PROVE  [fact |-> "enabled", holds |-> TRUE].fact
                                # [fact |-> e, holds |-> e \in granted'[p]].fact
            OBVIOUS
        <3> QED
            BY FactAssumption
    <2> QED
        BY <2>2, <2>3 DEF Keycloak!Present
<1>3. CASE UNCHANGED lately
    BY <1>3 DEF Disused, Keycloak!WasLately
<1>4. ASSUME NEW q \in Principal, ChangePrincipal(q) PROVE Disused(p)'
    <2>1. lately' = [lately EXCEPT ![q] = lately[q] \cup Keycloak!Present(q)']
        BY <1>1, <1>4 DEF ChangePrincipal, Keycloak!Change
    <2>2. CASE p = q
        BY <1>1, <1>2, <2>1, <2>2 DEF Disused, Keycloak!WasLately
    <2>3. CASE p # q
        BY <1>1, <2>1, <2>3 DEF Disused, Keycloak!WasLately
    <2> QED
        BY <2>2, <2>3
<1>5. CASE Settle
    <2>1. lately'[p] = Keycloak!Present(p)'
        BY <1>5 DEF Settle, Keycloak!SettleAll, Keycloak!Present
    <2> QED
        BY <1>2, <2>1 DEF Disused, Keycloak!WasLately
<1>6. UNCHANGED lately \/ Settle \/ \E q \in Principal : ChangePrincipal(q)
    BY Actor, WorldUntouched, Outside DEF promiseVars
<1> QED
    BY <1>3, <1>4, <1>5, <1>6

\* Nobody starts to hear anything else of it.
LEMMA UnheardForGood ==
    ASSUME Types, Control, NEW t \in Thread, NEW p \in Principal, Disused(p)', Unheard(t, p),
           Types', Control', Next
    PROVE  Unheard(t, p)'
<1>1. CASE ever'[t] = {} \/ ever'[t] = ever[t]
    BY <1>1 DEF Unheard, Claimed
<1>2. CASE pc'[t] # "idle" /\ ever'[t] = ever[t] \cup Facts(t)'
    <2>1. <<"claim", p, "enabled", TRUE>> \notin Facts(t)'
        BY <1>2, DisusedIsUnheard
    <2> QED
        BY <1>2, <2>1 DEF Unheard, Claimed
<1> QED
    BY <1>1, <1>2 DEF Next, Remember

\* Once Keycloak's word that an account is disabled has become old enough that
\* the cache tells nothing else, no request that arrives is accepted for it with
\* a key, personal or managed, for as long as it stays disabled.
THEOREM DisablingHolds ==
    ASSUME NEW t \in Thread, NEW p \in Principal
    PROVE  Spec => []( pc[t] = "idle" /\ Disused(p) /\ []Disabled(p)
                        => [](~ AcceptedFor(t, p)) )
<1> DEFINE Shunned == Disused(p) /\ Unheard(t, p)
<1>1. IInv /\ IInv' /\ Shunned /\ Disabled(p)' /\ [Next]_vars => Shunned'
    <2>1. IInv /\ IInv' /\ Shunned /\ Disabled(p)' /\ Next => Shunned'
        BY DisusedForGood, UnheardForGood DEF IInv
    <2>2. Shunned /\ UNCHANGED vars => Shunned'
        BY DEF vars, promiseVars, history, Disused, Unheard, Claimed, Keycloak!WasLately
    <2> QED
        BY <2>1, <2>2
<1>2. IInv /\ Shunned => ~ AcceptedFor(t, p)
    <2> SUFFICES ASSUME AcceptedWasJustified, AcceptedFor(t, p) PROVE ~ Unheard(t, p)
        BY DEF IInv
    <2>1. Accepted(t) /\ query[t].credential \notin Token
        BY DEF AcceptedFor
    <2>2. Held(t)
        BY <2>1 DEF AcceptedWasJustified
    <2> QED
        BY <2>2 DEF Held, Unheard, AcceptedFor
<1>3. Forgotten /\ pc[t] = "idle" /\ Disused(p) => Shunned
    BY DEF Unheard, Forgotten, Claimed
<1> QED
    BY <1>1, <1>2, <1>3, IdleForgets, Invariance, PTL DEF Spec
=============================================================================
