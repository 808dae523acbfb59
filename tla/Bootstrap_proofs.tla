--------------------------- MODULE Bootstrap_proofs ---------------------------
(***************************************************************************)
(* For any number of pods and releases and whatever database they find:    *)
(* IInv of Bootstrap is inductive, and with it pods serve only on the      *)
(* schema of their release, are refused only with reason, and implement    *)
(* SchemaPromise.                                                          *)
(*                                                                         *)
(* The argument: only the holder of the advisory lock has uncommitted      *)
(* work, and it found the database empty.  Nobody can have verified        *)
(* anything on an empty database, so the commit that fills it disturbs     *)
(* nothing that was seen.                                                  *)
(***************************************************************************)
EXTENDS Bootstrap, TLAPS

\* A transaction without work of its own sees what is committed.
LEMMA CleanView ==
    ASSUME TypeOK, NEW p \in Pod, created[p] = {}, inserted[p] = {}
    PROVE  View(p) = committed
BY DEF TypeOK, View, Database

\* One that has created everything sees the schema of its release.
LEMMA FullView ==
    ASSUME NEW p \in Pod, committed = NoTables, created[p] = Table,
           inserted[p] = {release[p]}
    PROVE  View(p) = Complete(release[p])
BY DEF View, NoTables, Complete

\* The schemas are databases, and none of them is taken for an empty one.
LEMMA CompleteSchema ==
    ASSUME NEW r \in Release
    PROVE  /\ Complete(r) \in Database /\ Possible(Complete(r))
           /\ Complete(r) # NoTables
           /\ AsExpected(Complete(r))
           /\ \A n \in Table : Complete(r).shape[n] = "expected"
           /\ Complete(r).versions = {r}
BY DEF Complete, Database, Possible, NoTables, AsExpected, TablesOf, Table, Shape

LEMMA EmptyDatabase == TablesOf(NoTables) = {} /\ ~ AsExpected(NoTables) /\ Blank(NoTables)
BY DEF NoTables, AsExpected, TablesOf, Table, Blank

\* An empty database is the only one where nothing is to be seen.
LEMMA OnlyBlank ==
    ASSUME NEW d \in Database, Possible(d), Blank(d)
    PROVE  d = NoTables
<1>1. \A n \in Table : d.shape[n] = "absent"
    BY DEF Blank, TablesOf
<1>2. d.versions = {}
    BY DEF Blank, Possible, TablesOf, Database
<1>3. d.extra = FALSE
    BY DEF Blank, Database
<1>4. d.shape = [n \in Table |-> "absent"]
    BY <1>1 DEF Database
<1> QED
    BY <1>2, <1>3, <1>4 DEF Database, NoTables

Same(q) ==
    UNCHANGED <<committed, pc[q], role[q], release[q], missing[q], created[q], inserted[q]>>

\* What a pod has seen and done stays as it is while nothing of it changes.
LEMMA SameKeeps ==
    ASSUME NEW q \in Pod, Same(q), Seen(q), Worked(q)
    PROVE  Seen(q)' /\ Worked(q)'
<1>1. View(q)' = View(q)
    BY DEF Same, View
<1> QED
    BY <1>1 DEF Same, Seen, Worked

\* A pod that has just been started again, or has failed, has seen nothing.
LEMMA NothingSeen ==
    ASSUME NEW q \in Pod, pc'[q] \in {"begin", "tables", "failed", "refused", "lost", "lock",
                               "inspect"},
           pc'[q] = "tables" => role'[q] = "service",
           missing'[q] = {}, created'[q] = {}, inserted'[q] = {}
    PROVE  Seen(q)' /\ Worked(q)'
BY DEF Seen, Worked, AfterVerification, Verification

-----------------------------------------------------------------------------
(* The invariant                                                           *)

LEMMA InitIInv == Init => IInv
<1> SUFFICES ASSUME Init PROVE IInv
    OBVIOUS
<1>1. TypeOK
    BY BootstrapAssumption
    DEF Init, TypeOK, Place, First, Role, Attempts, Verification, InTransaction
<1>2. LockFollowsWork
    BY BootstrapAssumption
    DEF Init, LockFollowsWork, Open, First, Role, Verification, InTransaction
<1>3. \A p \in Pod : RoleFits(p) /\ Seen(p) /\ Worked(p)
    BY DEF Init, RoleFits, Seen, Worked, First, Role, InTransaction, Verification,
           AfterVerification
<1> QED
    BY <1>1, <1>2, <1>3 DEF Init, IInv

\* Whoever has uncommitted work, or has just found the database empty, is alone:
\* everyone else is outside his transaction or waits for the lock.
LEMMA AloneInside ==
    ASSUME IInv, NEW p \in Pod, NEW q \in Pod, q # p, lock = p
    PROVE  ~ (Open(q) /\ pc[q] # "lock")
BY DEF IInv, LockFollowsWork

\* A service has no work of its own and sees what is committed.
LEMMA ServiceView ==
    ASSUME IInv, NEW p \in Pod, role[p] = "service"
    PROVE  created[p] = {} /\ inserted[p] = {} /\ missing[p] = {} /\ View(p) = committed
<1>1. created[p] = {} /\ pc[p] # "create"
    BY DEF IInv, RoleFits, InTransaction
<1>2. inserted[p] = {} /\ missing[p] = {}
    BY <1>1 DEF IInv, Worked
<1> QED
    BY <1>1, <1>2, CleanView DEF IInv

\* PostgreSQL goes down: every transaction is lost with its work and its lock.
LEMMA GoDownIInv == ASSUME IInv, GoDown PROVE IInv'
<1> USE DEF GoDown
<1>1. TypeOK'
    BY DEF IInv, TypeOK, Place
<1>2. Possible(committed)'
    BY DEF IInv, Possible, TablesOf
<1>3. LockFollowsWork'
    BY BootstrapAssumption DEF LockFollowsWork, Open, IInv, TypeOK, InTransaction, Verification
<1>4. ASSUME NEW p \in Pod PROVE RoleFits(p)'
    BY DEF RoleFits, Open, IInv, TypeOK, InTransaction, Verification
<1>5. ASSUME NEW p \in Pod PROVE Seen(p)' /\ Worked(p)'
    <2>1. CASE Open(p) \/ pc[p] = "answer"
        BY <2>1, NothingSeen DEF IInv, TypeOK
    <2>2. CASE ~ Open(p) /\ pc[p] # "answer"
        <3>1. created[p] = {} /\ inserted[p] = {} /\ missing[p] = {}
            <4>1. CASE role[p] = "service"
                BY <4>1, ServiceView
            <4>2. CASE role[p] = "init"
                BY <4>2, <2>2 DEF IInv, Worked, Open, InTransaction, Verification
            <4> QED
                BY <4>1, <4>2 DEF IInv, TypeOK, Role
        <3>2. Same(p)
            BY <3>1, <2>2 DEF Same, IInv, TypeOK
        <3> QED
            BY <3>2, SameKeeps DEF IInv
    <2> QED
        BY <2>1, <2>2
<1> QED
    BY <1>1, <1>2, <1>3, <1>4, <1>5 DEF IInv

\* Nothing of the pods or of the database changes.
LEMMA ServerIInv ==
    ASSUME IInv, up' \in BOOLEAN, lock' = lock \/ (lock = Ghost /\ lock' = Free),
           UNCHANGED <<committed, release, role, pc, work, attempts, restarts>>
    PROVE  IInv'
<1> USE DEF work
<1>1. TypeOK'
    BY DEF IInv, TypeOK
<1>2. Possible(committed)' /\ \A p \in Pod : RoleFits(p)'
    BY DEF IInv, Possible, TablesOf, RoleFits
<1>3. LockFollowsWork'
    BY BootstrapAssumption DEF LockFollowsWork, Open, IInv
<1>4. ASSUME NEW p \in Pod PROVE Seen(p)' /\ Worked(p)'
    BY SameKeeps DEF Same, IInv
<1> QED
    BY <1>1, <1>2, <1>3, <1>4 DEF IInv

-----------------------------------------------------------------------------
(* The steps of one pod                                                    *)

OthersSame(p) ==
    \A q \in Pod \ {p} :
        UNCHANGED <<pc[q], role[q], release[q], missing[q], created[q], inserted[q]>>

\* While the database stays as it is, a step has to keep its own pod's part of
\* the invariant and to take nobody else's lock.
LEMMA OneStep ==
    ASSUME IInv, NEW p \in Pod, OthersSame(p), committed' = committed, TypeOK',
           lock' = lock \/ (lock \in {p, Free} /\ lock' \in {p, Free, Ghost}),
           (lock' = p) <=> (Open(p)' /\ pc'[p] # "lock"),
           RoleFits(p)', Seen(p)', Worked(p)'
    PROVE  IInv'
<1>1. Possible(committed)'
    BY DEF IInv, Possible, TablesOf
<1>2. ASSUME NEW q \in Pod, q # p
      PROVE  RoleFits(q)' /\ Seen(q)' /\ Worked(q)'
    <2>1. RoleFits(q)'
        BY <1>2 DEF OthersSame, IInv, RoleFits
    <2>2. Seen(q)' /\ Worked(q)'
        BY <1>2, SameKeeps DEF OthersSame, Same, IInv
    <2> QED
        BY <2>1, <2>2
<1>3. LockFollowsWork'
    <2> SUFFICES ASSUME NEW q \in Pod
                 PROVE  (lock' = q) <=> (Open(q)' /\ pc'[q] # "lock")
        BY DEF LockFollowsWork
    <2>1. CASE q = p
        BY <2>1
    <2>2. CASE q # p
        <3>1. Open(q)' <=> Open(q)
            BY <2>2 DEF OthersSame, Open
        <3>2. (lock' = q) <=> (lock = q)
            BY <2>2, BootstrapAssumption
        <3> QED
            BY <2>2, <3>1, <3>2 DEF OthersSame, IInv, LockFollowsWork
    <2> QED
        BY <2>1, <2>2
<1> QED
    BY <1>1, <1>2, <1>3 DEF IInv

\* A pod outside of every transaction has nothing uncommitted.
LEMMA Outside ==
    ASSUME IInv, NEW p \in Pod,
           pc[p] \in {"begin", "lock", "inspect", "answer", "lost", "initialized", "serving",
                     "failed", "refused"}
    PROVE  missing[p] = {} /\ created[p] = {} /\ inserted[p] = {} /\ View(p) = committed
<1>1. missing[p] = {} /\ created[p] = {} /\ inserted[p] = {}
    BY DEF IInv, Worked, Verification
<1> QED
    BY <1>1, CleanView DEF IInv

LEMMA KillIInv == ASSUME IInv, NEW p \in Pod, Kill(p) PROVE IInv'
<1> USE DEF Kill, Undo, Unlock, Goto, First, Role
<1>1. TypeOK'
    BY BootstrapAssumption DEF IInv, TypeOK, Place, Attempts, Verification
<1>2. OthersSame(p)
    BY DEF OthersSame, IInv, TypeOK
<1>3. pc'[p] \in {"begin", "tables"} /\ (pc'[p] = "begin" <=> role'[p] = "init")
      /\ role'[p] \in {"init", "service"}
      /\ missing'[p] = {} /\ created'[p] = {} /\ inserted'[p] = {}
    BY DEF IInv, TypeOK
<1>4. Seen(p)' /\ Worked(p)'
    BY <1>3, NothingSeen
<1>5. RoleFits(p)'
    BY <1>3 DEF RoleFits, InTransaction
<1>6. ~ Open(p)'
    BY <1>3 DEF Open, InTransaction, Verification
<1>7. lock' # p /\ (lock' = lock \/ (lock = p /\ lock' = Ghost))
    BY BootstrapAssumption DEF IInv, TypeOK
<1> QED
    BY <1>1, <1>2, <1>4, <1>5, <1>6, <1>7, OneStep

\* The steps between the commands and before a transaction's first statement.
LEMMA ClusterIInv ==
    ASSUME IInv, NEW p \in Pod, Restart(p) \/ StartService(p) \/ Begin(p) \/ InitFails(p)
    PROVE  IInv'
<1> USE DEF Restart, StartService, Begin, InitFails, Goto, First, Role, server, work
<1>1. TypeOK'
    BY DEF IInv, TypeOK, Place, Attempts, Verification, InTransaction
<1>2. OthersSame(p) /\ committed' = committed /\ lock' = lock
    BY DEF OthersSame, IInv, TypeOK
<1>3. pc[p] \in {"begin", "lost", "initialized", "failed", "refused"}
    OBVIOUS
<1>4. missing[p] = {} /\ created[p] = {} /\ inserted[p] = {}
    BY <1>3, Outside
<1>5. pc'[p] \in {"begin", "tables", "failed", "lock"}
      /\ (pc'[p] = "tables" => role'[p] = "service")
      /\ (pc'[p] \in {"begin", "lock"} => role'[p] = "init")
    BY DEF IInv, TypeOK, RoleFits, InTransaction
<1>6. Seen(p)' /\ Worked(p)'
    BY <1>4, <1>5, NothingSeen DEF IInv, TypeOK
<1>7. RoleFits(p)'
    BY <1>4, <1>5 DEF RoleFits, InTransaction
<1>8. lock # p
    BY <1>3 DEF IInv, LockFollowsWork, Open, InTransaction, Verification
<1>9. ~ (Open(p)' /\ pc'[p] # "lock")
    BY <1>5 DEF Open, InTransaction, Verification
<1> QED
    BY <1>1, <1>2, <1>6, <1>7, <1>8, <1>9, OneStep

\* The lock is taken by one who waits for it, with nothing done yet.
LEMMA LockIInv == ASSUME IInv, NEW p \in Pod, Lock(p) PROVE IInv'
<1> USE DEF Lock, Goto, work
<1>1. TypeOK'
    BY DEF IInv, TypeOK, Place, InTransaction
<1>2. OthersSame(p) /\ pc'[p] = "inspect" /\ role'[p] = role[p]
    BY DEF OthersSame, IInv, TypeOK
<1>3. missing'[p] = {} /\ created'[p] = {} /\ inserted'[p] = {}
    BY Outside
<1>4. Seen(p)' /\ Worked(p)'
    BY <1>2, <1>3, NothingSeen
<1>5. role[p] = "init"
    BY DEF IInv, RoleFits, InTransaction
<1>6. RoleFits(p)' /\ Open(p)'
    BY <1>2, <1>5 DEF RoleFits, Open, InTransaction
<1> QED
    BY <1>1, <1>2, <1>4, <1>6, OneStep

\* Whoever finds nothing has an empty database before him; nothing is seen
\* otherwise.
LEMMA InspectIInv == ASSUME IInv, NEW p \in Pod, Inspect(p) PROVE IInv'
<1> USE DEF Inspect, Goto, server
<1>1. TypeOK'
    BY DEF IInv, TypeOK, Place, InTransaction, Verification
<1>2. OthersSame(p) /\ role'[p] = role[p] /\ committed' = committed /\ lock' = lock
    BY DEF OthersSame, IInv, TypeOK
<1>3. missing[p] = {} /\ created[p] = {} /\ inserted[p] = {} /\ View(p) = committed
    BY Outside
<1>4. role[p] = "init" /\ lock = p
    BY DEF IInv, RoleFits, LockFollowsWork, Open, InTransaction
<1>5. pc'[p] \in {"create", "tables"}
    BY DEF IInv, TypeOK
<1>6. Seen(p)'
    BY <1>5 DEF Seen, AfterVerification
<1>7. Worked(p)'
    <2>1. CASE Blank(View(p)) /\ missing' = [missing EXCEPT ![p] = Table] /\ Goto(p, "create")
        <3>1. committed = NoTables
            BY <2>1, <1>3, OnlyBlank DEF IInv, TypeOK
        <3>2. pc'[p] = "create" /\ missing'[p] = Table
            BY <2>1 DEF IInv, TypeOK
        <3> QED
            BY <3>1, <3>2, <1>2, <1>3 DEF Worked, Table, Verification
    <2>2. CASE ~ Blank(View(p)) /\ UNCHANGED missing /\ Goto(p, "tables")
        <3>1. committed # NoTables
            BY <2>2, <1>3, EmptyDatabase
        <3>2. pc'[p] = "tables"
            BY <2>2 DEF IInv, TypeOK
        <3> QED
            BY <2>2, <3>1, <3>2, <1>2, <1>3 DEF Worked, Verification
    <2> QED
        BY <2>1, <2>2
<1>8. RoleFits(p)' /\ Open(p)' /\ pc'[p] # "lock"
    BY <1>2, <1>4, <1>5 DEF RoleFits, Open, InTransaction, Verification
<1> QED
    BY <1>1, <1>2, <1>4, <1>6, <1>7, <1>8, OneStep

\* The tables are created one by one, on the empty database.
LEMMA CreateTableIInv == ASSUME IInv, NEW p \in Pod, CreateTable(p) PROVE IInv'
<1> USE DEF Goto, server
<1>1. PICK n \in missing[p] :
        /\ created' = [created EXCEPT ![p] = @ \cup {n}]
        /\ missing' = [missing EXCEPT ![p] = @ \ {n}]
        /\ Goto(p, IF missing[p] = {n} THEN "insert" ELSE "create")
    BY DEF CreateTable
<1>2. /\ pc[p] = "create"
      /\ UNCHANGED <<server, release, role, inserted, attempts, restarts>>
    BY DEF CreateTable
<1>3. n \in Table
    BY DEF IInv, TypeOK
<1>4. TypeOK'
    BY <1>1, <1>2, <1>3 DEF IInv, TypeOK, Place, InTransaction
<1>5. OthersSame(p) /\ role'[p] = role[p] /\ committed' = committed /\ lock' = lock
    BY <1>1, <1>2 DEF OthersSame, IInv, TypeOK
<1>6. /\ missing'[p] = missing[p] \ {n} /\ created'[p] = created[p] \cup {n}
      /\ inserted'[p] = inserted[p]
      /\ pc'[p] = IF missing[p] = {n} THEN "insert" ELSE "create"
    BY <1>1, <1>2 DEF IInv, TypeOK
<1>7. role[p] = "init" /\ lock = p
    BY <1>2 DEF IInv, RoleFits, LockFollowsWork, Open, InTransaction
<1>8. missing[p] = Table \ created[p] /\ committed = NoTables /\ inserted[p] = {}
    BY <1>2 DEF IInv, Worked
<1>9. Worked(p)'
    BY <1>3, <1>5, <1>6, <1>8 DEF Worked, Verification, IInv, TypeOK
<1>10. Seen(p)'
    BY <1>6 DEF Seen, AfterVerification
<1>11. RoleFits(p)' /\ Open(p)' /\ pc'[p] # "lock"
    BY <1>5, <1>6, <1>7 DEF RoleFits, Open, InTransaction
<1> QED
    BY <1>4, <1>5, <1>7, <1>9, <1>10, <1>11, OneStep

\* The version goes into tables that are all there.
LEMMA InsertVersionIInv == ASSUME IInv, NEW p \in Pod, InsertVersion(p) PROVE IInv'
<1> USE DEF InsertVersion, Goto, server
<1>1. TypeOK'
    BY DEF IInv, TypeOK, Place, Verification
<1>2. /\ OthersSame(p) /\ committed' = committed /\ lock' = lock
      /\ role'[p] = role[p] /\ release'[p] = release[p] /\ missing'[p] = missing[p]
      /\ created'[p] = created[p] /\ pc'[p] = "tables" /\ inserted'[p] = {release[p]}
    BY DEF OthersSame, IInv, TypeOK
<1>3. role[p] = "init" /\ lock = p
    BY DEF IInv, RoleFits, LockFollowsWork, Open, InTransaction
<1>4. created[p] = Table /\ missing[p] = {}
    BY DEF IInv, Worked
<1>5. committed = NoTables /\ Table # {}
    BY <1>4 DEF IInv, Worked, Table
<1>6. Worked(p)'
    BY <1>2, <1>4, <1>5 DEF Worked, Verification
<1>7. Seen(p)'
    BY <1>2 DEF Seen, AfterVerification
<1>8. RoleFits(p)' /\ Open(p)' /\ pc'[p] # "lock"
    BY <1>2, <1>3 DEF RoleFits, Open, InTransaction, Verification
<1> QED
    BY <1>1, <1>2, <1>3, <1>6, <1>7, <1>8, OneStep

\* What a transaction sees is a database.
LEMMA ViewIsDatabase == ASSUME TypeOK, NEW p \in Pod PROVE View(p) \in Database
BY DEF TypeOK, View, Database, Shape

\* There is one complete schema of a release.
LEMMA OnlyComplete ==
    ASSUME NEW d \in Database, NEW r \in Release, AsExpected(d),
           \A n \in Table : d.shape[n] = "expected", d.versions = {r}
    PROVE  d = Complete(r)
<1>1. d.shape = [n \in Table |-> "expected"]
    BY DEF Database
<1>2. d.extra = FALSE
    BY DEF Database, AsExpected
<1> QED
    BY <1>1, <1>2 DEF Database, Complete

\* The statements of the verification add up.
LEMMA VerifyIInv == ASSUME IInv, NEW p \in Pod, Verify(p) PROVE IInv'
<1> USE DEF Verify, Goto, server, work
<1>1. role[p] \in {"init", "service"} /\ release[p] \in Release
    BY DEF IInv, TypeOK, Role
<1>2. /\ OthersSame(p) /\ committed' = committed /\ lock' = lock
      /\ role'[p] = role[p] /\ release'[p] = release[p] /\ missing'[p] = missing[p]
      /\ created'[p] = created[p] /\ inserted'[p] = inserted[p]
      /\ pc'[p] = Following(p, pc[p]) /\ View(p)' = View(p)
    BY DEF OthersSame, IInv, TypeOK, View
<1>3. \/ pc[p] = "tables" /\ pc'[p] = "columns"
      \/ pc[p] = "columns" /\ pc'[p] = "versions"
      \/ pc[p] = "versions" /\ role[p] = "init" /\ pc'[p] = "commit"
      \/ pc[p] = "versions" /\ role[p] = "service" /\ pc'[p] = "serving"
    BY <1>1, <1>2 DEF Following, Verification
<1>4. TypeOK'
    BY <1>2, <1>3 DEF IInv, TypeOK, Place, InTransaction, Verification
<1>5. Seen(p)'
    <2>1. CASE pc[p] = "tables" /\ pc'[p] = "columns"
        BY <2>1, <1>2 DEF Seen, Finds, AfterVerification
    <2>2. CASE pc[p] = "columns" /\ pc'[p] = "versions"
        BY <2>2, <1>2 DEF IInv, Seen, Finds, AfterVerification
    <2>3. CASE pc[p] = "versions" /\ pc'[p] \in {"commit", "serving"}
        <3>1. AsExpected(View(p)) /\ \A n \in Table : View(p).shape[n] = "expected"
            BY <2>3 DEF IInv, Seen
        <3>2. View(p).versions = {release[p]}
            BY <2>3 DEF Finds
        <3>3. View(p) = Complete(release[p])
            BY <3>1, <3>2, <1>1, ViewIsDatabase, OnlyComplete DEF IInv
        <3> QED
            BY <2>3, <3>3, <1>2 DEF Seen, Complete
    <2> QED
        BY <2>1, <2>2, <2>3, <1>3
<1>6. Worked(p)'
    BY <1>2, <1>3 DEF IInv, RoleFits, Worked, Verification
<1>7. RoleFits(p)'
    BY <1>2, <1>3 DEF IInv, RoleFits, InTransaction
<1>8. (Open(p)' /\ pc'[p] # "lock") <=> (Open(p) /\ pc[p] # "lock")
    BY <1>2, <1>3 DEF Open, InTransaction, Verification
<1> QED
    BY <1>2, <1>4, <1>5, <1>6, <1>7, <1>8, OneStep DEF IInv, LockFollowsWork

\* The answer to the commit changes nothing.
LEMMA EndIInv == ASSUME IInv, NEW p \in Pod, End(p) PROVE IInv'
<1> USE DEF End, Goto, server, work
<1>1. TypeOK'
    BY DEF IInv, TypeOK, Place
<1>2. /\ OthersSame(p) /\ committed' = committed /\ lock' = lock
      /\ role'[p] = role[p] /\ release'[p] = release[p] /\ missing'[p] = missing[p]
      /\ created'[p] = created[p] /\ inserted'[p] = inserted[p]
      /\ pc'[p] = "initialized" /\ View(p)' = View(p)
    BY DEF OthersSame, IInv, TypeOK, View
<1>3. missing[p] = {} /\ created[p] = {} /\ inserted[p] = {}
    BY Outside
<1>4. Seen(p)' /\ Worked(p)'
    BY <1>2, <1>3 DEF IInv, Seen, Worked, AfterVerification, Verification
<1>5. RoleFits(p)'
    BY <1>2 DEF IInv, RoleFits
<1>6. lock # p /\ ~ Open(p)'
    BY <1>2 DEF IInv, LockFollowsWork, Open, InTransaction, Verification
<1> QED
    BY <1>1, <1>2, <1>4, <1>5, <1>6, OneStep

\* A refused transaction leaves nothing behind.
LEMMA RefuseIInv == ASSUME IInv, NEW p \in Pod, Refuse(p) PROVE IInv'
<1> USE DEF Refuse, Undo, Unlock, Goto
<1>1. TypeOK'
    BY DEF IInv, TypeOK, Place
<1>2. /\ OthersSame(p) /\ committed' = committed
      /\ role'[p] = role[p] /\ missing'[p] = {} /\ created'[p] = {}
      /\ inserted'[p] = {} /\ pc'[p] = "refused"
    BY DEF OthersSame, IInv, TypeOK
<1>3. Seen(p)' /\ Worked(p)'
    BY <1>2, NothingSeen
<1>4. RoleFits(p)' /\ ~ Open(p)'
    BY <1>2 DEF RoleFits, Open, InTransaction, Verification
<1>5. lock' # p /\ (lock' = lock \/ (lock = p /\ lock' = Free))
    BY BootstrapAssumption DEF IInv, TypeOK
<1> QED
    BY <1>1, <1>2, <1>3, <1>4, <1>5, OneStep

\* The service begins again with nothing seen.
LEMMA TryAgainIInv == ASSUME IInv, NEW p \in Pod, TryAgain(p) PROVE IInv'
<1> USE DEF TryAgain, Goto, server, work
<1>1. TypeOK'
    BY DEF IInv, TypeOK, Place, Verification, MayTryAgain, Attempts
<1>2. /\ OthersSame(p) /\ committed' = committed /\ lock' = lock
      /\ role'[p] = role[p] /\ missing'[p] = missing[p] /\ created'[p] = created[p]
      /\ inserted'[p] = inserted[p] /\ pc'[p] \in {"tables", "failed"}
    BY DEF OthersSame, IInv, TypeOK
<1>3. missing[p] = {} /\ created[p] = {} /\ inserted[p] = {}
    BY ServiceView
<1>4. Seen(p)' /\ Worked(p)'
    BY <1>2, <1>3, NothingSeen
<1>5. RoleFits(p)' /\ ~ Open(p)'
    BY <1>2, <1>3 DEF RoleFits, Open, InTransaction
<1>6. lock # p
    BY DEF IInv, LockFollowsWork, Open
<1> QED
    BY <1>1, <1>2, <1>4, <1>5, <1>6, OneStep

-----------------------------------------------------------------------------
(* The commit                                                              *)

\* While somebody fills the empty database, nobody else has seen anything or
\* has any work of his own.
LEMMA NobodyElse ==
    ASSUME IInv, NEW p \in Pod, lock = p, committed = NoTables, NEW q \in Pod, q # p
    PROVE  /\ missing[q] = {} /\ created[q] = {} /\ inserted[q] = {}
           /\ pc[q] \in {"begin", "lock", "lost", "failed", "refused", "tables"}
           /\ pc[q] = "tables" => role[q] = "service"
<1>1. ~ (Open(q) /\ pc[q] # "lock")
    BY AloneInside
<1>2. role[q] \in {"init", "service"} /\ pc[q] \in Place /\ release[q] \in Release
    BY DEF IInv, TypeOK, Role
<1>3. pc[q] \notin InTransaction \ {"lock"}
    BY <1>1 DEF IInv, RoleFits, Open
<1>4. pc[q] \in Verification => role[q] = "service"
    BY <1>1, <1>2 DEF Open, Verification
<1>5. missing[q] = {} /\ created[q] = {} /\ inserted[q] = {} /\ View(q) = committed
    <2>1. CASE pc[q] \in Verification
        BY <2>1, <1>4, ServiceView
    <2>2. CASE pc[q] \notin Verification
        BY <2>2, <1>2, <1>3, Outside DEF Place, InTransaction
    <2> QED
        BY <2>1, <2>2
<1>6. pc[q] \notin {"columns", "versions"} \cup AfterVerification
    BY <1>2, <1>5, EmptyDatabase, CompleteSchema DEF IInv, Seen
<1> QED
    BY <1>2, <1>3, <1>4, <1>5, <1>6 DEF Place, InTransaction, Verification, AfterVerification

\* What is committed is the database as it was or, where that was empty, the
\* complete schema of the release.
LEMMA WhatIsCommitted ==
    ASSUME IInv, NEW p \in Pod, pc[p] = "commit"
    PROVE  /\ View(p) = Complete(release[p])
           /\ committed = NoTables \/ (committed = View(p) /\ created[p] = {})
<1>1. View(p) = Complete(release[p])
    BY DEF IInv, Seen, AfterVerification
<1>2. CASE created[p] = {}
    <2>1. inserted[p] = {}
        BY <1>2 DEF IInv, Worked
    <2> QED
        BY <2>1, <1>1, <1>2, CleanView DEF IInv
<1>3. CASE created[p] # {}
    BY <1>1, <1>3 DEF IInv, Worked
<1> QED
    BY <1>2, <1>3

\* A commit disturbs nothing that another pod has seen.
LEMMA CommitIInv == ASSUME IInv, NEW p \in Pod, Commit(p) PROVE IInv'
<1> USE DEF Commit, Undo, Unlock, Goto
<1>1. View(p) = Complete(release[p]) /\ release[p] \in Release
    BY WhatIsCommitted DEF IInv, TypeOK
<1>2. TypeOK'
    BY <1>1, CompleteSchema DEF IInv, TypeOK, Place
<1>3. Possible(committed)'
    BY <1>1, CompleteSchema DEF Possible, TablesOf
<1>4. role[p] = "init" /\ lock = p
    BY DEF IInv, RoleFits, LockFollowsWork, Open, InTransaction
<1>5. /\ OthersSame(p) /\ role'[p] = role[p] /\ release'[p] = release[p]
      /\ missing'[p] = {} /\ created'[p] = {} /\ inserted'[p] = {} /\ pc'[p] = "answer"
    BY DEF OthersSame, IInv, TypeOK
<1>6. RoleFits(p)' /\ Worked(p)'
    BY <1>4, <1>5 DEF RoleFits, Worked, Verification
<1>7. Seen(p)'
    <2>1. View(p)' = committed'
        BY <1>1, <1>5 DEF View, Complete
    <2> QED
        BY <2>1, <1>1, <1>5 DEF Seen, Complete
<1>8. ASSUME NEW q \in Pod, q # p
      PROVE  RoleFits(q)' /\ Seen(q)' /\ Worked(q)'
    <2>1. RoleFits(q)'
        BY <1>5, <1>8 DEF OthersSame, IInv, RoleFits
    <2>2. CASE committed = NoTables
        <3>1. /\ missing[q] = {} /\ created[q] = {} /\ inserted[q] = {}
              /\ pc[q] \in {"begin", "lock", "lost", "failed", "refused", "tables"}
              /\ pc[q] = "tables" => role[q] = "service"
            BY <2>2, <1>4, <1>8, NobodyElse
        <3>2. Seen(q)' /\ Worked(q)'
            BY <3>1, <1>5, <1>8, NothingSeen DEF OthersSame
        <3> QED
            BY <3>2, <2>1
    <2>3. CASE committed = View(p)
        <3>1. Same(q)
            BY <2>3, <1>5, <1>8 DEF OthersSame, Same
        <3>2. Seen(q)' /\ Worked(q)'
            BY <3>1, SameKeeps DEF IInv
        <3> QED
            BY <3>2, <2>1
    <2> QED
        BY <2>1, <2>2, <2>3, WhatIsCommitted
<1>9. LockFollowsWork'
    <2> SUFFICES ASSUME NEW q \in Pod
                 PROVE  (lock' = q) <=> (Open(q)' /\ pc'[q] # "lock")
        BY DEF LockFollowsWork
    <2>1. lock' = Free /\ Free # q
        BY <1>4, BootstrapAssumption
    <2>2. CASE q = p
        BY <2>1, <2>2, <1>5 DEF Open, InTransaction, Verification
    <2>3. CASE q # p
        BY <2>1, <2>3, <1>4, <1>5, AloneInside DEF OthersSame, Open
    <2> QED
        BY <2>2, <2>3
<1> QED
    BY <1>2, <1>3, <1>6, <1>7, <1>8, <1>9 DEF IInv

\* Every step keeps the invariant.
LEMMA NextIInv == IInv /\ [Next]_vars => IInv'
<1> SUFFICES ASSUME IInv, [Next]_vars PROVE IInv'
    OBVIOUS
<1>1. CASE GoDown
    BY <1>1, GoDownIInv
<1>2. CASE ComeBack
    BY <1>2, ServerIInv DEF ComeBack
<1>3. CASE GhostEnds
    BY <1>3, ServerIInv DEF GhostEnds, IInv, TypeOK
<1>4. ASSUME NEW p \in Pod, Kill(p) PROVE IInv'
    BY <1>4, KillIInv
<1>5. ASSUME NEW p \in Pod, Step(p) PROVE IInv'
    BY <1>5, ClusterIInv, LockIInv, InspectIInv, CreateTableIInv, InsertVersionIInv,
       CommitIInv, EndIInv, VerifyIInv, RefuseIInv, TryAgainIInv DEF Step
<1>6. CASE UNCHANGED vars
    BY <1>6, ServerIInv DEF vars, server, work, IInv, TypeOK
<1> QED
    BY <1>1, <1>2, <1>3, <1>4, <1>5, <1>6 DEF Next

-----------------------------------------------------------------------------
(* What a refusal tells                                                    *)

\* Nothing that is refused in an empty database, or in the complete schema of
\* the release, is wrong: the verification sees the transaction's own work.
LEMMA NothingWrong ==
    ASSUME IInv, NEW p \in Pod, Wrong(p)
    PROVE  committed # Complete(release[p]) /\ (role[p] = "init" => committed # NoTables)
<1>1. pc[p] # "create"
    <2> SUFFICES ASSUME pc[p] = "create" PROVE FALSE
        OBVIOUS
    <2>1. committed = NoTables /\ missing[p] = Table \ created[p]
        BY DEF IInv, Worked
    <2>2. \A n \in Table : n \in TablesOf(View(p)) => n \in created[p]
        BY <2>1 DEF TablesOf, View, NoTables
    <2> QED
        BY <2>1, <2>2 DEF Wrong, Verification
<1>2. pc[p] \in Verification /\ ~ Finds(p, pc[p])
    BY <1>1 DEF Wrong
<1>3. release[p] \in Release
    BY DEF IInv, TypeOK
<1>4. View(p) # Complete(release[p])
    BY <1>2, <1>3, CompleteSchema DEF Finds, Verification
<1>5. CASE created[p] = {}
    <2>1. inserted[p] = {}
        BY <1>5 DEF IInv, Worked
    <2> QED
        BY <2>1, <1>2, <1>4, <1>5, CleanView DEF IInv, Worked
<1>6. CASE created[p] # {}
    <2>1. committed = NoTables /\ inserted[p] = {release[p]} /\ created[p] = Table
        BY <1>2, <1>6 DEF IInv, Worked, Verification
    <2> QED
        BY <2>1, <1>4, FullView
<1> QED
    BY <1>5, <1>6

\* Only Refuse refuses.
LEMMA OnlyRefuse ==
    ASSUME IInv, [Next]_vars, NEW p \in Pod, pc[p] # "refused", pc'[p] = "refused"
    PROVE  Wrong(p)
<1> USE DEF Goto
<1>1. pc \in [Pod -> Place] /\ role[p] \in Role
    BY DEF IInv, TypeOK
<1>2. CASE GoDown
    BY <1>1, <1>2 DEF GoDown
<1>3. CASE ComeBack \/ GhostEnds \/ UNCHANGED vars
    BY <1>3 DEF ComeBack, GhostEnds, vars
<1>4. ASSUME NEW q \in Pod, Kill(q) PROVE FALSE
    BY <1>1, <1>4 DEF Kill, First
<1>5. ASSUME NEW q \in Pod, Step(q) PROVE Wrong(p)
    <2>1. CASE Refuse(q)
        BY <1>1, <2>1 DEF Refuse
    <2>2. CASE Restart(q) \/ StartService(q) \/ Begin(q) \/ Lock(q) \/ InitFails(q) \/ End(q)
        BY <1>1, <2>2 DEF Restart, StartService, Begin, Lock, InitFails, End, First
    <2>3. CASE Inspect(q) \/ CreateTable(q) \/ InsertVersion(q) \/ Commit(q) \/ TryAgain(q)
        BY <1>1, <2>3 DEF Inspect, CreateTable, InsertVersion, Commit, TryAgain
    <2>4. CASE Verify(q)
        BY <1>1, <2>4 DEF Verify, Following, Verification
    <2> QED
        BY <1>5, <2>1, <2>2, <2>3, <2>4 DEF Step
<1> QED
    BY <1>2, <1>3, <1>4, <1>5 DEF Next

-----------------------------------------------------------------------------
(* The promise                                                             *)

\* The database changes by a commit, and there as SchemaPromise says.
LEMMA StepKeepsPromise == IInv /\ [Next]_vars => [Promise!Next]_committed
<1> SUFFICES ASSUME IInv, [Next]_vars, committed' # committed
             PROVE  Promise!Next
    OBVIOUS
<1>1. PICK p \in Pod : Commit(p)
    BY DEF Next, Step, GoDown, ComeBack, GhostEnds, Kill, Restart, StartService, Begin, Lock,
           Inspect, CreateTable, InsertVersion, End, InitFails, Verify, Refuse, TryAgain,
           vars, server
<1>2. committed' = Complete(release[p]) /\ committed = NoTables
    BY <1>1, WhatIsCommitted DEF Commit
<1>3. release[p] \in Release
    BY DEF IInv, TypeOK
<1> QED
    BY <1>2, <1>3 DEF Promise!Next, Promise!Initialize

-----------------------------------------------------------------------------
(* The theorems                                                            *)

\* The inductive invariant holds in every reachable state.
THEOREM Invariance == Spec => []IInv
<1>1. Init => IInv
    BY InitIInv
<1>2. IInv /\ [Next]_vars => IInv'
    BY NextIInv
<1> QED
    BY <1>1, <1>2, PTL DEF Spec

\* The database and the pods keep their types.
THEOREM TypeCorrect == Spec => []TypeOK
<1>1. IInv => TypeOK
    BY DEF IInv
<1> QED
    BY <1>1, Invariance, PTL

\* A pod serves only on the complete schema of its own release.
THEOREM Serving == Spec => []ServesOnlyItsSchema
<1>1. IInv => ServesOnlyItsSchema
    <2> SUFFICES ASSUME IInv, NEW p \in Pod, pc[p] = "serving"
                 PROVE  committed = Complete(release[p])
        BY DEF ServesOnlyItsSchema
    <2>1. View(p) = committed
        BY Outside
    <2> QED
        BY <2>1 DEF IInv, Seen, AfterVerification
<1> QED
    BY <1>1, Invariance, PTL

\* A pod is refused only by a database that is not its release's, and the
\* initialization never by an empty one.
THEOREM Refusals == Spec => RefusalsAreJustified
<1>1. IInv /\ [Next]_vars =>
        [\A p \in Pod : pc[p] # "refused" /\ pc'[p] = "refused" =>
            /\ committed # Complete(release[p])
            /\ role[p] = "init" => committed # NoTables]_vars
    BY OnlyRefuse, NothingWrong
<1> QED
    BY <1>1, Invariance, PTL DEF Spec, RefusalsAreJustified

\* The pods' start-up implements SchemaPromise.
THEOREM Implementation == Spec => ImplementsPromise
<1>1. Init => Promise!Init
    BY DEF Init, Promise!Init
<1>2. IInv /\ [Next]_vars => [Promise!Next]_committed
    BY StepKeepsPromise
<1> QED
    BY <1>1, <1>2, Invariance, PTL DEF Spec, ImplementsPromise, Promise!Spec
===============================================================================
