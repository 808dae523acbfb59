------------------------------- MODULE Bootstrap -------------------------------
(***************************************************************************)
(* The start-up of the bridge's pods on one database (bootstrap_schema,    *)
(* _verify_schema and create_engine_and_session_factory of                 *)
(* config/database.py).  Each pod first runs the initialization command,   *)
(* one transaction under an advisory lock that creates the schema in an    *)
(* empty database or verifies the one that is there, and then the service, *)
(* which only verifies, with a connection per statement.                   *)
(*                                                                         *)
(* The cluster restarts what fails and rolls out releases with schemas of  *)
(* their own; PostgreSQL goes away and comes back, undoes what was not     *)
(* committed, and notices only after a while that a client has died.       *)
(***************************************************************************)
EXTENDS Naturals

CONSTANTS
    Pod,
    Release,        \* a SCHEMA_VERSION each
    MaxRestarts,    \* bound on crashes and replacements of pods
    Free,           \* nobody has the advisory lock
    Ghost           \* the session of a dead client has it

ASSUME BootstrapAssumption ==
    /\ MaxRestarts \in Nat
    /\ Free # Ghost /\ Free \notin Pod /\ Ghost \notin Pod

VARIABLES
    up,         \* whether PostgreSQL answers
    committed,  \* the database as everyone sees it
    lock,       \* the pod whose transaction has the advisory lock
    release,    \* release[p]: the release that p runs
    role,       \* role[p]: the command that p runs
    pc,
    missing,    \* missing[p]: the tables that p's create_all found missing
    created,    \* created[p]: the tables p's transaction has created ...
    inserted,   \* inserted[p]: ... and the versions it has inserted
    attempts,   \* attempts[p]: attempts at verification that have failed
    restarts    \* crashes and replacements so far

server == <<up, committed, lock>>
work == <<missing, created, inserted>>
vars == <<server, release, role, pc, work, attempts, restarts>>

-----------------------------------------------------------------------------
(* The database                                                            *)

Table == {"api_keys", "bridge_schema_version"}

\* A table as the models have it, or with other columns, types or constraints.
Shape == {"absent", "expected", "altered"}

\* "extra": whether there are tables of some other program.
Database == [shape : [Table -> Shape], extra : BOOLEAN, versions : SUBSET Release]

NoTables == [shape |-> [n \in Table |-> "absent"], extra |-> FALSE, versions |-> {}]

Complete(r) == [shape |-> [n \in Table |-> "expected"], extra |-> FALSE, versions |-> {r}]

TablesOf(d) == {n \in Table : d.shape[n] # "absent"}

\* Rows need a table.
Possible(d) == d.versions # {} => "bridge_schema_version" \in TablesOf(d)

\* A transaction sees its own work, and what others have committed.
View(p) ==
    [shape |-> [n \in Table |-> IF n \in created[p] THEN "expected" ELSE committed.shape[n]],
     extra |-> committed.extra,
     versions |-> committed.versions \cup inserted[p]]

Verification == {"tables", "columns", "versions"}
InTransaction == {"lock", "inspect", "create", "insert", "commit"}

Open(p) == role[p] = "init" /\ pc[p] \in InTransaction \cup Verification

Role == {"init", "service"}

\* Where a command starts.
First(c) == IF c = "init" THEN "begin" ELSE "tables"

Init ==
    /\ up = TRUE
    /\ committed \in {d \in Database : Possible(d)}
    /\ lock = Free
    /\ release \in [Pod -> Release]
    /\ role \in [Pod -> Role]
    /\ pc = [p \in Pod |-> First(role[p])]
    /\ missing = [p \in Pod |-> {}]
    /\ created = [p \in Pod |-> {}]
    /\ inserted = [p \in Pod |-> {}]
    /\ attempts = [p \in Pod |-> 0]
    /\ restarts = 0

Goto(p, where) == pc' = [pc EXCEPT ![p] = where]

\* A slip: the transaction's end leaves the lock with the session.
KeepLock(p, next) == lock' = lock

\* The end of a transaction, or nothing where there is none.
Undo(p) ==
    /\ missing' = [missing EXCEPT ![p] = {}]
    /\ created' = [created EXCEPT ![p] = {}]
    /\ inserted' = [inserted EXCEPT ![p] = {}]

Unlock(p, next) == lock' = IF lock = p THEN next ELSE lock

-----------------------------------------------------------------------------
(* PostgreSQL and the cluster                                              *)

GoDown ==
    /\ up /\ up' = FALSE
    /\ lock' = Free
    /\ pc' = [p \in Pod |-> IF Open(p) \/ pc[p] = "answer" THEN "lost" ELSE pc[p]]
    /\ missing' = [p \in Pod |-> {}]
    /\ created' = [p \in Pod |-> {}]
    /\ inserted' = [p \in Pod |-> {}]
    /\ UNCHANGED <<committed, release, role, attempts, restarts>>

ComeBack ==
    /\ ~ up /\ up' = TRUE
    /\ UNCHANGED <<committed, lock, release, role, pc, work, attempts, restarts>>

\* The server notices that the client has died.
GhostEnds ==
    /\ lock = Ghost /\ lock' = Free
    /\ UNCHANGED <<up, committed, release, role, pc, work, attempts, restarts>>

\* p is killed, and replaced by a pod of some release.  The service may come
\* first where the deployment leaves the initialization to somebody else.
Kill(p) ==
    /\ restarts < MaxRestarts /\ restarts' = restarts + 1
    /\ \E r \in Release : release' = [release EXCEPT ![p] = r]
    /\ \E c \in Role : role' = [role EXCEPT ![p] = c] /\ Goto(p, First(c))
    /\ Undo(p)
    /\ Unlock(p, Ghost)
    /\ attempts' = [attempts EXCEPT ![p] = 0]
    /\ UNCHANGED <<up, committed>>

\* A container that has ended with an error is started again.
Restart(p) ==
    /\ pc[p] \in {"failed", "refused"}
    /\ Goto(p, First(role[p]))
    /\ attempts' = [attempts EXCEPT ![p] = 0]
    /\ UNCHANGED <<server, release, role, work, restarts>>

StartService(p) ==
    /\ pc[p] = "initialized"
    /\ role' = [role EXCEPT ![p] = "service"]
    /\ Goto(p, "tables")
    /\ UNCHANGED <<server, release, work, attempts, restarts>>

-----------------------------------------------------------------------------
(* bootstrap_schema                                                        *)

Begin(p) ==
    /\ pc[p] = "begin" /\ up
    /\ Goto(p, "lock")
    /\ UNCHANGED <<server, release, role, work, attempts, restarts>>

\* A slip: the advisory lock is not asked for.
LockNothing(p) ==
    /\ pc[p] = "lock"
    /\ Goto(p, "inspect")
    /\ UNCHANGED <<server, release, role, work, attempts, restarts>>

Lock(p) ==
    /\ pc[p] = "lock" /\ lock = Free
    /\ lock' = p
    /\ Goto(p, "inspect")
    /\ UNCHANGED <<up, committed, release, role, work, attempts, restarts>>

\* A slip: every table is committed as it is created.
CreateForGood(p) ==
    /\ pc[p] = "create"
    /\ \E n \in missing[p] :
        /\ n \notin TablesOf(committed)
        /\ committed' = [committed EXCEPT !.shape[n] = "expected"]
        /\ missing' = [missing EXCEPT ![p] = @ \ {n}]
        /\ Goto(p, IF missing[p] = {n} THEN "insert" ELSE "create")
    /\ UNCHANGED <<up, lock, release, role, created, inserted, attempts, restarts>>

\* A slip: whatever is missing is created.
InspectLeniently(p) ==
    /\ pc[p] = "inspect"
    /\ missing' = [missing EXCEPT ![p] = Table \ TablesOf(View(p))]
    /\ Goto(p, IF missing'[p] = {} THEN "tables" ELSE "create")
    /\ UNCHANGED <<server, release, role, created, inserted, attempts, restarts>>

\* Nothing to be seen but an empty database.
Blank(d) == TablesOf(d) = {} /\ ~ d.extra

\* Also create_all's look at which tables there are.
Inspect(p) ==
    /\ pc[p] = "inspect"
    /\ \/ Blank(View(p)) /\ missing' = [missing EXCEPT ![p] = Table] /\ Goto(p, "create")
       \/ ~ Blank(View(p)) /\ UNCHANGED missing /\ Goto(p, "tables")
    /\ UNCHANGED <<server, release, role, created, inserted, attempts, restarts>>

\* A name that is in another transaction's work is waited for.
CreateTable(p) ==
    /\ pc[p] = "create"
    /\ \E n \in missing[p] :
        /\ n \notin TablesOf(View(p))
        /\ \A q \in Pod \ {p} : n \notin created[q]
        /\ created' = [created EXCEPT ![p] = @ \cup {n}]
        /\ missing' = [missing EXCEPT ![p] = @ \ {n}]
        /\ Goto(p, IF missing[p] = {n} THEN "insert" ELSE "create")
    /\ UNCHANGED <<server, release, role, inserted, attempts, restarts>>

InsertVersion(p) ==
    /\ pc[p] = "insert"
    /\ inserted' = [inserted EXCEPT ![p] = {release[p]}]
    /\ Goto(p, "tables")
    /\ UNCHANGED <<server, release, role, missing, created, attempts, restarts>>

Commit(p) ==
    /\ pc[p] = "commit"
    /\ committed' = View(p)
    /\ Goto(p, "answer")
    /\ Undo(p)
    /\ Unlock(p, Free)
    /\ UNCHANGED <<up, release, role, attempts, restarts>>

\* The answer arrives.  Where it gets lost the command fails all the same.
End(p) ==
    /\ pc[p] = "answer"
    /\ Goto(p, "initialized")
    /\ UNCHANGED <<server, release, role, work, attempts, restarts>>

\* No connection, or the one that went away with the transaction.
InitFails(p) ==
    /\ \/ pc[p] = "begin" /\ ~ up
       \/ pc[p] = "lost"
    /\ Goto(p, "failed")
    /\ UNCHANGED <<server, release, role, work, attempts, restarts>>

-----------------------------------------------------------------------------
(* _verify_schema, in either command                                       *)

AsExpected(d) == TablesOf(d) = Table /\ ~ d.extra

\* A slip: any marker will do.
FindsTables(p, what) ==
    CASE what = "tables"   -> AsExpected(View(p))
      [] what = "columns"  -> \A n \in Table : View(p).shape[n] = "expected"
      [] what = "versions" -> View(p).versions # {}

\* The statements in their order: what each finds, and where it leads.
Finds(p, what) ==
    CASE what = "tables"   -> AsExpected(View(p))
      [] what = "columns"  -> \A n \in Table : View(p).shape[n] = "expected"
      [] what = "versions" -> View(p).versions = {release[p]}

Following(p, what) ==
    CASE what = "tables"   -> "columns"
      [] what = "columns"  -> "versions"
      [] what = "versions" -> IF role[p] = "init" THEN "commit" ELSE "serving"

Verify(p) ==
    /\ pc[p] \in Verification /\ up
    /\ Finds(p, pc[p])
    /\ Goto(p, Following(p, pc[p]))
    /\ UNCHANGED <<server, release, role, work, attempts, restarts>>

\* What p's statement cannot go on from: a table that has come up since it
\* looked, or a schema that is not its release's.
Wrong(p) ==
    CASE pc[p] = "create" -> missing[p] \cap TablesOf(View(p)) # {}
      [] pc[p] \in Verification -> ~ Finds(p, pc[p])
      [] OTHER -> FALSE

\* An error that is no OperationalError: nothing is written, and nothing tried
\* again.
Refuse(p) ==
    /\ Wrong(p) /\ up
    /\ Goto(p, "refused")
    /\ Undo(p)
    /\ Unlock(p, Free)
    /\ UNCHANGED <<up, committed, release, role, attempts, restarts>>

Attempts == 3

\* A slip: the first attempt is not counted.
MayTryOnceMore(p) == attempts[p] < Attempts

MayTryAgain(p) == attempts[p] + 1 < Attempts

\* OperationalError in the service: from the beginning, three times in all.
TryAgain(p) ==
    /\ role[p] = "service" /\ pc[p] \in Verification /\ ~ up
    /\ \/ /\ MayTryAgain(p)
          /\ attempts' = [attempts EXCEPT ![p] = @ + 1]
          /\ Goto(p, "tables")
       \/ /\ ~ MayTryAgain(p)
          /\ attempts' = [attempts EXCEPT ![p] = 0]
          /\ Goto(p, "failed")
    /\ UNCHANGED <<server, release, role, work, restarts>>

-----------------------------------------------------------------------------
Step(p) ==
    \/ Restart(p) \/ StartService(p)
    \/ Begin(p) \/ Lock(p) \/ Inspect(p) \/ CreateTable(p)
    \/ InsertVersion(p) \/ Commit(p) \/ End(p) \/ InitFails(p)
    \/ Verify(p) \/ Refuse(p) \/ TryAgain(p)

Next ==
    \/ GoDown \/ ComeBack \/ GhostEnds
    \/ \E p \in Pod : Step(p) \/ Kill(p)

Spec == Init /\ [][Next]_vars

\* The cluster restarts what has ended, and PostgreSQL notices the dead.
Fairness == WF_vars(GhostEnds) /\ \A p \in Pod : WF_vars(Step(p))

FairSpec == Spec /\ Fairness

-----------------------------------------------------------------------------
(* Properties                                                              *)

Place ==
    InTransaction \cup Verification
        \cup {"begin", "answer", "lost", "initialized", "serving", "failed", "refused"}

\* The types of the database and of the pods.
TypeOK ==
    /\ up \in BOOLEAN
    /\ committed \in Database
    /\ lock \in Pod \cup {Free, Ghost}
    /\ release \in [Pod -> Release]
    /\ role \in [Pod -> Role]
    /\ pc \in [Pod -> Place]
    /\ missing \in [Pod -> SUBSET Table]
    /\ created \in [Pod -> SUBSET Table]
    /\ inserted \in [Pod -> SUBSET Release]
    /\ attempts \in [Pod -> 0..(Attempts - 1)]
    /\ restarts \in 0..MaxRestarts

\* A pod serves only on the complete schema of its own release, although it
\* looked at the database in several statements and some time ago, and other
\* releases may have started on it since.
ServesOnlyItsSchema ==
    \A p \in Pod : pc[p] = "serving" => committed = Complete(release[p])

\* A command is refused only by a database that is not its release's, and the
\* initialization never by an empty one: pods that start together on it do not
\* get into one another's way.
RefusalsAreJustified ==
    [][\A p \in Pod : pc[p] # "refused" /\ pc'[p] = "refused" =>
        /\ committed # Complete(release[p])
        /\ role[p] = "init" => committed # NoTables]_vars

AfterVerification == {"commit", "answer", "initialized", "serving"}

\* What p's verification has seen is there to stay.
Seen(p) ==
    /\ pc[p] \in {"columns", "versions"} => AsExpected(View(p))
    /\ pc[p] = "versions" => \A n \in Table : View(p).shape[n] = "expected"
    /\ pc[p] \in AfterVerification => View(p) = Complete(release[p])

\* Uncommitted work is on an empty database.
Worked(p) ==
    /\ pc[p] = "create" => missing[p] # {} /\ missing[p] = Table \ created[p]
    /\ pc[p] # "create" => missing[p] = {}
    /\ created[p] # {} => pc[p] \in {"create", "insert", "commit"} \cup Verification
    /\ pc[p] = "insert" => created[p] = Table
    /\ created[p] # {} \/ pc[p] = "create" => committed = NoTables
    /\ inserted[p] = IF created[p] # {} /\ pc[p] \notin {"create", "insert"}
                     THEN {release[p]} ELSE {}
    /\ inserted[p] # {} => created[p] = Table
    /\ role[p] = "init" /\ pc[p] \in Verification /\ created[p] = {} => committed # NoTables

\* A transaction past its start has the advisory lock, and nobody else has.
LockFollowsWork == \A p \in Pod : lock = p <=> Open(p) /\ pc[p] # "lock"

RoleFits(p) ==
    /\ pc[p] \in InTransaction \cup {"begin", "answer", "lost", "initialized"}
        => role[p] = "init"
    /\ pc[p] = "serving" => role[p] = "service"
    /\ role[p] = "service" => created[p] = {}

\* The invariant that the other properties follow from: whoever is past the
\* start of a transaction has the lock; his work is on an empty database; and
\* what has been verified is there to stay.
IInv ==
    /\ TypeOK
    /\ Possible(committed)
    /\ LockFollowsWork
    /\ \A p \in Pod : RoleFits(p) /\ Seen(p) /\ Worked(p)

Promise == INSTANCE SchemaPromise WITH database <- committed

\* The database goes from empty to the schema of one release in one step, and
\* changes in no other way: whatever fails, half a schema is never left behind,
\* nor is a schema of another release or program touched.
ImplementsPromise == Promise!Spec

Startable ==
    /\ \A p, q \in Pod : release[p] = release[q]
    /\ \A p \in Pod : committed \in {NoTables, Complete(release[p])}
    /\ committed = NoTables => \E p \in Pod : role[p] = "init"

\* Pods that come to run one release all serve in the end once PostgreSQL stays
\* up, where the database is that release's, or empty and one of them comes to
\* initialize it.  Nothing that failed before stands in the way: an answer to a
\* commit that was lost, a lock left with a dead client, a service too early.
EveryPodServes == <>[](up /\ Startable) => <>[](\A p \in Pod : pc[p] = "serving")
===============================================================================
