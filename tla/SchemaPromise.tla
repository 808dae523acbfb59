----------------------------- MODULE SchemaPromise -----------------------------
(***************************************************************************)
(* What the start-up of the bridge promises its database: an empty one     *)
(* gets the complete schema of one release at once, and every other is     *)
(* left as it is.  Bootstrap implements it.                                *)
(***************************************************************************)
CONSTANTS
    Release,        \* each with a schema of its own
    Database,       \* whatever may be found
    NoTables,       \* the empty database
    Complete(_)     \* the database with the schema of a release

VARIABLE database

Init == database \in Database

Initialize(r) == database = NoTables /\ database' = Complete(r)

Next == \E r \in Release : Initialize(r)

Spec == Init /\ [][Next]_database
===============================================================================
