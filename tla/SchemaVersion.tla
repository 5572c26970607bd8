---------------------------- MODULE SchemaVersion -----------------------------
(***************************************************************************)
(* What migrate() promises the processes that call it, without statements, *)
(* transactions, races or crashes: the schema has a version that goes up   *)
(* by one whole migration at a time, for everybody, and never down, and a  *)
(* process is ready only while the schema has its last version.            *)
(*                                                                         *)
(* Who does a migration is left open: a process may be ready that did      *)
(* none, and one that did the last may end before it is ready.             *)
(***************************************************************************)
EXTENDS Naturals

CONSTANTS Proc,         \* the processes that need the schema
          LastVersion  \* its last version: the number of migrations

VARIABLES version,  \* the migrations that are in effect, as their number
          ready     \* the processes that have returned from migrate()

vars == <<version, ready>>

Init == version = 0 /\ ready = {}

\* The next migration takes effect, and with the last one p may be ready at once.
Upgrade(p) == /\ version < LastVersion
              /\ version' = version + 1
              /\ \/ UNCHANGED ready
                 \/ version' = LastVersion /\ ready' = ready \cup {p}

\* p finds that there is nothing left to do.
Enter(p) == /\ version = LastVersion
            /\ ready' = ready \cup {p}
            /\ UNCHANGED version

\* p ends, or is killed, whatever the version is.
Leave(p) == /\ ready' = ready \ {p}
            /\ UNCHANGED version

Next == \E p \in Proc : Upgrade(p) \/ Enter(p) \/ Leave(p)

Spec == Init /\ [][Next]_vars
=============================================================================
