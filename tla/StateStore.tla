------------------------------ MODULE StateStore ------------------------------
(***************************************************************************)
(* Opening the SQLite state of portusd (portus-state store.rs and          *)
(* migration.rs): the stored history of migrations is read, every missing  *)
(* migration is applied in a transaction of its own after a copy of the    *)
(* database was taken, and the result is checked.  Several processes may   *)
(* open the same file, and one may end between any two of these steps.     *)
(***************************************************************************)
EXTENDS Integers, FiniteSets

CONSTANTS
    Daemons,                \* processes that may open the database
    LATEST_SCHEMA_VERSION   \* migration.rs: 8; small in a model

ASSUME SchemaVersions == LATEST_SCHEMA_VERSION \in Nat \ {0}

VARIABLES
    db,        \* the file: rows of schema_migrations, whether quick_check says ok
    backups,   \* migration-backups/: the version each pre-v<n> copy holds
    store,     \* per process: closed, migrating, copying or open
    upgraded   \* versions applied to a database that was not new, with the
               \* version it had before (history, for BackupsHold)

storeVars == <<db, backups, store, upgraded>>

Versions == 1 .. LATEST_SCHEMA_VERSION
Absent == -1
Partial == -2
NoStore == [at |-> "closed", current |-> 0, next |-> 0]

(* schema_migrations lists 1, 2, ... without a hole, else the open fails.  *)
ValidHistory == \A v \in db.applied : v = 1 \/ v - 1 \in db.applied
current_schema_version == Cardinality(db.applied)

open_refused ==
    \/ ~ValidHistory
    \/ current_schema_version > LATEST_SCHEMA_VERSION

open_with_options(d) ==
    /\ store[d].at = "closed"
    /\ ~open_refused
    /\ store' = [store EXCEPT ![d] =
            [at |-> "migrating", current |-> current_schema_version,
             next |-> current_schema_version + 1]]
    /\ UNCHANGED <<db, backups, upgraded>>

MIGRATIONS(v) == [version |-> v, backup_required |-> v > 1]

(* `current` is the version found when the file was opened: a new database *)
(* is migrated without copies.                                             *)
needs_backup(s) == MIGRATIONS(s.next).backup_required /\ s.current > 0

(* An earlier copy is removed first; it is complete when the backup is.    *)
\* Mutant: a copy that exists, complete or not, is kept.
copy_kept(d) ==
    /\ store[d].at = "migrating" /\ store[d].next \in Versions
    /\ needs_backup(store[d])
    /\ IF backups[store[d].next] = Absent
       THEN /\ backups' = [backups EXCEPT ![store[d].next] = Partial]
            /\ store' = [store EXCEPT ![d].at = "copying"]
       ELSE /\ store' = [store EXCEPT ![d].at = "copied"]
            /\ UNCHANGED backups
    /\ UNCHANGED <<db, upgraded>>

create_pre_migration_backup(d) ==
    /\ store[d].at = "migrating" /\ store[d].next \in Versions
    /\ needs_backup(store[d])
    /\ backups' = [backups EXCEPT ![store[d].next] = Partial]
    /\ store' = [store EXCEPT ![d].at = "copying"]
    /\ UNCHANGED <<db, upgraded>>

run_to_completion(d) ==
    /\ store[d].at = "copying"
    /\ backups' = [backups EXCEPT ![store[d].next] = current_schema_version]
    /\ store' = [store EXCEPT ![d].at = "copied"]
    /\ UNCHANGED <<db, upgraded>>

(* One transaction; its statements fail when another process was faster.   *)
transaction_succeeds(s) == s.next \notin db.applied

apply_migration(d) ==
    LET s == store[d] IN
    /\ s.next \in Versions
    /\ s.at = "copied" \/ (s.at = "migrating" /\ ~needs_backup(s))
    /\ transaction_succeeds(s)
    /\ db' = [db EXCEPT !.applied = @ \union {s.next}]
    /\ upgraded' = IF s.current > 0
                   THEN upgraded \union {<<s.next, current_schema_version>>}
                   ELSE upgraded
    /\ store' = [store EXCEPT ![d].at = "migrating", ![d].next = s.next + 1]
    /\ UNCHANGED backups

(* Nothing is left to apply: quick_check decides.                          *)
verify_integrity(d) ==
    /\ store[d].at = "migrating" /\ store[d].next \notin Versions
    /\ db.ok
    /\ store' = [store EXCEPT ![d].at = "open"]
    /\ UNCHANGED <<db, backups, upgraded>>

migrate(d) ==
    \/ create_pre_migration_backup(d)
    \/ run_to_completion(d)
    \/ apply_migration(d)

open(d) == open_with_options(d) \/ migrate(d) \/ verify_integrity(d)

(* The errors `open` returns for what it finds in the file.                *)
OpenFails(d) ==
    LET s == store[d] IN
    \/ s.at = "closed" /\ open_refused
    \/ s.at = "copied" /\ ~transaction_succeeds(s)
    \/ s.at = "migrating" /\ s.next \in Versions /\ ~needs_backup(s)
                          /\ ~transaction_succeeds(s)
    \/ s.at = "migrating" /\ s.next \notin Versions /\ ~db.ok

StoreTypeOK ==
    /\ db.applied \subseteq 1 .. LATEST_SCHEMA_VERSION + 1
    /\ db.ok \in BOOLEAN
    /\ backups \in [Versions -> Versions \union {Absent, Partial, 0}]
    /\ \A d \in Daemons :
        store[d].at \in {"closed", "migrating", "copying", "copied", "open"}
===============================================================================
