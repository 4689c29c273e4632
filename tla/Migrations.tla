------------------------------ MODULE Migrations ------------------------------
(***************************************************************************)
(* The schema migrations (migrations/mod.ts) of one database file, run by  *)
(* processes of several releases that open it at the same time.  A release *)
(* knows the versions 1..release; CURRENT_SCHEMA_VERSION is its own.       *)
(*                                                                         *)
(* The version is read outside the transaction that migrates: between the  *)
(* two another process may migrate, and so may it during the backup, which *)
(* the asynchronous variant awaits.  SQLite itself is external: one        *)
(* immediate transaction at a time, rolled back when its process dies.     *)
(***************************************************************************)
EXTENDS Integers, SequencesExt

CONSTANTS
    Migrators,   \* processes
    MaxVersion,  \* the newest release
    Destructive, \* versions that are marked destructive
    MaxCrashes   \* bound: crashes and failing statements

NoWriter == "no writer"

ASSUME MigrationsAssumption ==
    /\ NoWriter \notin Migrators
    /\ MaxVersion \in Nat \ {0}
    /\ Destructive \subseteq 1..MaxVersion
    /\ MaxCrashes \in Nat

VARIABLES
    schema,   \* schema_migrations, with who wrote each row and up to which release
    writer,   \* the process whose transaction is open
    draft,    \* what that transaction has applied
    process,  \* where each process is: release, fromVersion, whether its backup hook works
    backups,  \* history: [by, version] of the backups made
    mishaps   \* crashes and failed statements so far

migrationVars == <<schema, writer, draft, process, backups, mishaps>>

AtRest == {"idle", "done", "refused", "failed"}
Busy == {"read", "backed"}

SchemaRows == [version : 1..MaxVersion, by : Migrators, upTo : 1..MaxVersion]

MigrationsTypeOK ==
    /\ schema \in Seq(SchemaRows) /\ Len(schema) <= MaxVersion
    /\ draft \in Seq(SchemaRows) /\ Len(draft) <= MaxVersion
    /\ writer \in Migrators \cup {NoWriter}
    /\ process \in [Migrators -> [at : AtRest \cup Busy \cup {"open"}, release : 1..MaxVersion,
                                  from : 0..MaxVersion, hook : BOOLEAN]]
    /\ backups \subseteq [by : Migrators, version : 0..MaxVersion]
    /\ mishaps \in 0..MaxCrashes

MigrationsInit ==
    /\ schema = <<>> /\ writer = NoWriter /\ draft = <<>>
    /\ process \in [Migrators -> [at : {"idle"}, release : 1..MaxVersion,
                                  from : {0}, hook : BOOLEAN]]
    /\ backups = {} /\ mishaps = 0

-----------------------------------------------------------------------------
SchemaVersion == Len(schema)

Pending(p) == process[p].from + 1..process[p].release

NeedsBackup(p) == Pending(p) \cap Destructive # {}

Goes(p, at) == process' = [process EXCEPT ![p].at = at]

(* readSchemaVersion, and what is decided from it: a schema that is too    *)
(* new, nothing to do, or a destructive migration without a backup hook.   *)
ReadVersion(p) ==
    /\ process[p].at = "idle"
    /\ LET from == SchemaVersion
           own == process[p]
           at == IF from > own.release THEN "refused"
                 ELSE IF from = own.release THEN "done"
                 ELSE IF (from + 1..own.release) \cap Destructive # {} /\ ~own.hook THEN "refused"
                 ELSE "read"
       IN  process' = [process EXCEPT ![p] =
                         [at |-> at, release |-> own.release, from |-> from, hook |-> own.hook]]
    /\ UNCHANGED <<schema, writer, draft, backups, mishaps>>

Backup(p) ==
    /\ process[p].at = "read" /\ NeedsBackup(p)
    /\ backups' = backups \cup {[by |-> p, version |-> SchemaVersion]}
    /\ Goes(p, "backed")
    /\ UNCHANGED <<schema, writer, draft, mishaps>>

(* BEGIN IMMEDIATE: a database that is locked fails the caller. *)
BeginTransaction(p) ==
    /\ process[p].at = IF NeedsBackup(p) THEN "backed" ELSE "read"
    /\ IF writer = NoWriter
       THEN writer' = p /\ Goes(p, "open")
       ELSE Goes(p, "failed") /\ UNCHANGED writer
    /\ UNCHANGED <<schema, draft, backups, mishaps>>

NextVersion(p) == process[p].from + Len(draft) + 1

RollBack(p) == /\ draft' = <<>> /\ writer' = NoWriter
               /\ Goes(p, "failed")

Row(p, version) == [version |-> version, by |-> p, upTo |-> process[p].release]

(* Mutant: the version is inserted OR REPLACEd. *)
InsertsAnyway(p) == NextVersion(p) <= MaxVersion

(* The key of schema_migrations: a version is inserted once. *)
Inserts(p) == NextVersion(p) > SchemaVersion

ApplyMigration(p) ==
    /\ process[p].at = "open" /\ NextVersion(p) \in Pending(p)
    /\ IF Inserts(p)
       THEN draft' = Append(draft, Row(p, NextVersion(p))) /\ UNCHANGED <<writer, process>>
       ELSE RollBack(p)
    /\ UNCHANGED <<schema, backups, mishaps>>

StatementFails(p) ==
    /\ process[p].at = "open" /\ mishaps < MaxCrashes
    /\ mishaps' = mishaps + 1
    /\ RollBack(p)
    /\ UNCHANGED <<schema, backups>>

CommitMigrations(p) ==
    /\ process[p].at = "open" /\ NextVersion(p) \notin Pending(p)
    /\ schema' = schema \o draft
    /\ draft' = <<>> /\ writer' = NoWriter
    /\ Goes(p, "done")
    /\ UNCHANGED <<backups, mishaps>>

-----------------------------------------------------------------------------
Restarted(p, release) ==
    [process EXCEPT ![p] =
        [at |-> "idle", release |-> release, from |-> 0, hook |-> process[p].hook]]

(* The process dies where it is and another one, of any release, follows.  *)
MigratorCrash(p) ==
    /\ process[p].at \in Busy \cup {"open"} /\ mishaps < MaxCrashes
    /\ mishaps' = mishaps + 1
    /\ \E release \in 1..MaxVersion : process' = Restarted(p, release)
    /\ IF writer = p THEN writer' = NoWriter /\ draft' = <<>> ELSE UNCHANGED <<writer, draft>>
    /\ UNCHANGED <<schema, backups>>

OpenAgain(p) ==
    /\ process[p].at \in AtRest \ {"idle"}
    /\ \E release \in 1..MaxVersion : process' = Restarted(p, release)
    /\ UNCHANGED <<schema, writer, draft, backups, mishaps>>

MigrationsNext ==
    \E p \in Migrators :
        \/ ReadVersion(p) \/ Backup(p) \/ BeginTransaction(p)
        \/ ApplyMigration(p) \/ StatementFails(p) \/ CommitMigrations(p)
        \/ MigratorCrash(p) \/ OpenAgain(p)

-----------------------------------------------------------------------------
(* Properties *)

(* Every version is applied once and in order, however many processes      *)
(* found it missing.                                                       *)
AppliedOnceInOrder == \A i \in DOMAIN schema : schema[i].version = i

(* A process that migrates takes the schema to its own release in one      *)
(* transaction: nobody ever opens a half-migrated database.                *)
WholeReleases == schema = <<>> \/ Last(schema).version = Last(schema).upTo

(* A destructive migration that was committed has a backup, made by the    *)
(* process that committed it, of the very version it started from.         *)
DestructionIsBackedUp ==
    \A i \in DOMAIN schema : schema[i].version \in Destructive =>
        \E b \in backups :
            /\ b.by = schema[i].by /\ b.version < i
            /\ \A j \in b.version + 1..i : schema[j].by = b.by /\ schema[j].upTo = schema[i].upTo

MigrationPromise == AppliedOnceInOrder /\ WholeReleases /\ DestructionIsBackedUp

-----------------------------------------------------------------------------
(* The inductive invariant *)

(* SQLite's lock: the process in its transaction is the writer. *)
WriterIsOpen == \A p \in Migrators : process[p].at = "open" <=> writer = p

(* A process that goes on past the reading of the version found one older  *)
(* than its release; the schema has not become older since.                *)
ReadIsBehind ==
    \A p \in Migrators : process[p].at \in Busy \cup {"open"} =>
        process[p].from < process[p].release /\ process[p].from <= SchemaVersion

(* A version read too early does not survive the first insertion: a draft  *)
(* continues the schema as it is now.                                      *)
DraftContinues ==
    draft # <<>> =>
        /\ writer # NoWriter
        /\ process[writer].from = SchemaVersion
        /\ SchemaVersion + Len(draft) <= process[writer].release
        /\ \A i \in DOMAIN draft : draft[i] = Row(writer, SchemaVersion + i)

(* A backup is of no older schema than the one that was read. *)
BackupIsRecent ==
    \A p \in Migrators : process[p].at \in {"backed", "open"} /\ NeedsBackup(p) =>
        \E b \in backups : /\ b.by = p
                           /\ process[p].from <= b.version /\ b.version <= SchemaVersion

(* Versions read, transactions, drafts and backups agree with the schema,  *)
(* whatever other processes migrate in between (migrations/mod.ts).        *)
MigrationsInv ==
    /\ MigrationsTypeOK
    /\ WriterIsOpen
    /\ ReadIsBehind
    /\ DraftContinues
    /\ BackupIsRecent
    /\ MigrationPromise
=============================================================================
