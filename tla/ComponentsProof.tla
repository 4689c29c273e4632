--------------------------- MODULE ComponentsProof ---------------------------
(***************************************************************************)
(* Theorems about components that meet the rest through one call at a      *)
(* time: the schema migrations by processes of several releases, the two   *)
(* stores under the same calls, the owner that reconnects, the control     *)
(* surface, the hand-off automaton and its commands, the operator's        *)
(* recovery commands and the burst batcher; and about all of them side by  *)
(* side.  Induction and recursion over data go through sets of numbers     *)
(* (NatSetInduction) and the existence of functions that descend           *)
(* (RecursionExists), so that what a recursive function computes is        *)
(* derived, not assumed.                                                   *)
(***************************************************************************)
EXTENDS MCComponents, TLAPS, SequenceTheorems, FiniteSetTheorems, WellFoundedInduction

-----------------------------------------------------------------------------
(* Migrations *)

MigrationsSpec == MigrationsInit /\ [][MigrationsNext]_migrationVars

LEMMA MigrationsStart == MigrationsInit => MigrationsInv
<1> SUFFICES ASSUME MigrationsInit PROVE MigrationsInv
  OBVIOUS
<1> USE MigrationsAssumption DEF MigrationsInit, SchemaVersion, AtRest, Busy
<1>1. MigrationsTypeOK
  BY DEF MigrationsTypeOK, SchemaRows
<1>2. WriterIsOpen /\ ReadIsBehind /\ BackupIsRecent
  BY DEF WriterIsOpen, ReadIsBehind, BackupIsRecent
<1>3. DraftContinues
  BY DEF DraftContinues
<1>4. MigrationPromise
  BY DEF MigrationPromise, AppliedOnceInOrder, WholeReleases, DestructionIsBackedUp
<1> QED BY <1>1, <1>2, <1>3, <1>4 DEF MigrationsInv

(* Steps that neither write the schema nor touch a transaction: a process  *)
(* moves on with what it has read, or is another one.                      *)
LEMMA ProcessMoves ==
  ASSUME MigrationsInv, NEW p \in Migrators, UNCHANGED <<schema, writer, draft>>,
         process[p].at # "open",
         NEW next \in [at : AtRest \cup Busy, release : 1..MaxVersion,
                       from : 0..MaxVersion, hook : BOOLEAN],
         process' = [process EXCEPT ![p] = next],
         next.at \in Busy => next.from < next.release /\ next.from <= SchemaVersion,
         backups \subseteq backups', backups' \subseteq [by : Migrators, version : 0..MaxVersion],
         next.at = "backed" =>
            \E b \in backups' : b.by = p /\ next.from <= b.version /\ b.version <= SchemaVersion,
         mishaps' \in 0..MaxCrashes
  PROVE  MigrationsInv'
<1> USE MigrationsAssumption
<1>0. MigrationsTypeOK /\ WriterIsOpen /\ ReadIsBehind /\ DraftContinues /\ BackupIsRecent
      /\ MigrationPromise
  BY DEF MigrationsInv
<1>1. \A q \in Migrators : process'[q] = IF q = p THEN next ELSE process[q]
  BY <1>0 DEF MigrationsTypeOK
<1>2. SchemaVersion' = SchemaVersion
  BY DEF SchemaVersion
<1>3. MigrationsTypeOK'
  BY <1>0 DEF MigrationsTypeOK
<1>4. WriterIsOpen'
  BY <1>0, <1>1 DEF WriterIsOpen, AtRest, Busy
<1>5. ReadIsBehind'
  BY <1>0, <1>1, <1>2 DEF ReadIsBehind, AtRest, Busy
<1>6. DraftContinues'
  <2>1. writer # p
    BY <1>0 DEF WriterIsOpen
  <2>2. draft # <<>> => writer \in Migrators /\ process'[writer] = process[writer]
    BY <1>0, <1>1, <2>1 DEF DraftContinues, MigrationsTypeOK
  <2> QED BY <1>0, <1>2, <2>2 DEF DraftContinues, Row
<1>7. BackupIsRecent'
  <2> SUFFICES ASSUME NEW q \in Migrators, process'[q].at \in {"backed", "open"}, NeedsBackup(q)'
               PROVE  \E b \in backups' : /\ b.by = q
                                          /\ process'[q].from <= b.version
                                          /\ b.version <= SchemaVersion
    BY <1>2 DEF BackupIsRecent
  <2>1. CASE q = p
    BY <1>1, <2>1 DEF AtRest, Busy
  <2>2. CASE q # p
    <3>1. process'[q] = process[q]
      BY <1>1, <2>2
    <3>2. NeedsBackup(q)
      BY <3>1 DEF NeedsBackup, Pending
    <3> QED BY <1>0, <3>1, <3>2 DEF BackupIsRecent
  <2> QED BY <2>1, <2>2
<1>8. MigrationPromise'
  BY <1>0 DEF MigrationPromise, AppliedOnceInOrder, WholeReleases, DestructionIsBackedUp
<1> QED BY <1>3, <1>4, <1>5, <1>6, <1>7, <1>8 DEF MigrationsInv

(* A transaction that is rolled back, by its process or for it. *)
LEMMA TransactionVanishes ==
  ASSUME MigrationsInv, NEW p \in Migrators, writer = p,
         UNCHANGED <<schema, backups>>, writer' = NoWriter, draft' = <<>>,
         NEW next \in [at : AtRest, release : 1..MaxVersion, from : 0..MaxVersion, hook : BOOLEAN],
         process' = [process EXCEPT ![p] = next],
         mishaps' \in 0..MaxCrashes
  PROVE  MigrationsInv'
<1> USE MigrationsAssumption
<1>0. MigrationsTypeOK /\ WriterIsOpen /\ ReadIsBehind /\ BackupIsRecent /\ MigrationPromise
  BY DEF MigrationsInv
<1>1. \A q \in Migrators : process'[q] = IF q = p THEN next ELSE process[q]
  BY <1>0 DEF MigrationsTypeOK
<1>2. SchemaVersion' = SchemaVersion
  BY DEF SchemaVersion
<1>3. MigrationsTypeOK'
  BY <1>0 DEF MigrationsTypeOK
<1>4. WriterIsOpen' /\ ReadIsBehind' /\ DraftContinues'
  BY <1>0, <1>1, <1>2 DEF WriterIsOpen, ReadIsBehind, DraftContinues, AtRest, Busy
<1>5. BackupIsRecent'
  <2> SUFFICES ASSUME NEW q \in Migrators, process'[q].at \in {"backed", "open"}, NeedsBackup(q)'
               PROVE  \E b \in backups : /\ b.by = q
                                         /\ process'[q].from <= b.version
                                         /\ b.version <= SchemaVersion
    BY <1>2 DEF BackupIsRecent
  <2>1. process'[q] = process[q]
    BY <1>1 DEF AtRest
  <2> QED BY <1>0, <2>1 DEF BackupIsRecent, NeedsBackup, Pending
<1>6. MigrationPromise'
  BY <1>0 DEF MigrationPromise, AppliedOnceInOrder, WholeReleases, DestructionIsBackedUp
<1> QED BY <1>3, <1>4, <1>5, <1>6 DEF MigrationsInv

LEMMA ReadVersionKeeps ==
  ASSUME MigrationsInv, NEW p \in Migrators, ReadVersion(p)
  PROVE  MigrationsInv'
<1>0. MigrationsTypeOK
  BY DEF MigrationsInv
<1>1. PICK at \in {"refused", "done", "read"} :
         /\ process' = [process EXCEPT ![p] =
             [at |-> at, release |-> process[p].release, from |-> SchemaVersion,
              hook |-> process[p].hook]]
         /\ at = "read" => SchemaVersion < process[p].release
  <2> DEFINE own == process[p]
             at == IF SchemaVersion > own.release THEN "refused"
                   ELSE IF SchemaVersion = own.release THEN "done"
                   ELSE IF (SchemaVersion + 1..own.release) \cap Destructive # {} /\ ~own.hook
                   THEN "refused"
                   ELSE "read"
  <2>1. process' = [process EXCEPT ![p] =
             [at |-> at, release |-> process[p].release, from |-> SchemaVersion,
              hook |-> process[p].hook]]
    BY DEF ReadVersion
  <2>2. SchemaVersion \in Int /\ own.release \in Int
    BY <1>0, MigrationsAssumption DEF MigrationsTypeOK, SchemaVersion
  <2>3. at \in {"refused", "done", "read"} /\ (at = "read" => SchemaVersion < own.release)
    BY <2>2
  <2> QED BY <2>1, <2>3
<1> DEFINE next == [at |-> at, release |-> process[p].release,
                    from |-> SchemaVersion, hook |-> process[p].hook]
<1>2. process' = [process EXCEPT ![p] = next]
  BY <1>1
<1>3. SchemaVersion \in 0..MaxVersion
  BY <1>0, MigrationsAssumption DEF MigrationsTypeOK, SchemaVersion
<1>4. /\ next \in [at : AtRest \cup Busy, release : 1..MaxVersion,
                   from : 0..MaxVersion, hook : BOOLEAN]
      /\ next.at = at /\ next.from = SchemaVersion /\ next.release = process[p].release
  BY <1>0, <1>1, <1>3 DEF MigrationsTypeOK, AtRest, Busy
<1>5. process[p].at # "open" /\ UNCHANGED <<schema, writer, draft, backups, mishaps>>
  BY DEF ReadVersion
<1>6. next.at \in Busy => next.from < next.release /\ next.from <= SchemaVersion
  BY <1>1, <1>3, <1>4 DEF Busy
<1>7. next.at # "backed"
  BY <1>1, <1>4
<1> HIDE DEF next
<1> QED BY <1>0, <1>2, <1>4, <1>5, <1>6, <1>7, ProcessMoves DEF MigrationsTypeOK

LEMMA BackupKeeps ==
  ASSUME MigrationsInv, NEW p \in Migrators, Backup(p)
  PROVE  MigrationsInv'
<1>0. MigrationsTypeOK /\ ReadIsBehind
  BY DEF MigrationsInv
<1> DEFINE next == [process[p] EXCEPT !.at = "backed"]
           made == [by |-> p, version |-> SchemaVersion]
<1>1. process' = [process EXCEPT ![p] = next]
  BY <1>0 DEF MigrationsTypeOK, Backup, Goes
<1>2. /\ next \in [at : AtRest \cup Busy, release : 1..MaxVersion,
                   from : 0..MaxVersion, hook : BOOLEAN]
      /\ next.from < next.release /\ next.from <= SchemaVersion
  BY <1>0 DEF MigrationsTypeOK, AtRest, Busy, Backup, ReadIsBehind
<1>3. SchemaVersion \in 0..MaxVersion
  BY <1>0, MigrationsAssumption DEF MigrationsTypeOK, SchemaVersion
<1>4. made \in backups' /\ made.by = p /\ made.version = SchemaVersion
  BY DEF Backup
<1>5. backups \subseteq backups' /\ backups' \subseteq [by : Migrators, version : 0..MaxVersion]
  BY <1>0, <1>3 DEF Backup, MigrationsTypeOK
<1>6. \E b \in backups' : b.by = p /\ next.from <= b.version /\ b.version <= SchemaVersion
  BY <1>2, <1>3, <1>4
<1>7. mishaps' \in 0..MaxCrashes /\ UNCHANGED <<schema, writer, draft>> /\ process[p].at # "open"
  BY <1>0 DEF Backup, MigrationsTypeOK
<1> HIDE DEF next
<1> QED BY <1>1, <1>2, <1>5, <1>6, <1>7, ProcessMoves

LEMMA OpenAgainKeeps ==
  ASSUME MigrationsInv, NEW p \in Migrators, OpenAgain(p)
  PROVE  MigrationsInv'
<1>0. MigrationsTypeOK
  BY DEF MigrationsInv
<1>1. PICK release \in 1..MaxVersion : process' = Restarted(p, release)
  BY DEF OpenAgain
<1> DEFINE next == [at |-> "idle", release |-> release, from |-> 0, hook |-> process[p].hook]
<1>2. process' = [process EXCEPT ![p] = next]
  BY <1>1 DEF Restarted
<1>3. /\ next \in [at : AtRest, release : 1..MaxVersion, from : 0..MaxVersion, hook : BOOLEAN]
      /\ next.at = "idle"
  BY <1>0, MigrationsAssumption DEF MigrationsTypeOK, AtRest
<1> HIDE DEF next
<1> QED BY <1>0, <1>2, <1>3, ProcessMoves DEF OpenAgain, MigrationsTypeOK, AtRest, Busy

LEMMA CrashKeeps ==
  ASSUME MigrationsInv, NEW p \in Migrators, MigratorCrash(p)
  PROVE  MigrationsInv'
<1>0. MigrationsTypeOK /\ WriterIsOpen
  BY DEF MigrationsInv
<1>1. PICK release \in 1..MaxVersion : process' = Restarted(p, release)
  BY DEF MigratorCrash
<1> DEFINE next == [at |-> "idle", release |-> release, from |-> 0, hook |-> process[p].hook]
<1>2. process' = [process EXCEPT ![p] = next]
  BY <1>1 DEF Restarted
<1>3. /\ next \in [at : AtRest, release : 1..MaxVersion, from : 0..MaxVersion, hook : BOOLEAN]
      /\ next.at = "idle"
  BY <1>0, MigrationsAssumption DEF MigrationsTypeOK, AtRest
<1>4. mishaps' \in 0..MaxCrashes /\ UNCHANGED <<schema, backups>>
  BY <1>0, MigrationsAssumption DEF MigrationsTypeOK, MigratorCrash
<1> HIDE DEF next
<1>5. CASE writer = p
  BY <1>2, <1>3, <1>4, <1>5, TransactionVanishes DEF MigratorCrash
<1>6. CASE writer # p
  <2>1. process[p].at # "open" /\ UNCHANGED <<schema, writer, draft>>
    BY <1>0, <1>6 DEF WriterIsOpen, MigratorCrash
  <2> QED BY <1>0, <1>2, <1>3, <1>4, <2>1, ProcessMoves DEF AtRest, Busy, MigrationsTypeOK
<1> QED BY <1>5, <1>6

LEMMA RollBackKeeps ==
  ASSUME MigrationsInv, NEW p \in Migrators, process[p].at = "open", RollBack(p),
         UNCHANGED <<schema, backups>>, mishaps' \in 0..MaxCrashes
  PROVE  MigrationsInv'
<1>0. MigrationsTypeOK /\ WriterIsOpen
  BY DEF MigrationsInv
<1> DEFINE next == [process[p] EXCEPT !.at = "failed"]
<1>1. process' = [process EXCEPT ![p] = next]
  BY <1>0 DEF MigrationsTypeOK, RollBack, Goes
<1>2. next \in [at : AtRest, release : 1..MaxVersion, from : 0..MaxVersion, hook : BOOLEAN]
  BY <1>0 DEF MigrationsTypeOK, AtRest
<1> HIDE DEF next
<1> QED BY <1>0, <1>1, <1>2, TransactionVanishes DEF WriterIsOpen, RollBack

LEMMA BeginKeeps ==
  ASSUME MigrationsInv, NEW p \in Migrators, BeginTransaction(p)
  PROVE  MigrationsInv'
<1>0. /\ MigrationsTypeOK /\ WriterIsOpen /\ ReadIsBehind /\ DraftContinues /\ BackupIsRecent
      /\ MigrationPromise
  BY DEF MigrationsInv
<1>1. process[p].at \in Busy /\ (NeedsBackup(p) => process[p].at = "backed")
  BY DEF BeginTransaction, Busy
<1>2. UNCHANGED <<schema, draft, backups, mishaps>>
  BY DEF BeginTransaction
<1>3. CASE writer # NoWriter
  <2> DEFINE next == [process[p] EXCEPT !.at = "failed"]
  <2>1. process' = [process EXCEPT ![p] = next] /\ UNCHANGED writer
    BY <1>0, <1>3 DEF MigrationsTypeOK, BeginTransaction, Goes
  <2>2. /\ next \in [at : AtRest \cup Busy, release : 1..MaxVersion,
                     from : 0..MaxVersion, hook : BOOLEAN]
        /\ next.at = "failed"
    BY <1>0 DEF MigrationsTypeOK, AtRest
  <2> HIDE DEF next
  <2> QED BY <1>0, <1>1, <1>2, <2>1, <2>2, ProcessMoves DEF MigrationsTypeOK, Busy
<1>4. CASE writer = NoWriter
  <2>1. process' = [process EXCEPT ![p].at = "open"] /\ writer' = p
    BY <1>4 DEF BeginTransaction, Goes
  <2>2. \A q \in Migrators :
           /\ process'[q].at = IF q = p THEN "open" ELSE process[q].at
           /\ process'[q].from = process[q].from /\ process'[q].release = process[q].release
    BY <1>0, <2>1 DEF MigrationsTypeOK
  <2>3. SchemaVersion' = SchemaVersion
    BY <1>2 DEF SchemaVersion
  <2>4. MigrationsTypeOK'
    BY <1>0, <1>2, <2>1 DEF MigrationsTypeOK
  <2>5. WriterIsOpen'
    BY <1>0, <1>4, <2>1, <2>2, MigrationsAssumption DEF WriterIsOpen
  <2>6. ReadIsBehind'
    BY <1>0, <1>1, <2>2, <2>3 DEF ReadIsBehind, Busy
  <2>7. DraftContinues'
    BY <1>0, <1>2, <1>4 DEF DraftContinues
  <2>8. BackupIsRecent'
    <3> SUFFICES ASSUME NEW q \in Migrators, process'[q].at \in {"backed", "open"},
                        NeedsBackup(q)'
                 PROVE  \E b \in backups : /\ b.by = q
                                           /\ process[q].from <= b.version
                                           /\ b.version <= SchemaVersion
      BY <1>2, <2>2, <2>3 DEF BackupIsRecent
    <3>1. NeedsBackup(q)
      BY <2>2 DEF NeedsBackup, Pending
    <3>2. process[q].at \in {"backed", "open"}
      BY <1>1, <2>2, <3>1
    <3> QED BY <1>0, <3>1, <3>2 DEF BackupIsRecent
  <2>9. MigrationPromise'
    BY <1>0, <1>2 DEF MigrationPromise, AppliedOnceInOrder, WholeReleases, DestructionIsBackedUp
  <2> QED BY <2>4, <2>5, <2>6, <2>7, <2>8, <2>9 DEF MigrationsInv
<1> QED BY <1>3, <1>4

(* The first insertion succeeds only if the schema is still the one read.  *)
LEMMA ApplyKeeps ==
  ASSUME MigrationsInv, NEW p \in Migrators, ApplyMigration(p)
  PROVE  MigrationsInv'
<1>0. /\ MigrationsTypeOK /\ WriterIsOpen /\ ReadIsBehind /\ DraftContinues /\ BackupIsRecent
      /\ MigrationPromise
  BY DEF MigrationsInv
<1>1. /\ process[p].at = "open" /\ writer = p
      /\ NextVersion(p) \in Pending(p)
      /\ UNCHANGED <<schema, backups, mishaps>>
  BY <1>0 DEF ApplyMigration, WriterIsOpen
<1>2. CASE ~Inserts(p)
  BY <1>0, <1>1, <1>2, RollBackKeeps DEF ApplyMigration, MigrationsTypeOK
<1>3. CASE Inserts(p)
  <2>1. draft' = Append(draft, Row(p, NextVersion(p))) /\ UNCHANGED <<writer, process>>
    BY <1>3 DEF ApplyMigration
  <2>2. /\ SchemaVersion \in Nat /\ Len(draft) \in Nat /\ draft \in Seq(SchemaRows)
        /\ process[p].from \in Nat /\ process[p].release \in 1..MaxVersion
        /\ process[p].from <= SchemaVersion
    BY <1>0, <1>1, MigrationsAssumption DEF MigrationsTypeOK, SchemaVersion, ReadIsBehind
  <2>3. process[p].from = SchemaVersion
    <3>1. CASE draft = <<>>
      BY <1>3, <2>2, <3>1 DEF Inserts, NextVersion
    <3>2. CASE draft # <<>>
      BY <1>0, <1>1, <3>2 DEF DraftContinues
    <3> QED BY <3>1, <3>2
  <2>4. /\ NextVersion(p) = SchemaVersion + Len(draft) + 1
        /\ NextVersion(p) <= process[p].release
    BY <1>1, <2>2, <2>3 DEF NextVersion, Pending
  <2>5. Row(p, NextVersion(p)) \in SchemaRows
    BY <2>2, <2>4, MigrationsAssumption DEF Row, SchemaRows
  <2>6. /\ draft' \in Seq(SchemaRows) /\ Len(draft') = Len(draft) + 1
        /\ \A i \in 1..Len(draft') :
              draft'[i] = IF i = Len(draft) + 1 THEN Row(p, NextVersion(p)) ELSE draft[i]
    BY <2>1, <2>2, <2>5
  <2>7. MigrationsTypeOK'
    BY <1>0, <1>1, <2>1, <2>2, <2>4, <2>6, MigrationsAssumption DEF MigrationsTypeOK
  <2>8. WriterIsOpen' /\ ReadIsBehind' /\ BackupIsRecent'
    BY <1>0, <1>1, <2>1 DEF WriterIsOpen, ReadIsBehind, BackupIsRecent, SchemaVersion,
                            NeedsBackup, Pending
  <2>9. DraftContinues'
    <3>1. \A i \in 1..Len(draft) : draft[i] = Row(p, SchemaVersion + i)
      BY <1>0, <1>1, <2>2 DEF DraftContinues
    <3>2. ASSUME NEW i \in 1..Len(draft')
          PROVE  draft'[i] = Row(p, SchemaVersion + i)
      <4>1. CASE i = Len(draft) + 1
        <5>1. draft'[i] = Row(p, NextVersion(p))
          BY <2>6, <4>1
        <5>2. NextVersion(p) = SchemaVersion + i
          BY <2>2, <2>4, <4>1
        <5> QED BY <5>1, <5>2
      <4>2. CASE i # Len(draft) + 1
        <5>1. i \in 1..Len(draft)
          BY <2>2, <2>6, <4>2
        <5> QED BY <2>6, <3>1, <4>2, <5>1
      <4> QED BY <4>1, <4>2
    <3>3. SchemaVersion' = SchemaVersion /\ writer' = p /\ p # NoWriter
      BY <1>1, <2>1, MigrationsAssumption DEF SchemaVersion
    <3>4. \A i \in DOMAIN draft' : draft'[i] = Row(writer, SchemaVersion + i)'
      BY <1>1, <2>1, <2>6, <3>2, <3>3 DEF Row
    <3> QED BY <1>1, <2>1, <2>2, <2>3, <2>4, <2>6, <3>3, <3>4 DEF DraftContinues
  <2>10. MigrationPromise'
    BY <1>0, <1>1 DEF MigrationPromise, AppliedOnceInOrder, WholeReleases, DestructionIsBackedUp
  <2> QED BY <2>7, <2>8, <2>9, <2>10 DEF MigrationsInv
<1> QED BY <1>2, <1>3

(* A commit takes the schema from what was read to the process's release.  *)
LEMMA CommitKeeps ==
  ASSUME MigrationsInv, NEW p \in Migrators, CommitMigrations(p)
  PROVE  MigrationsInv'
<1>0. /\ MigrationsTypeOK /\ WriterIsOpen /\ ReadIsBehind /\ DraftContinues /\ BackupIsRecent
      /\ MigrationPromise
  BY DEF MigrationsInv
<1>1. /\ process[p].at = "open" /\ writer = p
      /\ schema' = schema \o draft /\ draft' = <<>> /\ writer' = NoWriter
      /\ process' = [process EXCEPT ![p].at = "done"]
      /\ UNCHANGED <<backups, mishaps>>
  BY <1>0 DEF CommitMigrations, WriterIsOpen, Goes
<1>2. /\ schema \in Seq(SchemaRows) /\ draft \in Seq(SchemaRows)
      /\ SchemaVersion = Len(schema) /\ Len(schema) \in Nat /\ Len(draft) \in Nat
      /\ process[p].from \in Nat /\ process[p].release \in 1..MaxVersion
      /\ process[p].from < process[p].release
  BY <1>0, <1>1, MigrationsAssumption DEF MigrationsTypeOK, SchemaVersion, ReadIsBehind
<1>3. NextVersion(p) > process[p].release
  BY <1>2 DEF CommitMigrations, NextVersion, Pending
<1>4. draft # <<>>
  BY <1>2, <1>3 DEF NextVersion
<1>5. /\ process[p].from = Len(schema) /\ Len(schema) + Len(draft) = process[p].release
      /\ \A i \in 1..Len(draft) : draft[i] = Row(p, Len(schema) + i)
  <2>1. /\ process[p].from = SchemaVersion /\ SchemaVersion + Len(draft) <= process[p].release
        /\ \A i \in DOMAIN draft : draft[i] = Row(p, SchemaVersion + i)
    BY <1>0, <1>1, <1>4 DEF DraftContinues
  <2>2. DOMAIN draft = 1..Len(draft)
    BY <1>2
  <2>3. \A i \in 1..Len(draft) : draft[i] = Row(p, Len(schema) + i)
    BY <1>2, <2>1, <2>2
  <2>4. process[p].from = Len(schema) /\ Len(schema) + Len(draft) <= process[p].release
    BY <1>2, <2>1
  <2>5. process[p].from + Len(draft) + 1 > process[p].release
    BY <1>3 DEF NextVersion
  <2> QED BY <1>2, <2>3, <2>4, <2>5
<1>6. /\ schema' \in Seq(SchemaRows) /\ Len(schema') = process[p].release
      /\ \A i \in 1..Len(schema') :
            schema'[i] = IF i <= Len(schema) THEN schema[i] ELSE Row(p, i)
  <2>1. /\ schema' \in Seq(SchemaRows) /\ Len(schema') = Len(schema) + Len(draft)
        /\ \A i \in 1..Len(schema') :
              schema'[i] = IF i <= Len(schema) THEN schema[i] ELSE draft[i - Len(schema)]
    BY <1>1, <1>2
  <2>2. \A i \in 1..Len(schema') : i > Len(schema) => draft[i - Len(schema)] = Row(p, i)
    BY <1>2, <1>5, <2>1
  <2>3. Len(schema') = process[p].release
    BY <1>5, <2>1
  <2>4. \A i \in 1..Len(schema') :
            schema'[i] = IF i <= Len(schema) THEN schema[i] ELSE Row(p, i)
    <3> SUFFICES ASSUME NEW i \in 1..Len(schema')
                 PROVE  schema'[i] = IF i <= Len(schema) THEN schema[i] ELSE Row(p, i)
      OBVIOUS
    <3>1. CASE i <= Len(schema)
      BY <2>1, <3>1
    <3>2. CASE ~(i <= Len(schema))
      <4>1. i > Len(schema)
        BY <1>2, <3>2
      <4> QED BY <2>1, <2>2, <3>2, <4>1
    <3> QED BY <3>1, <3>2
  <2> QED BY <2>1, <2>3, <2>4
<1>7. \A q \in Migrators :
         /\ process'[q].at = IF q = p THEN "done" ELSE process[q].at
         /\ process'[q].from = process[q].from /\ process'[q].release = process[q].release
  BY <1>0, <1>1 DEF MigrationsTypeOK
<1>8. SchemaVersion' >= SchemaVersion /\ SchemaVersion' \in Nat
  BY <1>2, <1>5, <1>6 DEF SchemaVersion
<1>9. MigrationsTypeOK'
  <2>1. process' \in [Migrators -> [at : AtRest \cup Busy \cup {"open"}, release : 1..MaxVersion,
                                    from : 0..MaxVersion, hook : BOOLEAN]]
    BY <1>0, <1>1 DEF MigrationsTypeOK, AtRest
  <2>2. draft' \in Seq(SchemaRows) /\ Len(draft') = 0
    BY <1>1
  <2>3. Len(schema') <= MaxVersion
    BY <1>2, <1>6, MigrationsAssumption
  <2> QED BY <1>0, <1>1, <1>6, <2>1, <2>2, <2>3, MigrationsAssumption DEF MigrationsTypeOK
<1>10. WriterIsOpen' /\ DraftContinues'
  BY <1>0, <1>1, <1>7, MigrationsAssumption DEF WriterIsOpen, DraftContinues
<1>11. ReadIsBehind'
  <2> SUFFICES ASSUME NEW q \in Migrators, process'[q].at \in Busy \cup {"open"}
               PROVE  process[q].from < process[q].release /\ process[q].from <= SchemaVersion'
    BY <1>7 DEF ReadIsBehind
  <2>1. process[q].from < process[q].release /\ process[q].from <= SchemaVersion
    BY <1>0, <1>7 DEF ReadIsBehind, Busy
  <2>2. process[q].from \in Nat
    BY <1>0 DEF MigrationsTypeOK
  <2> QED BY <1>2, <1>8, <2>1, <2>2
<1>12. BackupIsRecent'
  <2> SUFFICES ASSUME NEW q \in Migrators, process'[q].at \in {"backed", "open"}, NeedsBackup(q)'
               PROVE  \E b \in backups : /\ b.by = q
                                         /\ process[q].from <= b.version
                                         /\ b.version <= SchemaVersion'
    BY <1>1, <1>7 DEF BackupIsRecent
  <2>1. NeedsBackup(q)
    BY <1>7 DEF NeedsBackup, Pending
  <2>2. PICK b \in backups : /\ b.by = q
                             /\ process[q].from <= b.version /\ b.version <= SchemaVersion
    BY <1>0, <1>7, <2>1 DEF BackupIsRecent
  <2>3. b.version \in Nat
    BY <1>0 DEF MigrationsTypeOK
  <2> QED BY <1>2, <1>8, <2>2, <2>3
<1>13. \A i : Row(p, i).version = i /\ Row(p, i).by = p /\ Row(p, i).upTo = process[p].release
  BY DEF Row
<1>14. AppliedOnceInOrder'
  <2>1. DOMAIN schema' = 1..Len(schema') /\ DOMAIN schema = 1..Len(schema)
    BY <1>2, <1>6
  <2>2. \A i \in 1..Len(schema) : schema[i].version = i
    BY <1>0, <2>1 DEF MigrationPromise, AppliedOnceInOrder
  <2>3. \A i \in 1..Len(schema') : schema'[i].version = i
    BY <1>2, <1>6, <1>13, <2>2
  <2> QED BY <2>1, <2>3 DEF AppliedOnceInOrder
<1>15. WholeReleases'
  <2>1. Last(schema') = Row(p, process[p].release)
    BY <1>2, <1>4, <1>5, <1>6 DEF Last
  <2> QED BY <2>1 DEF WholeReleases, Row
<1>16. DestructionIsBackedUp'
  <2> SUFFICES ASSUME NEW i \in 1..Len(schema'), schema'[i].version \in Destructive
               PROVE  \E b \in backups :
                         /\ b.by = schema'[i].by /\ b.version < i
                         /\ \A j \in b.version + 1..i : /\ schema'[j].by = b.by
                                                        /\ schema'[j].upTo = schema'[i].upTo
    <3>1. DOMAIN schema' = 1..Len(schema')
      BY <1>6
    <3> QED BY <1>1, <3>1 DEF DestructionIsBackedUp
  <2>1. CASE i <= Len(schema)
    <3>1. schema'[i] = schema[i] /\ i \in DOMAIN schema
      BY <1>2, <1>6, <2>1
    <3>2. PICK b \in backups :
             /\ b.by = schema[i].by /\ b.version < i
             /\ \A j \in b.version + 1..i : schema[j].by = b.by /\ schema[j].upTo = schema[i].upTo
      BY <1>0, <3>1 DEF MigrationPromise, DestructionIsBackedUp
    <3>3. b.version \in Nat
      BY <1>0 DEF MigrationsTypeOK
    <3>4. \A j \in b.version + 1..i : schema'[j] = schema[j]
      BY <1>2, <1>6, <2>1, <3>3
    <3> QED BY <3>1, <3>2, <3>4
  <2>2. CASE i > Len(schema)
    <3>1. schema'[i] = Row(p, i)
      BY <1>2, <1>6, <2>2
    <3>2. NeedsBackup(p)
      <4>1. i \in Pending(p) /\ i \in Destructive
        BY <1>2, <1>5, <1>6, <2>2, <3>1 DEF Pending, Row
      <4> QED BY <4>1 DEF NeedsBackup
    <3>3. PICK b \in backups : /\ b.by = p
                               /\ process[p].from <= b.version /\ b.version <= SchemaVersion
      BY <1>0, <1>1, <3>2 DEF BackupIsRecent
    <3>4. b.version = Len(schema)
      <4>1. b.version \in Nat
        BY <1>0 DEF MigrationsTypeOK
      <4> QED BY <1>2, <1>5, <3>3, <4>1
    <3>5. \A j \in b.version + 1..i : schema'[j] = Row(p, j)
      BY <1>2, <1>6, <3>4
    <3>6. /\ b.by = schema'[i].by /\ b.version < i
          /\ \A j \in b.version + 1..i : schema'[j].by = b.by /\ schema'[j].upTo = schema'[i].upTo
      BY <1>2, <1>13, <2>2, <3>1, <3>3, <3>4, <3>5
    <3> QED BY <3>6
  <2> QED BY <1>2, <2>1, <2>2
<1> QED BY <1>9, <1>10, <1>11, <1>12, <1>14, <1>15, <1>16 DEF MigrationsInv, MigrationPromise

(* Schema, transactions, drafts and backups agree in every reachable state *)
(* (migrateDatabase and its asynchronous variant).                         *)
THEOREM MigrationsAgree == MigrationsSpec => []MigrationsInv
<1>1. MigrationsInv /\ [MigrationsNext]_migrationVars => MigrationsInv'
  <2> SUFFICES ASSUME MigrationsInv, [MigrationsNext]_migrationVars PROVE MigrationsInv'
    OBVIOUS
  <2>1. ASSUME NEW p \in Migrators, StatementFails(p) PROVE MigrationsInv'
    BY <2>1, RollBackKeeps, MigrationsAssumption DEF StatementFails, MigrationsInv, MigrationsTypeOK
  <2>2. CASE UNCHANGED migrationVars
    <3>1. SchemaVersion' = SchemaVersion /\ \A p \in Migrators : NeedsBackup(p)' = NeedsBackup(p)
      BY <2>2 DEF migrationVars, SchemaVersion, NeedsBackup, Pending
    <3> QED BY <2>2, <3>1 DEF migrationVars, MigrationsInv, MigrationsTypeOK, WriterIsOpen, ReadIsBehind,
                DraftContinues, BackupIsRecent, MigrationPromise, AppliedOnceInOrder, WholeReleases,
                DestructionIsBackedUp, Row
  <2> QED BY <2>1, <2>2, ReadVersionKeeps, BackupKeeps, BeginKeeps, ApplyKeeps, CommitKeeps,
             CrashKeeps, OpenAgainKeeps DEF MigrationsNext
<1> QED BY <1>1, MigrationsStart, PTL DEF MigrationsSpec

(* However many processes of whatever releases open the database at once,  *)
(* die in their transactions or overtake one another's backups: versions   *)
(* are applied once and in order, releases whole, and nothing destructive  *)
(* without a backup of the version it started from.                        *)
THEOREM MigrationsKeepPromise == MigrationsSpec => []MigrationPromise
<1>1. MigrationsInv => MigrationPromise
  BY DEF MigrationsInv
<1> QED BY <1>1, MigrationsAgree, PTL

-----------------------------------------------------------------------------
(* The two stores *)

TwinsSpec == TwinsInit /\ [][TwinsNext]_twinVars

(* Two stores that are alike but for the open handle. *)
Alike(m, s) ==
    /\ m.hash = s.hash /\ m.lease = s.lease /\ m.cursor = s.cursor /\ m.inited = s.inited
    /\ m.rows = s.rows /\ m.events = s.events
    /\ s.holder \in {Nobody, m.holder}

(* What a call may make of two such stores: memory refuses where SQLite    *)
(* grants, or both answer the same and are alike again.                    *)
CarriesOver(m, s) ==
    /\ m.store \in Stores /\ s.store \in Stores /\ m.ok \in BOOLEAN /\ s.ok \in BOOLEAN
    /\ m.ok => s.ok
    /\ m.ok = s.ok => Alike(m.store, s.store)

LEMMA OpenCarriesOver ==
  ASSUME NEW o \in Owners, NEW h \in Hashes, mem \in Stores, sql \in Stores, Alike(mem, sql),
         now \in 0..MaxClock
  PROVE  CarriesOver(MemOpen(mem, o, h), SqlOpen(sql, o, h))
<1> USE TwinsAssumption
<1>1. HeldByOther(mem, o) = HeldByOther(sql, o)
  BY DEF HeldByOther, Alike
<1>2. ASSUME NEW m \in Stores
      PROVE  /\ LeaseTo(m, o, h).ok = TRUE /\ Refused(m).ok = FALSE
             /\ Refused(m).store = m /\ LeaseTo(m, o, h).store \in Stores
  <2> DEFINE lease == [owner |-> o, expires |-> now + LeaseTtl]
  <2>1. lease \in Leases
    BY DEF Leases
  <2>2. LeaseTo(m, o, h) = Granted([m EXCEPT !.hash = h, !.holder = o, !.lease = lease])
    BY DEF LeaseTo
  <2> HIDE DEF lease
  <2>3. [m EXCEPT !.hash = h, !.holder = o, !.lease = lease] \in Stores
    BY <2>1 DEF Stores
  <2> QED BY <2>2, <2>3 DEF Granted, Refused
<1>3. Alike(LeaseTo(mem, o, h).store, LeaseTo(sql, o, h).store)
  BY DEF LeaseTo, Granted, Stores, Alike
<1>4. MemOpen(mem, o, h) = LeaseTo(mem, o, h) => SqlOpen(sql, o, h) = LeaseTo(sql, o, h)
  BY <1>1, <1>2 DEF MemOpen, SqlOpen, Alike
<1>5. /\ MemOpen(mem, o, h) \in {LeaseTo(mem, o, h), Refused(mem)}
      /\ SqlOpen(sql, o, h) \in {LeaseTo(sql, o, h), Refused(sql)}
  BY DEF MemOpen, SqlOpen
<1> QED BY <1>2, <1>3, <1>4, <1>5 DEF CarriesOver

LEMMA CloseCarriesOver ==
  ASSUME NEW o \in Owners, mem \in Stores, sql \in Stores, Alike(mem, sql)
  PROVE  CarriesOver(Granted(MemClose(mem, o)), Granted(SqlClose(sql, o)))
<1> USE TwinsAssumption
<1>1. /\ MemClose(mem, o) \in Stores /\ SqlClose(sql, o) \in Stores
      /\ Alike(MemClose(mem, o), SqlClose(sql, o))
  <2>1. NoLease \in Leases
    BY DEF NoLease, Leases
  <2>2. \A m \in Stores : WithoutLeaseOf(m, o) \in Stores
    BY <2>1 DEF WithoutLeaseOf, Stores
  <2>3. \A m \in Stores : [m EXCEPT !.holder = Nobody] \in Stores
    BY DEF Stores
  <2> DEFINE m == IF mem.holder = o THEN [mem EXCEPT !.holder = Nobody] ELSE mem
             s == [sql EXCEPT !.holder = Nobody]
  <2>4. m \in Stores /\ s \in Stores /\ Alike(m, s)
    BY <2>3 DEF Stores, Alike
  <2>5. MemClose(mem, o) = WithoutLeaseOf(m, o) /\ SqlClose(sql, o) = WithoutLeaseOf(s, o)
    BY DEF MemClose, SqlClose
  <2> HIDE DEF m, s
  <2>6. Alike(WithoutLeaseOf(m, o), WithoutLeaseOf(s, o))
    BY <2>4 DEF WithoutLeaseOf, Stores, Alike
  <2> QED BY <2>2, <2>4, <2>5, <2>6
<1> QED BY <1>1 DEF CarriesOver, Granted

(* What a change writes, from alike stores to alike stores. *)
LEMMA WritesAlike ==
  ASSUME mem \in Stores, sql \in Stores, Alike(mem, sql)
  PROVE  /\ \A x \in 0..MaxBatchId :
              /\ [mem EXCEPT !.cursor = x, !.inited = TRUE] \in Stores
              /\ [sql EXCEPT !.cursor = x, !.inited = TRUE] \in Stores
              /\ Alike([mem EXCEPT !.cursor = x, !.inited = TRUE],
                       [sql EXCEPT !.cursor = x, !.inited = TRUE])
         /\ \A h \in Hashes :
              /\ [mem EXCEPT !.hash = h] \in Stores /\ [sql EXCEPT !.hash = h] \in Stores
              /\ Alike([mem EXCEPT !.hash = h], [sql EXCEPT !.hash = h])
         /\ \A l \in Leases :
              /\ [mem EXCEPT !.lease = l] \in Stores /\ [sql EXCEPT !.lease = l] \in Stores
              /\ Alike([mem EXCEPT !.lease = l], [sql EXCEPT !.lease = l])
         /\ \A e \in SUBSET BatchIds :
              /\ [mem EXCEPT !.events = e] \in Stores /\ [sql EXCEPT !.events = e] \in Stores
              /\ Alike([mem EXCEPT !.events = e], [sql EXCEPT !.events = e])
         /\ \A r \in [BatchIds -> OutboxRows] :
              /\ [mem EXCEPT !.rows = r] \in Stores /\ [sql EXCEPT !.rows = r] \in Stores
              /\ Alike([mem EXCEPT !.rows = r], [sql EXCEPT !.rows = r])
         /\ \A r \in [BatchIds -> OutboxRows], x \in 0..MaxBatchId :
              /\ [mem EXCEPT !.rows = r, !.cursor = x, !.inited = TRUE] \in Stores
              /\ [sql EXCEPT !.rows = r, !.cursor = x, !.inited = TRUE] \in Stores
              /\ Alike([mem EXCEPT !.rows = r, !.cursor = x, !.inited = TRUE],
                       [sql EXCEPT !.rows = r, !.cursor = x, !.inited = TRUE])
<1>1. ASSUME NEW x \in 0..MaxBatchId
      PROVE  /\ [mem EXCEPT !.cursor = x, !.inited = TRUE] \in Stores
             /\ [sql EXCEPT !.cursor = x, !.inited = TRUE] \in Stores
             /\ Alike([mem EXCEPT !.cursor = x, !.inited = TRUE],
                      [sql EXCEPT !.cursor = x, !.inited = TRUE])
  BY DEF Stores, Alike
<1>2. ASSUME NEW h \in Hashes
      PROVE  /\ [mem EXCEPT !.hash = h] \in Stores /\ [sql EXCEPT !.hash = h] \in Stores
             /\ Alike([mem EXCEPT !.hash = h], [sql EXCEPT !.hash = h])
  BY DEF Stores, Alike
<1>3. ASSUME NEW l \in Leases
      PROVE  /\ [mem EXCEPT !.lease = l] \in Stores /\ [sql EXCEPT !.lease = l] \in Stores
             /\ Alike([mem EXCEPT !.lease = l], [sql EXCEPT !.lease = l])
  BY DEF Stores, Alike
<1>4. ASSUME NEW e \in SUBSET BatchIds
      PROVE  /\ [mem EXCEPT !.events = e] \in Stores /\ [sql EXCEPT !.events = e] \in Stores
             /\ Alike([mem EXCEPT !.events = e], [sql EXCEPT !.events = e])
  BY DEF Stores, Alike
<1>5. ASSUME NEW r \in [BatchIds -> OutboxRows]
      PROVE  /\ [mem EXCEPT !.rows = r] \in Stores /\ [sql EXCEPT !.rows = r] \in Stores
             /\ Alike([mem EXCEPT !.rows = r], [sql EXCEPT !.rows = r])
  BY DEF Stores, Alike
<1>6. ASSUME NEW r \in [BatchIds -> OutboxRows], NEW x \in 0..MaxBatchId
      PROVE  /\ [mem EXCEPT !.rows = r, !.cursor = x, !.inited = TRUE] \in Stores
             /\ [sql EXCEPT !.rows = r, !.cursor = x, !.inited = TRUE] \in Stores
             /\ Alike([mem EXCEPT !.rows = r, !.cursor = x, !.inited = TRUE],
                      [sql EXCEPT !.rows = r, !.cursor = x, !.inited = TRUE])
  BY DEF Stores, Alike
<1> QED BY <1>1, <1>2, <1>3, <1>4, <1>5, <1>6

LEMMA RowsWritten ==
  ASSUME NEW r \in [BatchIds -> OutboxRows], NEW b \in BatchIds
  PROVE  /\ \A x \in {"pending", "dead_letter"} :
              [r EXCEPT ![b].state = x] \in [BatchIds -> OutboxRows]
         /\ \A step \in {"begin", "bind", "retry"} :
              [r EXCEPT ![b] = Entered(@, step)] \in [BatchIds -> OutboxRows]
         /\ [r EXCEPT ![b] = [@ EXCEPT !.state = "accepted", !.turn = "bound"]]
              \in [BatchIds -> OutboxRows]
<1>1. r[b] \in OutboxRows
  OBVIOUS
<1>2. ASSUME NEW x \in {"pending", "dead_letter"} PROVE [r[b] EXCEPT !.state = x] \in OutboxRows
  BY <1>1 DEF OutboxRows
<1>3. ASSUME NEW step \in {"begin", "bind", "retry"} PROVE Entered(r[b], step) \in OutboxRows
  <2>1. CASE step = "begin"
    BY <1>1, <2>1 DEF OutboxRows, Entered
  <2>2. CASE step = "bind"
    BY <1>1, <2>2 DEF OutboxRows, Entered
  <2>3. CASE step = "retry"
    BY <1>1, <2>3 DEF OutboxRows, Entered
  <2> QED BY <2>1, <2>2, <2>3
<1>4. [r[b] EXCEPT !.state = "accepted", !.turn = "bound"] \in OutboxRows
  BY <1>1 DEF OutboxRows
<1> QED BY <1>2, <1>3, <1>4

LEMMA GrantedCarriesOver ==
  ASSUME NEW m \in Stores, NEW s \in Stores, Alike(m, s)
  PROVE  CarriesOver(Granted(m), Granted(s))
  BY DEF CarriesOver, Granted

LEMMA ChangeCarriesOver ==
  ASSUME mem \in Stores, sql \in Stores, Alike(mem, sql), NEW o \in Owners, NEW c \in Changes,
         now \in 0..MaxClock
  PROVE  CarriesOver(MemApplied(mem, o, c), SqlApplied(sql, o, c))
<1> USE TwinsAssumption
<1>0. CarriesOver(Refused(mem), Refused(sql))
  BY DEF CarriesOver, Refused
<1>1. HasDeliveryState(mem) = HasDeliveryState(sql)
  BY DEF HasDeliveryState, Alike
<1>2. mem.rows = sql.rows /\ mem.rows \in [BatchIds -> OutboxRows]
  BY DEF Stores, Alike
<1>3. CASE c.kind = "upsertBinding"
  <2>1. c.hash \in Hashes
    BY <1>3 DEF Changes
  <2>2. SqlApplied(sql, o, c) = Granted([sql EXCEPT !.hash = c.hash])
    BY <1>3 DEF SqlApplied
  <2>3. MemApplied(mem, o, c) \in {Refused(mem), Granted([mem EXCEPT !.hash = c.hash])}
    BY <1>3 DEF MemApplied
  <2>4. /\ [mem EXCEPT !.hash = c.hash] \in Stores /\ [sql EXCEPT !.hash = c.hash] \in Stores
        /\ Alike([mem EXCEPT !.hash = c.hash], [sql EXCEPT !.hash = c.hash])
    BY <2>1, WritesAlike
  <2>5. CarriesOver(Granted([mem EXCEPT !.hash = c.hash]), Granted([sql EXCEPT !.hash = c.hash]))
    BY <2>4, GrantedCarriesOver
  <2>6. CarriesOver(Refused(mem), Granted([sql EXCEPT !.hash = c.hash]))
    BY <2>4 DEF CarriesOver, Refused, Granted
  <2> QED BY <2>2, <2>3, <2>5, <2>6
<1>4. ASSUME c.kind # "upsertBinding"
      PROVE  CarriesOver(Applied(mem, o, c), Applied(sql, o, c))
  <2>1. CASE c.kind = "setBaseline"
    <3>1. c.cursor \in 0..MaxBatchId
      BY <2>1 DEF Changes
    <3>2. \A s : Applied(s, o, c) = IF HasDeliveryState(s) THEN Refused(s)
                                   ELSE Granted([s EXCEPT !.cursor = c.cursor, !.inited = TRUE])
      BY <2>1 DEF Applied
    <3>3. CarriesOver(Granted([mem EXCEPT !.cursor = c.cursor, !.inited = TRUE]),
                      Granted([sql EXCEPT !.cursor = c.cursor, !.inited = TRUE]))
      BY <3>1, WritesAlike, GrantedCarriesOver
    <3>4. CASE HasDeliveryState(mem)
      BY <1>0, <1>1, <3>2, <3>4 DEF HasDeliveryState
    <3>5. CASE ~HasDeliveryState(mem)
      <4>1. ~HasDeliveryState(sql)
        BY <1>1, <3>5 DEF HasDeliveryState
      <4>2. /\ Applied(mem, o, c) = Granted([mem EXCEPT !.cursor = c.cursor, !.inited = TRUE])
            /\ Applied(sql, o, c) = Granted([sql EXCEPT !.cursor = c.cursor, !.inited = TRUE])
        BY <3>2, <3>5, <4>1
      <4> QED BY <3>3, <4>2
    <3> QED BY <3>4, <3>5
  <2>2. CASE c.kind = "renewLease"
    <3>1. \A s : Applied(s, o, c) = IF s.lease.owner # o THEN Refused(s)
                                   ELSE Granted([s EXCEPT !.lease.expires = now + LeaseTtl])
      BY <2>2 DEF Applied
    <3> DEFINE l == [mem.lease EXCEPT !.expires = now + LeaseTtl]
    <3>2. l \in Leases /\ mem.lease = sql.lease
      BY DEF Stores, Leases, Alike
    <3>3. /\ [mem EXCEPT !.lease.expires = now + LeaseTtl] = [mem EXCEPT !.lease = l]
          /\ [sql EXCEPT !.lease.expires = now + LeaseTtl] = [sql EXCEPT !.lease = l]
      BY <3>2
    <3> HIDE DEF l
    <3>4. CarriesOver(Granted([mem EXCEPT !.lease = l]), Granted([sql EXCEPT !.lease = l]))
      BY <3>2, WritesAlike, GrantedCarriesOver
    <3> QED BY <1>0, <3>1, <3>2, <3>3, <3>4
  <2>3. CASE c.kind = "releaseLease"
    <3>1. \A s : Applied(s, o, c) = Granted(WithoutLeaseOf(s, o))
      BY <2>3 DEF Applied
    <3>2. NoLease \in Leases /\ mem.lease = sql.lease
      BY DEF NoLease, Leases, Alike
    <3>3. /\ CarriesOver(Granted([mem EXCEPT !.lease = NoLease]), Granted([sql EXCEPT !.lease = NoLease]))
          /\ CarriesOver(Granted(mem), Granted(sql))
      BY <3>2, WritesAlike, GrantedCarriesOver
    <3> QED BY <3>1, <3>2, <3>3 DEF WithoutLeaseOf
  <2>4. CASE c.kind = "observeSourceEvents"
    <3>1. \A s : Applied(s, o, c) = Granted([s EXCEPT !.events = @ \cup {c.b}])
      BY <2>4 DEF Applied
    <3>2. mem.events = sql.events /\ mem.events \cup {c.b} \in SUBSET BatchIds
      BY <2>4 DEF Stores, Alike, Changes
    <3> DEFINE e == mem.events \cup {c.b}
    <3>3. CarriesOver(Granted([mem EXCEPT !.events = e]), Granted([sql EXCEPT !.events = e]))
      BY <3>2, WritesAlike, GrantedCarriesOver
    <3> QED BY <3>1, <3>2, <3>3
  <2>5. CASE c.kind = "enqueueBatch"
    <3>1. c.b \in BatchIds
      BY <2>5 DEF Changes
    <3>2. \A s : Applied(s, o, c) = IF s.rows[c.b] # NoRow THEN Refused(s)
                                   ELSE Granted([s EXCEPT !.rows[c.b].state = "pending"])
      BY <2>5 DEF Applied
    <3> DEFINE r == [mem.rows EXCEPT ![c.b].state = "pending"]
    <3>3. r \in [BatchIds -> OutboxRows]
      BY <1>2, <3>1, RowsWritten
    <3>4. /\ [mem EXCEPT !.rows[c.b].state = "pending"] = [mem EXCEPT !.rows = r]
          /\ [sql EXCEPT !.rows[c.b].state = "pending"] = [sql EXCEPT !.rows = r]
      BY <1>2
    <3> HIDE DEF r
    <3>5. CarriesOver(Granted([mem EXCEPT !.rows = r]), Granted([sql EXCEPT !.rows = r]))
      BY <3>3, WritesAlike, GrantedCarriesOver
    <3> QED BY <1>0, <1>2, <3>2, <3>4, <3>5
  <2>6. CASE c.kind = "transitionBatch"
    <3>1. c.b \in BatchIds /\ c.step \in {"begin", "bind", "retry"}
      BY <2>6 DEF Changes
    <3>2. \A s : Applied(s, o, c) = IF s.rows[c.b].state # From(c.step) THEN Refused(s)
                                   ELSE Granted([s EXCEPT !.rows[c.b] = Entered(@, c.step)])
      BY <2>6 DEF Applied
    <3> DEFINE r == [mem.rows EXCEPT ![c.b] = Entered(@, c.step)]
    <3>3. r \in [BatchIds -> OutboxRows]
      BY <1>2, <3>1, RowsWritten
    <3>4. /\ [mem EXCEPT !.rows[c.b] = Entered(@, c.step)] = [mem EXCEPT !.rows = r]
          /\ [sql EXCEPT !.rows[c.b] = Entered(@, c.step)] = [sql EXCEPT !.rows = r]
      BY <1>2
    <3> HIDE DEF r
    <3>5. CarriesOver(Granted([mem EXCEPT !.rows = r]), Granted([sql EXCEPT !.rows = r]))
      BY <3>3, WritesAlike, GrantedCarriesOver
    <3> QED BY <1>0, <1>2, <3>2, <3>4, <3>5
  <2>7. CASE c.kind = "acceptBatch"
    <3>1. c.b \in BatchIds /\ c.b \in 0..MaxBatchId
      BY <2>7 DEF Changes, BatchIds
    <3> DEFINE accepted(entry) == [entry EXCEPT !.state = "accepted", !.turn = "bound"]
               r == [mem.rows EXCEPT ![c.b] = accepted(@)]
    <3>2. \A s : Applied(s, o, c) =
            IF s.rows[c.b].state \notin {"pending", "delivering"} THEN Refused(s)
            ELSE Granted([s EXCEPT !.rows[c.b] = accepted(@), !.cursor = c.b, !.inited = TRUE])
      BY <2>7 DEF Applied
    <3>3. r \in [BatchIds -> OutboxRows]
      BY <1>2, <3>1, RowsWritten
    <3>4. /\ [mem EXCEPT !.rows[c.b] = accepted(@), !.cursor = c.b, !.inited = TRUE] =
               [mem EXCEPT !.rows = r, !.cursor = c.b, !.inited = TRUE]
          /\ [sql EXCEPT !.rows[c.b] = accepted(@), !.cursor = c.b, !.inited = TRUE] =
               [sql EXCEPT !.rows = r, !.cursor = c.b, !.inited = TRUE]
      BY <1>2
    <3> HIDE DEF r, accepted
    <3>5. CarriesOver(Granted([mem EXCEPT !.rows = r, !.cursor = c.b, !.inited = TRUE]),
                      Granted([sql EXCEPT !.rows = r, !.cursor = c.b, !.inited = TRUE]))
      BY <3>1, <3>3, WritesAlike, GrantedCarriesOver
    <3> QED BY <1>0, <1>2, <3>2, <3>4, <3>5
  <2>8. CASE c.kind = "deadLetter"
    <3>1. c.b \in BatchIds
      BY <2>8 DEF Changes
    <3>2. \A s : Applied(s, o, c) = IF s.rows[c.b] = NoRow THEN Refused(s)
                                   ELSE Granted([s EXCEPT !.rows[c.b].state = "dead_letter"])
      BY <2>8 DEF Applied
    <3> DEFINE r == [mem.rows EXCEPT ![c.b].state = "dead_letter"]
    <3>3. r \in [BatchIds -> OutboxRows]
      BY <1>2, <3>1, RowsWritten
    <3>4. /\ [mem EXCEPT !.rows[c.b].state = "dead_letter"] = [mem EXCEPT !.rows = r]
          /\ [sql EXCEPT !.rows[c.b].state = "dead_letter"] = [sql EXCEPT !.rows = r]
      BY <1>2
    <3> HIDE DEF r
    <3>5. CarriesOver(Granted([mem EXCEPT !.rows = r]), Granted([sql EXCEPT !.rows = r]))
      BY <3>3, WritesAlike, GrantedCarriesOver
    <3> QED BY <1>0, <1>2, <3>2, <3>4, <3>5
  <2> QED BY <1>4, <2>1, <2>2, <2>3, <2>4, <2>5, <2>6, <2>7, <2>8 DEF Changes
<1> QED BY <1>3, <1>4 DEF MemApplied, SqlApplied

(* The lease is looked at first, and the change is kept only when the      *)
(* transaction commits.                                                    *)
LEMMA TransactionCarriesOver ==
  ASSUME mem \in Stores, sql \in Stores, Alike(mem, sql), NEW o \in Owners,
         NEW crash \in BOOLEAN, NEW m, NEW s, CarriesOver(m, s)
  PROVE  CarriesOver(Transacted(mem, o, m, crash), Transacted(sql, o, s, crash))
<1> USE TwinsAssumption
<1>1. mem.lease = sql.lease
  BY DEF Alike
<1>2. CarriesOver(Refused(mem), Refused(sql))
  BY DEF CarriesOver, Refused
<1>3. CASE mem.lease = NoLease \/ mem.lease.owner # o
  <2>1. RequireLease(mem, o) = Refused(mem) /\ RequireLease(sql, o) = Refused(sql)
    BY <1>1, <1>3 DEF RequireLease
  <2>2. /\ Transacted(mem, o, m, crash) = Refused(mem)
        /\ Transacted(sql, o, s, crash) = Refused(sql)
    BY <2>1 DEF Transacted, Refused
  <2> QED BY <1>2, <2>2
<1>4. CASE ~(mem.lease = NoLease \/ mem.lease.owner # o) /\ Expired(mem.lease)
  <2> DEFINE dropped(x) == [x EXCEPT !.lease = NoLease, !.holder = Nobody]
  <2>1. RequireLease(mem, o) = Refused(dropped(mem)) /\ RequireLease(sql, o) = Refused(dropped(sql))
    BY <1>1, <1>4 DEF RequireLease, Expired
  <2>2. /\ Transacted(mem, o, m, crash) = Refused(dropped(mem))
        /\ Transacted(sql, o, s, crash) = Refused(dropped(sql))
    BY <2>1 DEF Transacted, Refused
  <2>3. NoLease \in Leases
    BY DEF NoLease, Leases
  <2>4. dropped(mem) \in Stores /\ dropped(sql) \in Stores /\ Alike(dropped(mem), dropped(sql))
    BY <2>3 DEF Stores, Alike
  <2> HIDE DEF dropped
  <2>5. CarriesOver(Refused(dropped(mem)), Refused(dropped(sql)))
    BY <2>4 DEF CarriesOver, Refused
  <2> QED BY <2>2, <2>5
<1>5. CASE ~(mem.lease = NoLease \/ mem.lease.owner # o) /\ ~Expired(mem.lease)
  <2>1. RequireLease(mem, o) = Granted(mem) /\ RequireLease(sql, o) = Granted(sql)
    BY <1>1, <1>5 DEF RequireLease, Expired
  <2>2. /\ Transacted(mem, o, m, crash) = IF crash \/ ~m.ok THEN Refused(mem) ELSE m
        /\ Transacted(sql, o, s, crash) = IF crash \/ ~s.ok THEN Refused(sql) ELSE s
    BY <2>1 DEF Transacted, Granted
  <2>3. CASE crash
    BY <1>2, <2>2, <2>3
  <2>4. CASE ~crash /\ m.ok
    <3>1. s.ok
      BY <2>4 DEF CarriesOver
    <3> QED BY <2>2, <2>4, <3>1
  <2>5. CASE ~crash /\ ~m.ok /\ ~s.ok
    BY <1>2, <2>2, <2>5
  <2>6. CASE ~crash /\ ~m.ok /\ s.ok
    <3>1. CarriesOver(Refused(mem), s)
      BY <2>6 DEF CarriesOver, Refused
    <3> QED BY <2>2, <2>6, <3>1
  <2> QED BY <2>3, <2>4, <2>5, <2>6
<1> QED BY <1>3, <1>4, <1>5

(* Alike: the same but for the handle, which SQLite may have forgotten.    *)
LEMMA AlikeButForTheHandle ==
  ASSUME NEW m \in Stores, NEW s \in Stores
  PROVE  Alike(m, s) <=> /\ [m EXCEPT !.holder = Nobody] = [s EXCEPT !.holder = Nobody]
                         /\ s.holder \in {Nobody, m.holder}
<1>1. ASSUME Alike(m, s)
      PROVE  [m EXCEPT !.holder = Nobody] = [s EXCEPT !.holder = Nobody]
  BY <1>1 DEF Alike, Stores
<1>2. ASSUME [m EXCEPT !.holder = Nobody] = [s EXCEPT !.holder = Nobody]
      PROVE  /\ m.hash = s.hash /\ m.lease = s.lease /\ m.cursor = s.cursor
             /\ m.inited = s.inited /\ m.rows = s.rows /\ m.events = s.events
  <2> DEFINE m1 == [m EXCEPT !.holder = Nobody]
             s1 == [s EXCEPT !.holder = Nobody]
  <2>1. /\ m1.hash = m.hash /\ m1.lease = m.lease /\ m1.cursor = m.cursor
        /\ m1.inited = m.inited /\ m1.rows = m.rows /\ m1.events = m.events
    BY DEF Stores
  <2>2. /\ s1.hash = s.hash /\ s1.lease = s.lease /\ s1.cursor = s.cursor
        /\ s1.inited = s.inited /\ s1.rows = s.rows /\ s1.events = s.events
    BY DEF Stores
  <2> QED BY <1>2, <2>1, <2>2
<1> QED BY <1>1, <1>2 DEF Alike

(* TwinsInv, said of stores that are alike. *)
LEMMA TwinsInvIsAlike ==
  TwinsInv <=> /\ TwinsTypeOK
               /\ verdict # "memory_grants"
               /\ verdict = "together" => Alike(mem, sql)
<1>1. ASSUME TwinsTypeOK
      PROVE  Alike(mem, sql) <=> /\ [mem EXCEPT !.holder = Nobody] = [sql EXCEPT !.holder = Nobody]
                                 /\ sql.holder \in {Nobody, mem.holder}
  BY <1>1, AlikeButForTheHandle DEF TwinsTypeOK
<1> QED BY <1>1 DEF TwinsInv, TestsCarryOver

(* A call whose answers carry over leaves alike stores, or ends it. *)
LEMMA CallCarriesOver ==
  ASSUME NEW m, NEW s, CarriesOver(m, s), Call(m, s)
  PROVE  /\ mem' \in Stores /\ sql' \in Stores
         /\ verdict' \in {"together", "memory_refuses"}
         /\ verdict' = "together" => Alike(mem, sql)'
<1>1. mem' = m.store /\ sql' = s.store
  BY DEF Call
<1>2. CASE m.ok = s.ok
  <2>1. verdict' = "together"
    BY <1>2 DEF Call
  <2> QED BY <1>1, <1>2, <2>1 DEF CarriesOver, Alike
<1>3. CASE m.ok # s.ok
  <2>1. ~m.ok /\ s.ok
    BY <1>3 DEF CarriesOver
  <2>2. verdict' = "memory_refuses"
    BY <1>3, <2>1 DEF Call
  <2> QED BY <1>1, <2>2 DEF CarriesOver
<1> QED BY <1>2, <1>3

LEMMA TwinsStart == TwinsInit => TwinsInv
<1> SUFFICES ASSUME TwinsInit PROVE TwinsInv
  OBVIOUS
<1> USE TwinsAssumption
<1>1. NoLease \in Leases /\ NoRow \in OutboxRows
  BY DEF NoLease, Leases, NoRow, OutboxRows
<1>2. EmptyStore \in Stores
  BY <1>1 DEF EmptyStore, Stores, BatchIds
<1>3. TwinsTypeOK
  BY <1>2 DEF TwinsInit, TwinsTypeOK
<1>4. Alike(mem, sql)
  BY <1>2 DEF TwinsInit, Alike
<1>5. verdict # "memory_grants"
  BY DEF TwinsInit
<1> QED BY <1>3, <1>4, <1>5, TwinsInvIsAlike

(* In every reachable state the two stores agree, or memory has refused.   *)
THEOREM StoresStayAlike == TwinsSpec => []TwinsInv
<1>1. TwinsInv /\ [TwinsNext]_twinVars => TwinsInv'
  <2> SUFFICES ASSUME TwinsInv, [TwinsNext]_twinVars PROVE TwinsInv'
    OBVIOUS
  <2> USE TwinsAssumption
  <2>1. /\ TwinsTypeOK /\ verdict # "memory_grants"
        /\ verdict = "together" => Alike(mem, sql)
        /\ mem \in Stores /\ sql \in Stores /\ now \in 0..MaxClock
        /\ handles \in [Owners -> {"none", "open", "closed"}]
    BY TwinsInvIsAlike DEF TwinsTypeOK
  <2>2. SUFFICES /\ TwinsTypeOK' /\ verdict' # "memory_grants"
                 /\ verdict' = "together" => Alike(mem, sql)'
    <3> SUFFICES ASSUME TwinsTypeOK', verdict' # "memory_grants",
                        verdict' = "together" => Alike(mem, sql)'
                 PROVE  TwinsInv'
      OBVIOUS
    <3>1. mem' \in Stores /\ sql' \in Stores
      BY DEF TwinsTypeOK
    <3>2. Alike(mem', sql') <=>
            /\ [mem' EXCEPT !.holder = Nobody] = [sql' EXCEPT !.holder = Nobody]
            /\ sql'.holder \in {Nobody, mem'.holder}
      BY <3>1, AlikeButForTheHandle
    <3> QED BY <3>2 DEF TwinsInv, TestsCarryOver, Alike
  <2>3. CASE UNCHANGED twinVars
    BY <2>1, <2>3 DEF twinVars, TwinsTypeOK, Alike
  <2>4. ASSUME NEW m, NEW s, CarriesOver(m, s), Call(m, s),
               now' = now, handles' \in [Owners -> {"none", "open", "closed"}]
        PROVE  /\ TwinsTypeOK' /\ verdict' # "memory_grants"
               /\ verdict' = "together" => Alike(mem, sql)'
    <3>1. /\ mem' \in Stores /\ sql' \in Stores
          /\ verdict' \in {"together", "memory_refuses"}
          /\ verdict' = "together" => Alike(mem, sql)'
      BY <2>4, CallCarriesOver
    <3> QED BY <2>1, <2>4, <3>1 DEF TwinsTypeOK
  <2>5. ASSUME NEW o \in Owners, NEW h \in Hashes, verdict = "together", OpenBoth(o, h)
        PROVE  /\ TwinsTypeOK' /\ verdict' # "memory_grants"
               /\ verdict' = "together" => Alike(mem, sql)'
    <3>1. CarriesOver(MemOpen(mem, o, h), SqlOpen(sql, o, h))
      BY <2>1, <2>5, OpenCarriesOver
    <3>2. Call(MemOpen(mem, o, h), SqlOpen(sql, o, h)) /\ now' = now
      BY <2>5 DEF OpenBoth
    <3>3. handles' \in [Owners -> {"none", "open", "closed"}]
      BY <2>1, <2>5 DEF OpenBoth
    <3> QED BY <2>4, <3>1, <3>2, <3>3
  <2>6. ASSUME NEW o \in Owners, NEW c \in Changes, NEW crash \in BOOLEAN, verdict = "together",
               TransactBoth(o, c, crash)
        PROVE  /\ TwinsTypeOK' /\ verdict' # "memory_grants"
               /\ verdict' = "together" => Alike(mem, sql)'
    <3> DEFINE m == Transacted(mem, o, MemApplied(mem, o, c), crash)
               s == Transacted(sql, o, SqlApplied(sql, o, c), crash)
    <3>1. CarriesOver(MemApplied(mem, o, c), SqlApplied(sql, o, c))
      BY <2>1, <2>6, ChangeCarriesOver
    <3>2. CarriesOver(m, s)
      BY <2>1, <2>6, <3>1, TransactionCarriesOver
    <3>3. Call(m, s) /\ now' = now /\ handles' = handles
      BY <2>6 DEF TransactBoth
    <3> HIDE DEF m, s
    <3> QED BY <2>1, <2>4, <3>2, <3>3
  <2>7. ASSUME NEW o \in Owners, verdict = "together", CloseBoth(o)
        PROVE  /\ TwinsTypeOK' /\ verdict' # "memory_grants"
               /\ verdict' = "together" => Alike(mem, sql)'
    <3>1. CarriesOver(Granted(MemClose(mem, o)), Granted(SqlClose(sql, o)))
      BY <2>1, <2>7, CloseCarriesOver
    <3>2. Call(Granted(MemClose(mem, o)), Granted(SqlClose(sql, o))) /\ now' = now
      BY <2>7 DEF CloseBoth
    <3>3. handles' \in [Owners -> {"none", "open", "closed"}]
      BY <2>1, <2>7 DEF CloseBoth
    <3> QED BY <2>4, <3>1, <3>2, <3>3
  <2>8. CASE TwinsTick
    <3>1. now' \in 0..MaxClock
      BY <2>1, <2>8 DEF TwinsTick
    <3> QED BY <2>1, <2>8, <3>1 DEF TwinsTick, TwinsTypeOK, Alike
  <2> QED BY <2>3, <2>5, <2>6, <2>7, <2>8 DEF TwinsNext
<1> QED BY <1>1, TwinsStart, PTL DEF TwinsSpec

(* What succeeds on the memory store, in any order of opens, changes,      *)
(* closes and expiries, succeeds on SQLite and leaves the same state       *)
(* there.                                                                  *)
THEOREM MemoryTestsCarryOver == TwinsSpec => []TestsCarryOver
<1>1. TwinsInv => TestsCarryOver
  BY DEF TwinsInv
<1> QED BY <1>1, StoresStayAlike, PTL

-----------------------------------------------------------------------------
(* The reconnecting owner *)

ReconnectSpec == ReconnectInit /\ [][ReconnectNext \/ ReplayNext]_reconnectVars

(* A nonempty set of numbers below a bound has a greatest one. *)
LEMMA BoundedMax ==
  ASSUME NEW n \in Nat, NEW S \in SUBSET (0..n), S # {}
  PROVE  Max(S) \in S /\ \A y \in S : Max(S) >= y
<1> DEFINE Less == {p \in Nat \X Nat : p[1] < p[2]}
           Down == {n - x : x \in S}
<1>1. IsWellFoundedOn(Less, Nat)
  BY NatLessThanWellFounded DEF OpToRel
<1>2. \A x, y \in Nat : y < x => <<y, x>> \in Less
  OBVIOUS
<1>3. Down \in SUBSET Nat
  BY SMT
<1>4. Down # {}
  BY Zenon
<1> HIDE DEF Less
<1>5. PICK d \in Down : \A e \in Down : ~(<<e, d>> \in Less)
  BY <1>1, <1>3, <1>4, WFMin
<1>6. \A e \in Down : d <= e
  <2> SUFFICES ASSUME NEW e \in Down PROVE d <= e
    OBVIOUS
  <2>1. d \in Nat /\ e \in Nat
    BY <1>3
  <2>2. ~(e < d)
    BY <1>2, <1>5, <2>1
  <2> QED BY <2>1, <2>2
<1>7. PICK x \in S : d = n - x
  BY <1>5
<1>8. \A y \in S : x >= y
  BY <1>6, <1>7
<1> QED BY <1>7, <1>8 DEF Max

LEMMA ConnectBudgets ==
  /\ MaxAttempts["connect"] \in Nat /\ MaxElapsed["connect"] \in Nat
  /\ MaxDelay["connect"] \in Nat /\ BaseDelay["connect"] \in Nat
  BY RetryAssumption, ReconnectAssumption DEF RetryClasses

LEMMA DelayIsBounded ==
  ASSUME NEW n \in Nat \ {0}, NEW delay \in Delays("connect", n)
  PROVE  delay \in 0..MaxDelay["connect"]
<1>1. n - 1 \in Nat
  OBVIOUS
<1>2. 2 ^ (n - 1) \in Int
  BY <1>1
<1> QED BY <1>2, ConnectBudgets DEF Delays

LEMMA SeriesStart == NoSeries \in ConnectSeries
  BY ConnectBudgets, ReconnectAssumption DEF NoSeries, ConnectSeries

LEMMA CancelledSeries ==
  ASSUME NEW s \in ConnectSeries, NEW at \in 0..MaxTime
  PROVE  /\ Cancelled(s, "ownership_lost", at) \in ConnectSeries
         /\ Cancelled(s, "ownership_lost", at).cancelled # "no"
<1>1. NewSeries("delivery", at) \in ConnectSeries
  BY ConnectBudgets DEF NewSeries, ConnectSeries
<1>2. ASSUME NEW t \in ConnectSeries
      PROVE  /\ [t EXCEPT !.cancelled = "ownership_lost"] \in ConnectSeries
             /\ [t EXCEPT !.cancelled = "ownership_lost"].cancelled = "ownership_lost"
  BY DEF ConnectSeries, LossReasons
<1>3. Cancelled(s, "ownership_lost", at) \in
        {[t EXCEPT !.cancelled = "ownership_lost"] : t \in ConnectSeries}
  BY <1>1 DEF Cancelled
<1> QED BY <1>2, <1>3

(* What decide makes of a transient failure: the series ends, or it counts *)
(* one more attempt within both budgets.                                   *)
LEMMA TransientDecision ==
  ASSUME NEW s \in ConnectSeries, NEW at \in 0..MaxTime,
         s = NoSeries \/ s.class = "connect" \/ s.cancelled # "no"
  PROVE  LET d == Decide(s, "connect", "transient", at)
         IN  \/ d.kind = "give_up" /\ d.series = NoSeries
             \/ /\ d.kind = "retry" /\ d.attempt = s.attempt + 1
                /\ d.series \in ConnectSeries /\ d.series.class = "connect"
                /\ d.series.attempt = d.attempt /\ d.attempt <= MaxAttempts["connect"]
                /\ at <= d.series.since + MaxElapsed["connect"]
                /\ d.delays \subseteq 0..MaxDelay["connect"]
<1> DEFINE d == Decide(s, "connect", "transient", at)
           counted == Counted(s, "connect", at)
<1>1. CASE s.cancelled # "no"
  <2>1. d = GiveUp(s.cancelled, s.attempt, Ended(s))
    BY <1>1 DEF Decide, LossReasons
  <2> QED BY <2>1 DEF GiveUp, Ended
<1>2. CASE s.cancelled = "no"
  <2>1. s = NoSeries \/ s.class = "connect"
    BY <1>2
  <2>2. /\ counted.class = "connect" /\ counted.attempt = s.attempt + 1
        /\ counted.since \in 0..MaxTime /\ counted.cancelled = "no"
        /\ counted = [class |-> "connect", attempt |-> counted.attempt, since |-> counted.since,
                      cancelled |-> "no"]
        /\ s.attempt \in Nat
    <3>1. CASE s = NoSeries
      BY <3>1, <1>2 DEF Counted, NewSeries, NoSeries
    <3>2. CASE s # NoSeries /\ s.class = "connect"
      BY <3>2, <1>2, ConnectBudgets DEF Counted, ConnectSeries
    <3> QED BY <2>1, <3>1, <3>2
  <2> HIDE DEF counted
  <2>3. CASE counted.attempt > MaxAttempts["connect"]
    <3>1. d = GiveUp("max_attempts", counted.attempt, Ended(counted))
      BY <1>2, <2>2, <2>3, ConnectBudgets DEF Decide, counted, LossReasons
    <3> QED BY <3>1 DEF GiveUp, Ended
  <2>4. CASE /\ counted.attempt <= MaxAttempts["connect"]
             /\ at - counted.since > MaxElapsed["connect"]
    <3>1. d = GiveUp("max_elapsed", counted.attempt, Ended(counted))
      BY <1>2, <2>2, <2>4, ConnectBudgets DEF Decide, counted, LossReasons
    <3> QED BY <3>1 DEF GiveUp, Ended
  <2>5. CASE /\ counted.attempt <= MaxAttempts["connect"]
             /\ at - counted.since <= MaxElapsed["connect"]
    <3>1. d = [kind |-> "retry", reason |-> "none", attempt |-> counted.attempt,
               delays |-> Delays("connect", counted.attempt), series |-> counted]
      BY <1>2, <2>2, <2>5, ConnectBudgets DEF Decide, counted, LossReasons
    <3>2. counted \in ConnectSeries
      BY <2>2, <2>5, ConnectBudgets DEF ConnectSeries
    <3>3. Delays("connect", counted.attempt) \subseteq 0..MaxDelay["connect"]
      BY <2>2, DelayIsBounded
    <3>4. at <= counted.since + MaxElapsed["connect"]
      BY <2>2, <2>5, ConnectBudgets, ReconnectAssumption
    <3> QED BY <2>2, <2>5, <3>1, <3>2, <3>3, <3>4
  <2> QED BY <2>2, <2>3, <2>4, <2>5, ConnectBudgets, ReconnectAssumption
<1> QED BY <1>1, <1>2

(* onTransientDisconnect keeps the count and both budgets.                 *)
LEMMA TransientDisconnectIsBudgeted ==
  ASSUME ReconnectInv, link # "stopped", OnTransientDisconnect, time' = time
  PROVE  /\ TriesAreCounted' /\ ConnectsAreBudgeted'
         /\ series' \in ConnectSeries /\ dueAt' \in Nat /\ tries' \in Nat
         /\ link' \in {"down", "stopped"}
<1>1. /\ series \in ConnectSeries /\ time \in 0..MaxTime /\ dueAt \in Nat /\ tries \in Nat
      /\ tries <= series.attempt /\ TriesAreCounted
      /\ tries <= MaxAttempts["connect"] /\ tries <= ConnectCap
  BY DEF ReconnectInv, ReconnectTypeOK, ReconnectPromise, ConnectsAreBudgeted, TriesAreCounted
<1> DEFINE d == Decide(series, "connect", "transient", time)
<1>2. \/ d.kind = "give_up" /\ d.series = NoSeries
      \/ /\ d.kind = "retry" /\ d.attempt = series.attempt + 1
         /\ d.series \in ConnectSeries /\ d.series.class = "connect"
         /\ d.series.attempt = d.attempt /\ d.attempt <= MaxAttempts["connect"]
         /\ time <= d.series.since + MaxElapsed["connect"]
         /\ d.delays \subseteq 0..MaxDelay["connect"]
  BY <1>1, TransientDecision DEF TriesAreCounted
<1>3. \/ /\ d.kind = "give_up" /\ series' = d.series /\ link' = "stopped" /\ UNCHANGED <<dueAt, tries>>
      \/ /\ d.kind = "retry" /\ d.attempt > ConnectCap
         /\ series' = Cancelled(d.series, "ownership_lost", time) /\ link' = "stopped"
         /\ UNCHANGED <<dueAt, tries>>
      \/ /\ d.kind = "retry" /\ d.attempt <= ConnectCap /\ series' = d.series /\ link' = "down"
         /\ \E delay \in d.delays : dueAt' = time + delay
         /\ tries' = tries + 1
  BY DEF OnTransientDisconnect
<1>4. series.attempt \in Nat /\ ConnectCap \in Nat
  BY <1>1, ConnectBudgets, ReconnectAssumption DEF ConnectSeries
<1> HIDE DEF d
<1>5. CASE d.kind = "give_up"
  <2>1. series' = NoSeries /\ link' = "stopped" /\ UNCHANGED <<dueAt, tries>>
    BY <1>2, <1>3, <1>5
  <2> QED BY <1>1, <2>1, SeriesStart DEF TriesAreCounted, ConnectsAreBudgeted
<1>6. CASE d.kind = "retry" /\ d.attempt > ConnectCap
  <2>1. /\ series' = Cancelled(d.series, "ownership_lost", time) /\ link' = "stopped"
        /\ UNCHANGED <<dueAt, tries>> /\ d.series \in ConnectSeries
    BY <1>2, <1>3, <1>4, <1>6
  <2>2. series' \in ConnectSeries /\ series'.cancelled # "no"
    BY <1>1, <2>1, CancelledSeries
  <2> QED BY <1>1, <2>1, <2>2 DEF TriesAreCounted, ConnectsAreBudgeted
<1>7. CASE d.kind = "retry" /\ d.attempt <= ConnectCap
  <2>1. /\ series' = d.series /\ link' = "down" /\ tries' = tries + 1
        /\ \E delay \in d.delays : dueAt' = time + delay
    BY <1>2, <1>3, <1>4, <1>7
  <2>2. PICK delay \in 0..MaxDelay["connect"] : dueAt' = time + delay
    BY <1>2, <1>7, <2>1
  <2>3. /\ series' \in ConnectSeries /\ series'.class = "connect" /\ tries' <= series'.attempt
        /\ tries' <= MaxAttempts["connect"] /\ tries' <= ConnectCap /\ tries' \in Nat
    BY <1>1, <1>2, <1>4, <1>7, <2>1, ConnectBudgets
  <2>4. dueAt' \in Nat /\ dueAt' <= series'.since + MaxElapsed["connect"] + MaxDelay["connect"]
    <3>1. time <= series'.since + MaxElapsed["connect"] /\ series'.since \in Nat
      BY <1>2, <1>7, <2>1, <2>3, ReconnectAssumption DEF ConnectSeries
    <3> QED BY <1>1, <2>2, <3>1, ConnectBudgets, ReconnectAssumption
  <2> QED BY <2>1, <2>3, <2>4 DEF TriesAreCounted, ConnectsAreBudgeted
<1> QED BY <1>2, <1>4, <1>5, <1>6, <1>7

(* The two halves of the invariant: the delivery and the replayed mail, and *)
(* the link with its budgets.                                              *)
DeliveryPart ==
    /\ inFlight = NoDelivery \/ inFlight \in [id : Deliveries, boundary : Boundaries]
    /\ committed \subseteq Deliveries /\ begun \in 0..MaxDeliveries
    /\ served \in [Deliveries -> Nat] /\ ambiguous \in [Deliveries -> 0..MaxOutages]
    /\ BoundariesTell /\ UnbegunIsUnserved /\ AmbiguityIsOutage /\ AtLeastOnce

LinkPart ==
    /\ series \in ConnectSeries
    /\ time \in 0..MaxTime /\ dueAt \in Nat /\ tries \in Nat
    /\ link \in {"up", "down", "stopped"} /\ outages \in 0..MaxOutages
    /\ TriesAreCounted /\ ConnectsAreBudgeted

ReplayPart ==
    /\ mail \subseteq 1..MaxMail /\ after \in 0..MaxMail
    /\ replayed \in [1..MaxMail -> Nat]
    /\ ReplayedUpToMail /\ ReplayCoversMail

LEMMA ReconnectParts == ReconnectInv <=> DeliveryPart /\ LinkPart /\ ReplayPart
  BY DEF ReconnectInv, ReconnectTypeOK, ReconnectPromise, DeliveryPart, LinkPart, ReplayPart

LEMMA ReconnectStart == ReconnectInit => ReconnectInv
<1> SUFFICES ASSUME ReconnectInit PROVE ReconnectInv
  OBVIOUS
<1> USE ReconnectAssumption
<1>1. DeliveryPart
  BY DEF ReconnectInit, DeliveryPart, BoundariesTell, UnbegunIsUnserved, AmbiguityIsOutage,
         AtLeastOnce, Deliveries, NoDelivery
<1>2. LinkPart
  <2>1. series.attempt = 0
    BY DEF ReconnectInit, NoSeries
  <2> QED BY <2>1, SeriesStart, ConnectBudgets
        DEF ReconnectInit, LinkPart, TriesAreCounted, ConnectsAreBudgeted
<1>3. ReplayPart
  BY DEF ReconnectInit, ReplayPart, ReplayedUpToMail, ReplayCoversMail
<1> QED BY <1>1, <1>2, <1>3, ReconnectParts

(* The delivery, from boundary to boundary.                                *)
LEMMA DeliverySteps ==
  ASSUME ReconnectInv, Begin \/ Write \/ Respond \/ Commit \/ DeliveryDone
  PROVE  ReconnectInv'
<1> USE ReconnectAssumption
<1>1. DeliveryPart /\ LinkPart /\ ReplayPart
  BY ReconnectParts
<1>2. UNCHANGED <<linkVars, replayVars>> /\ link = "up"
  BY DEF Begin, Write, Respond, Commit, DeliveryDone, Reaches
<1>3. LinkPart' /\ ReplayPart'
  BY <1>1, <1>2 DEF linkVars, replayVars, LinkPart, ReplayPart, TriesAreCounted,
                    ConnectsAreBudgeted, ReplayedUpToMail, ReplayCoversMail
<1>4. link' = "up" /\ outages' = outages
  BY <1>2 DEF linkVars
<1>5. inFlight \in [id : Deliveries, boundary : Boundaries] \/ inFlight = NoDelivery
  BY <1>1 DEF DeliveryPart
<1>6. inFlight # NoDelivery => inFlight \in [id : Deliveries, boundary : Boundaries]
  BY <1>5
<1>7. DeliveryPart'
  <2>1. CASE Begin
    <3>1. /\ begun' = begun + 1 /\ begun' \in Deliveries
          /\ inFlight' = [id |-> begun + 1, boundary |-> "before_send"]
          /\ UNCHANGED <<committed, served, ambiguous>>
      BY <1>1, <2>1 DEF Begin, DeliveryPart, Deliveries
    <3>2. served[begun + 1] = 0
      BY <1>1, <3>1 DEF DeliveryPart, UnbegunIsUnserved
    <3>3. inFlight'.id = begun + 1 /\ inFlight'.boundary = "before_send"
      BY <3>1
    <3>4. BoundariesTell'
      BY <1>1, <3>1, <3>2, <3>3 DEF BoundariesTell, DeliveryPart
    <3>5. AtLeastOnce'
      BY <1>1, <3>1, <3>3 DEF AtLeastOnce, DeliveryPart
    <3>6. UnbegunIsUnserved' /\ AmbiguityIsOutage'
      BY <1>1, <1>4, <3>1 DEF UnbegunIsUnserved, AmbiguityIsOutage, DeliveryPart
    <3>7. inFlight' \in [id : Deliveries, boundary : Boundaries] /\ begun' \in 0..MaxDeliveries
      BY <3>1 DEF Boundaries, Deliveries
    <3> QED BY <1>1, <3>1, <3>4, <3>5, <3>6, <3>7 DEF DeliveryPart
  <2>2. CASE Write
    <3>1. /\ inFlight.boundary = "before_send" /\ inFlight' = [inFlight EXCEPT !.boundary = "after_write"]
          /\ UNCHANGED <<begun, committed, served, ambiguous>>
      BY <2>2 DEF Write, Reaches
    <3>2. inFlight # NoDelivery
      BY <3>1 DEF NoDelivery
    <3>3. /\ inFlight'.id = inFlight.id /\ inFlight'.boundary = "after_write"
          /\ inFlight' \in [id : Deliveries, boundary : Boundaries]
      BY <1>6, <3>1, <3>2 DEF Boundaries
    <3> QED BY <1>1, <1>4, <3>1, <3>2, <3>3
          DEF DeliveryPart, BoundariesTell, UnbegunIsUnserved, AmbiguityIsOutage, AtLeastOnce
  <2>3. CASE Respond
    <3>1. /\ inFlight.boundary = "after_write"
          /\ inFlight' = [inFlight EXCEPT !.boundary = "after_response"]
          /\ served' = [served EXCEPT ![inFlight.id] = @ + 1]
          /\ UNCHANGED <<begun, committed, ambiguous>>
      BY <2>3 DEF Respond, Reaches
    <3>2. inFlight # NoDelivery
      BY <3>1 DEF NoDelivery
    <3>3. /\ inFlight'.id = inFlight.id /\ inFlight'.boundary = "after_response"
          /\ inFlight' \in [id : Deliveries, boundary : Boundaries]
          /\ inFlight.id \in Deliveries /\ inFlight.id = begun
      BY <1>1, <1>6, <3>1, <3>2 DEF Boundaries, DeliveryPart, BoundariesTell
    <3>4. served[inFlight.id] <= ambiguous[inFlight.id]
      BY <1>1, <3>1 DEF DeliveryPart, BoundariesTell
    <3>5. /\ served' \in [Deliveries -> Nat]
          /\ \A d \in Deliveries : served'[d] = IF d = begun THEN served[d] + 1 ELSE served[d]
      BY <1>1, <3>1, <3>3 DEF DeliveryPart
    <3>6. BoundariesTell'
      BY <1>1, <1>4, <3>1, <3>3, <3>5 DEF DeliveryPart, BoundariesTell
    <3>7. AtLeastOnce'
      BY <1>1, <3>1, <3>3, <3>4, <3>5 DEF DeliveryPart, AtLeastOnce
    <3>8. UnbegunIsUnserved' /\ AmbiguityIsOutage'
      BY <1>1, <1>4, <3>1, <3>3, <3>5 DEF DeliveryPart, UnbegunIsUnserved, AmbiguityIsOutage
    <3> QED BY <1>1, <3>1, <3>3, <3>5, <3>6, <3>7, <3>8 DEF DeliveryPart
  <2>4. CASE Commit
    <3>1. /\ inFlight.boundary = "after_response"
          /\ inFlight' = [inFlight EXCEPT !.boundary = "after_commit"]
          /\ committed' = committed \cup {inFlight.id}
          /\ UNCHANGED <<begun, served, ambiguous>>
      BY <2>4 DEF Commit, Reaches
    <3>2. inFlight # NoDelivery
      BY <3>1 DEF NoDelivery
    <3>3. /\ inFlight'.id = inFlight.id /\ inFlight'.boundary = "after_commit"
          /\ inFlight' \in [id : Deliveries, boundary : Boundaries]
          /\ inFlight.id \in Deliveries /\ inFlight.id = begun /\ served[inFlight.id] >= 1
      BY <1>1, <1>6, <3>1, <3>2 DEF Boundaries, DeliveryPart, BoundariesTell
    <3> QED BY <1>1, <1>4, <3>1, <3>2, <3>3
          DEF DeliveryPart, BoundariesTell, UnbegunIsUnserved, AmbiguityIsOutage, AtLeastOnce
  <2>5. CASE DeliveryDone
    <3>1. /\ inFlight.boundary = "after_commit" /\ inFlight' = NoDelivery
          /\ UNCHANGED <<begun, committed, served, ambiguous>>
      BY <2>5 DEF DeliveryDone
    <3>2. inFlight # NoDelivery
      BY <3>1 DEF NoDelivery
    <3>3. inFlight.id \in committed /\ inFlight.id = begun
      BY <1>1, <3>1, <3>2 DEF DeliveryPart, BoundariesTell
    <3>4. inFlight'.boundary = "none"
      BY <3>1 DEF NoDelivery
    <3> QED BY <1>1, <1>4, <3>1, <3>3, <3>4
          DEF DeliveryPart, BoundariesTell, UnbegunIsUnserved, AmbiguityIsOutage, AtLeastOnce
  <2> QED BY <2>1, <2>2, <2>3, <2>4, <2>5
<1> QED BY <1>3, <1>7, ReconnectParts DEF ReconnectInv, DeliveryPart, LinkPart, ReplayPart,
                                          ReconnectTypeOK, ReconnectPromise

(* An outage: at a boundary that leaves the acceptance open, the thread    *)
(* may have been served, and this is counted as ambiguous either way.      *)
LEMMA OutageKeepsDelivery ==
  ASSUME DeliveryPart, outages \in Nat, CutOff, link' # "up"
  PROVE  DeliveryPart' /\ outages' = outages + 1 /\ outages' \in 0..MaxOutages
<1> USE ReconnectAssumption
<1>1. /\ inFlight' = inFlight /\ begun' = begun /\ committed' = committed
      /\ link = "up" /\ outages' = outages + 1 /\ outages' \in 0..MaxOutages
  BY DEF CutOff
<1>2. CASE inFlight.boundary \notin {"after_write", "after_response"}
  <2>1. ambiguous' = ambiguous /\ served' = served
    BY <1>2 DEF CutOff, AcceptanceAmbiguous
  <2>2. AmbiguityIsOutage'
    BY <1>1, <2>1 DEF DeliveryPart, AmbiguityIsOutage
  <2> QED BY <1>1, <1>2, <2>1, <2>2 DEF DeliveryPart, BoundariesTell, UnbegunIsUnserved, AtLeastOnce
<1>3. CASE inFlight.boundary \in {"after_write", "after_response"}
  <2>1. inFlight # NoDelivery
    BY <1>3 DEF NoDelivery
  <2>2. inFlight.id \in Deliveries /\ inFlight.id = begun
    BY <2>1 DEF DeliveryPart, BoundariesTell
  <2>3. /\ ambiguous' = [ambiguous EXCEPT ![begun] = @ + 1]
        /\ served' = served \/ /\ inFlight.boundary = "after_write"
                               /\ served' = [served EXCEPT ![begun] = @ + 1]
    BY <1>3, <2>2 DEF CutOff, AcceptanceAmbiguous
  <2>4. /\ \A d \in Deliveries :
             /\ ambiguous'[d] = IF d = begun THEN ambiguous[d] + 1 ELSE ambiguous[d]
             /\ ambiguous[d] <= outages /\ ambiguous[d] \in Nat /\ served[d] \in Nat
        /\ ambiguous' \in [Deliveries -> 0..MaxOutages]
    <3>1. \A d \in Deliveries : ambiguous[d] <= outages /\ ambiguous[d] \in Nat /\ served[d] \in Nat
      BY DEF DeliveryPart, AmbiguityIsOutage
    <3> QED BY <1>1, <2>2, <2>3, <3>1 DEF DeliveryPart
  <2>5. /\ served' \in [Deliveries -> Nat]
        /\ \A d \in Deliveries : served'[d] \in {served[d], IF d = begun THEN served[d] + 1 ELSE served[d]}
        /\ inFlight.boundary = "after_response" => served' = served
    BY <2>2, <2>3 DEF DeliveryPart
  <2>6. served[begun] <= 1 + ambiguous[begun]
    BY <2>2 DEF DeliveryPart, AtLeastOnce
  <2>7. inFlight.boundary = "after_write" => served[begun] <= ambiguous[begun]
    BY <2>2 DEF DeliveryPart, BoundariesTell
  <2>8. BoundariesTell'
    <3>1. inFlight.boundary = "after_response" => served[begun] >= 1
      BY <2>2 DEF DeliveryPart, BoundariesTell
    <3>2. served'[begun] <= ambiguous'[begun]
      BY <1>3, <2>2, <2>4, <2>5, <2>6, <2>7
    <3> QED BY <1>1, <1>3, <2>2, <2>5, <3>1, <3>2 DEF BoundariesTell
  <2>9. AtLeastOnce'
    <3>1. \A d \in Deliveries : served'[d] <= 1 + ambiguous'[d]
      BY <2>4, <2>5, <2>6, <2>7, <1>3 DEF DeliveryPart, AtLeastOnce
    <3>2. \A d \in committed : served'[d] >= 1
      BY <2>4, <2>5 DEF DeliveryPart, AtLeastOnce
    <3> QED BY <1>1, <3>1, <3>2 DEF DeliveryPart, AtLeastOnce
  <2>10. UnbegunIsUnserved'
    BY <1>1, <2>2, <2>5 DEF DeliveryPart, UnbegunIsUnserved, Deliveries
  <2>11. AmbiguityIsOutage'
    BY <1>1, <2>4 DEF AmbiguityIsOutage
  <2> QED BY <1>1, <2>4, <2>5, <2>8, <2>9, <2>10, <2>11 DEF DeliveryPart
<1> QED BY <1>1, <1>2, <1>3

(* The link, as it is lost, tried, resumed and given up.                   *)
LEMMA LinkSteps ==
  ASSUME ReconnectInv,
         \/ Disconnect \/ ConnectFails \/ Resumed \/ ThreadLost
         \/ OnOwnershipLost \/ Reacquire \/ ReconnectTick
  PROVE  ReconnectInv'
<1> USE ReconnectAssumption
<1>1. DeliveryPart /\ LinkPart /\ ReplayPart
  BY ReconnectParts
<1>2. ReplayPart'
  <2>1. UNCHANGED replayVars
    BY DEF Disconnect, CutOff, ConnectFails, Resumed, ThreadLost, OnOwnershipLost, Reacquire,
           ReconnectTick
  <2> QED BY <1>1, <2>1 DEF replayVars, ReplayPart, ReplayedUpToMail, ReplayCoversMail
<1>3. /\ series \in ConnectSeries /\ time \in 0..MaxTime /\ dueAt \in Nat /\ tries \in Nat
      /\ outages \in 0..MaxOutages /\ outages \in Nat
      /\ tries <= MaxAttempts["connect"] /\ tries <= ConnectCap
  BY <1>1 DEF LinkPart, ConnectsAreBudgeted
<1>4. ASSUME UNCHANGED deliveryVars, outages' \in {outages, outages + 1}, link # "up"
      PROVE  DeliveryPart'
  <2>1. /\ inFlight' = inFlight /\ begun' = begun /\ committed' = committed /\ served' = served
        /\ ambiguous' = ambiguous
    BY <1>4 DEF deliveryVars
  <2>2. BoundariesTell'
    BY <1>1, <1>4, <2>1 DEF DeliveryPart, BoundariesTell
  <2>3. AmbiguityIsOutage'
    <3>1. \A d \in Deliveries : ambiguous[d] <= outages /\ ambiguous[d] \in Nat
      BY <1>1 DEF DeliveryPart, AmbiguityIsOutage
    <3> QED BY <1>3, <1>4, <2>1, <3>1 DEF AmbiguityIsOutage
  <2> QED BY <1>1, <2>1, <2>2, <2>3 DEF DeliveryPart, UnbegunIsUnserved, AtLeastOnce
<1>5. CASE Disconnect
  <2>1. link = "up" /\ time' = time /\ CutOff /\ OnTransientDisconnect
    BY <1>5 DEF Disconnect, CutOff
  <2>2. /\ TriesAreCounted' /\ ConnectsAreBudgeted' /\ series' \in ConnectSeries
        /\ dueAt' \in Nat /\ tries' \in Nat /\ link' \in {"down", "stopped"}
    BY <2>1, TransientDisconnectIsBudgeted
  <2>3. DeliveryPart' /\ outages' \in 0..MaxOutages
    BY <1>1, <1>3, <2>1, <2>2, OutageKeepsDelivery
  <2>4. LinkPart'
    BY <1>3, <2>1, <2>2, <2>3 DEF LinkPart
  <2> QED BY <1>2, <2>3, <2>4 DEF ReconnectInv, ReconnectTypeOK, ReconnectPromise, DeliveryPart,
                                  LinkPart, ReplayPart
<1>6. CASE ConnectFails
  <2>1. link = "down" /\ UNCHANGED <<time, outages, deliveryVars>> /\ OnTransientDisconnect
    BY <1>6 DEF ConnectFails, ConnectDue
  <2>2. /\ TriesAreCounted' /\ ConnectsAreBudgeted' /\ series' \in ConnectSeries
        /\ dueAt' \in Nat /\ tries' \in Nat /\ link' \in {"down", "stopped"}
    BY <2>1, TransientDisconnectIsBudgeted
  <2>3. DeliveryPart'
    BY <1>4, <2>1
  <2>4. LinkPart'
    BY <1>3, <2>1, <2>2 DEF LinkPart
  <2> QED BY <1>2, <2>3, <2>4 DEF ReconnectInv, ReconnectTypeOK, ReconnectPromise, DeliveryPart,
                                  LinkPart, ReplayPart
<1>7. CASE Resumed
  <2>1. /\ link = "down" /\ link' = "up" /\ series' = NoSeries /\ tries' = 0
        /\ inFlight' = PlanAfterResume(inFlight)
        /\ UNCHANGED <<time, dueAt, outages, begun, committed, served, ambiguous>>
    BY <1>7 DEF Resumed, ConnectDue
  <2>2. LinkPart'
    <3>1. series'.attempt = 0
      BY <2>1 DEF NoSeries
    <3> QED BY <1>3, <2>1, <3>1, SeriesStart, ConnectBudgets
          DEF LinkPart, TriesAreCounted, ConnectsAreBudgeted
  <2>3. DeliveryPart'
    <3>1. CASE inFlight.boundary \in {"none", "after_commit"}
      <4>1. inFlight' = NoDelivery /\ inFlight'.boundary = "none"
        BY <2>1, <3>1 DEF PlanAfterResume, NoDelivery
      <4>2. begun > 0 => begun \in committed
        <5>1. inFlight # NoDelivery => inFlight.id = begun /\ inFlight.id \in committed
          BY <1>1, <3>1 DEF DeliveryPart, BoundariesTell, Boundaries
        <5>2. inFlight = NoDelivery => inFlight.id = 0
          BY DEF NoDelivery
        <5> QED BY <1>1, <5>1, <5>2 DEF DeliveryPart, AtLeastOnce
      <4> QED BY <1>1, <2>1, <4>1, <4>2
            DEF DeliveryPart, BoundariesTell, UnbegunIsUnserved, AmbiguityIsOutage, AtLeastOnce
    <3>2. CASE inFlight.boundary \notin {"none", "after_commit"}
      <4>1. inFlight # NoDelivery
        BY <3>2 DEF NoDelivery
      <4>2. inFlight \in [id : Deliveries, boundary : Boundaries] /\ inFlight.id = begun
        BY <1>1, <4>1 DEF DeliveryPart, BoundariesTell
      <4>3. /\ inFlight' = [inFlight EXCEPT !.boundary = "before_send"]
            /\ inFlight.boundary \in {"before_send", "after_write", "after_response"}
        BY <2>1, <3>2, <4>2 DEF PlanAfterResume, Boundaries
      <4>4. /\ inFlight'.id = begun /\ inFlight'.boundary = "before_send"
            /\ inFlight' \in [id : Deliveries, boundary : Boundaries]
        BY <4>2, <4>3 DEF Boundaries
      <4>5. served[begun] <= ambiguous[begun]
        BY <1>1, <2>1, <4>2, <4>3 DEF DeliveryPart, BoundariesTell
      <4>6. BoundariesTell'
        BY <2>1, <4>4, <4>5 DEF BoundariesTell
      <4>7. AtLeastOnce'
        BY <1>1, <2>1, <4>2, <4>4 DEF DeliveryPart, AtLeastOnce
      <4> QED BY <1>1, <2>1, <4>4, <4>6, <4>7
            DEF DeliveryPart, UnbegunIsUnserved, AmbiguityIsOutage
    <3> QED BY <3>1, <3>2
  <2> QED BY <1>2, <2>2, <2>3 DEF ReconnectInv, ReconnectTypeOK, ReconnectPromise, DeliveryPart,
                                  LinkPart, ReplayPart
<1>8. CASE ThreadLost
  <2>1. /\ link = "down" /\ link' = "stopped" /\ series' = Cancelled(series, "ownership_lost", time)
        /\ UNCHANGED <<time, dueAt, tries, outages, deliveryVars>>
    BY <1>8 DEF ThreadLost, ConnectDue
  <2>2. series' \in ConnectSeries /\ series'.cancelled # "no"
    BY <1>3, <2>1, CancelledSeries
  <2>3. LinkPart'
    BY <1>3, <2>1, <2>2 DEF LinkPart, TriesAreCounted, ConnectsAreBudgeted
  <2>4. DeliveryPart'
    BY <1>4, <2>1
  <2> QED BY <1>2, <2>3, <2>4 DEF ReconnectInv, ReconnectTypeOK, ReconnectPromise, DeliveryPart,
                                  LinkPart, ReplayPart
<1>9. CASE OnOwnershipLost
  <2>1. /\ link' = "stopped" /\ series' = Cancelled(series, "ownership_lost", time)
        /\ UNCHANGED <<time, dueAt, tries>>
        /\ \/ CutOff
           \/ link = "down" /\ UNCHANGED <<outages, deliveryVars>>
    BY <1>9 DEF OnOwnershipLost, CutOff
  <2>2. series' \in ConnectSeries /\ series'.cancelled # "no"
    BY <1>3, <2>1, CancelledSeries
  <2>3. DeliveryPart' /\ outages' \in 0..MaxOutages
    <3>1. CASE CutOff
      BY <1>1, <1>3, <2>1, <3>1, OutageKeepsDelivery
    <3>2. CASE link = "down" /\ UNCHANGED <<outages, deliveryVars>>
      BY <1>3, <1>4, <3>2
    <3> QED BY <2>1, <3>1, <3>2
  <2>4. LinkPart'
    BY <1>3, <2>1, <2>2, <2>3 DEF LinkPart, TriesAreCounted, ConnectsAreBudgeted
  <2> QED BY <1>2, <2>3, <2>4 DEF ReconnectInv, ReconnectTypeOK, ReconnectPromise, DeliveryPart,
                                  LinkPart, ReplayPart
<1>10. CASE Reacquire
  <2>1. /\ link = "stopped" /\ link' = "down" /\ dueAt' = time /\ outages' = outages + 1
        /\ outages < MaxOutages /\ tries' = 0 /\ UNCHANGED <<series, time, deliveryVars>>
    BY <1>10 DEF Reacquire
  <2>2. DeliveryPart'
    BY <1>4, <2>1
  <2>3. LinkPart'
    <3>1. series.attempt >= 0 /\ 0 <= MaxAttempts["connect"]
      BY <1>3, ConnectBudgets DEF ConnectSeries
    <3> QED BY <1>1, <1>3, <2>1, <3>1 DEF LinkPart, TriesAreCounted, ConnectsAreBudgeted
  <2> QED BY <1>2, <2>2, <2>3 DEF ReconnectInv, ReconnectTypeOK, ReconnectPromise, DeliveryPart,
                                  LinkPart, ReplayPart
<1>11. CASE ReconnectTick
  <2>1. time' = time + 1 /\ time < MaxTime
        /\ UNCHANGED <<series, link, dueAt, tries, outages, deliveryVars>>
    BY <1>11 DEF ReconnectTick
  <2>2. LinkPart'
    BY <1>1, <1>3, <2>1 DEF LinkPart, TriesAreCounted, ConnectsAreBudgeted
  <2>3. DeliveryPart'
    BY <1>1, <2>1 DEF deliveryVars, DeliveryPart, BoundariesTell, UnbegunIsUnserved,
                      AmbiguityIsOutage, AtLeastOnce
  <2> QED BY <1>2, <2>2, <2>3 DEF ReconnectInv, ReconnectTypeOK, ReconnectPromise, DeliveryPart,
                                  LinkPart, ReplayPart
<1> QED BY <1>5, <1>6, <1>7, <1>8, <1>9, <1>10, <1>11

(* A bounded replay takes the mail from below: with a message it takes all *)
(* that wait before it.                                                    *)
LEMMA PlanIsAnInterval ==
  ASSUME ReplayPart, ReplayPlan # {}
  PROVE  /\ Max(ReplayPlan) \in mail /\ Max(ReplayPlan) > after
         /\ ReplayPlan = {m \in mail : after < m /\ m <= Max(ReplayPlan)}
<1> USE ReconnectAssumption
<1> DEFINE pending == {m \in mail : m > after}
           upTo(m) == {k \in pending : k <= m}
<1>1. ReplayPlan = {m \in pending : Cardinality(upTo(m)) <= ReplayCap}
  BY DEF ReplayPlan
<1>2. pending \in SUBSET (1..MaxMail) /\ mail \in SUBSET (1..MaxMail) /\ after \in Nat
  <2>1. mail \in SUBSET (1..MaxMail) /\ after \in Nat
    BY DEF ReplayPart
  <2> QED BY <2>1
<1>3. ReplayPlan \in SUBSET (0..MaxMail)
  BY <1>1, <1>2
<1> DEFINE top == Max(ReplayPlan)
<1>4. top \in ReplayPlan /\ \A m \in ReplayPlan : top >= m
  BY <1>3, BoundedMax
<1>6. \A m \in pending : m \in mail /\ m > after
  OBVIOUS
<1>7. \A m \in mail : m > after => m \in pending
  OBVIOUS
<1> HIDE DEF top, pending
<1>5. ASSUME NEW m \in pending, m <= top PROVE m \in ReplayPlan
  <2>1. IsFiniteSet(1..MaxMail)
    BY FS_Interval
  <2>2. IsFiniteSet(upTo(top)) /\ upTo(top) \in SUBSET (1..MaxMail)
    BY <1>2, <2>1, FS_Subset
  <2>3. upTo(m) \in SUBSET upTo(top)
    <3>1. m \in Nat /\ top \in Nat
      BY <1>1, <1>2, <1>4, <1>5
    <3>2. \A k \in pending : k \in Nat
      BY <1>2
    <3>3. \A k \in pending : k <= m => k <= top
      <4> SUFFICES ASSUME NEW k \in pending, k <= m PROVE k <= top
        OBVIOUS
      <4>1. k \in Nat /\ m <= top
        BY <1>5, <3>2
      <4> QED BY <3>1, <4>1
    <3> QED BY <3>3
  <2>4. Cardinality(upTo(m)) <= Cardinality(upTo(top))
    BY <2>2, <2>3, FS_Subset
  <2>5. Cardinality(upTo(m)) \in Nat /\ Cardinality(upTo(top)) \in Nat
    BY <2>2, <2>3, FS_Subset, FS_CardinalityType
  <2>6. Cardinality(upTo(top)) <= ReplayCap
    BY <1>1, <1>4
  <2>7. Cardinality(upTo(m)) <= ReplayCap
    BY <2>4, <2>5, <2>6
  <2> QED BY <1>1, <1>5, <2>7
<1>8. top \in pending
  BY <1>1, <1>4
<1>9. ReplayPlan = {m \in mail : after < m /\ m <= top}
  <2>1. ASSUME NEW m \in ReplayPlan PROVE m \in mail /\ after < m /\ m <= top
    <3>1. m \in pending /\ top >= m
      BY <1>1, <1>4
    <3> QED BY <1>2, <1>6, <1>8, <3>1
  <2>2. ASSUME NEW m \in mail, after < m, m <= top PROVE m \in ReplayPlan
    <3>1. m \in pending
      BY <1>2, <1>7, <2>2
    <3> QED BY <1>5, <2>2, <3>1
  <2> QED BY <2>1, <2>2
<1> QED BY <1>6, <1>8, <1>9 DEF top

LEMMA ReplaySteps == ASSUME ReconnectInv, ReplayNext PROVE ReconnectInv'
<1> USE ReconnectAssumption
<1>1. DeliveryPart /\ LinkPart /\ ReplayPart
  BY ReconnectParts
<1>2. DeliveryPart' /\ LinkPart'
  <2>1. UNCHANGED <<linkVars, deliveryVars>>
    BY DEF ReplayNext, ReplayDrain, ReplayArrives
  <2> QED BY <1>1, <2>1 DEF linkVars, deliveryVars, DeliveryPart, LinkPart, BoundariesTell,
                UnbegunIsUnserved, AmbiguityIsOutage, AtLeastOnce, TriesAreCounted, ConnectsAreBudgeted
<1>3. ReplayPart'
  <2>1. CASE ReplayDrain
    <3>1. /\ ReplayPlan # {} /\ after' = Max(ReplayPlan) /\ mail' = mail
          /\ replayed' = [i \in 1..MaxMail |-> replayed[i] + IF i \in ReplayPlan THEN 1 ELSE 0]
      BY <2>1 DEF ReplayDrain
    <3>2. /\ after' \in mail /\ after' > after
          /\ ReplayPlan = {m \in mail : after < m /\ m <= after'}
      BY <1>1, <3>1, PlanIsAnInterval
    <3>3. \A i \in 1..MaxMail : replayed'[i] = IF i \in mail /\ i <= after' THEN 1 ELSE 0
      <4> SUFFICES ASSUME NEW i \in 1..MaxMail
                   PROVE  replayed'[i] = IF i \in mail /\ i <= after' THEN 1 ELSE 0
        OBVIOUS
      <4>1. replayed[i] = IF i \in mail /\ i <= after THEN 1 ELSE 0
        BY <1>1 DEF ReplayPart, ReplayCoversMail
      <4>2. replayed'[i] = replayed[i] + IF i \in mail /\ after < i /\ i <= after' THEN 1 ELSE 0
        BY <3>1, <3>2
      <4>3. after \in Nat /\ after' \in Nat
        BY <1>1, <3>2 DEF ReplayPart
      <4> QED BY <3>2, <4>1, <4>2, <4>3
    <3>4. replayed' \in [1..MaxMail -> Nat]
      BY <1>1, <3>1 DEF ReplayPart
    <3> QED BY <1>1, <3>1, <3>2, <3>3, <3>4 DEF ReplayPart, ReplayedUpToMail, ReplayCoversMail
  <2>2. ASSUME NEW m \in 1..MaxMail, ReplayArrives(m) PROVE ReplayPart'
    <3>1. (\A k \in mail : k < m) /\ mail' = mail \cup {m} /\ UNCHANGED <<after, replayed>>
      BY <2>2 DEF ReplayArrives
    <3>2. m > after
      BY <1>1, <3>1 DEF ReplayPart, ReplayedUpToMail
    <3> QED BY <1>1, <3>1, <3>2 DEF ReplayPart, ReplayedUpToMail, ReplayCoversMail
  <2> QED BY <2>1, <2>2 DEF ReplayNext
<1> QED BY <1>2, <1>3 DEF ReconnectInv, ReconnectTypeOK, ReconnectPromise, DeliveryPart,
                          LinkPart, ReplayPart

(* Deliveries, link and replay agree in every reachable state.             *)
THEOREM ReconnectIsConsistent == ReconnectSpec => []ReconnectInv
<1>1. ReconnectInv /\ [ReconnectNext \/ ReplayNext]_reconnectVars => ReconnectInv'
  <2> SUFFICES ASSUME ReconnectInv, [ReconnectNext \/ ReplayNext]_reconnectVars
               PROVE  ReconnectInv'
    OBVIOUS
  <2>1. CASE UNCHANGED reconnectVars
    BY <2>1 DEF reconnectVars, linkVars, deliveryVars, replayVars, ReconnectInv, ReconnectTypeOK,
                ReconnectPromise, BoundariesTell, UnbegunIsUnserved, AmbiguityIsOutage, AtLeastOnce,
                TriesAreCounted, ConnectsAreBudgeted, ReplayedUpToMail, ReplayCoversMail
  <2> QED BY <2>1, DeliverySteps, LinkSteps, ReplaySteps DEF ReconnectNext
<1> QED BY <1>1, ReconnectStart, PTL DEF ReconnectSpec

(* However many outages hit a delivery, and at whichever boundary: it is   *)
(* committed only if the thread had it, had again only where its           *)
(* acceptance was open, and lost to none; attempts keep both budgets; and  *)
(* bounded replays cover the mail once (owner/reconnect.ts).               *)
THEOREM ReconnectKeepsPromise == ReconnectSpec => []ReconnectPromise
<1>1. ReconnectInv => ReconnectPromise
  BY DEF ReconnectInv
<1> QED BY <1>1, ReconnectIsConsistent, PTL

-----------------------------------------------------------------------------
(* Numbers and orders *)

(* Induction, for a set of numbers. *)
LEMMA NatSetInduction ==
  ASSUME NEW S \in SUBSET Nat, 0 \in S, \A n \in S : n + 1 \in S
  PROVE  S = Nat
<1> DEFINE Less == {p \in Nat \X Nat : p[1] < p[2]}
           Out == Nat \ S
<1> SUFFICES ASSUME Out # {} PROVE FALSE
  OBVIOUS
<1>1. IsWellFoundedOn(Less, Nat)
  BY NatLessThanWellFounded DEF OpToRel
<1>2. \A x, y \in Nat : y < x => <<y, x>> \in Less
  OBVIOUS
<1> HIDE DEF Less
<1>3. Out \in SUBSET Nat
  OBVIOUS
<1> HIDE DEF Out
<1>4. PICK d \in Out : \A e \in Out : ~(<<e, d>> \in Less)
  BY <1>1, <1>3, WFMin
<1>5. d \in Nat /\ d \notin S /\ d # 0
  BY <1>3, <1>4 DEF Out
<1>6. d - 1 \in Nat /\ d - 1 < d /\ (d - 1) + 1 = d
  BY <1>5
<1>7. d - 1 \notin S
  BY <1>5, <1>6
<1>8. d - 1 \in Out
  BY <1>6, <1>7 DEF Out
<1> QED BY <1>2, <1>4, <1>5, <1>6, <1>8

(* A finite set has a last element, and can be listed, under a total order *)
(* of its elements.                                                        *)
Orders(R, U) ==
  /\ \A x, y \in U : x # y => <<x, y>> \in R \/ <<y, x>> \in R
  /\ \A x, y, z \in U : <<x, y>> \in R /\ <<y, z>> \in R => <<x, z>> \in R

LEMMA TopmostExists ==
  ASSUME NEW U, NEW R,
         Orders(R, U),
         NEW T \in SUBSET U, IsFiniteSet(T), T # {}
  PROVE  \E m \in T : \A x \in T \ {m} : <<x, m>> \in R
<1> DEFINE Good(V) == \E m \in V : \A x \in V \ {m} : <<x, m>> \in R
           G == {n \in Nat : \A V \in SUBSET U :
                               IsFiniteSet(V) /\ V # {} /\ Cardinality(V) = n => Good(V)}
<1>1. 0 \in G
  <2>1. \A V : IsFiniteSet(V) /\ V # {} => Cardinality(V) # 0
    BY FS_EmptySet
  <2> QED BY <2>1
<1>2. ASSUME NEW n \in G PROVE n + 1 \in G
  <2> SUFFICES ASSUME NEW V \in SUBSET U, IsFiniteSet(V), V # {}, Cardinality(V) = n + 1
               PROVE  Good(V)
    OBVIOUS
  <2>1. PICK v \in V : TRUE
    OBVIOUS
  <2> DEFINE W == V \ {v}
  <2>2. IsFiniteSet(W) /\ Cardinality(W) = n /\ W \in SUBSET U
    <3>1. n \in Nat
      OBVIOUS
    <3>2. IsFiniteSet(W) /\ Cardinality(W) = Cardinality(V) - 1
      BY <2>1, FS_RemoveElement
    <3> QED BY <3>1, <3>2
  <2>3. CASE W = {}
    BY <2>1, <2>3
  <2>4. CASE W # {}
    <3>1. PICK m \in W : \A x \in W \ {m} : <<x, m>> \in R
      BY <2>2, <2>4
    <3>2. v \in U /\ m \in U /\ v # m /\ m \in V
      BY <2>1, <3>1
    <3>2a. /\ <<v, m>> \in R \/ <<m, v>> \in R
           /\ \A x \in U : <<x, m>> \in R /\ <<m, v>> \in R => <<x, v>> \in R
      BY <3>2 DEF Orders
    <3>3. CASE <<v, m>> \in R
      <4>1. \A x \in V \ {m} : <<x, m>> \in R
        BY <3>1, <3>3
      <4> QED BY <3>2, <4>1
    <3>4. CASE <<m, v>> \in R
      <4>1. \A x \in V \ {v} : <<x, v>> \in R
        BY <3>1, <3>2a, <3>4
      <4> QED BY <2>1, <4>1
    <3> QED BY <3>2a, <3>3, <3>4
  <2> QED BY <2>3, <2>4
<1>3. G = Nat
  <2> HIDE DEF G
  <2>1. G \in SUBSET Nat
    BY DEF G
  <2> QED BY <1>1, <1>2, <2>1, NatSetInduction
<1>4. Cardinality(T) \in Nat
  BY FS_CardinalityType
<1>5. Cardinality(T) \in G
  BY <1>3, <1>4
<1> QED BY <1>5

LEMMA ListingExists ==
  ASSUME NEW U, NEW R,
         Orders(R, U),
         NEW T \in SUBSET U, IsFiniteSet(T)
  PROVE  \E s \in [1..Cardinality(T) -> T] :
            /\ {s[k] : k \in DOMAIN s} = T
            /\ \A j, k \in DOMAIN s : j < k => <<s[j], s[k]>> \in R
<1> DEFINE Good(V, n) == \E s \in [1..n -> V] :
             /\ {s[k] : k \in DOMAIN s} = V
             /\ \A j, k \in DOMAIN s : j < k => <<s[j], s[k]>> \in R
           G == {n \in Nat : \A V \in SUBSET U : IsFiniteSet(V) /\ Cardinality(V) = n => Good(V, n)}
<1>1. 0 \in G
  <2> SUFFICES ASSUME NEW V \in SUBSET U, IsFiniteSet(V), Cardinality(V) = 0
               PROVE  Good(V, 0)
    OBVIOUS
  <2>1. V = {}
    BY FS_EmptySet
  <2> DEFINE e == [k \in 1..0 |-> k]
  <2>2. e \in [1..0 -> V] /\ DOMAIN e = {}
    OBVIOUS
  <2> HIDE DEF e
  <2>3. {e[k] : k \in DOMAIN e} = {}
    BY <2>2
  <2> QED BY <2>1, <2>2, <2>3
<1>2. ASSUME NEW n \in G PROVE n + 1 \in G
  <2>0. n \in Nat /\ n + 1 \in Nat
    OBVIOUS
  <2> SUFFICES ASSUME NEW V \in SUBSET U, IsFiniteSet(V), Cardinality(V) = n + 1
               PROVE  Good(V, n + 1)
    <3> HIDE DEF Good
    <3> QED BY <2>0
  <2>1. n \in Nat
    OBVIOUS
  <2>2. V # {}
    BY <2>1, FS_EmptySet
  <2>3. PICK m \in V : \A x \in V \ {m} : <<x, m>> \in R
    <3> HIDE DEF G, Good
    <3>1. \E m \in V : \A x \in V \ {m} : <<x, m>> \in R
      BY <2>2, TopmostExists
    <3> QED BY <3>1
  <2> DEFINE W == V \ {m}
  <2>4. IsFiniteSet(W) /\ Cardinality(W) = n /\ W \in SUBSET U
    <3>1. IsFiniteSet(W) /\ Cardinality(W) = Cardinality(V) - 1
      BY <2>3, FS_RemoveElement
    <3> QED BY <2>1, <3>1
  <2>5. PICK s \in [1..n -> W] :
             /\ {s[k] : k \in DOMAIN s} = W
             /\ \A j, k \in DOMAIN s : j < k => <<s[j], s[k]>> \in R
    BY <2>4
  <2> DEFINE t == [k \in 1..(n + 1) |-> IF k = n + 1 THEN m ELSE s[k]]
  <2>6. /\ t \in [1..(n + 1) -> V] /\ DOMAIN t = 1..(n + 1) /\ DOMAIN s = 1..n
        /\ t[n + 1] = m /\ \A k \in 1..n : t[k] = s[k] /\ s[k] \in W
    BY <2>1, <2>3, <2>5
  <2> HIDE DEF t
  <2>7. \A j, k \in DOMAIN t : j < k => <<t[j], t[k]>> \in R
    <3> SUFFICES ASSUME NEW j \in 1..(n + 1), NEW k \in 1..(n + 1), j < k
                 PROVE  <<t[j], t[k]>> \in R
      BY <2>6
    <3>1. j \in 1..n
      BY <2>1
    <3>2. CASE k = n + 1
      BY <2>3, <2>6, <3>1, <3>2
    <3>3. CASE k # n + 1
      <4>1. k \in 1..n
        BY <2>1, <3>3
      <4> QED BY <2>5, <2>6, <3>1, <4>1
    <3> QED BY <3>2, <3>3
  <2>8. {t[k] : k \in DOMAIN t} = V
    <3>1. \A k \in DOMAIN t : t[k] \in V
      BY <2>6
    <3>2. \A x \in V : \E k \in DOMAIN t : t[k] = x
      <4> TAKE x \in V
      <4>1. CASE x = m
        BY <2>1, <2>6, <4>1
      <4>2. CASE x # m
        <5>1. PICK k \in 1..n : s[k] = x
          BY <2>5, <2>6, <4>2
        <5> QED BY <2>1, <2>6, <5>1
      <4> QED BY <4>1, <4>2
    <3> QED BY <3>1, <3>2
  <2> QED BY <2>6, <2>7, <2>8
<1>3. G = Nat
  <2> HIDE DEF G
  <2>1. G \in SUBSET Nat
    BY DEF G
  <2> QED BY <1>1, <1>2, <2>1, NatSetInduction
<1>4. Cardinality(T) \in Nat
  BY FS_CardinalityType
<1>5. Cardinality(T) \in G
  BY <1>3, <1>4
<1> QED BY <1>5

-----------------------------------------------------------------------------
(* The control surface *)

ControlSpec == ControlInit /\ [][ControlNext]_request

ControlAsked == request \in ControlRequests

LEMMA ControlStays == ControlAsked /\ [ControlNext]_request => ControlAsked'
BY DEF ControlAsked, ControlNext, ControlRequests

LEMMA ControlAnswers == request \in ControlRequests => ControlPromise
<1> SUFFICES ASSUME request \in ControlRequests PROVE ControlPromise
  OBVIOUS
<1>0. Drift(request) \in {"ok", "version_drift", "stale_cache"}
  BY DEF Drift
<1>1. /\ Dispatch(request, "status") = Result(Drift(request))
      /\ Dispatch(request, "inspect") = Result(Drift(request))
      /\ Dispatch(request, "start") = Start(request)
      /\ Dispatch(request, "handoff") = MoveOwner(request)
      /\ Dispatch(request, "acquire") = MoveOwner(request)
      /\ Dispatch(request, "stop") = Result("ok")
      /\ Dispatch(request, "recovery-preview") = Result("ok")
      /\ Dispatch(request, "doctor") =
           IF Unhealthy(request) = {} THEN Result("ok") ELSE Result("config_invalid")
  BY DEF Dispatch
<1>2. \A code : /\ Result(code).ok <=> (code \in {"ok", "daemon_active"})
                /\ Result(code).code = code /\ Result(code).moves = None
  BY DEF Result
<1>3. /\ "version" \in Unhealthy(request) <=> Drift(request) # "ok"
      /\ "daemon" \in Unhealthy(request) <=> request.unit = "inactive"
  BY DEF Unhealthy
<1>4. /\ Result(Drift(request)).ok <=> Drift(request) = "ok"
      /\ Start(request).ok => Drift(request) = "ok"
      /\ Drift(request) = "ok" /\ request.agent => Start(request).ok
      /\ Start(request).moves = None
      /\ request.unit = "active" => Start(request).code # "ok"
  BY <1>0, <1>2 DEF Start
<1>5. MoveOwner(request).moves # None =>
        /\ request.confirm
        /\ request.thread # None => MoveOwner(request).moves = request.thread
  <2>1. CASE KnownThread(request) = None
    BY <1>2, <2>1 DEF MoveOwner
  <2>2. CASE KnownThread(request) # None /\ ~request.confirm
    BY <1>2, <2>2 DEF MoveOwner
  <2>3. CASE KnownThread(request) # None /\ request.confirm
    <3>1. MoveOwner(request) = [Result("ok") EXCEPT !.moves = KnownThread(request)]
      BY <2>3 DEF MoveOwner
    <3>2. MoveOwner(request).moves = KnownThread(request)
      BY <3>1 DEF Result
    <3> QED BY <2>3, <3>2 DEF KnownThread
  <2> QED BY <2>1, <2>2, <2>3
<1>6. Dispatch(request, "doctor").ok => Drift(request) = "ok"
  <2>1. ~Result("config_invalid").ok
    BY DEF Result
  <2>2. Unhealthy(request) # {} => ~Dispatch(request, "doctor").ok
    BY <1>1, <2>1
  <2> QED BY <1>3, <2>2
<1>7. Dispatch(request, "doctor").ok =>
        /\ Dispatch(request, "status").ok /\ Dispatch(request, "inspect").ok
        /\ Dispatch(request, "start").ok \/ ~request.agent
  BY <1>1, <1>4, <1>6
<1>8. \A action \in {"start", "status", "inspect"} :
        Dispatch(request, action).ok => "version" \notin Unhealthy(request)
  BY <1>1, <1>3, <1>4
<1>9. request.unit = "active" => Dispatch(request, "start").code # "ok"
  BY <1>1, <1>4
<1>10. \A action \in Actions : Dispatch(request, action).moves # None =>
         /\ action \in {"handoff", "acquire"} /\ request.confirm
         /\ request.thread # None => Dispatch(request, action).moves = request.thread
  <2>1. \A action \in Actions \ {"handoff", "acquire"} : Dispatch(request, action).moves = None
    <3>1. Dispatch(request, "doctor").moves = None
      BY <1>1, <1>2
    <3> QED BY <1>1, <1>2, <1>4, <3>1 DEF Actions
  <2>2. \A action \in {"handoff", "acquire"} : Dispatch(request, action) = MoveOwner(request)
    BY <1>1
  <2> QED BY <1>5, <2>1, <2>2
<1> QED BY <1>7, <1>8, <1>9, <1>10 DEF ControlPromise

(* Whatever the caller observed: doctor's yes holds for what follows it,   *)
(* nothing starts on the wrong version or twice, and a thread moves only   *)
(* on a confirmed request that names it (control.ts, dispatch).            *)
THEOREM ControlKeepsPromise == ControlSpec => []ControlPromise
<1>1. ControlInit => ControlAsked
  BY DEF ControlInit, ControlAsked
<1>2. ControlAsked => ControlPromise
  BY ControlAnswers DEF ControlAsked
<1> QED BY <1>1, <1>2, ControlStays, PTL DEF ControlSpec

-----------------------------------------------------------------------------
(* The hand-off automaton and the commands on its stored row *)

HandoffCommandsSpec == HandoffCommandsInit /\ [][HandoffCommandsNext]_handoffVars

(* Any queue can be put in order: the same deliveries, each as often.      *)
LEMMA OrderExists ==
  ASSUME NEW pending \in Seq(MailIds)
  PROVE  \E p \in Bijection(DOMAIN pending, DOMAIN pending) :
            \A j, k \in DOMAIN pending : j < k => pending[p[j]] <= pending[p[k]]
<1> DEFINE D == DOMAIN pending
           R == {q \in D \X D : pending[q[1]] <= pending[q[2]]}
<1>1. Len(pending) \in Nat /\ D = 1..Len(pending)
  OBVIOUS
<1>2. \A i \in D : pending[i] \in Int
  BY HandoffCommandsAssumption DEF MailIds
<1>3. IsFiniteSet(D) /\ Cardinality(D) = Len(pending)
  BY <1>1, FS_Interval
<1>4. \A x, y \in D : <<x, y>> \in R <=> pending[x] <= pending[y]
  OBVIOUS
<1> HIDE DEF R
<1>5. Orders(R, D)
  BY <1>2, <1>4 DEF Orders
<1>6. PICK s \in [1..Cardinality(D) -> D] :
         /\ {s[k] : k \in DOMAIN s} = D
         /\ \A j, k \in DOMAIN s : j < k => <<s[j], s[k]>> \in R
  <2> HIDE DEF D
  <2> QED BY <1>3, <1>5, ListingExists
<1>7. s \in [D -> D] /\ DOMAIN s = D
  BY <1>1, <1>3, <1>6
<1>8. s \in Surjection(D, D)
  BY <1>6, <1>7 DEF Surjection
<1>9. s \in Injection(D, D)
  BY <1>3, <1>8, FS_SurjSameCardinalityImpliesInj
<1>10. \A j, k \in D : j < k => pending[s[j]] <= pending[s[k]]
  BY <1>4, <1>6, <1>7
<1> QED BY <1>8, <1>9, <1>10 DEF Bijection

LEMMA QueueInOrder ==
  ASSUME NEW pending \in Seq(MailIds)
  PROVE  /\ InOrder(pending) \in Seq(MailIds) /\ Len(InOrder(pending)) = Len(pending)
         /\ \A j, k \in 1..Len(pending) : j < k => InOrder(pending)[j] <= InOrder(pending)[k]
         /\ \A i \in 1..Len(pending) : \E j \in 1..Len(pending) : InOrder(pending)[j] = pending[i]
         /\ IsInjective(pending) => IsInjective(InOrder(pending))
<1> DEFINE D == DOMAIN pending
           p == CHOOSE q \in Bijection(D, D) :
                   \A j, k \in D : j < k => pending[q[j]] <= pending[q[k]]
<1>1. p \in Bijection(D, D) /\ \A j, k \in D : j < k => pending[p[j]] <= pending[p[k]]
  BY OrderExists
<1>2. Len(pending) \in Nat /\ D = 1..Len(pending) /\ pending \in [D -> MailIds]
  OBVIOUS
<1>3. InOrder(pending) = [i \in D |-> pending[p[i]]]
  BY DEF InOrder
<1> HIDE DEF p
<1>4. p \in [D -> D] /\ IsInjective(p) /\ \A t \in D : \E s \in D : p[s] = t
  BY <1>1 DEF Bijection, Injection, Surjection
<1>5. \A i \in D : InOrder(pending)[i] = pending[p[i]] /\ p[i] \in D
  BY <1>3, <1>4
<1>6. InOrder(pending) \in [D -> MailIds]
  BY <1>2, <1>3, <1>4
<1>7. InOrder(pending) \in Seq(MailIds) /\ Len(InOrder(pending)) = Len(pending)
  BY <1>2, <1>6
<1>8. \A j, k \in D : j < k => InOrder(pending)[j] <= InOrder(pending)[k]
  BY <1>1, <1>5
<1>9. \A i \in D : \E j \in D : InOrder(pending)[j] = pending[i]
  <2> TAKE i \in D
  <2>1. PICK j \in D : p[j] = i
    BY <1>4
  <2> QED BY <1>5, <2>1
<1>10. IsInjective(pending) => IsInjective(InOrder(pending))
  BY <1>3, <1>4, <1>5 DEF IsInjective
<1> QED BY <1>2, <1>7, <1>8, <1>9, <1>10

(* What is taken is less than what stays, and nothing is lost.             *)
LEMMA FirstIsTaken ==
  ASSUME NEW pending \in Seq(MailIds), pending # <<>>, IsInjective(pending)
  PROVE  LET sorted == InOrder(pending)
         IN  /\ Head(sorted) \in MailIds /\ Tail(sorted) \in Seq(MailIds)
             /\ Len(Tail(sorted)) = Len(pending) - 1
             /\ IsInjective(Tail(sorted))
             /\ \A id \in ToSet(Tail(sorted)) : Head(sorted) < id
             /\ \A i \in 1..Len(pending) :
                  pending[i] = Head(sorted) \/ Contains(Tail(sorted), pending[i])
<1> DEFINE sorted == InOrder(pending)
           n == Len(pending)
<1>1. /\ sorted \in Seq(MailIds) /\ Len(sorted) = n
      /\ \A j, k \in 1..n : j < k => sorted[j] <= sorted[k]
      /\ \A i \in 1..n : \E j \in 1..n : sorted[j] = pending[i]
      /\ IsInjective(sorted)
  BY QueueInOrder
<1>2. n \in Nat /\ n >= 1
  BY EmptySeq, LenProperties
<1> HIDE DEF sorted, n
<1> DEFINE tail == Tail(sorted)
<1>3. /\ sorted # <<>> /\ DOMAIN sorted = 1..n
      /\ Head(sorted) = sorted[1] /\ tail \in Seq(MailIds) /\ Len(tail) = n - 1
      /\ DOMAIN tail = 1..(n - 1) /\ \A i \in 1..(n - 1) : tail[i] = sorted[i + 1]
  BY <1>1, <1>2
<1> HIDE DEF tail
<1>4. \A i \in 1..n : sorted[i] \in MailIds /\ sorted[i] \in Int
  <2>1. \A i \in 1..n : sorted[i] \in MailIds
    BY <1>1, <1>3
  <2>2. \A id \in MailIds : id \in Int
    BY HandoffCommandsAssumption DEF MailIds
  <2> QED BY <2>1, <2>2
<1>5. \A i \in 2..n : sorted[1] < sorted[i]
  <2> SUFFICES ASSUME NEW i \in 2..n PROVE sorted[1] < sorted[i]
    OBVIOUS
  <2>1. 1 \in 1..n /\ i \in 1..n /\ 1 < i
    BY <1>2
  <2>2. sorted[1] <= sorted[i] /\ sorted[1] # sorted[i]
    <3>1. sorted[1] = sorted[i] => 1 = i
      BY <1>1, <1>3, <2>1 DEF IsInjective
    <3> QED BY <1>1, <2>1, <3>1
  <2> QED BY <1>4, <2>1, <2>2
<1>6. IsInjective(tail)
  <2> SUFFICES ASSUME NEW j \in 1..(n - 1), NEW k \in 1..(n - 1), tail[j] = tail[k]
               PROVE  j = k
    BY <1>3 DEF IsInjective
  <2>1. j + 1 \in 1..n /\ k + 1 \in 1..n /\ sorted[j + 1] = sorted[k + 1]
    BY <1>2, <1>3
  <2>2. j + 1 = k + 1
    BY <1>1, <1>3, <2>1 DEF IsInjective
  <2> QED BY <2>2
<1>7. \A id \in ToSet(tail) : Head(sorted) < id
  BY <1>2, <1>3, <1>5 DEF ToSet
<1>8. \A i \in 1..n : pending[i] = Head(sorted) \/ Contains(tail, pending[i])
  <2> SUFFICES ASSUME NEW i \in 1..n, pending[i] # Head(sorted)
               PROVE  Contains(tail, pending[i])
    OBVIOUS
  <2>1. PICK j \in 1..n : sorted[j] = pending[i]
    BY <1>1
  <2>2. j # 1
    BY <1>3, <2>1
  <2>3. j - 1 \in 1..(n - 1) /\ (j - 1) + 1 = j
    BY <1>2, <2>2
  <2>4. tail[j - 1] = pending[i]
    BY <1>3, <2>1, <2>3
  <2> QED BY <1>3, <2>3, <2>4 DEF Contains
<1>9. Head(sorted) \in MailIds
  BY <1>2, <1>3, <1>4
<1>10. Len(tail) = Len(pending) - 1
  BY <1>3 DEF n
<1> QED BY <1>3, <1>6, <1>7, <1>8, <1>9, <1>10 DEF sorted, tail, n

(* What an automaton is made of, and what changes of one of its parts.     *)
LEMMA AutomatonParts ==
  ASSUME NEW h \in Automata
  PROVE  /\ h.owner \in {"headless", "human"} /\ h.turn \in Turns \cup {"none"}
         /\ h.requests \in SUBSET Requests /\ h.pending \in Seq(MailIds)
         /\ h # Absent /\ h # Refuses
  BY DEF Automata, Absent, Refuses

LEMMA TurnChanges ==
  ASSUME NEW h \in Automata, NEW t \in Turns \cup {"none"}
  PROVE  LET g == [h EXCEPT !.turn = t]
         IN  /\ g \in Automata /\ g.owner = h.owner /\ g.turn = t
             /\ g.requests = h.requests /\ g.pending = h.pending
  BY DEF Automata

LEMMA RequestsChange ==
  ASSUME NEW h \in Automata, NEW q \in SUBSET Requests
  PROVE  LET g == [h EXCEPT !.requests = q]
         IN  /\ g \in Automata /\ g.owner = h.owner /\ g.turn = h.turn
             /\ g.requests = q /\ g.pending = h.pending
  BY DEF Automata

LEMMA OwnerChanges ==
  ASSUME NEW h \in Automata, NEW w \in {"headless", "human"}
  PROVE  LET g == [h EXCEPT !.owner = w]
         IN  /\ g \in Automata /\ g.owner = w /\ g.turn = h.turn
             /\ g.requests = h.requests /\ g.pending = h.pending
  BY DEF Automata

LEMMA QueueChanges ==
  ASSUME NEW h \in Automata, NEW s \in Seq(MailIds)
  PROVE  LET g == [h EXCEPT !.pending = s]
         IN  /\ g \in Automata /\ g.owner = h.owner /\ g.turn = h.turn
             /\ g.requests = h.requests /\ g.pending = s
  BY DEF Automata

LEMMA NewIsIdle == New \in Automata /\ New \in Rows /\ Absent \in Rows /\ Idle(New) /\ Idle(Absent)
<1>1. <<>> \in Seq(MailIds)
  OBVIOUS
<1> QED BY <1>1 DEF New, Automata, Rows, Absent, Idle

(* The owner and its requests move only while the thread is idle. *)
LEMMA OwnerMoves ==
  ASSUME NEW h \in Automata, Idle(h)
  PROVE  /\ Released(h) = Refuses \/ (/\ Released(h) \in Automata /\ Idle(Released(h))
                                      /\ Released(h).pending = h.pending)
         /\ \A exact \in BOOLEAN : \/ Reacquired(h, exact) = Refuses
                                   \/ /\ Reacquired(h, exact) \in Automata
                                      /\ Idle(Reacquired(h, exact))
                                      /\ Reacquired(h, exact).pending = h.pending
<1> DEFINE Human == [h EXCEPT !.owner = "human"]
           Headless == [h EXCEPT !.owner = "headless"]
<1>1. /\ Human \in Automata /\ Human.owner = "human" /\ Human.turn = h.turn
      /\ Human.requests = h.requests /\ Human.pending = h.pending
      /\ Headless \in Automata /\ Headless.owner = "headless" /\ Headless.pending = h.pending
  BY OwnerChanges
<1>2. /\ Released(h) = Refuses \/ (Released(h) = Human /\ h.turn = "none" /\ h.requests = {})
      /\ \A exact \in BOOLEAN : Reacquired(h, exact) \in {Refuses, Headless}
  BY DEF Released, Reacquired
<1> HIDE DEF Human, Headless
<1>3. Idle(Headless) /\ (h.turn = "none" /\ h.requests = {} => Idle(Human))
  BY <1>1 DEF Idle
<1> QED BY <1>1, <1>2, <1>3

LEMMA SortedIsARow ==
  ASSUME NEW h \in Automata, Idle(h)
  PROVE  /\ [h EXCEPT !.pending = InOrder(h.pending)] \in Rows
         /\ Idle([h EXCEPT !.pending = InOrder(h.pending)])
<1> DEFINE s == InOrder(h.pending)
           g == [h EXCEPT !.pending = s]
<1>1. s \in Seq(MailIds)
  BY AutomatonParts, QueueInOrder
<1> HIDE DEF s
<1>2. g \in Automata /\ g.owner = h.owner /\ g.turn = h.turn /\ g.requests = h.requests
  BY <1>1, QueueChanges
<1> HIDE DEF g
<1>3. g \in Rows /\ Idle(g)
  BY <1>2 DEF Rows, Idle
<1> QED BY <1>3 DEF g, s

LEMMA HandoffStarts == HandoffCommandsInit => HandoffInv
<1> SUFFICES ASSUME HandoffCommandsInit PROVE HandoffInv
  OBVIOUS
<1>1. /\ handoff = New /\ stored \in {Absent, New} /\ issued = [c \in CommandLines |-> NotIssued]
      /\ enqueued = <<>> /\ taken = <<>>
  BY DEF HandoffCommandsInit
<1>2. /\ enqueued \in Seq(MailIds) /\ Len(enqueued) = 0 /\ DOMAIN enqueued = {}
      /\ taken \in Seq([id : MailIds, waiting : SUBSET MailIds, busy : 0..MaxEnqueued])
      /\ Len(taken) = 0 /\ DOMAIN taken = {}
  BY <1>1
<1>3. handoff.pending = <<>> /\ Len(handoff.pending) = 0 /\ DOMAIN handoff.pending = {}
  BY <1>1 DEF New
<1>4. \A c \in CommandLines : issued[c] = NotIssued
  BY <1>1
<1>5. HandoffTypeOK
  BY <1>1, <1>2, NewIsIdle, HandoffCommandsAssumption DEF HandoffTypeOK
<1>6. HandoffPromise
  BY <1>1, <1>2, <1>3, NewIsIdle
     DEF HandoffPromise, QueueSurvivesHandoffs, TakenInSequence, HumanTakesOverIdle, IsInjective
<1>7. Len(taken) + Len(handoff.pending) <= Len(enqueued)
  BY <1>2, <1>3
<1> QED BY <1>4, <1>5, <1>6, <1>7 DEF HandoffInv

(* The owner's moves between deliveries. *)
LEMMA QueueRests ==
  ASSUME HandoffInv, NEW h \in Automata, Idle(h), h.pending = handoff.pending,
         handoff' = h, UNCHANGED <<stored, issued, enqueued, taken>>
  PROVE  HandoffInv'
<1>1. HandoffTypeOK'
  BY DEF HandoffInv, HandoffTypeOK
<1>2. HandoffPromise'
  BY DEF HandoffInv, HandoffPromise, QueueSurvivesHandoffs, TakenInSequence, HumanTakesOverIdle,
         Idle
<1> QED BY <1>1, <1>2 DEF HandoffInv, Idle

LEMMA EnqueueKeeps ==
  ASSUME HandoffInv, NEW id \in MailIds, Enqueue(id)
  PROVE  HandoffInv'
<1>1. /\ handoff \in Automata /\ enqueued \in Seq(MailIds) /\ Len(enqueued) <= MaxEnqueued
      /\ taken \in Seq([id : MailIds, waiting : SUBSET MailIds, busy : 0..MaxEnqueued])
      /\ QueueSurvivesHandoffs /\ TakenInSequence /\ Idle(handoff) /\ Idle(stored)
      /\ Len(taken) + Len(handoff.pending) <= Len(enqueued)
  BY DEF HandoffInv, HandoffTypeOK, HandoffPromise, HumanTakesOverIdle
<1> DEFINE queue == handoff.pending
           next == IF Contains(queue, id) THEN queue ELSE Append(queue, id)
           n == Len(enqueued)
<1>2. /\ enqueued' = Append(enqueued, id) /\ n < MaxEnqueued
      /\ UNCHANGED <<stored, issued, taken>>
      /\ handoff' = IF Contains(queue, id) THEN handoff
                    ELSE [handoff EXCEPT !.pending = Append(queue, id)]
  BY DEF Enqueue, Becomes
<1>3. /\ queue \in Seq(MailIds) /\ Len(queue) \in Nat /\ DOMAIN queue = 1..Len(queue)
      /\ n \in Nat /\ DOMAIN enqueued = 1..n /\ Len(taken) \in Nat
  <2>1. queue \in Seq(MailIds)
    BY <1>1, AutomatonParts
  <2> QED BY <1>1, <2>1
<1>4. /\ enqueued' \in Seq(MailIds) /\ Len(enqueued') = n + 1 /\ DOMAIN enqueued' = 1..(n + 1)
      /\ enqueued'[n + 1] = id /\ \A i \in 1..n : enqueued'[i] = enqueued[i]
  BY <1>1, <1>2, <1>3, AppendProperties
<1>5. /\ Append(queue, id) \in Seq(MailIds) /\ Len(Append(queue, id)) = Len(queue) + 1
      /\ DOMAIN Append(queue, id) = 1..(Len(queue) + 1)
      /\ Append(queue, id)[Len(queue) + 1] = id
      /\ \A i \in 1..Len(queue) : Append(queue, id)[i] = queue[i]
  BY <1>3, AppendProperties
<1>6. /\ handoff' \in Automata /\ handoff'.pending = next /\ Idle(handoff')
  <2>1. CASE Contains(queue, id)
    BY <1>1, <1>2, <2>1
  <2>2. CASE ~Contains(queue, id)
    <3> DEFINE g == [handoff EXCEPT !.pending = Append(queue, id)]
    <3>1. /\ g \in Automata /\ g.owner = handoff.owner /\ g.turn = handoff.turn
          /\ g.requests = handoff.requests /\ g.pending = Append(queue, id)
      BY <1>1, <1>5, QueueChanges
    <3> QED BY <1>1, <1>2, <2>2, <3>1 DEF Idle
  <2> QED BY <2>1, <2>2
<1>7. next \in Seq(MailIds) /\ Len(next) <= Len(queue) + 1 /\ Len(next) \in Nat
  BY <1>3, <1>5
<1>8. Contains(next, id) /\ \A x : Contains(queue, x) => Contains(next, x)
  BY <1>3, <1>5 DEF Contains
<1>9. IsInjective(next)
  <2>1. IsInjective(queue)
    BY <1>1 DEF QueueSurvivesHandoffs
  <2>2. CASE Contains(queue, id)
    BY <2>1, <2>2
  <2>3. CASE ~Contains(queue, id)
    <3>1. \A i \in 1..Len(queue) : queue[i] # id
      BY <1>3, <2>3 DEF Contains
    <3> DEFINE longer == Append(queue, id)
    <3> HIDE DEF longer
    <3>2. \A j, k \in 1..(Len(queue) + 1) : longer[j] = longer[k] => j = k
      <4> SUFFICES ASSUME NEW j \in 1..(Len(queue) + 1), NEW k \in 1..(Len(queue) + 1),
                          longer[j] = longer[k]
                   PROVE  j = k
        OBVIOUS
      <4>1. CASE j \in 1..Len(queue) /\ k \in 1..Len(queue)
        <5>1. queue[j] = queue[k]
          BY <1>5, <4>1 DEF longer
        <5> QED BY <1>3, <2>1, <4>1, <5>1 DEF IsInjective
      <4>2. CASE ~(j \in 1..Len(queue)) /\ k \in 1..Len(queue)
        <5>1. j = Len(queue) + 1
          BY <1>3, <4>2
        <5> QED BY <1>5, <3>1, <4>2, <5>1 DEF longer
      <4>3. CASE j \in 1..Len(queue) /\ ~(k \in 1..Len(queue))
        <5>1. k = Len(queue) + 1
          BY <1>3, <4>3
        <5> QED BY <1>5, <3>1, <4>3, <5>1 DEF longer
      <4>4. CASE ~(j \in 1..Len(queue)) /\ ~(k \in 1..Len(queue))
        BY <1>3, <4>4
      <4> QED BY <4>1, <4>2, <4>3, <4>4
    <3>3. IsInjective(longer)
      BY <1>5, <3>2 DEF IsInjective, longer
    <3> QED BY <2>3, <3>3 DEF longer
  <2> QED BY <2>2, <2>3
<1> HIDE DEF next
<1>10. QueueSurvivesHandoffs'
  <2>1. ASSUME NEW i \in 1..(n + 1)
        PROVE  \/ Contains(next, enqueued'[i])
               \/ \E k \in DOMAIN taken : taken[k].id = enqueued'[i] /\ taken[k].busy >= i
    <3>1. CASE i = n + 1
      BY <1>4, <1>8, <3>1
    <3>2. CASE i # n + 1
      <4>1. i \in 1..n /\ enqueued'[i] = enqueued[i]
        BY <1>3, <1>4, <3>2
      <4>2. \/ Contains(queue, enqueued[i])
            \/ \E k \in DOMAIN taken : taken[k].id = enqueued[i] /\ taken[k].busy >= i
        BY <1>1, <1>3, <4>1 DEF QueueSurvivesHandoffs
      <4> QED BY <1>8, <4>1, <4>2
    <3> QED BY <3>1, <3>2
  <2> QED BY <1>2, <1>4, <1>6, <1>9, <2>1 DEF QueueSurvivesHandoffs
<1>11. TakenInSequence'
  BY <1>1, <1>2 DEF TakenInSequence
<1>12. HandoffTypeOK'
  <2>1. Len(enqueued') <= MaxEnqueued
    BY <1>2, <1>3, <1>4, HandoffCommandsAssumption
  <2> QED BY <1>1, <1>2, <1>4, <1>6, <2>1 DEF HandoffInv, HandoffTypeOK
<1>13. Len(taken') + Len(handoff'.pending) <= Len(enqueued')
  BY <1>1, <1>2, <1>3, <1>4, <1>6, <1>7
<1>14. HandoffPromise'
  BY <1>1, <1>2, <1>6, <1>10, <1>11 DEF HandoffPromise, HumanTakesOverIdle
<1> QED BY <1>2, <1>12, <1>13, <1>14 DEF HandoffInv

LEMMA TakeKeeps ==
  ASSUME HandoffInv, TakeNextForDelivery
  PROVE  HandoffInv'
<1> DEFINE TakenRows == [id : MailIds, waiting : SUBSET MailIds, busy : 0..MaxEnqueued]
           queue == handoff.pending
           sorted == InOrder(queue)
           tail == Tail(sorted)
           n == Len(enqueued)
           entry == [id |-> Head(sorted), waiting |-> ToSet(tail), busy |-> n]
<1>1. /\ handoff \in Automata /\ enqueued \in Seq(MailIds) /\ n <= MaxEnqueued
      /\ taken \in Seq(TakenRows)
      /\ QueueSurvivesHandoffs /\ TakenInSequence /\ Idle(handoff) /\ Idle(stored)
      /\ Len(taken) + Len(queue) <= n
  BY DEF HandoffInv, HandoffTypeOK, HandoffPromise, HumanTakesOverIdle
<1>2. /\ handoff' = [handoff EXCEPT !.pending = tail] /\ taken' = Append(taken, entry)
      /\ UNCHANGED <<stored, issued, enqueued>> /\ queue # <<>>
  BY DEF TakeNextForDelivery, Becomes
<1>3. /\ queue \in Seq(MailIds) /\ Len(queue) \in Nat /\ DOMAIN queue = 1..Len(queue)
      /\ n \in Nat /\ DOMAIN enqueued = 1..n /\ Len(taken) \in Nat
      /\ IsInjective(queue)
  <2>1. queue \in Seq(MailIds)
    BY <1>1, AutomatonParts
  <2>2. IsInjective(queue)
    BY <1>1 DEF QueueSurvivesHandoffs
  <2> QED BY <1>1, <2>1, <2>2
<1>4. /\ Head(sorted) \in MailIds /\ tail \in Seq(MailIds)
      /\ Len(tail) = Len(queue) - 1 /\ IsInjective(tail)
      /\ \A id \in ToSet(tail) : Head(sorted) < id
      /\ \A i \in 1..Len(queue) : queue[i] = Head(sorted) \/ Contains(tail, queue[i])
  BY <1>2, <1>3, FirstIsTaken
<1> HIDE DEF sorted, tail
<1>5. entry \in TakenRows /\ entry.id = Head(sorted) /\ entry.busy = n /\ entry.waiting = ToSet(tail)
  <2>1. ToSet(tail) \in SUBSET MailIds
    BY <1>4 DEF ToSet
  <2>2. n \in 0..MaxEnqueued
    BY <1>1, <1>3, HandoffCommandsAssumption
  <2> QED BY <1>4, <2>1, <2>2
<1> HIDE DEF entry, TakenRows
<1>6. /\ taken' \in Seq(TakenRows) /\ Len(taken') = Len(taken) + 1
      /\ DOMAIN taken' = 1..(Len(taken) + 1) /\ DOMAIN taken = 1..Len(taken)
      /\ taken'[Len(taken) + 1] = entry /\ \A k \in 1..Len(taken) : taken'[k] = taken[k]
  BY <1>1, <1>2, <1>3, <1>5, AppendProperties
<1>7. handoff' \in Automata /\ handoff'.pending = tail /\ Idle(handoff')
  <2>1. /\ handoff' \in Automata /\ handoff'.owner = handoff.owner
        /\ handoff'.turn = handoff.turn /\ handoff'.requests = handoff.requests
        /\ handoff'.pending = tail
    BY <1>1, <1>2, <1>4, QueueChanges
  <2> QED BY <1>1, <2>1 DEF Idle
<1>8. QueueSurvivesHandoffs'
  <2>1. ASSUME NEW i \in 1..n
        PROVE  \/ Contains(tail, enqueued[i])
               \/ \E k \in 1..(Len(taken) + 1) : taken'[k].id = enqueued[i] /\ taken'[k].busy >= i
    <3>1. CASE Contains(queue, enqueued[i])
      <4>1. PICK j \in 1..Len(queue) : queue[j] = enqueued[i]
        BY <1>3, <3>1 DEF Contains
      <4>2. CASE queue[j] = Head(sorted)
        <5>1. taken'[Len(taken) + 1].id = enqueued[i] /\ taken'[Len(taken) + 1].busy >= i
          BY <1>5, <1>6, <4>1, <4>2
        <5> QED BY <1>3, <5>1
      <4>3. CASE queue[j] # Head(sorted)
        BY <1>4, <4>1, <4>3
      <4> QED BY <4>2, <4>3
    <3>2. CASE ~Contains(queue, enqueued[i])
      <4>1. PICK k \in DOMAIN taken : taken[k].id = enqueued[i] /\ taken[k].busy >= i
        BY <1>1, <1>3, <3>2 DEF QueueSurvivesHandoffs
      <4>2. k \in 1..(Len(taken) + 1) /\ taken'[k] = taken[k]
        BY <1>3, <1>6, <4>1
      <4> QED BY <4>1, <4>2
    <3> QED BY <3>1, <3>2
  <2> QED BY <1>2, <1>3, <1>4, <1>6, <1>7, <2>1 DEF QueueSurvivesHandoffs
<1>9. TakenInSequence'
  <2>1. ASSUME NEW k \in 1..(Len(taken) + 1), NEW id \in taken'[k].waiting
        PROVE  taken'[k].id < id
    <3>1. CASE k = Len(taken) + 1
      BY <1>4, <1>5, <1>6, <2>1, <3>1
    <3>2. CASE k # Len(taken) + 1
      <4>1. k \in DOMAIN taken /\ taken'[k] = taken[k]
        BY <1>3, <1>6, <3>2
      <4> QED BY <1>1, <2>1, <4>1 DEF TakenInSequence
    <3> QED BY <3>1, <3>2
  <2> QED BY <1>6, <2>1 DEF TakenInSequence
<1>10. Len(taken') + Len(handoff'.pending) <= Len(enqueued')
  BY <1>1, <1>2, <1>3, <1>4, <1>6, <1>7
<1>11. HandoffTypeOK'
  <2>1. Len(taken') <= MaxEnqueued
    BY <1>1, <1>2, <1>3, <1>4, <1>6, <1>7, <1>10, HandoffCommandsAssumption
  <2> QED BY <1>1, <1>2, <1>6, <1>7, <2>1 DEF HandoffInv, HandoffTypeOK, TakenRows
<1>12. HandoffPromise'
  BY <1>1, <1>2, <1>7, <1>8, <1>9 DEF HandoffPromise, HumanTakesOverIdle
<1> QED BY <1>2, <1>10, <1>11, <1>12 DEF HandoffInv

(* The commands: what is loaded is idle, and so is what is saved. *)
LEMMA LoadRowKeeps ==
  ASSUME HandoffInv, NEW c \in CommandLines, NEW kind \in {"ensure", "release", "acquire"},
         LoadRow(c, kind)
  PROVE  HandoffInv'
<1> DEFINE entry == [kind |-> kind, row |-> stored]
           Issues == {NotIssued} \cup [kind : {"ensure"}, row : Rows]
                                 \cup [kind : {"release", "acquire"}, row : Automata]
<1>1. /\ issued' = [issued EXCEPT ![c] = entry] /\ UNCHANGED <<handoff, stored, enqueued, taken>>
      /\ kind = "ensure" \/ stored # Absent
  BY DEF LoadRow
<1>2. HandoffTypeOK /\ issued \in [CommandLines -> Issues] /\ stored \in Rows /\ Idle(stored)
  BY DEF HandoffInv, HandoffTypeOK, HandoffPromise, HumanTakesOverIdle
<1>3. entry \in Issues /\ entry.row = stored
  BY <1>1, <1>2 DEF Rows
<1> HIDE DEF entry, Issues
<1>4. issued' \in [CommandLines -> Issues]
  BY <1>1, <1>2, <1>3
<1>5. \A d \in CommandLines : issued'[d] = IF d = c THEN entry ELSE issued[d]
  BY <1>1, <1>2
<1>6. \A d \in CommandLines : issued'[d] # NotIssued => Idle(issued'[d].row)
  <2> SUFFICES ASSUME NEW d \in CommandLines, issued'[d] # NotIssued PROVE Idle(issued'[d].row)
    OBVIOUS
  <2>1. CASE d = c
    BY <1>2, <1>3, <1>5, <2>1
  <2>2. CASE d # c
    BY <1>5, <2>2 DEF HandoffInv
  <2> QED BY <2>1, <2>2
<1>7. HandoffTypeOK'
  BY <1>1, <1>2, <1>4 DEF HandoffTypeOK, Issues
<1>8. HandoffPromise'
  BY <1>1 DEF HandoffInv, HandoffPromise, QueueSurvivesHandoffs, TakenInSequence,
              HumanTakesOverIdle, Idle
<1>9. (\A d \in CommandLines : issued[d] # NotIssued => Idle(issued[d].row))'
  BY <1>6 DEF Idle, NotIssued
<1>10. (Len(taken) + Len(handoff.pending) <= Len(enqueued))'
  BY <1>1 DEF HandoffInv
<1> QED BY <1>7, <1>8, <1>9, <1>10 DEF HandoffInv

(* Whatever leaves the queue and the automaton alone, and stores an idle   *)
(* row.                                                                    *)
LEMMA StoreKeeps ==
  ASSUME HandoffInv, stored' \in Rows, Idle(stored'), UNCHANGED <<handoff, enqueued, taken>>,
         issued' = issued \/ \E c \in CommandLines : issued' = [issued EXCEPT ![c] = NotIssued]
  PROVE  HandoffInv'
<1> DEFINE Issues == {NotIssued} \cup [kind : {"ensure"}, row : Rows]
                                 \cup [kind : {"release", "acquire"}, row : Automata]
<1>1. HandoffTypeOK /\ issued \in [CommandLines -> Issues]
      /\ \A d \in CommandLines : issued[d] # NotIssued => Idle(issued[d].row)
  BY DEF HandoffInv, HandoffTypeOK
<1>2. NotIssued \in Issues
  OBVIOUS
<1> HIDE DEF Issues
<1>3. /\ issued' \in [CommandLines -> Issues]
      /\ \A d \in CommandLines : issued'[d] \in {issued[d], NotIssued}
  BY <1>1, <1>2
<1>4. \A d \in CommandLines : issued'[d] # NotIssued => Idle(issued'[d].row)
  BY <1>1, <1>3
<1>5. HandoffTypeOK'
  BY <1>1, <1>3 DEF HandoffTypeOK, Issues
<1>6. HandoffPromise'
  BY DEF HandoffInv, HandoffPromise, QueueSurvivesHandoffs, TakenInSequence, HumanTakesOverIdle,
         Idle
<1>7. (\A d \in CommandLines : issued[d] # NotIssued => Idle(issued[d].row))'
  BY <1>4 DEF Idle, NotIssued
<1>8. (Len(taken) + Len(handoff.pending) <= Len(enqueued))'
  BY DEF HandoffInv
<1> QED BY <1>5, <1>6, <1>7, <1>8 DEF HandoffInv

LEMMA SaveRowKeeps ==
  ASSUME HandoffInv, NEW c \in CommandLines, NEW exact \in BOOLEAN, SaveRow(c, exact)
  PROVE  HandoffInv'
<1> DEFINE next == Answer(issued[c], exact)
<1>1. /\ issued[c] # NotIssued /\ issued' = [issued EXCEPT ![c] = NotIssued]
      /\ stored' = IF next = Refuses THEN stored ELSE [next EXCEPT !.pending = InOrder(@)]
      /\ UNCHANGED <<handoff, enqueued, taken>>
  BY DEF SaveRow
<1>2. stored \in Rows /\ Idle(stored) /\ Idle(issued[c].row)
  BY <1>1 DEF HandoffInv, HandoffTypeOK, HandoffPromise, HumanTakesOverIdle
<1>3. \/ issued[c].kind = "ensure"
      \/ issued[c].kind \in {"release", "acquire"} /\ issued[c].row \in Automata
  BY <1>1 DEF HandoffInv, HandoffTypeOK
<1>4. next = Refuses \/ (next \in Automata /\ Idle(next))
  <2>1. CASE issued[c].kind = "ensure"
    BY <2>1, NewIsIdle DEF Answer
  <2>2. CASE issued[c].kind = "release" /\ issued[c].row \in Automata
    BY <1>2, <2>2, OwnerMoves DEF Answer
  <2>3. CASE issued[c].kind = "acquire" /\ issued[c].row \in Automata
    BY <1>2, <2>3, OwnerMoves DEF Answer
  <2> QED BY <1>3, <2>1, <2>2, <2>3
<1> HIDE DEF next
<1>5. stored' \in Rows /\ Idle(stored')
  <2>1. CASE next = Refuses
    <3>1. stored' = stored
      BY <1>1, <2>1
    <3> QED BY <1>2, <3>1
  <2>2. CASE next # Refuses
    <3>1. stored' = [next EXCEPT !.pending = InOrder(next.pending)]
      BY <1>1, <2>2
    <3> QED BY <1>4, <2>2, <3>1, SortedIsARow
  <2> QED BY <2>1, <2>2
<1> QED BY <1>1, <1>5, StoreKeeps

LEMMA HandoffStep == HandoffInv /\ [HandoffCommandsNext]_handoffVars => HandoffInv'
<1> SUFFICES ASSUME HandoffInv, [HandoffCommandsNext]_handoffVars PROVE HandoffInv'
  OBVIOUS
<1>1. handoff \in Automata /\ Idle(handoff) /\ stored \in Rows /\ Idle(stored)
  BY DEF HandoffInv, HandoffTypeOK, HandoffPromise, HumanTakesOverIdle
<1>2. ASSUME NEW t \in Turns \cup {"none"}, SetActiveTurn(t) PROVE HandoffInv'
  <2>1. [handoff EXCEPT !.turn = t] \in Automata /\ Idle([handoff EXCEPT !.turn = t])
        /\ [handoff EXCEPT !.turn = t].pending = handoff.pending
    <3> DEFINE g == [handoff EXCEPT !.turn = t]
    <3>1. g \in Automata /\ g.owner = handoff.owner /\ g.pending = handoff.pending
      BY <1>1, TurnChanges
    <3>2. handoff.owner = "headless"
      BY <1>2 DEF SetActiveTurn
    <3> QED BY <3>1, <3>2 DEF Idle
  <2> QED BY <1>2, <2>1, QueueRests DEF SetActiveTurn, Becomes
<1>3. ASSUME NEW r \in Requests, OpenRequest(r) \/ ResolveRequest(r) PROVE HandoffInv'
  <2>1. CASE OpenRequest(r)
    <3> DEFINE q == handoff.requests \cup {r}
    <3>1. q \in SUBSET Requests
      BY <1>1, AutomatonParts
    <3>2. handoff' = [handoff EXCEPT !.requests = q] /\ handoff.owner = "headless"
          /\ UNCHANGED <<stored, issued, enqueued, taken>>
      BY <2>1 DEF OpenRequest, Becomes
    <3> HIDE DEF q
    <3>3. [handoff EXCEPT !.requests = q] \in Automata /\ Idle([handoff EXCEPT !.requests = q])
          /\ [handoff EXCEPT !.requests = q].pending = handoff.pending
      <4> DEFINE g == [handoff EXCEPT !.requests = q]
      <4>1. g \in Automata /\ g.owner = handoff.owner /\ g.pending = handoff.pending
        BY <1>1, <3>1, RequestsChange
      <4> QED BY <3>2, <4>1 DEF Idle
    <3> QED BY <3>2, <3>3, QueueRests
  <2>2. CASE ResolveRequest(r)
    <3> DEFINE q == handoff.requests \ {r}
    <3>1. q \in SUBSET Requests /\ (handoff.requests = {} => q = {})
      BY <1>1, AutomatonParts
    <3>2. handoff' = [handoff EXCEPT !.requests = q]
          /\ UNCHANGED <<stored, issued, enqueued, taken>>
      BY <2>2 DEF ResolveRequest, Becomes
    <3> HIDE DEF q
    <3>3. [handoff EXCEPT !.requests = q] \in Automata /\ Idle([handoff EXCEPT !.requests = q])
          /\ [handoff EXCEPT !.requests = q].pending = handoff.pending
      <4> DEFINE g == [handoff EXCEPT !.requests = q]
      <4>1. /\ g \in Automata /\ g.owner = handoff.owner /\ g.turn = handoff.turn
            /\ g.requests = q /\ g.pending = handoff.pending
        BY <1>1, <3>1, RequestsChange
      <4> QED BY <1>1, <3>1, <4>1 DEF Idle
    <3> QED BY <3>2, <3>3, QueueRests
  <2> QED BY <1>3, <2>1, <2>2
<1>4. ASSUME NEW id \in MailIds, Enqueue(id) PROVE HandoffInv'
  BY <1>4, EnqueueKeeps
<1>5. CASE TakeNextForDelivery
  BY <1>5, TakeKeeps
<1>6. CASE ReleaseToHuman
  BY <1>1, <1>6, OwnerMoves, QueueRests DEF ReleaseToHuman, Becomes
<1>7. ASSUME NEW exact \in BOOLEAN, ReacquireHeadless(exact) PROVE HandoffInv'
  BY <1>1, <1>7, OwnerMoves, QueueRests DEF ReacquireHeadless, Becomes
<1>8. ASSUME NEW c \in CommandLines, NEW kind \in {"ensure", "release", "acquire"},
             LoadRow(c, kind)
      PROVE  HandoffInv'
  BY <1>8, LoadRowKeeps
<1>9. ASSUME NEW c \in CommandLines, NEW exact \in BOOLEAN, SaveRow(c, exact) PROVE HandoffInv'
  BY <1>9, SaveRowKeeps
<1>10. CASE StoreSnapshot
  <2>1. stored' = [handoff EXCEPT !.pending = InOrder(handoff.pending)]
        /\ UNCHANGED <<handoff, issued, enqueued, taken>>
    BY <1>10 DEF StoreSnapshot
  <2> QED BY <1>1, <2>1, SortedIsARow, StoreKeeps
<1>11. CASE UNCHANGED handoffVars
  BY <1>1, <1>11, QueueRests DEF handoffVars
<1> QED BY <1>2, <1>3, <1>4, <1>5, <1>6, <1>7, <1>8, <1>9, <1>10, <1>11 DEF HandoffCommandsNext

(* Whatever the commands overlap, mail is lost to no hand-off, is taken in *)
(* sequence, and a person takes over an idle thread (handoff.ts,           *)
(* ownership_commands.ts).                                                 *)
THEOREM HandoffsKeepMail == HandoffCommandsSpec => []HandoffPromise
<1>1. HandoffCommandsInit => HandoffInv
  BY HandoffStarts
<1>2. HandoffInv /\ [HandoffCommandsNext]_handoffVars => HandoffInv'
  BY HandoffStep
<1>3. HandoffInv => HandoffPromise
  BY DEF HandoffInv
<1> QED BY <1>1, <1>2, <1>3, PTL DEF HandoffCommandsSpec

-----------------------------------------------------------------------------
(* The operator's mutations of a row *)

RecoverySpec == RecoveryInit /\ [][RecoveryNext]_recoveryVars

(* The history that an audit trail tells is there, for a trail of any      *)
(* length: a row for every mutation, each made of the one before.          *)
HistoryOf(first, audit, k, f) ==
  f = [n \in 0..k |-> IF n = 0 THEN first ELSE Mutated(audit[n].mutation, f[n - 1])]

LEMMA HistoryExists ==
  ASSUME NEW first, NEW audit, NEW k \in Nat
  PROVE  \E f : HistoryOf(first, audit, k, f)
<1> DEFINE S == {n \in Nat : \E f : HistoryOf(first, audit, n, f)}
<1>1. 0 \in S
  <2> DEFINE f == [n \in 0..0 |-> first]
  <2>1. f = [n \in 0..0 |-> IF n = 0 THEN first ELSE Mutated(audit[n].mutation, f[n - 1])]
    OBVIOUS
  <2> QED BY <2>1 DEF HistoryOf
<1>2. ASSUME NEW n \in S PROVE n + 1 \in S
  <2>1. PICK f : HistoryOf(first, audit, n, f)
    OBVIOUS
  <2> DEFINE g == [i \in 0..(n + 1) |-> IF i = n + 1 THEN Mutated(audit[n + 1].mutation, f[n])
                                        ELSE f[i]]
             h == [i \in 0..(n + 1) |-> IF i = 0 THEN first
                                        ELSE Mutated(audit[i].mutation, g[i - 1])]
  <2>2. n \in Nat
    OBVIOUS
  <2>3. /\ DOMAIN f = 0..n /\ f[0] = first
        /\ \A i \in 1..n : f[i] = Mutated(audit[i].mutation, f[i - 1])
    BY <2>1, <2>2 DEF HistoryOf
  <2>4. \A i \in 0..n : g[i] = f[i]
    BY <2>2
  <2>5. g[n + 1] = Mutated(audit[n + 1].mutation, f[n])
    BY <2>2
  <2>6. \A i \in 0..(n + 1) : h[i] = IF i = 0 THEN first ELSE Mutated(audit[i].mutation, g[i - 1])
    OBVIOUS
  <2>6a. g = [i \in 0..(n + 1) |-> g[i]] /\ h = [i \in 0..(n + 1) |-> h[i]]
    OBVIOUS
  <2> HIDE DEF g, h
  <2>7. ASSUME NEW i \in 0..(n + 1) PROVE g[i] = h[i]
    <3>1. CASE i = 0
      BY <2>2, <2>3, <2>4, <2>6, <3>1
    <3>2. CASE i = n + 1
      <4>1. h[i] = Mutated(audit[n + 1].mutation, g[n])
        BY <2>2, <2>6, <3>2
      <4>2. g[n] = f[n]
        BY <2>2, <2>4
      <4> QED BY <2>5, <3>2, <4>1, <4>2
    <3>3. CASE i # 0 /\ i # n + 1
      <4>1. i \in 1..n /\ i - 1 \in 0..n
        BY <2>2, <3>3
      <4>2. g[i] = Mutated(audit[i].mutation, f[i - 1]) /\ g[i - 1] = f[i - 1]
        BY <2>3, <2>4, <4>1
      <4> QED BY <2>6, <3>3, <4>2
    <3> QED BY <3>1, <3>2, <3>3
  <2>8. g = h
    BY <2>6a, <2>7
  <2>9. HistoryOf(first, audit, n + 1, g)
    BY <2>8 DEF HistoryOf, h
  <2> QED BY <2>2, <2>9
<1> HIDE DEF S
<1>3. S = Nat
  <2>1. S \in SUBSET Nat
    BY DEF S
  <2> QED BY <1>1, <1>2, <2>1, NatSetInduction
<1>4. k \in S
  BY <1>3
<1> QED BY <1>4 DEF S

LEMMA HistorySteps ==
  ASSUME NEW first, NEW audit, Len(audit) \in Nat
  PROVE  /\ History(first, audit)[0] = first
         /\ \A n \in 1..Len(audit) :
              History(first, audit)[n] = Mutated(audit[n].mutation, History(first, audit)[n - 1])
<1> DEFINE h == CHOOSE f : f = [n \in 0..Len(audit) |->
                                  IF n = 0 THEN first ELSE Mutated(audit[n].mutation, f[n - 1])]
<1>1. \E f : f = [n \in 0..Len(audit) |->
                    IF n = 0 THEN first ELSE Mutated(audit[n].mutation, f[n - 1])]
  <2>1. PICK f : HistoryOf(first, audit, Len(audit), f)
    BY HistoryExists
  <2> QED BY <2>1 DEF HistoryOf
<1>2. h = [n \in 0..Len(audit) |-> IF n = 0 THEN first ELSE Mutated(audit[n].mutation, h[n - 1])]
  BY <1>1
<1>3. History(first, audit) = h
  BY DEF History
<1> HIDE DEF h
<1>4. h[0] = first
  BY <1>2
<1>5. \A n \in 1..Len(audit) : h[n] = Mutated(audit[n].mutation, h[n - 1])
  BY <1>2
<1> QED BY <1>3, <1>4, <1>5

(* A longer trail tells the same story so far. *)
LEMMA HistoryGoesOn ==
  ASSUME NEW first, NEW T, NEW audit \in Seq(T), NEW entry
  PROVE  LET longer == Append(audit, entry)
         IN  /\ \A n \in 0..Len(audit) : History(first, longer)[n] = History(first, audit)[n]
             /\ History(first, longer)[Len(audit) + 1] =
                  Mutated(entry.mutation, History(first, audit)[Len(audit)])
<1> DEFINE longer == Append(audit, entry)
           k == Len(audit)
           S == {n \in Nat : n <= k => History(first, longer)[n] = History(first, audit)[n]}
<1>0. audit \in Seq(T \cup {entry}) /\ entry \in T \cup {entry}
  OBVIOUS
<1>1. /\ k \in Nat /\ Len(longer) = k + 1 /\ longer[k + 1] = entry
      /\ \A n \in 1..k : longer[n] = audit[n]
  BY <1>0, AppendProperties
<1> HIDE DEF longer, k
<1>2. /\ History(first, audit)[0] = first
      /\ \A n \in 1..k : History(first, audit)[n] = Mutated(audit[n].mutation, History(first, audit)[n - 1])
  BY <1>1, HistorySteps DEF k
<1>3. /\ History(first, longer)[0] = first
      /\ \A n \in 1..(k + 1) :
            History(first, longer)[n] = Mutated(longer[n].mutation, History(first, longer)[n - 1])
  <2>1. Len(longer) \in Nat
    BY <1>1
  <2> QED BY <1>1, <2>1, HistorySteps
<1>4. 0 \in S
  BY <1>2, <1>3
<1>5. ASSUME NEW n \in S PROVE n + 1 \in S
  <2>1. n \in Nat
    OBVIOUS
  <2>2. ASSUME n + 1 <= k PROVE History(first, longer)[n + 1] = History(first, audit)[n + 1]
    <3>1. n + 1 \in 1..k /\ n + 1 \in 1..(k + 1) /\ (n + 1) - 1 = n /\ n <= k
      BY <1>1, <2>1, <2>2
    <3>2. History(first, longer)[n] = History(first, audit)[n]
      BY <3>1
    <3> QED BY <1>1, <1>2, <1>3, <3>1, <3>2
  <2> QED BY <2>1, <2>2
<1>6. S = Nat
  <2>1. S \in SUBSET Nat
    OBVIOUS
  <2> HIDE DEF S
  <2> QED BY <1>4, <1>5, <2>1, NatSetInduction
<1>7. \A n \in 0..k : History(first, longer)[n] = History(first, audit)[n]
  BY <1>1, <1>6
<1>8. History(first, longer)[k + 1] = Mutated(entry.mutation, History(first, audit)[k])
  <2>1. k + 1 \in 1..(k + 1) /\ (k + 1) - 1 = k /\ k \in 0..k
    BY <1>1
  <2> QED BY <1>1, <1>3, <1>7, <2>1
<1> QED BY <1>7, <1>8 DEF longer, k

(* A row, taken apart; its audit trail is neither shown nor mutated.       *)
LEMMA RowParts ==
  ASSUME NEW r, IsRow(r)
  PROVE  /\ r = [thread |-> r.thread, cursor |-> r.cursor, pending |-> r.pending,
                 dead |-> r.dead, audit |-> r.audit]
         /\ Bare(r) = [thread |-> r.thread, cursor |-> r.cursor, pending |-> r.pending,
                       dead |-> r.dead, audit |-> <<>>]
         /\ r.thread \in Threads /\ r.cursor \in 0..MaxCursor
         /\ r.pending \in SUBSET BatchNames /\ r.dead \in SUBSET BatchNames
         /\ r.audit \in Seq(ToSet(r.audit)) /\ Len(r.audit) <= MaxAudit
  BY DEF IsRow, Bare

LEMMA RowMade ==
  ASSUME NEW th \in Threads, NEW cu \in 0..MaxCursor, NEW pe \in SUBSET BatchNames,
         NEW de \in SUBSET BatchNames, NEW T, NEW au \in Seq(T), Len(au) <= MaxAudit
  PROVE  IsRow([thread |-> th, cursor |-> cu, pending |-> pe, dead |-> de, audit |-> au])
<1>1. au \in Seq(ToSet(au))
  <2>1. Len(au) \in Nat /\ DOMAIN au = 1..Len(au) /\ au = [i \in 1..Len(au) |-> au[i]]
    OBVIOUS
  <2>2. au \in [1..Len(au) -> ToSet(au)]
    BY <2>1 DEF ToSet
  <2> QED BY <2>1, <2>2
<1> QED BY <1>1 DEF IsRow

(* What a mutation makes of a row, and of the same row without its trail.  *)
Heard(first, m) ==
  m.op \in {"replay_batch", "dead_letter_replay"} => m.target \in first.pending \cup first.dead

LEMMA MutatedRow ==
  ASSUME NEW r, IsRow(r), NEW m \in Mutations
  PROVE  \E th \in Threads, cu \in 0..MaxCursor, pe \in SUBSET BatchNames :
           /\ Mutated(m, r) = [thread |-> th, cursor |-> cu, pending |-> pe, dead |-> r.dead,
                               audit |-> r.audit]
           /\ Mutated(m, Bare(r)) = [thread |-> th, cursor |-> cu, pending |-> pe,
                                     dead |-> r.dead, audit |-> <<>>]
           /\ r.pending \subseteq pe
           /\ pe = r.pending \/ (m.op \in {"replay_batch", "dead_letter_replay"}
                                  /\ pe = r.pending \cup {m.target})
<1>1. /\ r = [thread |-> r.thread, cursor |-> r.cursor, pending |-> r.pending,
              dead |-> r.dead, audit |-> r.audit]
      /\ Bare(r) = [thread |-> r.thread, cursor |-> r.cursor, pending |-> r.pending,
                    dead |-> r.dead, audit |-> <<>>]
      /\ r.thread \in Threads /\ r.cursor \in 0..MaxCursor
      /\ r.pending \in SUBSET BatchNames /\ r.dead \in SUBSET BatchNames
  BY RowParts
<1>2. CASE m.op \in {"replay_batch", "dead_letter_replay"}
  <2>1. m.target \in BatchNames
    BY <1>2 DEF Mutations
  <2> DEFINE pe == r.pending \cup {m.target}
  <2>2. pe \in SUBSET BatchNames
    BY <1>1, <2>1
  <2>3. Mutated(m, r) = [r EXCEPT !.pending = pe]
        /\ Mutated(m, Bare(r)) = [Bare(r) EXCEPT !.pending = Bare(r).pending \cup {m.target}]
    BY <1>2 DEF Mutated
  <2>4. Bare(r).pending = r.pending
    BY <1>1
  <2>5. Mutated(m, Bare(r)) = [Bare(r) EXCEPT !.pending = pe]
    BY <2>3, <2>4
  <2> HIDE DEF pe
  <2>6. Mutated(m, r) = [thread |-> r.thread, cursor |-> r.cursor, pending |-> pe,
                         dead |-> r.dead, audit |-> r.audit]
    BY <1>1, <2>3
  <2>7. Mutated(m, Bare(r)) = [thread |-> r.thread, cursor |-> r.cursor, pending |-> pe,
                               dead |-> r.dead, audit |-> <<>>]
    BY <1>1, <2>5
  <2> QED BY <1>1, <1>2, <2>2, <2>6, <2>7 DEF pe
<1>3. CASE m.op = "rebind_thread"
  <2>1. m.target \in Threads
    BY <1>3 DEF Mutations
  <2>2. Mutated(m, r) = [r EXCEPT !.thread = m.target]
        /\ Mutated(m, Bare(r)) = [Bare(r) EXCEPT !.thread = m.target]
    BY <1>3 DEF Mutated
  <2>3. Mutated(m, r) = [thread |-> m.target, cursor |-> r.cursor, pending |-> r.pending,
                         dead |-> r.dead, audit |-> r.audit]
    BY <1>1, <2>2
  <2>4. Mutated(m, Bare(r)) = [thread |-> m.target, cursor |-> r.cursor, pending |-> r.pending,
                               dead |-> r.dead, audit |-> <<>>]
    BY <1>1, <2>2
  <2> QED BY <1>1, <2>1, <2>3, <2>4
<1>4. CASE m.op = "reset_cursor"
  <2>1. m.target \in 0..MaxCursor
    BY <1>4 DEF Mutations
  <2>2. Mutated(m, r) = [r EXCEPT !.cursor = m.target]
        /\ Mutated(m, Bare(r)) = [Bare(r) EXCEPT !.cursor = m.target]
    BY <1>4 DEF Mutated
  <2>3. Mutated(m, r) = [thread |-> r.thread, cursor |-> m.target, pending |-> r.pending,
                         dead |-> r.dead, audit |-> r.audit]
    BY <1>1, <2>2
  <2>4. Mutated(m, Bare(r)) = [thread |-> r.thread, cursor |-> m.target, pending |-> r.pending,
                               dead |-> r.dead, audit |-> <<>>]
    BY <1>1, <2>2
  <2> QED BY <1>1, <2>1, <2>3, <2>4
<1> QED BY <1>2, <1>3, <1>4 DEF Mutations

LEMMA ShownAlike ==
  ASSUME NEW r, IsRow(r), NEW m \in Mutations
  PROVE  Shown(m, Bare(r)) = Shown(m, r)
<1>1. /\ Bare(r).thread = r.thread /\ Bare(r).cursor = r.cursor
      /\ Bare(r).pending = r.pending /\ Bare(r).dead = r.dead
  BY RowParts
<1> QED BY <1>1 DEF Shown, Mutations

(* The draft of a checked confirmation tells the row's story and its own   *)
(* mutation, records what it found, and takes nothing away.                *)
LEMMA DraftIsSound ==
  ASSUME NEW first, NEW r, IsRow(r), Explained(first, r), AsShown(r), Retained(first, r),
         Len(r.audit) < MaxAudit,
         NEW m \in Mutations, Heard(first, m), NEW token, NEW raced \in BOOLEAN,
         token = Explicit \/ raced \/ token.current = Shown(m, r)
  PROVE  LET entry == [mutation |-> m, before |-> Shown(m, r), token |-> token, raced |-> raced]
             d == [Mutated(m, r) EXCEPT !.audit = Append(@, entry)]
         IN  IsRow(d) /\ Explained(first, d) /\ AsShown(d) /\ Retained(first, d)
<1> DEFINE entry == [mutation |-> m, before |-> Shown(m, r), token |-> token, raced |-> raced]
           d == [Mutated(m, r) EXCEPT !.audit = Append(@, entry)]
           n == Len(r.audit)
           longer == Append(r.audit, entry)
<1>1. PICK th \in Threads, cu \in 0..MaxCursor, pe \in SUBSET BatchNames :
           /\ Mutated(m, r) = [thread |-> th, cursor |-> cu, pending |-> pe, dead |-> r.dead,
                               audit |-> r.audit]
           /\ Mutated(m, Bare(r)) = [thread |-> th, cursor |-> cu, pending |-> pe,
                                     dead |-> r.dead, audit |-> <<>>]
           /\ r.pending \subseteq pe
           /\ pe = r.pending \/ (m.op \in {"replay_batch", "dead_letter_replay"}
                                  /\ pe = r.pending \cup {m.target})
  BY MutatedRow
<1>2. entry.mutation = m /\ entry.before = Shown(m, r) /\ entry.token = token
      /\ entry.raced = raced
  OBVIOUS
<1>3. r.audit \in Seq(ToSet(r.audit)) /\ n \in Nat /\ DOMAIN r.audit = 1..n
      /\ r.dead \in SUBSET BatchNames
  BY RowParts
<1> HIDE DEF entry
<1>4. /\ longer \in Seq(ToSet(r.audit) \cup {entry}) /\ Len(longer) = n + 1
      /\ DOMAIN longer = 1..(n + 1)
      /\ longer[n + 1] = entry /\ \A i \in 1..n : longer[i] = r.audit[i]
  <2>1. r.audit \in Seq(ToSet(r.audit) \cup {entry}) /\ entry \in ToSet(r.audit) \cup {entry}
    BY <1>3
  <2> QED BY <1>3, <2>1, AppendProperties
<1>5. /\ \A i \in 0..n : History(first, longer)[i] = History(first, r.audit)[i]
      /\ History(first, longer)[n + 1] = Mutated(m, History(first, r.audit)[n])
  BY <1>2, <1>3, HistoryGoesOn
<1>6. d = [thread |-> th, cursor |-> cu, pending |-> pe, dead |-> r.dead, audit |-> longer]
  <2>1. Mutated(m, r).audit = r.audit
    BY <1>1
  <2>2. d = [Mutated(m, r) EXCEPT !.audit = longer]
    BY <2>1
  <2> HIDE DEF longer, d
  <2> QED BY <1>1, <2>2
<1> HIDE DEF d, longer
<1>7. d.audit = longer /\ d.pending = pe /\ d.dead = r.dead
      /\ Bare(d) = Mutated(m, Bare(r))
  <2>1. Bare(d) = [thread |-> th, cursor |-> cu, pending |-> pe, dead |-> r.dead,
                   audit |-> <<>>]
    BY <1>6 DEF Bare
  <2> QED BY <1>1, <1>6, <2>1
<1>8. IsRow(d)
  <2>1. Len(longer) <= MaxAudit
    BY <1>3, <1>4, RecoveryAssumption
  <2> QED BY <1>3, <1>4, <1>6, <2>1, RowMade
<1>9. Explained(first, d)
  <2>1. Bare(r) = History(first, r.audit)[n]
        /\ \A i \in 1..n : r.audit[i].before = Shown(r.audit[i].mutation, History(first, r.audit)[i - 1])
    BY <1>3 DEF Explained
  <2>2. Bare(d) = History(first, longer)[n + 1]
    BY <1>5, <1>7, <2>1
  <2>3. ASSUME NEW i \in 1..(n + 1)
        PROVE  longer[i].before = Shown(longer[i].mutation, History(first, longer)[i - 1])
    <3>1. CASE i = n + 1
      <4>1. i - 1 = n /\ n \in 0..n /\ longer[i] = entry
        BY <1>3, <1>4, <3>1
      <4>2. History(first, longer)[i - 1] = Bare(r)
        BY <1>5, <2>1, <4>1
      <4> QED BY <1>2, <4>1, <4>2, ShownAlike
    <3>2. CASE i # n + 1
      <4>1. i \in 1..n /\ i - 1 \in 0..n
        BY <1>3, <3>2
      <4> QED BY <1>4, <1>5, <2>1, <4>1
    <3> QED BY <3>1, <3>2
  <2> QED BY <1>4, <1>7, <2>2, <2>3 DEF Explained
<1>10. AsShown(d)
  <2>1. ASSUME NEW i \in 1..(n + 1)
        PROVE  \/ longer[i].token = Explicit \/ longer[i].raced
               \/ longer[i].token.current = longer[i].before
    <3>1. CASE i = n + 1
      BY <1>2, <1>4, <3>1
    <3>2. CASE i # n + 1
      <4>1. i \in DOMAIN r.audit /\ longer[i] = r.audit[i]
        BY <1>3, <1>4, <3>2
      <4> QED BY <4>1 DEF AsShown
    <3> QED BY <3>1, <3>2
  <2> QED BY <1>4, <1>7, <2>1 DEF AsShown
<1>11. Retained(first, d)
  BY <1>1, <1>7 DEF Retained, Heard
<1> QED BY <1>8, <1>9, <1>10, <1>11 DEF d, entry

LEMMA RecoveryStarts == RecoveryInit => RecoveryInv
<1> SUFFICES ASSUME RecoveryInit PROVE RecoveryInv
  OBVIOUS
<1>1. /\ seed \in Seeds /\ row = seed /\ command = [o \in Operators |-> NoCommand]
  BY RecoveryAssumption DEF RecoveryInit
<1>2. /\ row.thread \in Threads /\ row.cursor \in 0..MaxCursor
      /\ row.pending \in SUBSET BatchNames /\ row.dead \in SUBSET BatchNames
      /\ row = [thread |-> row.thread, cursor |-> row.cursor, pending |-> row.pending,
                dead |-> row.dead, audit |-> <<>>]
      /\ row.audit = <<>>
  BY <1>1 DEF Seeds
<1>3. Len(row.audit) = 0 /\ DOMAIN row.audit = {} /\ <<>> \in Seq({})
  BY <1>2
<1>4. IsRow(row)
  <2>1. Len(<<>>) <= MaxAudit
    BY <1>2, <1>3, RecoveryAssumption
  <2> QED BY <1>2, <1>3, <2>1, RowMade
<1>5. Bare(row) = seed
  BY <1>1, <1>2 DEF Bare
<1>6. Explained(seed, row)
  <2>1. History(seed, row.audit)[0] = seed
    BY <1>3, HistorySteps
  <2> QED BY <1>3, <1>5, <2>1 DEF Explained
<1>7. AsShown(row) /\ Retained(seed, row)
  BY <1>1, <1>3 DEF AsShown, Retained
<1>8. \A o \in Operators : command[o] = NoCommand /\ command[o].at = "none"
  BY <1>1 DEF NoCommand
<1>9. RecoveryTypeOK
  BY <1>1, <1>4, <1>8 DEF RecoveryTypeOK
<1> QED BY <1>6, <1>7, <1>8, <1>9
        DEF RecoveryInv, RecoveryPromise, AuditExplainsRow, ConfirmedAsShown, OutboxIsRetained

(* What is known of an operator's command. *)
CommandOK(first, c, r) ==
  \/ c = NoCommand
  \/ /\ c.at = "shown" /\ c.mutation \in Mutations
     /\ c = [at |-> "shown", mutation |-> c.mutation, token |-> c.token]
  \/ /\ c.at = "checked" /\ c.mutation \in Mutations /\ c.raced \in BOOLEAN
     /\ c = [at |-> "checked", mutation |-> c.mutation, token |-> c.token, raced |-> c.raced]
     /\ Heard(first, c.mutation)
     /\ c.token = Explicit \/ c.raced \/ c.token.current = Shown(c.mutation, r)
  \/ /\ c.at = "loaded" /\ IsRow(c.draft)
     /\ c = [at |-> "loaded", draft |-> c.draft]
     /\ Explained(first, c.draft) /\ AsShown(c.draft) /\ Retained(first, c.draft)

LEMMA RecoveryParts ==
  RecoveryInv <=>
    /\ seed \in Seeds /\ IsRow(row) /\ Explained(seed, row) /\ AsShown(row) /\ Retained(seed, row)
    /\ DOMAIN command = Operators /\ \A o \in Operators : CommandOK(seed, command[o], row)
<1>1. NoCommand.at = "none"
  BY DEF NoCommand
<1> QED BY <1>1
        DEF RecoveryInv, RecoveryTypeOK, RecoveryPromise, AuditExplainsRow, ConfirmedAsShown,
            OutboxIsRetained, CommandOK, Checked, Heard

LEMMA RecoveryPartsNext ==
  ASSUME seed' \in Seeds, IsRow(row'), Explained(seed', row'), AsShown(row'), Retained(seed', row'),
         DOMAIN command' = Operators,
         \A o \in Operators : CommandOK(seed', command'[o], row')
  PROVE  RecoveryInv'
<1>1. NoCommand.at = "none"
  BY DEF NoCommand
<1> QED BY <1>1
        DEF RecoveryInv, RecoveryTypeOK, RecoveryPromise, AuditExplainsRow, ConfirmedAsShown,
            OutboxIsRetained, CommandOK, Checked, Heard

(* An operator's own move, that leaves the row as it is. *)
LEMMA OperatorMoves ==
  ASSUME RecoveryInv, NEW o \in Operators, NEW c, CommandOK(seed, c, row), Moves(o, c),
         UNCHANGED <<seed, row>>
  PROVE  RecoveryInv'
<1>1. /\ seed \in Seeds /\ IsRow(row) /\ Explained(seed, row) /\ AsShown(row)
      /\ Retained(seed, row)
      /\ DOMAIN command = Operators /\ \A p \in Operators : CommandOK(seed, command[p], row)
  BY RecoveryParts
<1>2. command' = [command EXCEPT ![o] = c] /\ seed' = seed /\ row' = row
  BY DEF Moves
<1>3. DOMAIN command' = Operators
      /\ \A p \in Operators : command'[p] = IF p = o THEN c ELSE command[p]
  BY <1>1, <1>2
<1>4. \A p \in Operators : CommandOK(seed, command'[p], row)
  BY <1>1, <1>3
<1> QED BY <1>1, <1>2, <1>3, <1>4, RecoveryPartsNext

LEMMA RaceMarked ==
  ASSUME NEW mu, NEW to, NEW ra, NEW c,
         c = [at |-> "checked", mutation |-> mu, token |-> to, raced |-> ra]
  PROVE  [c EXCEPT !.raced = TRUE] = [at |-> "checked", mutation |-> mu, token |-> to,
                                      raced |-> TRUE]
<1> DEFINE mark == TRUE
<1> HIDE DEF mark
<1>1. [c EXCEPT !.raced = mark] = [at |-> "checked", mutation |-> mu, token |-> to,
                                   raced |-> mark]
  OBVIOUS
<1> QED BY <1>1 DEF mark

LEMMA RecoveryStep == RecoveryInv /\ [RecoveryNext]_recoveryVars => RecoveryInv'
<1> SUFFICES ASSUME RecoveryInv, [RecoveryNext]_recoveryVars PROVE RecoveryInv'
  OBVIOUS
<1>1. /\ seed \in Seeds /\ IsRow(row) /\ Explained(seed, row) /\ AsShown(row)
      /\ Retained(seed, row)
      /\ DOMAIN command = Operators /\ \A o \in Operators : CommandOK(seed, command[o], row)
  BY RecoveryParts
<1>2. \A m \in Mutations : TargetKnown(m, row) => Heard(seed, m)
  <2>1. row.dead = seed.dead /\ row.pending \subseteq seed.pending \cup seed.dead
    BY <1>1 DEF Retained
  <2> QED BY <2>1 DEF TargetKnown, Heard
<1>3. CommandOK(seed, NoCommand, row)
  BY DEF CommandOK
<1>4. ASSUME NEW o \in Operators, NEW m \in Mutations, Preview(o, m) PROVE RecoveryInv'
  <2> DEFINE c == [at |-> "shown", mutation |-> m, token |-> Token(m, row)]
  <2>1. CommandOK(seed, c, row)
    BY DEF CommandOK
  <2> QED BY <1>4, <2>1, OperatorMoves DEF Preview
<1>5. ASSUME NEW o \in Operators, NEW m \in Mutations, ConfirmUnseen(o, m) PROVE RecoveryInv'
  <2> DEFINE c == [at |-> "checked", mutation |-> m, token |-> Explicit, raced |-> FALSE]
  <2>1. Heard(seed, m)
    BY <1>2, <1>5 DEF ConfirmUnseen
  <2>2. CommandOK(seed, c, row)
    BY <2>1 DEF CommandOK
  <2> QED BY <1>5, <2>2, OperatorMoves DEF ConfirmUnseen
<1>6. ASSUME NEW o \in Operators, Confirm(o) PROVE RecoveryInv'
  <2> DEFINE c == command[o]
             d == [at |-> "checked", mutation |-> c.mutation, token |-> c.token, raced |-> FALSE]
  <2>1. /\ c.at = "shown" /\ UNCHANGED <<seed, row>>
        /\ IF TargetKnown(c.mutation, row) /\ Matches(c.token, c.mutation)
           THEN Moves(o, d) ELSE Moves(o, NoCommand)
    BY <1>6 DEF Confirm
  <2>2. c.mutation \in Mutations
    BY <1>1, <2>1 DEF CommandOK, NoCommand
  <2>3. CASE TargetKnown(c.mutation, row) /\ Matches(c.token, c.mutation)
    <3>1. c.token.current = Shown(c.mutation, row)
      BY <2>3 DEF Matches, Token
    <3>2. Heard(seed, c.mutation)
      BY <1>2, <2>2, <2>3
    <3>3. CommandOK(seed, d, row)
      BY <2>2, <3>1, <3>2 DEF CommandOK
    <3>4. Moves(o, d)
      BY <2>1, <2>3
    <3> QED BY <2>1, <3>3, <3>4, OperatorMoves
  <2>4. CASE ~(TargetKnown(c.mutation, row) /\ Matches(c.token, c.mutation))
    <3>1. Moves(o, NoCommand)
      BY <2>1, <2>4
    <3> QED BY <1>3, <2>1, <3>1, OperatorMoves
  <2> QED BY <2>3, <2>4
<1>7. ASSUME NEW o \in Operators, LoadAgain(o) PROVE RecoveryInv'
  <2> DEFINE c == command[o]
             entry == [mutation |-> c.mutation, before |-> Shown(c.mutation, row),
                       token |-> c.token, raced |-> c.raced]
             loaded == [Mutated(c.mutation, row) EXCEPT !.audit = Append(@, entry)]
             d == [at |-> "loaded", draft |-> loaded]
  <2>1. /\ c.at = "checked" /\ Len(row.audit) < MaxAudit /\ UNCHANGED <<seed, row>>
        /\ Moves(o, d)
    BY <1>7 DEF LoadAgain
  <2>2. /\ c.mutation \in Mutations /\ c.raced \in BOOLEAN /\ Heard(seed, c.mutation)
        /\ c.token = Explicit \/ c.raced \/ c.token.current = Shown(c.mutation, row)
    BY <1>1, <2>1 DEF CommandOK, NoCommand
  <2>3. IsRow(loaded) /\ Explained(seed, loaded) /\ AsShown(loaded) /\ Retained(seed, loaded)
    BY <1>1, <2>1, <2>2, DraftIsSound
  <2> HIDE DEF loaded
  <2>4. CommandOK(seed, d, row)
    BY <2>3 DEF CommandOK
  <2> QED BY <2>1, <2>4, OperatorMoves
<1>8. ASSUME NEW o \in Operators, Save(o) PROVE RecoveryInv'
  <2> DEFINE After(p) == IF p = o THEN NoCommand
                         ELSE IF command[p].at = "checked" THEN [command[p] EXCEPT !.raced = TRUE]
                         ELSE command[p]
  <2>1. /\ command[o].at = "loaded" /\ row' = command[o].draft /\ seed' = seed
        /\ command' = [p \in Operators |-> After(p)]
    BY <1>8 DEF Save, Saved
  <2>2. IsRow(row') /\ Explained(seed, row') /\ AsShown(row') /\ Retained(seed, row')
    BY <1>1, <2>1 DEF CommandOK, NoCommand
  <2>3. ASSUME NEW p \in Operators PROVE CommandOK(seed, After(p), row')
    <3>1. CommandOK(seed, command[p], row)
      BY <1>1
    <3>2. CASE p = o
      BY <3>2 DEF CommandOK
    <3>3. CASE p # o /\ command[p].at = "checked"
      <4> DEFINE c == command[p]
      <4>1. /\ c.mutation \in Mutations /\ Heard(seed, c.mutation)
            /\ c = [at |-> "checked", mutation |-> c.mutation, token |-> c.token,
                    raced |-> c.raced]
        BY <3>1, <3>3 DEF CommandOK, NoCommand
      <4>2. After(p) = [at |-> "checked", mutation |-> c.mutation, token |-> c.token,
                        raced |-> TRUE]
        <5>1. After(p) = [c EXCEPT !.raced = TRUE]
          BY <3>3
        <5> HIDE DEF c, After
        <5>2. [c EXCEPT !.raced = TRUE] = [at |-> "checked", mutation |-> c.mutation,
                                           token |-> c.token, raced |-> TRUE]
          BY <4>1, RaceMarked
        <5> QED BY <5>1, <5>2
      <4> HIDE DEF After, c
      <4> QED BY <4>1, <4>2 DEF CommandOK
    <3>4. CASE p # o /\ command[p].at # "checked"
      <4>1. After(p) = command[p]
        BY <3>4
      <4> HIDE DEF After
      <4> QED BY <3>1, <3>4, <4>1 DEF CommandOK
    <3> QED BY <3>2, <3>3, <3>4
  <2>4. DOMAIN command' = Operators /\ \A p \in Operators : command'[p] = After(p)
    BY <2>1
  <2> HIDE DEF After
  <2>5. \A p \in Operators : CommandOK(seed, command'[p], row')
    BY <2>3, <2>4
  <2> QED BY <1>1, <2>1, <2>2, <2>4, <2>5, RecoveryPartsNext
<1>9. CASE UNCHANGED recoveryVars
  <2>1. seed' = seed /\ row' = row /\ command' = command
    BY <1>9 DEF recoveryVars
  <2> QED BY <1>1, <2>1, RecoveryPartsNext
<1> QED BY <1>4, <1>5, <1>6, <1>7, <1>8, <1>9 DEF RecoveryNext

(* The audit trail explains the row, a mutation confirmed with a token     *)
(* changes what was shown unless another save raced it, and no command     *)
(* loses mail, however many operators interleave (recovery_commands.ts).   *)
THEOREM RecoveryKeepsPromise == RecoverySpec => []RecoveryPromise
<1>1. RecoveryInit => RecoveryInv
  BY RecoveryStarts
<1>2. RecoveryInv /\ [RecoveryNext]_recoveryVars => RecoveryInv'
  BY RecoveryStep
<1>3. RecoveryInv => RecoveryPromise
  BY DEF RecoveryInv
<1> QED BY <1>1, <1>2, <1>3, PTL DEF RecoverySpec

-----------------------------------------------------------------------------
(* The burst batcher *)

BatcherSpec == BatcherInit /\ [][BatcherNext]_batcherVars

(* A function that is defined at each place from its value at another of   *)
(* lower rank exists.                                                      *)
Descends(D, V, stop, rank, base, next, step, top) ==
  /\ rank \in [D -> Nat] /\ top \in Nat /\ \A i \in D : rank[i] <= top
  /\ base \in [D -> V] /\ next \in [D -> D] /\ step \in [D \X V -> V]
  /\ \A i \in D \ stop : rank[next[i]] < rank[i]

LEMMA RecursionExists ==
  ASSUME NEW D, NEW V, NEW stop, NEW rank, NEW base, NEW next, NEW step, NEW top,
         Descends(D, V, stop, rank, base, next, step, top)
  PROVE  \E f \in [D -> V] : \A i \in D :
            f[i] = IF i \in stop THEN base[i] ELSE step[<<i, f[next[i]]>>]
<1> DEFINE Value(f, i) == IF i \in stop THEN base[i] ELSE step[<<i, f[next[i]]>>]
           S == {m \in Nat : \E f \in [D -> V] : \A i \in D : rank[i] < m => f[i] = Value(f, i)}
<1>0. /\ rank \in [D -> Nat] /\ top \in Nat /\ \A i \in D : rank[i] <= top
      /\ base \in [D -> V] /\ next \in [D -> D] /\ step \in [D \X V -> V]
      /\ \A i \in D \ stop : rank[next[i]] < rank[i]
  BY DEF Descends
<1>1. 0 \in S
  <2>1. \A i \in D : ~(rank[i] < 0)
    BY <1>0
  <2> HIDE DEF Value
  <2> QED BY <1>0, <2>1
<1>2. ASSUME NEW m \in S PROVE m + 1 \in S
  <2>0. m \in Nat
    OBVIOUS
  <2>1. PICK f \in [D -> V] : \A i \in D : rank[i] < m => f[i] = Value(f, i)
    <3> HIDE DEF Value
    <3> QED OBVIOUS
  <2> DEFINE g == [i \in D |-> IF rank[i] = m THEN Value(f, i) ELSE f[i]]
  <2>2. \A i \in D : Value(f, i) \in V
    BY <1>0
  <2>3. g \in [D -> V]
    <3> HIDE DEF Value
    <3> QED BY <2>2
  <2>4. \A i \in D : g[i] = IF rank[i] = m THEN Value(f, i) ELSE f[i]
    <3> HIDE DEF Value
    <3> QED OBVIOUS
  <2> HIDE DEF g
  <2>5. ASSUME NEW i \in D, rank[i] < m + 1 PROVE g[i] = Value(g, i)
    <3>1. i \notin stop => g[next[i]] = f[next[i]]
      <4> SUFFICES ASSUME i \notin stop PROVE g[next[i]] = f[next[i]]
        OBVIOUS
      <4>1. rank[next[i]] < rank[i] /\ rank[i] \in Nat /\ rank[next[i]] \in Nat /\ next[i] \in D
        BY <1>0
      <4>2. rank[next[i]] # m
        BY <2>0, <2>5, <4>1
      <4> QED BY <2>4, <4>1, <4>2
    <3>2. Value(g, i) = Value(f, i)
      BY <3>1
    <3>3. CASE rank[i] = m
      BY <2>4, <3>2, <3>3
    <3>4. CASE rank[i] # m
      <4>1. rank[i] < m
        BY <1>0, <2>0, <2>5, <3>4
      <4> HIDE DEF Value
      <4> QED BY <2>1, <2>4, <3>2, <3>4, <4>1
    <3> QED BY <3>3, <3>4
  <2> HIDE DEF Value
  <2> QED BY <2>0, <2>3, <2>5
<1>3. S = Nat
  <2>1. S \in SUBSET Nat
    OBVIOUS
  <2> HIDE DEF S
  <2> QED BY <1>1, <1>2, <2>1, NatSetInduction
<1> HIDE DEF S
<1>4. top + 1 \in S
  BY <1>0, <1>3
<1>5. PICK f \in [D -> V] : \A i \in D : rank[i] < top + 1 => f[i] = Value(f, i)
  <2> HIDE DEF Value
  <2> QED BY <1>4 DEF S
<1>6. \A i \in D : rank[i] < top + 1
  BY <1>0
<1> QED BY <1>5, <1>6

(* The running totals of counts. *)
LEMMA TotalExists ==
  ASSUME NEW c \in Seq(Nat)
  PROVE  \E f : f = [n \in 0..Len(c) |-> IF n = 0 THEN 0 ELSE f[n - 1] + c[n]]
<1> DEFINE D == 0..Len(c)
           rank == [i \in D |-> i]
           base == [i \in D |-> 0]
           next == [i \in D |-> IF i = 0 THEN 0 ELSE i - 1]
           step == [p \in D \X Nat |-> IF p[1] = 0 THEN 0 ELSE p[2] + c[p[1]]]
<1>1. Len(c) \in Nat /\ \A i \in 1..Len(c) : c[i] \in Nat
  OBVIOUS
<1>2. /\ rank \in [D -> Nat] /\ base \in [D -> Nat] /\ next \in [D -> D]
      /\ \A i \in D \ {0} : rank[next[i]] < rank[i]
      /\ \A i \in D : rank[i] <= Len(c)
  BY <1>1
<1>3. step \in [D \X Nat -> Nat]
  <2> SUFFICES ASSUME NEW p \in D \X Nat
               PROVE  (IF p[1] = 0 THEN 0 ELSE p[2] + c[p[1]]) \in Nat
    OBVIOUS
  <2>1. p[1] \in D /\ p[2] \in Nat
    OBVIOUS
  <2>2. p[1] # 0 => p[1] \in 1..Len(c)
    BY <1>1, <2>1
  <2> QED BY <1>1, <2>1, <2>2
<1>4. \A i \in D, v \in Nat : i # 0 => step[<<i, v>>] = v + c[i]
  OBVIOUS
<1>5. \A i \in D : i # 0 => next[i] = i - 1
  OBVIOUS
<1>6. \A i \in D : base[i] = 0
  OBVIOUS
<1> HIDE DEF rank, base, next, step
<1>7. PICK f \in [D -> Nat] : \A i \in D :
         f[i] = IF i \in {0} THEN base[i] ELSE step[<<i, f[next[i]]>>]
  <2> HIDE DEF D
  <2>1. Descends(D, Nat, {0}, rank, base, next, step, Len(c))
    BY <1>1, <1>2, <1>3 DEF Descends
  <2> QED BY <2>1, RecursionExists
<1>8. ASSUME NEW n \in D PROVE f[n] = IF n = 0 THEN 0 ELSE f[n - 1] + c[n]
  <2>1. CASE n = 0
    BY <1>6, <1>7, <2>1
  <2>2. CASE n # 0
    <3>1. n - 1 \in D
      BY <1>1, <2>2
    <3>2. f[n - 1] \in Nat /\ next[n] = n - 1
      BY <1>5, <1>7, <2>2, <3>1
    <3> QED BY <1>4, <1>7, <2>2, <3>1, <3>2
  <2> QED BY <2>1, <2>2
<1>9. f = [n \in D |-> IF n = 0 THEN 0 ELSE f[n - 1] + c[n]]
  BY <1>8
<1> QED BY <1>9

LEMMA Totals ==
  ASSUME NEW c \in Seq(Nat)
  PROVE  \E t \in [0..Len(c) -> Nat] :
            /\ t[0] = 0 /\ \A n \in 1..Len(c) : t[n] = t[n - 1] + c[n]
            /\ Total(c) = t[Len(c)]
<1> DEFINE t == CHOOSE f : f = [n \in 0..Len(c) |-> IF n = 0 THEN 0 ELSE f[n - 1] + c[n]]
           S == {n \in Nat : n <= Len(c) => t[n] \in Nat}
<1>1. t = [n \in 0..Len(c) |-> IF n = 0 THEN 0 ELSE t[n - 1] + c[n]]
  BY TotalExists
<1>2. Total(c) = t[Len(c)]
  BY DEF Total
<1> HIDE DEF t
<1>3. Len(c) \in Nat /\ \A i \in 1..Len(c) : c[i] \in Nat
  OBVIOUS
<1>4. t[0] = 0 /\ \A n \in 1..Len(c) : t[n] = t[n - 1] + c[n]
  BY <1>1, <1>3
<1>5. S = Nat
  <2>1. 0 \in S
    BY <1>4
  <2>2. ASSUME NEW n \in S PROVE n + 1 \in S
    <3>1. n \in Nat /\ (n <= Len(c) => t[n] \in Nat)
      OBVIOUS
    <3>2. ASSUME n + 1 <= Len(c) PROVE t[n + 1] \in Nat
      <4>1. n + 1 \in 1..Len(c) /\ (n + 1) - 1 = n /\ n <= Len(c)
        BY <1>3, <3>1, <3>2
      <4>2. t[n + 1] = t[n] + c[n + 1] /\ c[n + 1] \in Nat /\ t[n] \in Nat
        BY <1>3, <1>4, <3>1, <4>1
      <4> QED BY <4>2
    <3> QED BY <3>1, <3>2
  <2>3. S \in SUBSET Nat
    OBVIOUS
  <2> HIDE DEF S
  <2> QED BY <2>1, <2>2, <2>3, NatSetInduction
<1>6. \A n \in 0..Len(c) : t[n] \in Nat
  BY <1>3, <1>5
<1>7. t \in [0..Len(c) -> Nat]
  BY <1>1, <1>6
<1> QED BY <1>2, <1>4, <1>7

(* A sum grows with its terms. *)
LEMMA TotalGrows ==
  ASSUME NEW c \in Seq(Nat), NEW d \in Seq(Nat), Len(d) <= Len(c),
         \A i \in 1..Len(d) : d[i] <= c[i]
  PROVE  Total(d) <= Total(c) /\ Total(c) \in Nat /\ Total(d) \in Nat
<1>1. PICK t \in [0..Len(c) -> Nat] :
         t[0] = 0 /\ (\A n \in 1..Len(c) : t[n] = t[n - 1] + c[n]) /\ Total(c) = t[Len(c)]
  BY Totals
<1>2. PICK u \in [0..Len(d) -> Nat] :
         u[0] = 0 /\ (\A n \in 1..Len(d) : u[n] = u[n - 1] + d[n]) /\ Total(d) = u[Len(d)]
  BY Totals
<1>3. /\ Len(c) \in Nat /\ \A i \in 1..Len(c) : c[i] \in Nat
      /\ Len(d) \in Nat /\ \A i \in 1..Len(d) : d[i] \in Nat
  OBVIOUS
<1> DEFINE S == {n \in Nat : n <= Len(c) =>
                    t[n] >= IF n <= Len(d) THEN u[n] ELSE u[Len(d)]}
<1>4. 0 \in S
  BY <1>1, <1>2, <1>3
<1>5. ASSUME NEW n \in S PROVE n + 1 \in S
  <2> SUFFICES ASSUME n + 1 <= Len(c)
               PROVE  t[n + 1] >= IF n + 1 <= Len(d) THEN u[n + 1] ELSE u[Len(d)]
    OBVIOUS
  <2>0. n \in Nat /\ n <= Len(c) /\ n + 1 \in 1..Len(c) /\ (n + 1) - 1 = n /\ n \in 0..Len(c)
    BY <1>3
  <2>1. t[n] >= IF n <= Len(d) THEN u[n] ELSE u[Len(d)]
    BY <2>0
  <2>2. t[n + 1] = t[n] + c[n + 1] /\ c[n + 1] \in Nat /\ t[n] \in Nat
    BY <1>1, <1>3, <2>0
  <2>3. CASE n + 1 <= Len(d)
    <3>1. n + 1 \in 1..Len(d) /\ n \in 0..Len(d)
      BY <1>3, <2>0, <2>3
    <3>2. u[n + 1] = u[n] + d[n + 1] /\ d[n + 1] \in Nat /\ u[n] \in Nat
      BY <1>2, <1>3, <2>0, <3>1
    <3>3. d[n + 1] <= c[n + 1]
      BY <3>1
    <3> QED BY <1>3, <2>0, <2>1, <2>2, <2>3, <3>1, <3>2, <3>3
  <2>4. CASE ~(n + 1 <= Len(d))
    <3>1. u[Len(d)] \in Nat /\ t[n] >= u[Len(d)]
      BY <1>2, <1>3, <2>0, <2>1, <2>4
    <3> QED BY <1>3, <2>0, <2>2, <2>4, <3>1
  <2> QED BY <2>3, <2>4
<1>6. S = Nat
  <2>1. S \in SUBSET Nat
    OBVIOUS
  <2> HIDE DEF S
  <2> QED BY <1>4, <1>5, <2>1, NatSetInduction
<1>7. t[Len(c)] >= u[Len(d)] /\ t[Len(c)] \in Nat /\ u[Len(d)] \in Nat
  <2>1. Len(c) \in S
    BY <1>3, <1>6
  <2>2. t[Len(c)] >= IF Len(c) <= Len(d) THEN u[Len(c)] ELSE u[Len(d)]
    BY <1>3, <2>1
  <2>3. Len(c) <= Len(d) => Len(c) = Len(d)
    BY <1>3
  <2>4. t[Len(c)] >= u[Len(d)]
    BY <2>2, <2>3
  <2>5. Len(c) \in 0..Len(c) /\ Len(d) \in 0..Len(d)
    BY <1>3
  <2> QED BY <1>1, <1>2, <2>4, <2>5
<1> QED BY <1>1, <1>2, <1>7

(* A sum is at least that of its last terms. *)
LEMMA TotalOfTail ==
  ASSUME NEW c \in Seq(Nat), NEW d \in Seq(Nat), NEW o \in Nat, Len(d) + o = Len(c),
         \A i \in 1..Len(d) : d[i] = c[i + o]
  PROVE  Total(d) <= Total(c) /\ Total(c) \in Nat /\ Total(d) \in Nat
<1>1. PICK t \in [0..Len(c) -> Nat] :
         t[0] = 0 /\ (\A n \in 1..Len(c) : t[n] = t[n - 1] + c[n]) /\ Total(c) = t[Len(c)]
  BY Totals
<1>2. PICK u \in [0..Len(d) -> Nat] :
         u[0] = 0 /\ (\A n \in 1..Len(d) : u[n] = u[n - 1] + d[n]) /\ Total(d) = u[Len(d)]
  BY Totals
<1>3. /\ Len(c) \in Nat /\ Len(d) \in Nat /\ \A i \in 1..Len(d) : d[i] \in Nat
  OBVIOUS
<1> DEFINE S == {n \in Nat : n <= Len(d) => u[n] <= t[n + o]}
<1>4. 0 \in S
  <2>1. o \in 0..Len(c) /\ 0 + o = o
    BY <1>3
  <2>2. t[o] \in Nat
    BY <1>1, <2>1
  <2>3. u[0] <= t[0 + o]
    BY <1>2, <2>1, <2>2
  <2> QED BY <2>3
<1>5. ASSUME NEW n \in S PROVE n + 1 \in S
  <2> SUFFICES ASSUME n + 1 <= Len(d) PROVE u[n + 1] <= t[(n + 1) + o]
    OBVIOUS
  <2>1. /\ n \in Nat /\ n + 1 \in 1..Len(d) /\ (n + 1) - 1 = n /\ n \in 0..Len(d)
        /\ u[n] <= t[n + o]
    BY <1>3
  <2>2. /\ (n + 1) + o \in 1..Len(c) /\ ((n + 1) + o) - 1 = n + o /\ n + o \in 0..Len(c)
    BY <1>3, <2>1
  <2>3. u[n + 1] = u[n] + d[n + 1] /\ u[n] \in Nat /\ d[n + 1] \in Nat
    BY <1>2, <1>3, <2>1
  <2>4. t[(n + 1) + o] = t[n + o] + c[(n + 1) + o] /\ t[n + o] \in Nat
    BY <1>1, <2>2
  <2>5. d[n + 1] = c[(n + 1) + o]
    BY <2>1
  <2> DEFINE x == t[(n + 1) + o]
             y == t[n + o]
             z == d[n + 1]
  <2>6. u[n + 1] = u[n] + z /\ u[n] \in Nat /\ z \in Nat /\ y \in Nat /\ x = y + z /\ u[n] <= y
    BY <2>1, <2>3, <2>4, <2>5
  <2>7. u[n + 1] <= x
    <3> HIDE DEF x, y, z
    <3> QED BY <2>6
  <2> QED BY <2>7
<1>6. S = Nat
  <2>1. S \in SUBSET Nat
    OBVIOUS
  <2> HIDE DEF S
  <2> QED BY <1>4, <1>5, <2>1, NatSetInduction
<1>7. u[Len(d)] <= t[Len(d) + o]
  <2>1. Len(d) \in S
    BY <1>3, <1>6
  <2> QED BY <1>3, <2>1
<1>8. Len(c) \in 0..Len(c) /\ Len(d) \in 0..Len(d)
  BY <1>3
<1> QED BY <1>1, <1>2, <1>7, <1>8

(* A sum of n terms up to x is n * x at most. *)
LEMMA TotalBounded ==
  ASSUME NEW c \in Seq(Nat), NEW x \in Nat, \A i \in 1..Len(c) : c[i] <= x
  PROVE  Total(c) <= Len(c) * x /\ Total(c) \in Nat
<1>1. PICK t \in [0..Len(c) -> Nat] :
         t[0] = 0 /\ (\A n \in 1..Len(c) : t[n] = t[n - 1] + c[n]) /\ Total(c) = t[Len(c)]
  BY Totals
<1>2. Len(c) \in Nat /\ \A i \in 1..Len(c) : c[i] \in Nat
  OBVIOUS
<1> DEFINE S == {n \in Nat : n <= Len(c) => t[n] <= n * x}
<1>3. 0 \in S
  BY <1>1
<1>4. ASSUME NEW n \in S PROVE n + 1 \in S
  <2> SUFFICES ASSUME n + 1 <= Len(c) PROVE t[n + 1] <= (n + 1) * x
    OBVIOUS
  <2>1. n \in Nat /\ n + 1 \in 1..Len(c) /\ (n + 1) - 1 = n /\ n \in 0..Len(c) /\ t[n] <= n * x
    BY <1>2
  <2>2. t[n + 1] = t[n] + c[n + 1] /\ c[n + 1] \in Nat /\ t[n] \in Nat /\ c[n + 1] <= x
    BY <1>1, <1>2, <2>1
  <2>3. (n + 1) * x = n * x + x /\ n * x \in Nat
    BY <2>1
  <2> QED BY <2>1, <2>2, <2>3
<1>5. S = Nat
  <2>1. S \in SUBSET Nat
    OBVIOUS
  <2> HIDE DEF S
  <2> QED BY <1>3, <1>4, <2>1, NatSetInduction
<1>6. t[Len(c)] <= Len(c) * x
  <2>1. Len(c) \in S
    BY <1>2, <1>5
  <2> QED BY <1>2, <2>1
<1>7. Len(c) \in 0..Len(c)
  BY <1>2
<1> QED BY <1>1, <1>6, <1>7

(* Two sums whose terms differ by the same amount. *)
Differ(c, d, a, b) == Len(c) = Len(d) /\ \A i \in 1..Len(c) : c[i] + a = d[i] + b

LEMMA TotalsDiffer ==
  ASSUME NEW c \in Seq(Nat), NEW d \in Seq(Nat), NEW a \in Nat, NEW b \in Nat,
         Differ(c, d, a, b)
  PROVE  Total(c) + Len(c) * a = Total(d) + Len(c) * b
<1>0. Len(c) = Len(d) /\ \A i \in 1..Len(c) : c[i] + a = d[i] + b
  BY DEF Differ
<1>1. PICK t \in [0..Len(c) -> Nat] :
         t[0] = 0 /\ (\A n \in 1..Len(c) : t[n] = t[n - 1] + c[n]) /\ Total(c) = t[Len(c)]
  BY Totals
<1>2. PICK u \in [0..Len(c) -> Nat] :
         u[0] = 0 /\ (\A n \in 1..Len(c) : u[n] = u[n - 1] + d[n]) /\ Total(d) = u[Len(c)]
  BY <1>0, Totals
<1>3. Len(c) \in Nat /\ \A i \in 1..Len(c) : c[i] \in Nat /\ d[i] \in Nat
  BY <1>0
<1> DEFINE S == {n \in Nat : n <= Len(c) => t[n] + n * a = u[n] + n * b}
<1>4. 0 \in S
  BY <1>1, <1>2
<1>5. ASSUME NEW n \in S PROVE n + 1 \in S
  <2> SUFFICES ASSUME n + 1 <= Len(c)
               PROVE  t[n + 1] + (n + 1) * a = u[n + 1] + (n + 1) * b
    OBVIOUS
  <2>1. n \in Nat /\ n + 1 \in 1..Len(c) /\ (n + 1) - 1 = n /\ n \in 0..Len(c)
        /\ t[n] + n * a = u[n] + n * b
    BY <1>3
  <2>2. /\ t[n + 1] = t[n] + c[n + 1] /\ c[n + 1] \in Nat /\ t[n] \in Nat
        /\ u[n + 1] = u[n] + d[n + 1] /\ d[n + 1] \in Nat /\ u[n] \in Nat
        /\ c[n + 1] + a = d[n + 1] + b
    BY <1>0, <1>1, <1>2, <1>3, <2>1
  <2>3. /\ (n + 1) * a = n * a + a /\ n * a \in Nat
        /\ (n + 1) * b = n * b + b /\ n * b \in Nat
    BY <2>1
  <2>4. (t[n] + c[n + 1]) + (n * a + a) = (u[n] + d[n + 1]) + (n * b + b)
    <3> DEFINE p == t[n]
               q == u[n]
               f == c[n + 1]
               g == d[n + 1]
               x == n * a
               y == n * b
    <3>1. /\ p \in Nat /\ q \in Nat /\ f \in Nat /\ g \in Nat /\ x \in Nat /\ y \in Nat
          /\ p + x = q + y /\ f + a = g + b
      BY <2>1, <2>2, <2>3
    <3> HIDE DEF p, q, f, g, x, y
    <3>2. (p + f) + (x + a) = (q + g) + (y + b)
      BY <3>1
    <3> QED BY <3>2 DEF p, q, f, g, x, y
  <2> QED BY <2>2, <2>3, <2>4
<1>6. S = Nat
  <2>1. S \in SUBSET Nat
    OBVIOUS
  <2> HIDE DEF S
  <2> QED BY <1>4, <1>5, <2>1, NatSetInduction
<1>7. t[Len(c)] + Len(c) * a = u[Len(c)] + Len(c) * b
  <2>1. Len(c) \in S
    BY <1>3, <1>6
  <2> QED BY <1>3, <2>1
<1> QED BY <1>1, <1>2, <1>7

-----------------------------------------------------------------------------
(* What fits, and what encodes *)

LEMMA EventFields ==
  ASSUME NEW e \in Events
  PROVE  /\ e.id \in 1..MaxAdded /\ e.size \in Nat /\ e.rank \in 0..3 /\ e.at \in 0..MaxNow
         /\ \E k \in EventKinds : e.size = k.size
BY BatcherAssumption DEF Events

VisibleCounts(s) == [i \in 1..Len(s) |-> IF Hidden(s, i) THEN 0 ELSE s[i].size + Overhead]
EncodedCounts(s) == [i \in 1..Len(s) |-> s[i].size + LineCost]

LEMMA CountsAreNumbers ==
  ASSUME NEW s \in Seq(Events)
  PROVE  /\ VisibleCounts(s) \in Seq(Nat) /\ Len(VisibleCounts(s)) = Len(s)
         /\ EncodedCounts(s) \in Seq(Nat) /\ Len(EncodedCounts(s)) = Len(s)
<1>1. Len(s) \in Nat /\ \A i \in 1..Len(s) : s[i] \in Events
  OBVIOUS
<1>2. \A i \in 1..Len(s) : s[i].size \in Nat
  BY <1>1, EventFields
<1>3. Overhead \in Nat /\ LineCost \in Nat
  BY BatcherAssumption
<1>4. \A i \in 1..Len(s) : (IF Hidden(s, i) THEN 0 ELSE s[i].size + Overhead) \in Nat
  BY <1>2, <1>3
<1>5. VisibleCounts(s) \in [1..Len(s) -> Nat]
  BY <1>4 DEF VisibleCounts
<1>6. EncodedCounts(s) \in [1..Len(s) -> Nat]
  BY <1>2, <1>3 DEF EncodedCounts
<1> QED BY <1>1, <1>5, <1>6

LEMMA BytesAreTotals ==
  ASSUME NEW s
  PROVE  /\ VisibleBytes(s) = Total(VisibleCounts(s))
         /\ EncodedBytes(s) = Frame + Total(EncodedCounts(s))
BY DEF VisibleBytes, EncodedBytes, VisibleCounts, EncodedCounts

LEMMA NothingFits == Fits(<<>>)
<1> DEFINE c == VisibleCounts(<<>>)
<1>1. <<>> \in Seq(Events) /\ Len(<<>>) = 0
  OBVIOUS
<1>2. Len(c) = 0 /\ c \in Seq(Nat)
  BY <1>1, CountsAreNumbers
<1>3. VisibleBytes(<<>>) = Total(c)
  BY BytesAreTotals
<1> HIDE DEF c
<1>4. PICK t \in [0..Len(c) -> Nat] : t[0] = 0 /\ Total(c) = t[Len(c)]
  BY <1>2, Totals
<1>5. VisibleBytes(<<>>) = 0
  BY <1>2, <1>3, <1>4
<1> QED BY <1>1, <1>5, BatcherAssumption DEF Fits

LEMMA NothingWaits == PrefixesFit(<<>>)
<1>1. Len(<<>>) = 0 /\ SubSeq(<<>>, 1, 0) = <<>>
  OBVIOUS
<1>2. \A n \in 0..0 : n = 0
  OBVIOUS
<1> QED BY <1>1, <1>2, NothingFits DEF PrefixesFit

Whole(b) == b # <<>> /\ (Len(b) = 1 \/ Fits(b))

(* Without collapse the encoder accepts a batch within the caps, and any   *)
(* event alone.                                                            *)
LEMMA WholeEncodes ==
  ASSUME NEW b \in Seq(Events), ~collapse, Whole(b)
  PROVE  Len(b) <= MaxEvents /\ EncodedBytes(b) <= MaxBytes
<1> DEFINE n == Len(b)
           c == VisibleCounts(b)
           d == EncodedCounts(b)
<1>1. n \in Nat \ {0} /\ \A i \in 1..n : b[i] \in Events
  BY DEF Whole
<1>2. c \in Seq(Nat) /\ Len(c) = n /\ d \in Seq(Nat) /\ Len(d) = n
  BY CountsAreNumbers
<1>3. MaxEvents \in Nat /\ MaxBytes \in Nat /\ Overhead \in Nat /\ LineCost \in Nat /\ Frame \in Nat
      /\ MaxEvents >= 1
  BY BatcherAssumption
<1>4. \A i \in 1..n : /\ d[i] = b[i].size + LineCost
                      /\ c[i] = b[i].size + Overhead
                      /\ b[i].size \in Nat
  BY <1>1, EventFields DEF VisibleCounts, EncodedCounts, Hidden
<1>5. EncodedBytes(b) = Frame + Total(d) /\ VisibleBytes(b) = Total(c)
  BY BytesAreTotals
<1>6. \A i \in 1..n : \E k \in EventKinds : d[i] = k.size + LineCost
  BY <1>1, <1>4, EventFields
<1>7. \A i \in 1..n : d[i] + Frame <= MaxBytes /\ d[i] \in Nat
  BY <1>2, <1>6, SizesAssumption
<1> HIDE DEF c, d
<1>8. \E x \in Nat : (\E i \in 1..n : x = d[i]) /\ \A i \in 1..n : d[i] <= x
  <2> DEFINE V == {d[i] : i \in 1..n}
  <2>1. \A i \in 1..n : d[i] \in 0..MaxBytes
    BY <1>3, <1>7
  <2>2. V \in SUBSET (0..MaxBytes) /\ V # {}
    <3>1. 1 \in 1..n
      BY <1>1
    <3> QED BY <2>1, <3>1
  <2>3. \A i \in 1..n : d[i] \in V
    OBVIOUS
  <2>4. \A v \in V : \E i \in 1..n : v = d[i]
    OBVIOUS
  <2> HIDE DEF V
  <2>5. Max(V) \in V /\ \A y \in V : Max(V) >= y
    BY <1>3, <2>2, BoundedMax
  <2>6. Max(V) \in Nat /\ \E i \in 1..n : Max(V) = d[i]
    <3> HIDE DEF n
    <3>1. Max(V) \in V /\ Max(V) \in 0..MaxBytes
      BY <2>2, <2>5
    <3>2. \E i \in 1..n : Max(V) = d[i]
      BY <2>4, <3>1
    <3> QED BY <1>3, <3>1, <3>2
  <2>7. \A i \in 1..n : d[i] <= Max(V)
    <3> SUFFICES ASSUME NEW i \in 1..n PROVE d[i] <= Max(V)
      OBVIOUS
    <3>1. Max(V) >= d[i] /\ d[i] \in Nat
      BY <1>7, <2>3, <2>5
    <3> QED BY <2>6, <3>1
  <2> HIDE DEF n
  <2> QED BY <2>6, <2>7
<1>9. PICK x \in Nat : (\E i \in 1..n : x = d[i]) /\ \A i \in 1..n : d[i] <= x
  BY <1>8
<1>10. Total(d) <= n * x /\ Total(d) \in Nat
  BY <1>2, <1>9, TotalBounded
<1>11. x + Frame <= MaxBytes
  BY <1>7, <1>9
<1>12. CASE n = 1
  <2>1. 1 * x = x
    OBVIOUS
  <2> QED BY <1>3, <1>5, <1>10, <1>11, <1>12, <2>1
<1>13. CASE n # 1
  <2>1. Fits(b)
    BY <1>13 DEF Whole
  <2>2. n <= MaxEvents /\ Total(c) <= MaxBytes
    BY <1>5, <2>1 DEF Fits
  <2>3. n \in 2..MaxEvents
    <3> HIDE DEF n
    <3> QED BY <1>1, <1>3, <1>13, <2>2
  <2>4. \/ n * Overhead >= n * LineCost + Frame
        \/ \A k \in EventKinds : n * (k.size + LineCost) + Frame <= MaxBytes
    BY <2>3, SizesAssumption
  <2> HIDE DEF n
  <2>5. CASE n * Overhead >= n * LineCost + Frame
    <3>1. \A i \in 1..Len(c) : c[i] + LineCost = d[i] + Overhead
      <4>1. \A i \in 1..n : (b[i].size + Overhead) + LineCost = (b[i].size + LineCost) + Overhead
        BY <1>3, <1>4
      <4> QED BY <1>2, <1>4, <4>1
    <3>2. Len(c) = Len(d) /\ c \in Seq(Nat) /\ d \in Seq(Nat)
      BY <1>2
    <3>2a. Total(c) + Len(c) * LineCost = Total(d) + Len(c) * Overhead
      <4> HIDE DEF n
      <4>1. LineCost \in Nat /\ Overhead \in Nat
        BY <1>3
      <4>2. Differ(c, d, LineCost, Overhead)
        BY <3>1, <3>2 DEF Differ
      <4> QED BY <3>2, <4>1, <4>2, TotalsDiffer
    <3>2b. Total(c) + n * LineCost = Total(d) + n * Overhead
      BY <1>2, <3>2a
    <3>3. n * Overhead \in Nat /\ n * LineCost \in Nat
      BY <1>1, <1>3
    <3>4. Total(c) \in Nat
      <4>1. \A i \in 1..Len(c) : c[i] <= c[i]
        BY <1>2
      <4> QED BY <1>2, <4>1, TotalGrows
    <3>5. Frame + Total(d) <= MaxBytes
      <4> DEFINE x1 == n * Overhead
                 x2 == n * LineCost
      <4>1. /\ x1 \in Nat /\ x2 \in Nat /\ x1 >= x2 + Frame
            /\ Total(c) + x2 = Total(d) + x1
        BY <2>5, <3>2b, <3>3
      <4> HIDE DEF x1, x2
      <4> QED BY <1>3, <1>10, <2>2, <3>4, <4>1
    <3> QED BY <1>5, <2>2, <3>5 DEF n
  <2>6. CASE \A k \in EventKinds : n * (k.size + LineCost) + Frame <= MaxBytes
    <3>1. PICK k \in EventKinds : x = k.size + LineCost
      BY <1>6, <1>9
    <3>2. n * x + Frame <= MaxBytes
      BY <2>6, <3>1
    <3>3. n * x \in Nat
      BY <1>1
    <3>4. Frame + Total(d) <= MaxBytes
      <4> DEFINE x1 == n * x
      <4>1. x1 \in Nat /\ x1 + Frame <= MaxBytes /\ Total(d) <= x1
        BY <1>10, <3>2, <3>3 DEF n
      <4> HIDE DEF x1
      <4> QED BY <1>3, <1>10, <4>1
    <3> QED BY <1>5, <2>2, <3>4 DEF n
  <2> QED BY <2>4, <2>5, <2>6
<1> QED BY <1>12, <1>13

(* A batch is the longest prefix that fits, and one event at least. *)
LEMMA PrefixIsLongest ==
  ASSUME NEW s \in Seq(Events), s # <<>>
  PROVE  /\ PrefixLength(s) \in 1..Len(s)
         /\ Whole(PrefixOf(s)) /\ PrefixOf(s) \in Seq(Events)
         /\ PrefixesFit(s) => PrefixLength(s) = Len(s)
<1> DEFINE A == {n \in 1..Len(s) : \A k \in 2..n : Fits(SubSeq(s, 1, k))}
           m == PrefixLength(s)
<1>1. Len(s) \in Nat \ {0}
  OBVIOUS
<1>2. A \in SUBSET (0..Len(s))
  BY <1>1
<1>3. 1 \in A
  BY <1>1
<1>4. A # {}
  BY <1>3
<1>5. m = Max(A)
  BY DEF PrefixLength
<1>6. \A n \in A : n \in 1..Len(s) /\ \A k \in 2..n : Fits(SubSeq(s, 1, k))
  OBVIOUS
<1>7. PrefixesFit(s) => Len(s) \in A
  BY <1>1 DEF PrefixesFit
<1> HIDE DEF A
<1>8. m \in A /\ \A y \in A : m >= y
  BY <1>1, <1>2, <1>4, <1>5, BoundedMax
<1>9. m \in 1..Len(s)
  BY <1>6, <1>8
<1>10. Len(PrefixOf(s)) = m /\ PrefixOf(s) \in Seq(Events) /\ PrefixOf(s) # <<>>
  <2> HIDE DEF m
  <2>1. Len(SubSeq(s, 1, m)) = m /\ SubSeq(s, 1, m) \in Seq(Events)
    BY <1>1, <1>9
  <2>2. SubSeq(s, 1, m) # <<>>
    BY <1>9, <2>1
  <2> QED BY <2>1, <2>2 DEF PrefixOf, m
<1>11. m # 1 => Fits(PrefixOf(s))
  <2> SUFFICES ASSUME m # 1 PROVE Fits(PrefixOf(s))
    OBVIOUS
  <2> HIDE DEF m
  <2>1. m \in 2..m
    BY <1>1, <1>9
  <2>2. Fits(SubSeq(s, 1, m))
    BY <1>6, <1>8, <2>1
  <2> QED BY <2>2 DEF PrefixOf, m
<1>12. PrefixesFit(s) => m = Len(s)
  <2> HIDE DEF m
  <2> QED BY <1>1, <1>7, <1>8, <1>9
<1> QED BY <1>9, <1>10, <1>11, <1>12 DEF Whole

-----------------------------------------------------------------------------
(* Batches put end to end *)

LEMMA FlatExists ==
  ASSUME NEW V, NEW x \in Seq(Seq(V))
  PROVE  \E f : f = [i \in 1..Len(x) |-> IF i = 1 THEN x[i] ELSE f[i - 1] \o x[i]]
<1> DEFINE D == 1..Len(x)
           W == Seq(V)
           rank == [i \in D |-> i]
           base == [i \in D |-> x[i]]
           next == [i \in D |-> IF i = 1 THEN 1 ELSE i - 1]
           step == [p \in D \X W |-> p[2] \o x[p[1]]]
<1>1. Len(x) \in Nat /\ \A i \in D : x[i] \in W
  OBVIOUS
<1>2. /\ rank \in [D -> Nat] /\ base \in [D -> W] /\ next \in [D -> D]
      /\ \A i \in D \ {1} : rank[next[i]] < rank[i]
      /\ \A i \in D : rank[i] <= Len(x)
  BY <1>1
<1>3. step \in [D \X W -> W]
  <2> SUFFICES ASSUME NEW p \in D \X W PROVE p[2] \o x[p[1]] \in W
    OBVIOUS
  <2>1. p[1] \in D /\ p[2] \in W /\ x[p[1]] \in W
    BY <1>1
  <2> QED BY <2>1, ConcatProperties
<1>4. \A i \in D, v \in W : step[<<i, v>>] = v \o x[i]
  OBVIOUS
<1>5. \A i \in D : i # 1 => next[i] = i - 1 /\ i - 1 \in D
  BY <1>1
<1>6. \A i \in D : base[i] = x[i]
  OBVIOUS
<1> HIDE DEF rank, base, next, step, W
<1>7. PICK f \in [D -> W] : \A i \in D :
         f[i] = IF i \in {1} THEN base[i] ELSE step[<<i, f[next[i]]>>]
  <2> HIDE DEF D
  <2>1. Descends(D, W, {1}, rank, base, next, step, Len(x))
    BY <1>1, <1>2, <1>3 DEF Descends
  <2> QED BY <2>1, RecursionExists
<1>8. ASSUME NEW n \in D PROVE f[n] = IF n = 1 THEN x[n] ELSE f[n - 1] \o x[n]
  <2>1. CASE n = 1
    BY <1>6, <1>7, <2>1
  <2>2. CASE n # 1
    <3>1. next[n] = n - 1 /\ n - 1 \in D
      BY <1>5, <2>2
    <3>2. f[n - 1] \in W
      BY <1>7, <3>1
    <3>3. f[n] = step[<<n, f[n - 1]>>]
      BY <1>7, <2>2, <3>1
    <3> QED BY <1>4, <2>2, <3>2, <3>3
  <2> QED BY <2>1, <2>2
<1>9. f = [n \in D |-> IF n = 1 THEN x[n] ELSE f[n - 1] \o x[n]]
  BY <1>8
<1> QED BY <1>9

LEMMA Flats ==
  ASSUME NEW V, NEW x \in Seq(Seq(V))
  PROVE  \E f \in [0..Len(x) -> Seq(V)] :
            /\ f[0] = <<>> /\ \A n \in 1..Len(x) : f[n] = f[n - 1] \o x[n]
            /\ FlattenSeq(x) = f[Len(x)]
<1> DEFINE t == CHOOSE f : f = [i \in 1..Len(x) |-> IF i = 1 THEN x[i] ELSE f[i - 1] \o x[i]]
           g == [n \in 0..Len(x) |-> IF n = 0 THEN <<>> ELSE t[n]]
           S == {n \in Nat : n <= Len(x) => g[n] \in Seq(V)}
<1>1. t = [i \in 1..Len(x) |-> IF i = 1 THEN x[i] ELSE t[i - 1] \o x[i]]
  BY FlatExists
<1>2. Len(x) # 0 => FlattenSeq(x) = t[Len(x)]
  BY DEF FlattenSeq
<1>3. Len(x) = 0 => FlattenSeq(x) = <<>>
  BY DEF FlattenSeq
<1> HIDE DEF t
<1>4. Len(x) \in Nat /\ \A i \in 1..Len(x) : x[i] \in Seq(V)
  OBVIOUS
<1>5. g[0] = <<>> /\ \A n \in 1..Len(x) : g[n] = t[n]
  BY <1>4
<1>5a. g = [n \in 0..Len(x) |-> g[n]]
  OBVIOUS
<1> HIDE DEF g
<1>6. ASSUME NEW n \in 1..Len(x) PROVE g[n] = g[n - 1] \o x[n]
  <2>1. CASE n = 1
    <3>1. g[1] = x[1]
      BY <1>1, <1>5, <2>1
    <3>2. x[1] \in Seq(V) /\ g[1 - 1] = <<>>
      BY <1>4, <1>5, <2>1
    <3> QED BY <2>1, <3>1, <3>2, ConcatEmptySeq
  <2>2. CASE n # 1
    <3>1. n - 1 \in 1..Len(x)
      BY <1>4, <2>2
    <3> QED BY <1>1, <1>5, <2>2, <3>1
  <2> QED BY <2>1, <2>2
<1>7. S = Nat
  <2>1. 0 \in S
    <3>1. g[0] \in Seq(V) /\ 0 \in Nat
      BY <1>5
    <3> QED BY <3>1, Zenon
  <2>2. ASSUME NEW n \in S PROVE n + 1 \in S
    <3>1. n \in Nat /\ (n <= Len(x) => g[n] \in Seq(V))
      OBVIOUS
    <3>2. ASSUME n + 1 <= Len(x) PROVE g[n + 1] \in Seq(V)
      <4>1. n + 1 \in 1..Len(x) /\ (n + 1) - 1 = n /\ n <= Len(x)
        BY <1>4, <3>1, <3>2
      <4>2. g[n + 1] = g[n] \o x[n + 1] /\ x[n + 1] \in Seq(V) /\ g[n] \in Seq(V)
        BY <1>4, <1>6, <3>1, <4>1
      <4> QED BY <4>2, ConcatProperties
    <3> QED BY <3>1, <3>2
  <2>3. S \in SUBSET Nat
    OBVIOUS
  <2> HIDE DEF S
  <2> QED BY <2>1, <2>2, <2>3, NatSetInduction
<1>8. \A n \in 0..Len(x) : g[n] \in Seq(V)
  BY <1>4, <1>7
<1>9. g \in [0..Len(x) -> Seq(V)]
  BY <1>5a, <1>8
<1>10. FlattenSeq(x) = g[Len(x)]
  BY <1>2, <1>3, <1>4, <1>5
<1> QED BY <1>5, <1>6, <1>9, <1>10

EndsMeet(V) == \A a, b, c \in Seq(V) : (a \o b) \o c = a \o (b \o c)

LEMMA EndToEnd == ASSUME NEW V PROVE EndsMeet(V)
BY ConcatAssociative DEF EndsMeet

LEMMA FlattenConcat ==
  ASSUME NEW V, NEW x \in Seq(Seq(V)), NEW y \in Seq(Seq(V))
  PROVE  /\ FlattenSeq(x) \in Seq(V) /\ FlattenSeq(y) \in Seq(V)
         /\ FlattenSeq(x \o y) = FlattenSeq(x) \o FlattenSeq(y)
<1> DEFINE z == x \o y
<1>1. z \in Seq(Seq(V)) /\ Len(z) = Len(x) + Len(y)
  BY ConcatProperties
<1>2. /\ Len(x) \in Nat /\ \A i \in 1..Len(x) : x[i] \in Seq(V)
      /\ Len(y) \in Nat /\ \A i \in 1..Len(y) : y[i] \in Seq(V)
  OBVIOUS
<1>3. /\ \A i \in 1..Len(x) : z[i] = x[i]
      /\ \A i \in 1..Len(y) : z[Len(x) + i] = y[i]
  OBVIOUS
<1> HIDE DEF z
<1>4. PICK f \in [0..Len(x) -> Seq(V)] :
         f[0] = <<>> /\ (\A n \in 1..Len(x) : f[n] = f[n - 1] \o x[n]) /\ FlattenSeq(x) = f[Len(x)]
  BY Flats
<1>5. PICK g \in [0..Len(y) -> Seq(V)] :
         g[0] = <<>> /\ (\A n \in 1..Len(y) : g[n] = g[n - 1] \o y[n]) /\ FlattenSeq(y) = g[Len(y)]
  BY Flats
<1>6. PICK h \in [0..Len(z) -> Seq(V)] :
         h[0] = <<>> /\ (\A n \in 1..Len(z) : h[n] = h[n - 1] \o z[n]) /\ FlattenSeq(z) = h[Len(z)]
  BY <1>1, Flats
<1> DEFINE S == {n \in Nat : n <= Len(x) => h[n] = f[n]}
           T == {n \in Nat : n <= Len(y) => h[Len(x) + n] = f[Len(x)] \o g[n]}
<1>7. S = Nat
  <2>1. 0 \in S
    BY <1>4, <1>6
  <2>2. ASSUME NEW n \in S PROVE n + 1 \in S
    <3>1. n \in Nat /\ (n <= Len(x) => h[n] = f[n])
      OBVIOUS
    <3>2. ASSUME n + 1 <= Len(x) PROVE h[n + 1] = f[n + 1]
      <4>1. n + 1 \in 1..Len(x) /\ (n + 1) - 1 = n /\ n <= Len(x) /\ n + 1 \in 1..Len(z)
        BY <1>1, <1>2, <3>1, <3>2
      <4>2. h[n + 1] = h[n] \o z[n + 1] /\ f[n + 1] = f[n] \o x[n + 1] /\ z[n + 1] = x[n + 1]
        BY <1>3, <1>4, <1>6, <4>1
      <4> QED BY <3>1, <4>1, <4>2
    <3> QED BY <3>1, <3>2
  <2>3. S \in SUBSET Nat
    OBVIOUS
  <2> HIDE DEF S
  <2> QED BY <2>1, <2>2, <2>3, NatSetInduction
<1>8. h[Len(x)] = f[Len(x)] /\ f[Len(x)] \in Seq(V)
  <2>1. Len(x) \in S
    BY <1>2, <1>7
  <2>2. Len(x) \in 0..Len(x)
    BY <1>2
  <2> QED BY <1>2, <1>4, <2>1, <2>2
<1>9. T = Nat
  <2>1. 0 \in T
    <3>1. f[Len(x)] \o <<>> = f[Len(x)]
      BY <1>8, ConcatEmptySeq
    <3>2. Len(x) + 0 = Len(x)
      BY <1>2
    <3> QED BY <1>5, <1>8, <3>1, <3>2
  <2>2. ASSUME NEW n \in T PROVE n + 1 \in T
    <3>1. n \in Nat /\ (n <= Len(y) => h[Len(x) + n] = f[Len(x)] \o g[n])
      OBVIOUS
    <3>2. ASSUME n + 1 <= Len(y) PROVE h[Len(x) + (n + 1)] = f[Len(x)] \o g[n + 1]
      <4>1. /\ n + 1 \in 1..Len(y) /\ (n + 1) - 1 = n /\ n <= Len(y) /\ n \in 0..Len(y)
            /\ Len(x) + (n + 1) \in 1..Len(z) /\ (Len(x) + (n + 1)) - 1 = Len(x) + n
        BY <1>1, <1>2, <3>1, <3>2
      <4>2. /\ h[Len(x) + (n + 1)] = h[Len(x) + n] \o z[Len(x) + (n + 1)]
            /\ g[n + 1] = g[n] \o y[n + 1]
            /\ z[Len(x) + (n + 1)] = y[n + 1]
        BY <1>3, <1>5, <1>6, <4>1
      <4>3. h[Len(x) + (n + 1)] = (f[Len(x)] \o g[n]) \o y[n + 1]
        BY <3>1, <4>1, <4>2
      <4>4. g[n] \in Seq(V) /\ y[n + 1] \in Seq(V)
        BY <1>2, <1>5, <4>1
      <4>5. (f[Len(x)] \o g[n]) \o y[n + 1] = f[Len(x)] \o (g[n] \o y[n + 1])
        <5> HIDE DEF S, T
        <5> DEFINE a == f[Len(x)]
                   b == g[n]
                   c == y[n + 1]
        <5>1. a \in Seq(V) /\ b \in Seq(V) /\ c \in Seq(V)
          BY <1>8, <4>4
        <5> HIDE DEF a, b, c
        <5>2. (a \o b) \o c = a \o (b \o c)
          BY ONLY <5>1, EndToEnd DEF EndsMeet
        <5> QED BY <5>2 DEF a, b, c
      <4> QED BY <4>2, <4>3, <4>5
    <3>3. n + 1 \in Nat
      BY <3>1
    <3> QED BY <3>2, <3>3, Zenon
  <2>3. T \in SUBSET Nat
    OBVIOUS
  <2> HIDE DEF T
  <2> QED BY <2>1, <2>2, <2>3, NatSetInduction
<1>10. h[Len(x) + Len(y)] = f[Len(x)] \o g[Len(y)]
  <2>1. Len(y) \in T
    BY <1>2, <1>9
  <2> QED BY <1>2, <2>1
<1>11. g[Len(y)] \in Seq(V)
  <2>1. Len(y) \in 0..Len(y)
    BY <1>2
  <2> QED BY <1>5, <2>1
<1> QED BY <1>1, <1>4, <1>5, <1>6, <1>8, <1>10, <1>11 DEF z

LEMMA FlattenOne ==
  ASSUME NEW V, NEW b \in Seq(V)
  PROVE  FlattenSeq(<<b>>) = b /\ FlattenSeq(<<>>) = <<>>
<1> DEFINE x == <<b>>
<1>1. x \in Seq(Seq(V)) /\ Len(x) = 1 /\ x[1] = b
  OBVIOUS
<1> HIDE DEF x
<1>2. PICK f \in [0..Len(x) -> Seq(V)] :
         f[0] = <<>> /\ (\A n \in 1..Len(x) : f[n] = f[n - 1] \o x[n]) /\ FlattenSeq(x) = f[Len(x)]
  BY <1>1, Flats
<1>3. 1 - 1 = 0 /\ 1 \in 1..Len(x)
  BY <1>1
<1>4. FlattenSeq(x) = <<>> \o b
  BY <1>1, <1>2, <1>3
<1>5. <<>> \o b = b
  BY ConcatEmptySeq
<1>6. FlattenSeq(<<>>) = <<>>
  BY DEF FlattenSeq
<1> QED BY <1>4, <1>5, <1>6 DEF x

-----------------------------------------------------------------------------
(* What leaves the buffer *)

(* Induction along a recursion that descends. *)
Inherited(D, G, stop, rank, next) ==
  /\ G \in SUBSET D
  /\ rank \in [D -> Nat] /\ next \in [D -> D]
  /\ \A i \in D \ stop : rank[next[i]] < rank[i]
  /\ \A i \in D : i \in stop \/ next[i] \in G => i \in G

LEMMA DescentInduction ==
  ASSUME NEW D, NEW G, NEW stop, NEW rank, NEW next, Inherited(D, G, stop, rank, next)
  PROVE  G = D
<1>0. /\ G \in SUBSET D
      /\ rank \in [D -> Nat] /\ next \in [D -> D]
      /\ \A i \in D \ stop : rank[next[i]] < rank[i]
      /\ \A i \in D : i \in stop \/ next[i] \in G => i \in G
  BY DEF Inherited
<1> DEFINE S == {m \in Nat : \A i \in D : rank[i] < m => i \in G}
<1>1. 0 \in S
  <2>1. \A i \in D : rank[i] \in Nat
    BY <1>0
  <2> QED BY <2>1
<1>2. ASSUME NEW m \in S PROVE m + 1 \in S
  <2>1. m \in Nat /\ \A i \in D : rank[i] < m => i \in G
    OBVIOUS
  <2>2. ASSUME NEW i \in D, rank[i] < m + 1 PROVE i \in G
    <3>1. CASE i \in stop
      BY <1>0, <3>1
    <3>2. CASE i \notin stop
      <4>1. rank[next[i]] < rank[i] /\ next[i] \in D /\ rank[i] \in Nat /\ rank[next[i]] \in Nat
        BY <1>0, <3>2
      <4>2. rank[next[i]] < m
        BY <2>1, <2>2, <4>1
      <4> QED BY <1>0, <2>1, <4>1, <4>2
    <3> QED BY <3>1, <3>2
  <2> QED BY <2>1, <2>2
<1>3. S = Nat
  <2>1. S \in SUBSET Nat
    OBVIOUS
  <2> HIDE DEF S
  <2> QED BY <1>1, <1>2, <2>1, NatSetInduction
<1>4. ASSUME NEW i \in D PROVE i \in G
  <2>1. rank[i] \in Nat /\ rank[i] + 1 \in Nat /\ rank[i] < rank[i] + 1
    BY <1>0
  <2>2. rank[i] + 1 \in S
    BY <1>3, <2>1
  <2> QED BY <2>1, <2>2
<1> QED BY <1>0, <1>4

(* What is left from i on is its first batch and what is left after it. *)
LEMMA LeftParts ==
  ASSUME NEW s \in Seq(Events), NEW i \in 1..Len(s) + 1
  PROVE  /\ LeftFrom(s, i) \in Seq(Events) /\ Len(LeftFrom(s, i)) = Len(s) + 1 - i
         /\ LeftFrom(s, i) = <<>> <=> i = Len(s) + 1
         /\ \A k \in 1..Len(LeftFrom(s, i)) : LeftFrom(s, i)[k] = s[i + k - 1]
         /\ i # Len(s) + 1 =>
              LET m == PrefixLength(LeftFrom(s, i))
              IN  /\ m \in 1..Len(s) + 1 - i /\ i + m \in 1..Len(s) + 1
                  /\ LeftFrom(s, i) = PrefixOf(LeftFrom(s, i)) \o LeftFrom(s, i + m)
<1> DEFINE r == LeftFrom(s, i)
           m == PrefixLength(r)
<1>1. Len(s) \in Nat /\ i \in Int /\ Len(s) + 1 - i \in Nat
  OBVIOUS
<1>2. r \in Seq(Events) /\ Len(r) = Len(s) + 1 - i /\ \A k \in 1..Len(r) : r[k] = s[i + k - 1]
  BY <1>1 DEF LeftFrom
<1>3. r = <<>> <=> i = Len(s) + 1
  <2>1. r = <<>> <=> Len(r) = 0
    BY <1>2
  <2> QED BY <1>1, <1>2, <2>1
<1>4. ASSUME i # Len(s) + 1
      PROVE  /\ m \in 1..Len(s) + 1 - i /\ i + m \in 1..Len(s) + 1
             /\ r = PrefixOf(r) \o LeftFrom(s, i + m)
  <2>1. m \in 1..Len(r)
    <3> HIDE DEF r
    <3> QED BY <1>2, <1>3, <1>4, PrefixIsLongest
  <2>2. m \in 1..Len(s) + 1 - i /\ i + m \in 1..Len(s) + 1 /\ i \in 1..Len(s)
    <3> HIDE DEF m, r
    <3> QED BY <1>1, <1>2, <1>4, <2>1
  <2>3. PrefixOf(r) = SubSeq(s, i, i + m - 1)
    <3>1. PrefixOf(r) = SubSeq(SubSeq(s, i, Len(s)), 1, m)
      BY DEF PrefixOf, LeftFrom
    <3> HIDE DEF m, r
    <3>2. /\ i \in 1..Len(s) /\ Len(s) \in 1..Len(s)
          /\ 1 \in 1..Len(s) - i + 1 /\ m \in 1..Len(s) - i + 1
      BY <1>1, <2>2
    <3>3. SubSeq(SubSeq(s, i, Len(s)), 1, m) = SubSeq(s, i + 1 - 1, i + m - 1)
      BY <3>2, SubSeqOfSubSeq
    <3>4. i + 1 - 1 = i
      BY <1>1
    <3> QED BY <3>1, <3>3, <3>4
  <2> HIDE DEF m, r
  <2>4. SubSeq(s, i, i + m - 1) \o SubSeq(s, (i + m - 1) + 1, Len(s)) = SubSeq(s, i, Len(s))
    <3>1. /\ i \in 1..Len(s) + 1 /\ i + m - 1 \in i - 1..Len(s) /\ Len(s) \in (i + m - 1)..Len(s)
      BY <1>1, <2>2
    <3> QED BY <3>1, ConcatAdjacentSubSeq
  <2>5. (i + m - 1) + 1 = i + m
    BY <1>1, <2>2
  <2> QED BY <2>2, <2>3, <2>4, <2>5 DEF LeftFrom, r
<1> QED BY <1>2, <1>3, <1>4

(* v is a way to split what is left of s from i on: the batches that are   *)
(* out, and a rest within the caps.                                        *)
Splits == [out : Seq(Seq(Events)), rest : Seq(Events)]

Split(s, i, v) ==
  /\ v \in Splits
  /\ \A k \in 1..Len(v.out) : Whole(v.out[k])
  /\ FlattenSeq(v.out) \o v.rest = LeftFrom(s, i)
  /\ Fits(v.rest)
  /\ Len(v.out) + Len(v.rest) <= Len(s) + 1 - i
  /\ \E j \in 1..Len(s) + 1 : v.rest = LeftFrom(s, j)

LEMMA NothingOut ==
  ASSUME NEW s \in Seq(Events), NEW i \in 1..Len(s) + 1, Fits(LeftFrom(s, i))
  PROVE  Split(s, i, [out |-> <<>>, rest |-> LeftFrom(s, i)])
<1> DEFINE r == LeftFrom(s, i)
           v == [out |-> <<>>, rest |-> r]
<1>1. r \in Seq(Events) /\ Len(r) = Len(s) + 1 - i /\ Fits(r)
  BY LeftParts
<1>2. v \in Splits /\ v.out = <<>> /\ v.rest = r
  BY <1>1 DEF Splits
<1>3. FlattenSeq(<<>>) = <<>>
  BY DEF FlattenSeq
<1>4. <<>> \o r = r
  BY <1>1, ConcatEmptySeq
<1>5. Len(s) \in Nat /\ Len(<<>>) = 0 /\ i \in Int
  OBVIOUS
<1> HIDE DEF v
<1>6. FlattenSeq(v.out) \o v.rest = r
  BY <1>2, <1>3, <1>4
<1>7. \A k \in 1..Len(v.out) : Whole(v.out[k])
  BY <1>2
<1>8. Len(v.out) + Len(v.rest) <= Len(s) + 1 - i
  BY <1>1, <1>2, <1>5
<1> QED BY <1>1, <1>2, <1>6, <1>7, <1>8 DEF Split, v

LEMMA OneMoreOut ==
  ASSUME NEW s \in Seq(Events), NEW i \in 1..Len(s),
         NEW v, Split(s, i + PrefixLength(LeftFrom(s, i)), v)
  PROVE  Split(s, i, [out |-> <<PrefixOf(LeftFrom(s, i))>> \o v.out, rest |-> v.rest])
<1> DEFINE r == LeftFrom(s, i)
           m == PrefixLength(r)
           p == PrefixOf(r)
           w == [out |-> <<p>> \o v.out, rest |-> v.rest]
<1>0. Len(s) \in Nat /\ i \in 1..Len(s) + 1 /\ i # Len(s) + 1 /\ i \in Int
  OBVIOUS
<1>1. /\ r \in Seq(Events) /\ r # <<>>
      /\ m \in 1..Len(s) + 1 - i /\ i + m \in 1..Len(s) + 1
      /\ r = p \o LeftFrom(s, i + m)
  BY <1>0, LeftParts
<1>2. p \in Seq(Events) /\ Whole(p)
  <2> HIDE DEF r
  <2> QED BY <1>1, PrefixIsLongest
<1>3. /\ v \in Splits
      /\ \A k \in 1..Len(v.out) : Whole(v.out[k])
      /\ FlattenSeq(v.out) \o v.rest = LeftFrom(s, i + m)
      /\ Fits(v.rest)
      /\ Len(v.out) + Len(v.rest) <= Len(s) + 1 - (i + m)
      /\ \E j \in 1..Len(s) + 1 : v.rest = LeftFrom(s, j)
  BY DEF Split
<1> DEFINE out == v.out
           rest == v.rest
<1>4. out \in Seq(Seq(Events)) /\ rest \in Seq(Events)
  BY <1>3 DEF Splits
<1>5. FlattenSeq(out) \o rest = LeftFrom(s, i + m) /\ Len(out) + Len(rest) <= Len(s) + 1 - (i + m)
  BY <1>3
<1> HIDE DEF p, m, r, out, rest
<1>6. /\ <<p>> \o out \in Seq(Seq(Events)) /\ Len(<<p>> \o out) = Len(out) + 1
      /\ (<<p>> \o out)[1] = p
      /\ \A k \in 2..Len(out) + 1 : (<<p>> \o out)[k] = out[k - 1]
  BY <1>2, <1>4
<1>7. FlattenSeq(<<p>> \o out) = p \o FlattenSeq(out) /\ FlattenSeq(out) \in Seq(Events)
  <2>1. <<p>> \in Seq(Seq(Events))
    BY <1>2
  <2>2. FlattenSeq(<<p>>) = p
    BY <1>2, FlattenOne
  <2> QED BY <1>4, <2>1, <2>2, FlattenConcat
<1>8. FlattenSeq(<<p>> \o out) \o rest = r
  <2>1. (p \o FlattenSeq(out)) \o rest = p \o (FlattenSeq(out) \o rest)
    <3> DEFINE b == FlattenSeq(out)
    <3>1. p \in Seq(Events) /\ b \in Seq(Events) /\ rest \in Seq(Events)
      BY <1>2, <1>4, <1>7
    <3> HIDE DEF b
    <3>2. (p \o b) \o rest = p \o (b \o rest)
      <4>1. EndsMeet(Events)
        BY EndToEnd
      <4> QED BY ONLY <3>1, <4>1 DEF EndsMeet
    <3> QED BY <3>2 DEF b
  <2> QED BY <1>1, <1>5, <1>7, <2>1
<1>9. Len(<<p>> \o out) + Len(rest) <= Len(s) + 1 - i
  <2>1. Len(out) \in Nat /\ Len(rest) \in Nat /\ m \in Int /\ m >= 1
    BY <1>0, <1>1, <1>4
  <2> QED BY <1>0, <1>5, <1>6, <2>1
<1>10. ASSUME NEW k \in 1..Len(<<p>> \o out) PROVE Whole((<<p>> \o out)[k])
  <2>1. CASE k = 1
    BY <1>2, <1>6, <2>1
  <2>2. CASE k # 1
    <3>1. k \in 2..Len(out) + 1 /\ k - 1 \in 1..Len(out)
      BY <1>4, <1>6, <2>2
    <3> QED BY <1>3, <1>6, <3>1 DEF out
  <2> QED BY <2>1, <2>2
<1>11. w.out = <<p>> \o out /\ w.rest = rest /\ w \in Splits
  <2>1. w = [out |-> <<p>> \o out, rest |-> rest]
    BY DEF out, rest
  <2> HIDE DEF w
  <2>2. w.out = <<p>> \o out /\ w.rest = rest
    BY <2>1
  <2> QED BY <1>4, <1>6, <2>1, <2>2 DEF Splits
<1>12. Fits(rest) /\ \E j \in 1..Len(s) + 1 : rest = LeftFrom(s, j)
  BY <1>3 DEF rest
<1>13. Split(s, i, w)
  <2> HIDE DEF w
  <2>1. \A k \in 1..Len(w.out) : Whole(w.out[k])
    BY <1>10, <1>11
  <2>2. FlattenSeq(w.out) \o w.rest = LeftFrom(s, i)
    BY <1>8, <1>11 DEF r
  <2>3. Len(w.out) + Len(w.rest) <= Len(s) + 1 - i
    BY <1>9, <1>11
  <2>4. Fits(w.rest) /\ \E j \in 1..Len(s) + 1 : w.rest = LeftFrom(s, j)
    BY <1>11, <1>12
  <2> QED BY <1>11, <2>1, <2>2, <2>3, <2>4 DEF Split
<1> QED BY <1>13 DEF p, r

LEMMA OverflowSplits ==
  ASSUME NEW s \in Seq(Events)
  PROVE  Split(s, 1, Overflow(s))
<1> DEFINE D == 1..Len(s) + 1
           Rest(i) == LeftFrom(s, i)
           m(i) == PrefixLength(Rest(i))
           stop == {i \in D : Fits(Rest(i))}
           rank == [i \in D |-> Len(s) + 1 - i]
           base == [i \in D |-> [out |-> <<>>, rest |-> Rest(i)]]
           next == [i \in D |-> IF i \in stop THEN i ELSE i + m(i)]
           step == [q \in D \X Splits |->
                      IF q[1] \in stop THEN q[2]
                      ELSE [out |-> <<PrefixOf(Rest(q[1]))>> \o q[2].out, rest |-> q[2].rest]]
           Body(f, i) == IF Fits(Rest(i)) THEN [out |-> <<>>, rest |-> Rest(i)]
                         ELSE [out |-> <<PrefixOf(Rest(i))>> \o f[i + m(i)].out,
                               rest |-> f[i + m(i)].rest]
           over == CHOOSE f : f = [i \in D |-> Body(f, i)]
<1>1. Overflow(s) = over[1]
  BY DEF Overflow
<1>2. Len(s) \in Nat /\ \A i \in D : i \in Int /\ Len(s) + 1 - i \in Nat /\ Len(s) + 1 - i <= Len(s)
  OBVIOUS
<1>3. ASSUME NEW i \in D, i \notin stop
      PROVE  /\ i \in 1..Len(s) /\ i + m(i) \in D /\ m(i) >= 1
             /\ PrefixOf(Rest(i)) \in Seq(Events)
  <2>1. Rest(i) # <<>>
    BY <1>3, NothingFits
  <2>2. /\ i # Len(s) + 1 /\ m(i) \in 1..Len(s) + 1 - i /\ i + m(i) \in D
        /\ Rest(i) \in Seq(Events)
    BY <2>1, LeftParts
  <2>3. PrefixOf(Rest(i)) \in Seq(Events)
    <3> DEFINE r == Rest(i)
    <3>1. r \in Seq(Events) /\ r # <<>>
      BY <2>1, <2>2
    <3> HIDE DEF r
    <3>2. PrefixOf(r) \in Seq(Events)
      BY <3>1, PrefixIsLongest
    <3> QED BY <3>2 DEF r
  <2> HIDE DEF m
  <2> QED BY <1>2, <2>2, <2>3
<1>4. \A i \in D : Rest(i) \in Seq(Events)
  BY LeftParts
<1> HIDE DEF Rest, m
<1>5. rank \in [D -> Nat] /\ \A i \in D : rank[i] <= Len(s)
  BY <1>2
<1>6. base \in [D -> Splits]
  <2>1. <<>> \in Seq(Seq(Events))
    OBVIOUS
  <2>2. \A i \in D : [out |-> <<>>, rest |-> Rest(i)] \in Splits
    BY <1>4, <2>1 DEF Splits
  <2> QED BY <2>2
<1>7. next \in [D -> D]
  <2>1. \A i \in D : (IF i \in stop THEN i ELSE i + m(i)) \in D
    BY <1>3
  <2> HIDE DEF D, stop
  <2> QED BY <2>1
<1>7a. \A i \in D : next[i] = IF i \in stop THEN i ELSE i + m(i)
  <2> HIDE DEF stop
  <2> QED OBVIOUS
<1>8. \A i \in D \ stop : rank[next[i]] < rank[i]
  <2> SUFFICES ASSUME NEW i \in D, i \notin stop PROVE rank[next[i]] < rank[i]
    OBVIOUS
  <2>1. next[i] = i + m(i) /\ i + m(i) \in D /\ m(i) >= 1
    BY <1>3, <1>7a
  <2>2. m(i) \in Int
    BY <1>2, <2>1, PrefixIsLongest, LeftParts, <1>3, NothingFits DEF Rest, m
  <2> HIDE DEF next, stop
  <2>3. rank[next[i]] = Len(s) + 1 - (i + m(i)) /\ rank[i] = Len(s) + 1 - i
    BY <2>1
  <2> QED BY <1>2, <2>1, <2>2, <2>3
<1>9. step \in [D \X Splits -> Splits]
  <2> SUFFICES ASSUME NEW q \in D \X Splits
               PROVE  (IF q[1] \in stop THEN q[2]
                       ELSE [out |-> <<PrefixOf(Rest(q[1]))>> \o q[2].out, rest |-> q[2].rest])
                         \in Splits
    <3> HIDE DEF stop, D
    <3> QED OBVIOUS
  <2>1. q[1] \in D /\ q[2] \in Splits
    OBVIOUS
  <2>2. CASE q[1] \in stop
    BY <2>1, <2>2
  <2>3. CASE q[1] \notin stop
    <3> DEFINE o == q[2].out
               e == q[2].rest
               p == PrefixOf(Rest(q[1]))
    <3>1. o \in Seq(Seq(Events)) /\ e \in Seq(Events)
      BY <2>1 DEF Splits
    <3>2. p \in Seq(Events)
      BY <1>3, <2>1, <2>3
    <3> HIDE DEF o, e, p, stop
    <3>3. <<p>> \o o \in Seq(Seq(Events))
      BY <3>1, <3>2
    <3>4. [out |-> <<p>> \o o, rest |-> e] \in Splits
      BY <3>1, <3>3 DEF Splits
    <3> QED BY <2>3, <3>4 DEF o, e, p
  <2> QED BY <2>2, <2>3
<1>10. \A i \in D, v \in Splits : i \notin stop =>
          step[<<i, v>>] = [out |-> <<PrefixOf(Rest(i))>> \o v.out, rest |-> v.rest]
  <2> HIDE DEF stop, D
  <2> QED OBVIOUS
<1>11. \A i \in D : base[i] = [out |-> <<>>, rest |-> Rest(i)]
  OBVIOUS
<1>12. \A i \in D : i \in stop <=> Fits(Rest(i))
  OBVIOUS
<1> HIDE DEF rank, base, next, step, stop
<1>13. PICK f \in [D -> Splits] : \A i \in D :
          f[i] = IF i \in stop THEN base[i] ELSE step[<<i, f[next[i]]>>]
  <2>1. Descends(D, Splits, stop, rank, base, next, step, Len(s))
    BY <1>2, <1>5, <1>6, <1>7, <1>8, <1>9 DEF Descends
  <2> HIDE DEF D
  <2> QED BY <2>1, RecursionExists
<1>14. ASSUME NEW i \in D PROVE f[i] = Body(f, i)
  <2>1. CASE i \in stop
    <3>1. f[i] = base[i] /\ Fits(Rest(i))
      BY <1>12, <1>13, <2>1
    <3> QED BY <1>11, <3>1
  <2>2. CASE i \notin stop
    <3>1. next[i] = i + m(i) /\ i + m(i) \in D
      BY <1>3, <1>7a, <2>2
    <3>2. f[i] = step[<<i, f[i + m(i)]>>] /\ f[i + m(i)] \in Splits
      BY <1>13, <2>2, <3>1
    <3>3. ~Fits(Rest(i))
      BY <1>12, <2>2
    <3> HIDE DEF D
    <3> QED BY <1>10, <2>2, <3>2, <3>3
  <2> QED BY <2>1, <2>2
<1>15. f = [i \in D |-> Body(f, i)]
  <2> HIDE DEF Body, D
  <2>1. f = [i \in D |-> f[i]]
    BY <1>13
  <2> QED BY <1>14, <2>1
<1>16. over = [i \in D |-> Body(over, i)]
  <2> HIDE DEF Body, D
  <2> QED BY <1>15
<1> HIDE DEF over
<1>17. \A i \in D : over[i] = Body(over, i)
  <2> HIDE DEF Body, D
  <2> QED BY <1>16
<1> DEFINE G == {i \in D : Split(s, i, over[i])}
<1>18. \A i \in D : i \in stop \/ next[i] \in G => i \in G
  <2> SUFFICES ASSUME NEW i \in D, i \in stop \/ next[i] \in G PROVE Split(s, i, over[i])
    OBVIOUS
  <2>1. over[i] = Body(over, i)
    BY <1>17
  <2>2. CASE i \in stop
    <3>1. Fits(LeftFrom(s, i)) /\ over[i] = [out |-> <<>>, rest |-> LeftFrom(s, i)]
      BY <1>12, <2>1, <2>2 DEF Rest
    <3> QED BY <3>1, NothingOut
  <2>3. CASE i \notin stop
    <3>1. next[i] = i + m(i) /\ i \in 1..Len(s)
      BY <1>3, <1>7a, <2>3
    <3>2. Split(s, i + m(i), over[i + m(i)])
      BY <2>3, <3>1
    <3>3. over[i] = [out |-> <<PrefixOf(Rest(i))>> \o over[i + m(i)].out,
                     rest |-> over[i + m(i)].rest]
      BY <1>12, <2>1, <2>3
    <3> HIDE DEF D
    <3> QED BY <3>1, <3>2, <3>3, OneMoreOut DEF m, Rest
  <2> QED BY <2>2, <2>3
<1>19. G = D
  <2>1. G \in SUBSET D
    OBVIOUS
  <2> HIDE DEF D, G
  <2>2. Inherited(D, G, stop, rank, next)
    BY <1>5, <1>7, <1>8, <1>18, <2>1 DEF Inherited
  <2> QED BY <2>2, DescentInduction
<1>20. 1 \in D
  BY <1>2
<1>21. Split(s, 1, over[1])
  BY <1>19, <1>20
<1> QED BY <1>1, <1>21

LEMMA DrainedSplits ==
  ASSUME NEW s \in Seq(Events)
  PROVE  /\ Split(s, 1, [out |-> Drained(s), rest |-> <<>>])
         /\ s # <<>> => Drained(s) # <<>> /\ Head(Drained(s)) = PrefixOf(s)
<1> DEFINE D == 1..Len(s) + 1
           W == Seq(Seq(Events))
           Rest(i) == LeftFrom(s, i)
           m(i) == PrefixLength(Rest(i))
           stop == {i \in D : Rest(i) = <<>>}
           rank == [i \in D |-> Len(s) + 1 - i]
           base == [i \in D |-> <<>>]
           next == [i \in D |-> IF i \in stop THEN i ELSE i + m(i)]
           step == [q \in D \X W |->
                      IF q[1] \in stop THEN q[2] ELSE <<PrefixOf(Rest(q[1]))>> \o q[2]]
           Body(f, i) == IF Rest(i) = <<>> THEN <<>>
                         ELSE <<PrefixOf(Rest(i))>> \o f[i + m(i)]
           drained == CHOOSE f : f = [i \in D |-> Body(f, i)]
<1>1. Drained(s) = drained[1]
  BY DEF Drained
<1>2. Len(s) \in Nat /\ \A i \in D : i \in Int /\ Len(s) + 1 - i \in Nat /\ Len(s) + 1 - i <= Len(s)
  OBVIOUS
<1>3. ASSUME NEW i \in D, i \notin stop
      PROVE  /\ i \in 1..Len(s) /\ i + m(i) \in D /\ m(i) >= 1 /\ m(i) \in Int
             /\ PrefixOf(Rest(i)) \in Seq(Events)
  <2>1. Rest(i) # <<>>
    BY <1>3
  <2>2. /\ i # Len(s) + 1 /\ m(i) \in 1..Len(s) + 1 - i /\ i + m(i) \in D
        /\ Rest(i) \in Seq(Events)
    BY <2>1, LeftParts
  <2>3. PrefixOf(Rest(i)) \in Seq(Events)
    <3> DEFINE r == Rest(i)
    <3>1. r \in Seq(Events) /\ r # <<>>
      BY <2>1, <2>2
    <3> HIDE DEF r
    <3>2. PrefixOf(r) \in Seq(Events)
      BY <3>1, PrefixIsLongest
    <3> QED BY <3>2 DEF r
  <2> HIDE DEF m
  <2> QED BY <1>2, <2>2, <2>3
<1> HIDE DEF Rest, m
<1>5. rank \in [D -> Nat] /\ \A i \in D : rank[i] <= Len(s)
  BY <1>2
<1>6. base \in [D -> W]
  <2>1. <<>> \in W
    OBVIOUS
  <2> HIDE DEF W
  <2> QED BY <2>1
<1>7. next \in [D -> D]
  <2>1. \A i \in D : (IF i \in stop THEN i ELSE i + m(i)) \in D
    BY <1>3
  <2> HIDE DEF D, stop
  <2> QED BY <2>1
<1>7a. \A i \in D : next[i] = IF i \in stop THEN i ELSE i + m(i)
  <2> HIDE DEF stop
  <2> QED OBVIOUS
<1>8. \A i \in D \ stop : rank[next[i]] < rank[i]
  <2> SUFFICES ASSUME NEW i \in D, i \notin stop PROVE rank[next[i]] < rank[i]
    OBVIOUS
  <2>1. next[i] = i + m(i) /\ i + m(i) \in D /\ m(i) >= 1 /\ m(i) \in Int
    BY <1>3, <1>7a
  <2> HIDE DEF next, stop
  <2>3. rank[next[i]] = Len(s) + 1 - (i + m(i)) /\ rank[i] = Len(s) + 1 - i
    BY <2>1
  <2> QED BY <1>2, <2>1, <2>3
<1>9. step \in [D \X W -> W]
  <2> SUFFICES ASSUME NEW q \in D \X W
               PROVE  (IF q[1] \in stop THEN q[2] ELSE <<PrefixOf(Rest(q[1]))>> \o q[2]) \in W
    <3> HIDE DEF stop, D, W
    <3> QED OBVIOUS
  <2>1. q[1] \in D /\ q[2] \in W
    OBVIOUS
  <2>2. CASE q[1] \in stop
    BY <2>1, <2>2
  <2>3. CASE q[1] \notin stop
    <3> DEFINE o == q[2]
               p == PrefixOf(Rest(q[1]))
    <3>1. o \in Seq(Seq(Events))
      BY <2>1
    <3>2. p \in Seq(Events)
      BY <1>3, <2>1, <2>3
    <3> HIDE DEF o, p, stop
    <3>3. <<p>> \o o \in Seq(Seq(Events))
      BY <3>1, <3>2
    <3> QED BY <2>3, <3>3 DEF o, p
  <2> QED BY <2>2, <2>3
<1>10. \A i \in D, v \in W : i \notin stop => step[<<i, v>>] = <<PrefixOf(Rest(i))>> \o v
  <2> HIDE DEF stop, D, W
  <2> QED OBVIOUS
<1>11. \A i \in D : base[i] = <<>>
  OBVIOUS
<1>12. \A i \in D : i \in stop <=> Rest(i) = <<>>
  OBVIOUS
<1> HIDE DEF rank, base, next, step, stop, W
<1>13. PICK f \in [D -> W] : \A i \in D :
          f[i] = IF i \in stop THEN base[i] ELSE step[<<i, f[next[i]]>>]
  <2>1. Descends(D, W, stop, rank, base, next, step, Len(s))
    BY <1>2, <1>5, <1>6, <1>7, <1>8, <1>9 DEF Descends
  <2> HIDE DEF D
  <2> QED BY <2>1, RecursionExists
<1>14. ASSUME NEW i \in D PROVE f[i] = Body(f, i)
  <2>1. CASE i \in stop
    <3>1. f[i] = base[i] /\ Rest(i) = <<>>
      BY <1>12, <1>13, <2>1
    <3> QED BY <1>11, <3>1
  <2>2. CASE i \notin stop
    <3>1. next[i] = i + m(i) /\ i + m(i) \in D
      BY <1>3, <1>7a, <2>2
    <3>2. f[i] = step[<<i, f[i + m(i)]>>] /\ f[i + m(i)] \in W
      BY <1>13, <2>2, <3>1
    <3>3. Rest(i) # <<>>
      BY <1>12, <2>2
    <3> HIDE DEF D
    <3> QED BY <1>10, <2>2, <3>2, <3>3
  <2> QED BY <2>1, <2>2
<1>15. f = [i \in D |-> Body(f, i)]
  <2> HIDE DEF Body, D
  <2>1. f = [i \in D |-> f[i]]
    BY <1>13
  <2> QED BY <1>14, <2>1
<1>16. drained = [i \in D |-> Body(drained, i)]
  <2> HIDE DEF Body, D
  <2> QED BY <1>15
<1> HIDE DEF drained
<1>17. \A i \in D : drained[i] = Body(drained, i)
  <2> HIDE DEF Body, D
  <2> QED BY <1>16
<1> DEFINE Part(i) == [out |-> drained[i], rest |-> <<>>]
           G == {i \in D : Split(s, i, Part(i))}
<1>18. \A i \in D : i \in stop \/ next[i] \in G => i \in G
  <2> SUFFICES ASSUME NEW i \in D, i \in stop \/ next[i] \in G PROVE Split(s, i, Part(i))
    <3> HIDE DEF Part
    <3> QED OBVIOUS
  <2>1. drained[i] = Body(drained, i)
    BY <1>17
  <2>2. CASE i \in stop
    <3>1. LeftFrom(s, i) = <<>> /\ drained[i] = <<>>
      BY <1>12, <2>1, <2>2 DEF Rest
    <3>2. Split(s, i, [out |-> <<>>, rest |-> LeftFrom(s, i)])
      BY <3>1, NothingFits, NothingOut
    <3> QED BY <3>1, <3>2
  <2>3. CASE i \notin stop
    <3>1. next[i] = i + m(i) /\ i \in 1..Len(s)
      BY <1>3, <1>7a, <2>3
    <3>2. Split(s, i + m(i), Part(i + m(i)))
      <4> HIDE DEF Part
      <4> QED BY <2>3, <3>1
    <3>3. Part(i) = [out |-> <<PrefixOf(Rest(i))>> \o Part(i + m(i)).out,
                     rest |-> Part(i + m(i)).rest]
      BY <1>12, <2>1, <2>3
    <3> HIDE DEF D, Part
    <3> QED BY <3>1, <3>2, <3>3, OneMoreOut DEF m, Rest
  <2> QED BY <2>2, <2>3
<1>19. G = D
  <2>1. G \in SUBSET D
    OBVIOUS
  <2> HIDE DEF D, G
  <2>2. Inherited(D, G, stop, rank, next)
    BY <1>5, <1>7, <1>8, <1>18, <2>1 DEF Inherited
  <2> QED BY <2>2, DescentInduction
<1>20. 1 \in D
  BY <1>2
<1>21. Split(s, 1, Part(1))
  <2> HIDE DEF Part
  <2> QED BY <1>19, <1>20
<1>22. ASSUME s # <<>> PROVE drained[1] # <<>> /\ Head(drained[1]) = PrefixOf(s)
  <2>1. Rest(1) = s
    BY SubSeqFull DEF Rest, LeftFrom
  <2>2. 1 \notin stop
    BY <1>12, <1>20, <1>22, <2>1
  <2>3. 1 + m(1) \in D /\ PrefixOf(s) \in Seq(Events)
    BY <1>3, <1>20, <2>1, <2>2
  <2>4. Split(s, 1 + m(1), Part(1 + m(1)))
    <3> HIDE DEF Part
    <3> QED BY <1>19, <2>3
  <2>5. drained[1 + m(1)] \in Seq(Seq(Events))
    <3>1. Part(1 + m(1)) \in Splits
      BY <2>4 DEF Split
    <3>2. Part(1 + m(1)).out = drained[1 + m(1)]
      OBVIOUS
    <3> HIDE DEF Part
    <3> QED BY <3>1, <3>2 DEF Splits
  <2>6. drained[1] = <<PrefixOf(s)>> \o drained[1 + m(1)]
    BY <1>17, <1>20, <1>22, <2>1
  <2> DEFINE d == drained[1 + m(1)]
             p == PrefixOf(s)
  <2>7. d \in Seq(Seq(Events)) /\ p \in Seq(Events) /\ drained[1] = <<p>> \o d
    BY <2>3, <2>5, <2>6
  <2> HIDE DEF d, p
  <2>8. <<p>> \o d # <<>> /\ Head(<<p>> \o d) = p
    BY <2>7
  <2> QED BY <2>7, <2>8 DEF p
<1> QED BY <1>1, <1>21, <1>22

-----------------------------------------------------------------------------
(* One pass: the events given to add, pushed one by one *)

Passes == [buffer : Seq(Events), out : Seq(Seq(Events)), window : Int]

(* The pass has pushed x so far: what is out and what waits is what waited *)
(* and x, and the window of what waits is ahead.                           *)
Carried(b, x) ==
  /\ b \in Passes
  /\ PrefixesFit(b.buffer)
  /\ \A k \in 1..Len(b.out) : Whole(b.out[k])
  /\ FlattenSeq(b.out) \o b.buffer = buffer \o x
  /\ Len(b.out) + Len(b.buffer) <= Len(buffer) + Len(x)
  /\ b.window \in {NoWindow} \cup 0..MaxNow + WindowMs /\ b.window <= clock + WindowMs
  /\ b.buffer # <<>> => clock < b.window
  /\ \A i \in 1..Len(b.buffer) : b.window <= b.buffer[i].at + WindowMs

LEMMA BatcherNumbers ==
  ASSUME BatcherTypeOK
  PROVE  /\ clock \in Nat /\ clock <= MaxNow /\ lastPass \in Nat /\ MaxNow \in Nat
         /\ WindowMs \in Nat \ {0} /\ MaxAdded \in Nat
         /\ clock + WindowMs \in 0..MaxNow + WindowMs /\ clock < clock + WindowMs
         /\ windowEnds \in Int
<1>1. MaxNow \in Nat /\ WindowMs \in Nat \ {0} /\ MaxAdded \in Nat
  BY BatcherAssumption
<1>2. /\ clock \in 0..MaxNow /\ lastPass \in 0..MaxNow
      /\ windowEnds \in {NoWindow} \cup 0..MaxNow + WindowMs
  BY DEF BatcherTypeOK
<1> QED BY <1>1, <1>2 DEF NoWindow

LEMMA ClosedCarries ==
  ASSUME BatcherInv
  PROVE  Carried(Closed, <<>>)
<1>0. BatcherTypeOK /\ PrefixesFit(buffer) /\ WindowHolds
  BY DEF BatcherInv
<1>1. /\ clock \in Nat /\ lastPass \in Nat /\ WindowMs \in Nat \ {0} /\ windowEnds \in Int
      /\ windowEnds \in {NoWindow} \cup 0..MaxNow + WindowMs
  BY <1>0, BatcherNumbers DEF BatcherTypeOK
<1>2. buffer \in Seq(Events) /\ Len(buffer) \in Nat
  BY <1>0 DEF BatcherTypeOK
<1>3. buffer \o <<>> = buffer /\ <<>> \o buffer = buffer
  BY <1>2, ConcatEmptySeq
<1>4. FlattenSeq(<<>>) = <<>>
  BY DEF FlattenSeq
<1>5. /\ windowEnds <= clock + WindowMs /\ (buffer # <<>> => lastPass < windowEnds)
      /\ \A i \in 1..Len(buffer) : windowEnds <= buffer[i].at + WindowMs
  BY <1>0, <1>2 DEF WindowHolds
<1>6. CASE windowEnds # NoWindow /\ clock >= windowEnds /\ buffer # <<>>
  <2> DEFINE b == [buffer |-> <<>>, out |-> Drained(buffer), window |-> NoWindow]
             v == [out |-> Drained(buffer), rest |-> <<>>]
  <2>1. Closed = b
    BY <1>6 DEF Closed
  <2>2. Split(buffer, 1, v)
    BY <1>2, DrainedSplits
  <2>3. v.out = Drained(buffer) /\ v.rest = <<>>
    OBVIOUS
  <2> HIDE DEF v
  <2>4. /\ Drained(buffer) \in Seq(Seq(Events))
        /\ \A k \in 1..Len(Drained(buffer)) : Whole(Drained(buffer)[k])
        /\ FlattenSeq(Drained(buffer)) \o <<>> = LeftFrom(buffer, 1)
        /\ Len(Drained(buffer)) + Len(<<>>) <= Len(buffer) + 1 - 1
    BY <2>2, <2>3 DEF Split, Splits
  <2>5. LeftFrom(buffer, 1) = buffer
    BY <1>2, SubSeqFull DEF LeftFrom
  <2>6. b.buffer = <<>> /\ b.out = Drained(buffer) /\ b.window = NoWindow
    OBVIOUS
  <2>7. b \in Passes
    <3>1. NoWindow \in Int /\ <<>> \in Seq(Events)
      BY DEF NoWindow
    <3> QED BY <2>4, <3>1 DEF Passes
  <2> HIDE DEF b
  <2>8. Len(b.out) + Len(b.buffer) <= Len(buffer) + Len(<<>>)
    <3>1. Len(<<>>) = 0 /\ Len(Drained(buffer)) \in Nat
      BY <2>4
    <3> QED BY <1>2, <2>4, <2>6, <3>1
  <2>9. NoWindow <= clock + WindowMs
    BY <1>1 DEF NoWindow
  <2>10. FlattenSeq(b.out) \o b.buffer = buffer \o <<>>
    BY <1>3, <2>4, <2>5, <2>6
  <2>11. \A i \in 1..Len(b.buffer) : b.window <= b.buffer[i].at + WindowMs
    BY <2>6
  <2>12. PrefixesFit(b.buffer)
    BY <2>6, NothingWaits
  <2>13. \A k \in 1..Len(b.out) : Whole(b.out[k])
    BY <2>4, <2>6
  <2>14. Carried(b, <<>>)
    BY <2>6, <2>7, <2>8, <2>9, <2>10, <2>11, <2>12, <2>13 DEF Carried
  <2> QED BY <2>1, <2>14
<1>7. CASE ~(windowEnds # NoWindow /\ clock >= windowEnds /\ buffer # <<>>)
  <2> DEFINE b == [buffer |-> buffer, out |-> <<>>, window |-> windowEnds]
  <2>1. Closed = b
    BY <1>7 DEF Closed
  <2>2. b.buffer = buffer /\ b.out = <<>> /\ b.window = windowEnds
    OBVIOUS
  <2>3. b \in Passes
    BY <1>1, <1>2 DEF Passes
  <2> HIDE DEF b
  <2>4. Len(b.out) + Len(b.buffer) <= Len(buffer) + Len(<<>>)
    <3>1. Len(<<>>) = 0
      OBVIOUS
    <3> QED BY <1>2, <2>2, <3>1
  <2>5. b.buffer # <<>> => clock < b.window
    BY <1>1, <1>5, <1>7, <2>2 DEF NoWindow
  <2>6. FlattenSeq(b.out) \o b.buffer = buffer \o <<>>
    BY <1>3, <1>4, <2>2
  <2>7. \A k \in 1..Len(b.out) : Whole(b.out[k])
    BY <2>2
  <2>8. \A i \in 1..Len(b.buffer) : b.window <= b.buffer[i].at + WindowMs
    BY <1>5, <2>2
  <2>9. Carried(b, <<>>)
    BY <1>0, <1>1, <1>5, <2>2, <2>3, <2>4, <2>5, <2>6, <2>7, <2>8 DEF Carried
  <2> QED BY <2>1, <2>9
<1> QED BY <1>6, <1>7

(* Hidden events stay hidden in what is left of a sequence, so what is     *)
(* left takes no more room.                                                *)
LEMMA LeftFits ==
  ASSUME NEW s \in Seq(Events), Fits(s), NEW j \in 1..Len(s) + 1
  PROVE  Fits(LeftFrom(s, j))
<1> DEFINE r == LeftFrom(s, j)
<1>1. /\ r \in Seq(Events) /\ Len(r) = Len(s) + 1 - j
      /\ \A k \in 1..Len(r) : r[k] = s[j + k - 1]
  BY LeftParts
<1>2. Len(s) \in Nat /\ Len(s) <= MaxEvents /\ VisibleBytes(s) <= MaxBytes
  BY DEF Fits
<1> HIDE DEF r
<1> DEFINE c == VisibleCounts(s)
           d == VisibleCounts(r)
           o == j - 1
<1>3. c \in Seq(Nat) /\ Len(c) = Len(s) /\ d \in Seq(Nat) /\ Len(d) = Len(r)
  BY <1>1, CountsAreNumbers
<1>4. o \in Nat /\ Len(r) + o = Len(s)
  BY <1>1, <1>2
<1>5. ASSUME NEW i \in 1..Len(r) PROVE d[i] = c[i + o]
  <2>1. i + o \in 1..Len(s) /\ r[i] = s[i + o]
    <3>1. j + i - 1 = i + o
      BY <1>2
    <3>2. r[i] = s[j + i - 1]
      BY <1>1
    <3>3. i + o \in 1..Len(s)
      <4> HIDE DEF o
      <4> QED BY <1>1, <1>2, <1>4
    <3> QED BY <3>1, <3>2, <3>3
  <2>2. (i < Len(r) <=> i + o < Len(s)) /\ (i < Len(r) => r[i + 1] = s[(i + o) + 1])
    <3>1. i < Len(r) => i + 1 \in 1..Len(r) /\ j + (i + 1) - 1 = (i + o) + 1
      BY <1>1, <1>2
    <3> QED BY <1>1, <1>2, <1>4, <3>1
  <2>3. Hidden(r, i) <=> Hidden(s, i + o)
    BY <2>1, <2>2 DEF Hidden
  <2>4. d[i] = IF Hidden(r, i) THEN 0 ELSE r[i].size + Overhead
    BY DEF VisibleCounts
  <2>5. c[i + o] = IF Hidden(s, i + o) THEN 0 ELSE s[i + o].size + Overhead
    BY <2>1 DEF VisibleCounts
  <2> QED BY <2>1, <2>3, <2>4, <2>5
<1>6. VisibleBytes(s) = Total(c) /\ VisibleBytes(r) = Total(d)
  BY BytesAreTotals
<1> HIDE DEF c, d, o
<1>7. Total(d) <= Total(c) /\ Total(c) \in Nat /\ Total(d) \in Nat
  BY <1>3, <1>4, <1>5, TotalOfTail
<1>8. VisibleBytes(r) <= MaxBytes /\ Len(r) <= MaxEvents
  BY <1>1, <1>2, <1>4, <1>6, <1>7, BatcherAssumption
<1> QED BY <1>8 DEF Fits, r

(* One event more, and a part of it given off: what stays fits up to each  *)
(* of its events.                                                          *)
LEMMA LeftoverFits ==
  ASSUME NEW w \in Seq(Events), PrefixesFit(w), NEW a \in Seq(Events), Len(a) = Len(w) + 1,
         \A i \in 1..Len(w) : a[i] = w[i],
         NEW j \in 1..Len(a) + 1, Fits(LeftFrom(a, j))
  PROVE  PrefixesFit(LeftFrom(a, j))
<1> DEFINE r == LeftFrom(a, j)
<1>1. /\ r \in Seq(Events) /\ Len(r) = Len(a) + 1 - j
      /\ \A k \in 1..Len(r) : r[k] = a[j + k - 1]
  BY LeftParts
<1>2. Fits(r) /\ Len(a) \in Nat /\ Len(w) \in Nat /\ j \in Nat /\ j >= 1
  OBVIOUS
<1> HIDE DEF r
<1>3. ASSUME NEW n \in 0..Len(r) PROVE Fits(SubSeq(r, 1, n))
  <2>1. CASE n = Len(r)
    BY <1>1, <1>2, <2>1, SubSeqFull
  <2>2. CASE n = 0
    <3>1. SubSeq(r, 1, 0) = <<>>
      BY <1>1, SubSeqEmpty
    <3> QED BY <2>2, <3>1, NothingFits
  <2>3. CASE n # Len(r) /\ n # 0
    <3> DEFINE m == j + n - 1
               p == SubSeq(w, 1, m)
               q == SubSeq(r, 1, n)
    <3>1. m \in 1..Len(w) /\ n \in 1..Len(r) /\ j \in 1..m + 1 /\ m + 1 - j = n
      <4>1. n \in Nat /\ n >= 1 /\ n < Len(r) /\ Len(r) = Len(a) + 1 - j /\ Len(a) = Len(w) + 1
        BY <1>1, <1>2, <2>3
      <4> QED BY <1>2, <4>1
    <3>2. p \in Seq(Events) /\ Len(p) = m /\ \A i \in 1..m : p[i] = w[i]
      <4> HIDE DEF m
      <4> QED BY <3>1
    <3>3. q \in Seq(Events) /\ Len(q) = n /\ \A i \in 1..n : q[i] = r[i]
      BY <1>1, <3>1
    <3>4. Fits(p)
      <4>1. m \in 0..Len(w)
        BY <3>1
      <4> QED BY <4>1 DEF PrefixesFit
    <3> HIDE DEF p, q, m
    <3> DEFINE l == LeftFrom(p, j)
    <3>5. /\ l \in Seq(Events) /\ Len(l) = n
          /\ \A k \in 1..Len(l) : l[k] = p[j + k - 1]
      BY <3>1, <3>2, LeftParts
    <3>6. Fits(l)
      BY <3>1, <3>2, <3>4, LeftFits
    <3> HIDE DEF l
    <3>7. ASSUME NEW k \in 1..n PROVE l[k] = q[k]
      <4>1. /\ k \in 1..Len(r) /\ j + k - 1 \in 1..m /\ j + k - 1 \in 1..Len(w)
        BY <1>2, <3>1
      <4> QED BY <1>1, <3>2, <3>3, <3>5, <4>1
    <3>8. l = q
      BY <3>3, <3>5, <3>7
    <3> QED BY <3>6, <3>8 DEF q
  <2> QED BY <2>1, <2>2, <2>3
<1> QED BY <1>3 DEF PrefixesFit, r

(* Overflow gives off batches that are whole and keeps the order. *)
LEMMA OverflowParts ==
  ASSUME NEW a \in Seq(Events)
  PROVE  LET v == Overflow(a)
         IN  /\ v.out \in Seq(Seq(Events)) /\ v.rest \in Seq(Events)
             /\ \A k \in 1..Len(v.out) : Whole(v.out[k])
             /\ FlattenSeq(v.out) \o v.rest = a
             /\ Fits(v.rest)
             /\ Len(v.out) + Len(v.rest) <= Len(a)
             /\ \E j \in 1..Len(a) + 1 : v.rest = LeftFrom(a, j)
             /\ \A i \in 1..Len(v.rest) : \E k \in 1..Len(a) : v.rest[i] = a[k]
<1> DEFINE v == Overflow(a)
<1>1. Split(a, 1, v)
  BY OverflowSplits
<1> HIDE DEF v
<1>2. /\ v \in Splits
      /\ \A k \in 1..Len(v.out) : Whole(v.out[k])
      /\ FlattenSeq(v.out) \o v.rest = LeftFrom(a, 1)
      /\ Fits(v.rest)
      /\ Len(v.out) + Len(v.rest) <= Len(a) + 1 - 1
  BY <1>1 DEF Split
<1>3. PICK j \in 1..Len(a) + 1 : v.rest = LeftFrom(a, j)
  BY <1>1 DEF Split
<1>4. Len(a) \in Nat
  OBVIOUS
<1>5. LeftFrom(a, 1) = a
  BY SubSeqFull DEF LeftFrom
<1>6. \A i \in 1..Len(v.rest) : \E k \in 1..Len(a) : v.rest[i] = a[k]
  <2> SUFFICES ASSUME NEW i \in 1..Len(v.rest) PROVE \E k \in 1..Len(a) : v.rest[i] = a[k]
    OBVIOUS
  <2>1. v.rest[i] = a[j + i - 1] /\ Len(v.rest) = Len(a) + 1 - j
    BY <1>3, LeftParts
  <2>2. j + i - 1 \in 1..Len(a)
    BY <1>4, <2>1
  <2> QED BY <2>1, <2>2
<1>7. v.out \in Seq(Seq(Events)) /\ v.rest \in Seq(Events)
  BY <1>2 DEF Splits
<1>8. Len(v.out) + Len(v.rest) <= Len(a)
  <2>1. Len(a) + 1 - 1 = Len(a)
    BY <1>4
  <2> QED BY <1>2, <2>1
<1> QED BY <1>2, <1>3, <1>5, <1>6, <1>7, <1>8 DEF v

LEMMA PushCarries ==
  ASSUME BatcherTypeOK, NEW b, NEW x \in Seq(Events), Carried(b, x), NEW e \in Events, e.at = clock
  PROVE  Carried(Pushed(b, e), Append(x, e))
<1> DEFINE a == Append(b.buffer, e)
           v == Overflow(a)
           w == [buffer |-> v.rest, out |-> b.out \o v.out,
                 window |-> IF b.buffer = <<>> THEN clock + WindowMs ELSE b.window]
           wait == b.buffer
           out == b.out
           more == v.out
           rest == v.rest
           ends == w.window
<1>0. Pushed(b, e) = w
  BY DEF Pushed
<1>1. /\ wait \in Seq(Events) /\ out \in Seq(Seq(Events)) /\ b.window \in Int
      /\ PrefixesFit(wait)
      /\ \A k \in 1..Len(out) : Whole(out[k])
      /\ FlattenSeq(out) \o wait = buffer \o x
      /\ Len(out) + Len(wait) <= Len(buffer) + Len(x)
      /\ b.window \in {NoWindow} \cup 0..MaxNow + WindowMs /\ b.window <= clock + WindowMs
      /\ wait # <<>> => clock < b.window
      /\ \A i \in 1..Len(wait) : b.window <= wait[i].at + WindowMs
  BY DEF Carried, Passes
<1>2. /\ a \in Seq(Events) /\ Len(a) = Len(wait) + 1 /\ a = wait \o <<e>>
      /\ \A i \in 1..Len(wait) : a[i] = wait[i]
      /\ a[Len(wait) + 1] = e
  <2>1. wait \in Seq(Events) /\ a = Append(wait, e)
    BY <1>1
  <2> HIDE DEF a, wait
  <2> QED BY <2>1, AppendProperties, AppendIsConcat
<1>3. /\ more \in Seq(Seq(Events)) /\ rest \in Seq(Events)
      /\ \A k \in 1..Len(more) : Whole(more[k])
      /\ FlattenSeq(more) \o rest = a
      /\ Fits(rest)
      /\ Len(more) + Len(rest) <= Len(a)
      /\ \E j \in 1..Len(a) + 1 : rest = LeftFrom(a, j)
      /\ \A i \in 1..Len(rest) : \E k \in 1..Len(a) : rest[i] = a[k]
  <2> HIDE DEF a
  <2> QED BY <1>2, OverflowParts
<1>4. w.buffer = rest /\ w.out = out \o more
  OBVIOUS
<1>5. ends = IF wait = <<>> THEN clock + WindowMs ELSE b.window
  OBVIOUS
<1>5a. w = [buffer |-> rest, out |-> out \o more, window |-> ends]
  OBVIOUS
<1>6. /\ buffer \in Seq(Events) /\ Len(buffer) \in Nat /\ Len(x) \in Nat
      /\ clock \in Nat /\ MaxNow \in Nat /\ WindowMs \in Nat \ {0}
      /\ clock + WindowMs \in 0..MaxNow + WindowMs
  BY BatcherNumbers DEF BatcherTypeOK
<1> HIDE DEF w, v, a, wait, out, more, rest, ends
<1>6a. PrefixesFit(rest)
  <2>1. PICK j \in 1..Len(a) + 1 : rest = LeftFrom(a, j)
    BY <1>3
  <2> QED BY <1>1, <1>2, <1>3, <2>1, LeftoverFits
<1>7. out \o more \in Seq(Seq(Events)) /\ Len(out \o more) = Len(out) + Len(more)
  BY <1>1, <1>3, ConcatProperties
<1>8. \A k \in 1..Len(out \o more) : Whole((out \o more)[k])
  <2>1. \A k \in 1..Len(out \o more) :
           (out \o more)[k] = IF k <= Len(out) THEN out[k] ELSE more[k - Len(out)]
    BY <1>1, <1>3, ConcatProperties
  <2>2. Len(out) \in Nat /\ Len(more) \in Nat
    BY <1>1, <1>3
  <2> SUFFICES ASSUME NEW k \in 1..Len(out \o more) PROVE Whole((out \o more)[k])
    OBVIOUS
  <2>3. CASE k <= Len(out)
    <3>1. k \in 1..Len(out)
      BY <1>7, <2>2, <2>3
    <3> QED BY <1>1, <2>1, <2>3, <3>1
  <2>4. CASE ~(k <= Len(out))
    <3>1. k - Len(out) \in 1..Len(more)
      BY <1>7, <2>2, <2>4
    <3> QED BY <1>3, <2>1, <2>4, <3>1
  <2> QED BY <2>3, <2>4
<1>9. FlattenSeq(out \o more) \o rest = buffer \o Append(x, e)
  <2> DEFINE f == FlattenSeq(out)
             g == FlattenSeq(more)
             y == <<e>>
  <2>1. f \in Seq(Events) /\ g \in Seq(Events) /\ FlattenSeq(out \o more) = f \o g
    BY <1>1, <1>3, FlattenConcat
  <2>2. y \in Seq(Events) /\ Append(x, e) = x \o y
    BY AppendIsConcat
  <2>3. g \o rest = wait \o y /\ f \o wait = buffer \o x
    BY <1>1, <1>2, <1>3
  <2> HIDE DEF f, g, y
  <2>4. EndsMeet(Events)
    BY EndToEnd
  <2>5. (f \o g) \o rest = f \o (g \o rest)
    BY ONLY <1>3, <2>1, <2>4 DEF EndsMeet
  <2>6. (f \o wait) \o y = f \o (wait \o y)
    BY ONLY <1>1, <2>1, <2>2, <2>4 DEF EndsMeet
  <2>7. (buffer \o x) \o y = buffer \o (x \o y)
    BY ONLY <1>6, <2>2, <2>4, x \in Seq(Events) DEF EndsMeet
  <2> QED BY <2>1, <2>2, <2>3, <2>5, <2>6, <2>7
<1>10. Len(out \o more) + Len(rest) <= Len(buffer) + Len(Append(x, e))
  <2>1. Len(Append(x, e)) = Len(x) + 1
    OBVIOUS
  <2>2. Len(out) \in Nat /\ Len(more) \in Nat /\ Len(rest) \in Nat /\ Len(wait) \in Nat
    BY <1>1, <1>3
  <2> QED BY <1>1, <1>2, <1>3, <1>6, <1>7, <2>1, <2>2
<1>11. /\ ends \in {NoWindow} \cup 0..MaxNow + WindowMs /\ ends <= clock + WindowMs
       /\ ends \in Int /\ clock < ends
  <2>1. CASE wait = <<>>
    BY <1>5, <1>6, <2>1
  <2>2. CASE wait # <<>>
    BY <1>1, <1>5, <2>2
  <2> QED BY <2>1, <2>2
<1>12. \A i \in 1..Len(rest) : ends <= rest[i].at + WindowMs
  <2> SUFFICES ASSUME NEW i \in 1..Len(rest) PROVE ends <= rest[i].at + WindowMs
    OBVIOUS
  <2>1. PICK k \in 1..Len(a) : rest[i] = a[k]
    BY <1>3
  <2>2. Len(wait) \in Nat
    BY <1>1
  <2>3. CASE k = Len(wait) + 1
    BY <1>2, <1>11, <2>1, <2>3
  <2>4. CASE k # Len(wait) + 1
    <3>1. k \in 1..Len(wait) /\ wait # <<>>
      BY <1>2, <2>2, <2>4
    <3> QED BY <1>1, <1>2, <1>5, <2>1, <3>1
  <2> QED BY <2>3, <2>4
<1>13. w \in Passes /\ w.buffer = rest /\ w.out = out \o more /\ w.window = ends
  BY <1>3, <1>5a, <1>7, <1>11 DEF Passes
<1>14. Carried(w, Append(x, e))
  <2> DEFINE z == Append(x, e)
             all == out \o more
  <2>1. /\ w \in Passes /\ w.buffer = rest /\ w.out = all /\ w.window = ends
        /\ PrefixesFit(rest) /\ (\A k \in 1..Len(all) : Whole(all[k]))
        /\ FlattenSeq(all) \o rest = buffer \o z
        /\ Len(all) + Len(rest) <= Len(buffer) + Len(z)
    BY <1>6a, <1>8, <1>9, <1>10, <1>13
  <2> HIDE DEF z, all
  <2> QED BY <1>11, <1>12, <2>1 DEF Carried, z
<1> QED BY <1>0, <1>14

PassOf(x, n) ==
  LET pushed[i \in 0..n] == IF i = 0 THEN Closed ELSE Pushed(pushed[i - 1], x[i])
  IN  pushed[n]

LEMMA PassExists ==
  ASSUME BatcherInv, NEW x \in Seq(Events)
  PROVE  \E f : f = [i \in 0..Len(x) |-> IF i = 0 THEN Closed ELSE Pushed(f[i - 1], x[i])]
<1> DEFINE D == 0..Len(x)
           rank == [i \in D |-> i]
           base == [i \in D |-> Closed]
           next == [i \in D |-> IF i = 0 THEN 0 ELSE i - 1]
           step == [q \in D \X Passes |-> IF q[1] = 0 THEN q[2] ELSE Pushed(q[2], x[q[1]])]
<1>1. Len(x) \in Nat /\ \A i \in 1..Len(x) : x[i] \in Events
  OBVIOUS
<1>2. /\ rank \in [D -> Nat] /\ next \in [D -> D]
      /\ \A i \in D \ {0} : rank[next[i]] < rank[i]
      /\ \A i \in D : rank[i] <= Len(x)
  BY <1>1
<1>3. Closed \in Passes
  BY ClosedCarries DEF Carried
<1>4. base \in [D -> Passes] /\ \A i \in D : base[i] = Closed
  <2> HIDE DEF D
  <2> QED BY <1>3
<1>5. ASSUME NEW b \in Passes, NEW e \in Events PROVE Pushed(b, e) \in Passes
  <2> DEFINE a == Append(b.buffer, e)
             v == Overflow(a)
             ends == IF b.buffer = <<>> THEN clock + WindowMs ELSE b.window
  <2>1. b.buffer \in Seq(Events) /\ b.out \in Seq(Seq(Events)) /\ b.window \in Int
    BY DEF Passes
  <2>2. a \in Seq(Events)
    BY <2>1
  <2>3. v.out \in Seq(Seq(Events)) /\ v.rest \in Seq(Events)
    <3> HIDE DEF a
    <3> QED BY <2>2, OverflowParts
  <2>4. ends \in Int
    <3>1. clock \in Nat /\ WindowMs \in Nat
      BY BatcherNumbers DEF BatcherInv
    <3> QED BY <2>1, <3>1
  <2>5. b.out \o v.out \in Seq(Seq(Events))
    <3> HIDE DEF v
    <3> QED BY <2>1, <2>3
  <2>6. Pushed(b, e) = [buffer |-> v.rest, out |-> b.out \o v.out, window |-> ends]
    BY DEF Pushed
  <2> HIDE DEF a, v, ends
  <2> QED BY <2>3, <2>4, <2>5, <2>6 DEF Passes
<1>6. step \in [D \X Passes -> Passes]
  <2> SUFFICES ASSUME NEW q \in D \X Passes
               PROVE  (IF q[1] = 0 THEN q[2] ELSE Pushed(q[2], x[q[1]])) \in Passes
    <3> HIDE DEF D
    <3> QED OBVIOUS
  <2>1. q[1] \in D /\ q[2] \in Passes
    OBVIOUS
  <2>2. q[1] # 0 => x[q[1]] \in Events
    BY <1>1, <2>1
  <2> QED BY <1>5, <2>1, <2>2
<1>7. \A i \in D, b \in Passes : i # 0 => step[<<i, b>>] = Pushed(b, x[i])
  <2> HIDE DEF D
  <2> QED OBVIOUS
<1>8. \A i \in D : i # 0 => next[i] = i - 1 /\ i - 1 \in D
  BY <1>1
<1> HIDE DEF rank, base, next, step
<1>9. PICK f \in [D -> Passes] : \A i \in D :
         f[i] = IF i \in {0} THEN base[i] ELSE step[<<i, f[next[i]]>>]
  <2> HIDE DEF D
  <2>1. Descends(D, Passes, {0}, rank, base, next, step, Len(x))
    BY <1>1, <1>2, <1>4, <1>6 DEF Descends
  <2> QED BY <2>1, RecursionExists
<1>10. ASSUME NEW i \in D PROVE f[i] = IF i = 0 THEN Closed ELSE Pushed(f[i - 1], x[i])
  <2>1. CASE i = 0
    BY <1>4, <1>9, <2>1
  <2>2. CASE i # 0
    <3>1. next[i] = i - 1 /\ i - 1 \in D
      BY <1>8, <2>2
    <3>2. f[i - 1] \in Passes
      BY <1>9, <3>1
    <3>3. f[i] = step[<<i, f[i - 1]>>]
      BY <1>9, <2>2, <3>1
    <3> QED BY <1>7, <2>2, <3>2, <3>3
  <2> QED BY <2>1, <2>2
<1>11. f = [i \in D |-> IF i = 0 THEN Closed ELSE Pushed(f[i - 1], x[i])]
  <2> HIDE DEF D
  <2>1. f = [i \in D |-> f[i]]
    BY <1>9
  <2> QED BY <1>10, <2>1
<1> QED BY <1>11

LEMMA PassCarries ==
  ASSUME BatcherInv, NEW x \in Seq(Events), \A i \in 1..Len(x) : x[i].at = clock
  PROVE  Carried(PassOf(x, Len(x)), x)
<1> DEFINE D == 0..Len(x)
           p == CHOOSE f : f = [i \in D |-> IF i = 0 THEN Closed ELSE Pushed(f[i - 1], x[i])]
           S == {n \in Nat : n <= Len(x) => Carried(p[n], SubSeq(x, 1, n))}
<1>1. PassOf(x, Len(x)) = p[Len(x)]
  BY DEF PassOf
<1>2. p = [i \in D |-> IF i = 0 THEN Closed ELSE Pushed(p[i - 1], x[i])]
  BY PassExists
<1> HIDE DEF p
<1>3. Len(x) \in Nat /\ \A i \in 1..Len(x) : x[i] \in Events
  OBVIOUS
<1>4. \A i \in D : p[i] = IF i = 0 THEN Closed ELSE Pushed(p[i - 1], x[i])
  <2> HIDE DEF D
  <2> QED BY <1>2
<1>5. 0 \in S
  <2>1. p[0] = Closed /\ SubSeq(x, 1, 0) = <<>>
    BY <1>3, <1>4, SubSeqEmpty
  <2>2. Carried(p[0], SubSeq(x, 1, 0))
    BY <2>1, ClosedCarries
  <2> QED BY <2>2
<1>6. ASSUME NEW n \in S PROVE n + 1 \in S
  <2>1. n \in Nat /\ (n <= Len(x) => Carried(p[n], SubSeq(x, 1, n)))
    OBVIOUS
  <2>2. ASSUME n + 1 <= Len(x) PROVE Carried(p[n + 1], SubSeq(x, 1, n + 1))
    <3>1. /\ n <= Len(x) /\ n + 1 \in D /\ n + 1 # 0 /\ (n + 1) - 1 = n /\ n + 1 \in 1..Len(x)
      BY <1>3, <2>1, <2>2
    <3>2. p[n + 1] = Pushed(p[n], x[n + 1])
      BY <1>4, <3>1
    <3>3. x[n + 1] \in Events /\ x[n + 1].at = clock
      BY <1>3, <3>1
    <3> DEFINE y == SubSeq(x, 1, n)
    <3>4. y \in Seq(Events) /\ SubSeq(x, 1, n + 1) = Append(y, x[n + 1])
      BY <1>3, <2>1, <3>1
    <3>5. Carried(p[n], y)
      BY <2>1, <3>1
    <3>6. BatcherTypeOK
      BY DEF BatcherInv
    <3> HIDE DEF y
    <3>7. Carried(Pushed(p[n], x[n + 1]), Append(y, x[n + 1]))
      BY <3>3, <3>4, <3>5, <3>6, PushCarries
    <3> QED BY <3>2, <3>4, <3>7
  <2> QED BY <2>1, <2>2
<1>7. S = Nat
  <2>1. S \in SUBSET Nat
    OBVIOUS
  <2> HIDE DEF S
  <2> QED BY <1>5, <1>6, <2>1, NatSetInduction
<1>8. Carried(p[Len(x)], SubSeq(x, 1, Len(x)))
  <2>1. Len(x) \in S /\ Len(x) <= Len(x)
    BY <1>3, <1>7
  <2> QED BY <2>1
<1>9. SubSeq(x, 1, Len(x)) = x
  BY SubSeqFull
<1> QED BY <1>1, <1>8, <1>9

-----------------------------------------------------------------------------
(* The steps of the batcher *)

LEMMA BatcherStarts == BatcherInit => BatcherInv
<1> SUFFICES ASSUME BatcherInit PROVE BatcherInv
  OBVIOUS
<1>1. /\ collapse \in BOOLEAN /\ buffer = <<>> /\ windowEnds = NoWindow
      /\ clock = 0 /\ lastPass = 0 /\ added = <<>> /\ sealed = <<>>
  BY DEF BatcherInit
<1>2. MaxNow \in Nat /\ MaxAdded \in Nat /\ WindowMs \in Nat \ {0}
  BY BatcherAssumption
<1>3. <<>> \in Seq(Events) /\ <<>> \in Seq(Seq(Events)) /\ Len(<<>>) = 0 /\ DOMAIN <<>> = {}
  OBVIOUS
<1>4. BatcherTypeOK
  BY <1>1, <1>2, <1>3 DEF BatcherTypeOK
<1>5. PrefixesFit(buffer)
  BY <1>1, NothingWaits
<1>6. FlattenSeq(<<>>) = <<>> /\ <<>> \o <<>> = <<>>
  BY <1>3, ConcatEmptySeq DEF FlattenSeq
<1>7. MailKeepsItsOrder
  BY <1>1, <1>6 DEF MailKeepsItsOrder
<1>8. SealedBatchEncodes
  BY <1>1, <1>3 DEF SealedBatchEncodes
<1>9. WindowHolds
  BY <1>1, <1>2, <1>3 DEF WindowHolds, NoWindow
<1>10. Len(sealed) + Len(buffer) <= Len(added)
  BY <1>1, <1>3
<1> QED BY <1>4, <1>5, <1>7, <1>8, <1>9, <1>10 DEF BatcherInv

(* What fits, fits in the next state too: the caps and the rule stay.      *)
LEMMA FitsStays ==
  ASSUME UNCHANGED collapse, PrefixesFit(buffer') PROVE PrefixesFit(buffer)'
BY DEF PrefixesFit, Fits, VisibleBytes, Hidden

(* A step that seals `more` and leaves `rest` waiting, of what waited and  *)
(* what came in.                                                           *)
LEMMA SealingKeeps ==
  ASSUME BatcherInv, UNCHANGED collapse,
         NEW more \in Seq(Seq(Events)), NEW x \in Seq(Events),
         sealed' = sealed \o more, added' = added \o x,
         buffer' \in Seq(Events), Len(added') <= MaxAdded,
         PrefixesFit(buffer'),
         \A k \in 1..Len(more) : Whole(more[k]),
         FlattenSeq(more) \o buffer' = buffer \o x,
         Len(more) + Len(buffer') <= Len(buffer) + Len(x),
         clock' \in 0..MaxNow, lastPass' \in 0..MaxNow,
         windowEnds' \in {NoWindow} \cup 0..MaxNow + WindowMs,
         WindowHolds'
  PROVE  BatcherInv'
<1>0. /\ BatcherTypeOK /\ MailKeepsItsOrder /\ SealedBatchEncodes
      /\ Len(sealed) + Len(buffer) <= Len(added)
  BY DEF BatcherInv
<1>1. /\ buffer \in Seq(Events) /\ added \in Seq(Events) /\ sealed \in Seq(Seq(Events))
      /\ collapse \in BOOLEAN
  BY <1>0 DEF BatcherTypeOK
<1>2. /\ sealed' \in Seq(Seq(Events)) /\ Len(sealed') = Len(sealed) + Len(more)
      /\ added' \in Seq(Events) /\ Len(added') = Len(added) + Len(x)
      /\ \A k \in 1..Len(sealed') :
            sealed'[k] = IF k <= Len(sealed) THEN sealed[k] ELSE more[k - Len(sealed)]
  BY <1>1, ConcatProperties
<1>3. /\ Len(sealed) \in Nat /\ Len(more) \in Nat /\ Len(added) \in Nat /\ Len(x) \in Nat
      /\ Len(buffer) \in Nat /\ Len(buffer') \in Nat /\ MaxAdded \in Nat
  <2>1. MaxAdded \in Nat
    BY BatcherAssumption
  <2> QED BY <1>1, <2>1
<1>4. Len(sealed') + Len(buffer') <= Len(added')
  BY <1>0, <1>2, <1>3
<1>5. Len(sealed') <= MaxAdded /\ Len(buffer') <= MaxAdded
  BY <1>2, <1>3, <1>4
<1>6. BatcherTypeOK'
  BY <1>1, <1>2, <1>5 DEF BatcherTypeOK
<1>7. MailKeepsItsOrder'
  <2> DEFINE f == FlattenSeq(sealed)
             g == FlattenSeq(more)
             z == buffer'
  <2>1. f \in Seq(Events) /\ g \in Seq(Events) /\ FlattenSeq(sealed') = f \o g
    BY <1>1, FlattenConcat
  <2>2. f \o buffer = added /\ g \o z = buffer \o x /\ z \in Seq(Events)
    BY <1>0 DEF MailKeepsItsOrder
  <2> HIDE DEF f, g, z
  <2>3. EndsMeet(Events)
    BY EndToEnd
  <2>4. (f \o g) \o z = f \o (g \o z)
    BY ONLY <2>1, <2>2, <2>3 DEF EndsMeet
  <2>5. (f \o buffer) \o x = f \o (buffer \o x)
    BY ONLY <1>1, <2>1, <2>3, x \in Seq(Events) DEF EndsMeet
  <2>6. (f \o g) \o z = added \o x
    BY <2>2, <2>4, <2>5
  <2> QED BY <2>1, <2>6 DEF z, MailKeepsItsOrder
<1>8. SealedBatchEncodes'
  <2> SUFFICES ASSUME ~collapse, NEW k \in 1..Len(sealed')
               PROVE  Len(sealed'[k]) <= MaxEvents /\ EncodedBytes(sealed'[k]) <= MaxBytes
    <3>1. DOMAIN sealed' = 1..Len(sealed')
      BY <1>2
    <3> QED BY <3>1 DEF SealedBatchEncodes, EncodedBytes
  <2>1. CASE k <= Len(sealed)
    <3>1. k \in 1..Len(sealed) /\ DOMAIN sealed = 1..Len(sealed)
      BY <1>1, <1>2, <1>3, <2>1
    <3>2. sealed'[k] = sealed[k]
      BY <1>2, <2>1
    <3> QED BY <1>0, <3>1, <3>2 DEF SealedBatchEncodes
  <2>2. CASE ~(k <= Len(sealed))
    <3>1. k - Len(sealed) \in 1..Len(more)
      BY <1>2, <1>3, <2>2
    <3>2. sealed'[k] = more[k - Len(sealed)]
      BY <1>2, <2>2
    <3>3. more[k - Len(sealed)] \in Seq(Events) /\ Whole(more[k - Len(sealed)])
      BY <3>1
    <3> QED BY <3>2, <3>3, WholeEncodes
  <2> QED BY <2>1, <2>2
<1>9. PrefixesFit(buffer)'
  BY FitsStays
<1> QED BY <1>4, <1>6, <1>7, <1>8, <1>9 DEF BatcherInv

LEMMA AddKeeps ==
  ASSUME BatcherInv, NEW n \in Nat, NEW kinds \in [1..n -> EventKinds], Add(kinds)
  PROVE  BatcherInv'
<1> DEFINE x == [i \in 1..Len(kinds) |->
                   [id |-> Len(added) + i, size |-> kinds[i].size,
                    rank |-> kinds[i].rank, at |-> clock]]
           b == PassOf(x, Len(kinds))
<1>1. Len(kinds) = n /\ n \in Nat
  OBVIOUS
<1>2. /\ Len(added) + n <= MaxAdded
      /\ added' = added \o x
      /\ buffer' = b.buffer /\ windowEnds' = b.window
      /\ sealed' = sealed \o b.out
      /\ lastPass' = clock
      /\ UNCHANGED <<collapse, clock>>
  BY <1>1 DEF Add, PassOf
<1>3. BatcherTypeOK /\ added \in Seq(Events) /\ Len(added) \in Nat /\ clock \in 0..MaxNow
  BY DEF BatcherInv, BatcherTypeOK
<1>4. x \in Seq(Events) /\ Len(x) = n /\ \A i \in 1..n : x[i].at = clock
  <2>1. MaxAdded \in Nat
    BY BatcherAssumption
  <2>2. \A i \in 1..n : [id |-> Len(added) + i, size |-> kinds[i].size,
                         rank |-> kinds[i].rank, at |-> clock] \in Events
    <3> SUFFICES ASSUME NEW i \in 1..n
                 PROVE  [id |-> Len(added) + i, size |-> kinds[i].size,
                         rank |-> kinds[i].rank, at |-> clock] \in Events
      OBVIOUS
    <3>1. Len(added) + i \in 1..MaxAdded
      BY <1>1, <1>2, <1>3, <2>1
    <3>2. kinds[i] \in EventKinds
      OBVIOUS
    <3> QED BY <1>3, <3>1, <3>2 DEF Events
  <2>3. x \in [1..n -> Events]
    BY <1>1, <2>2
  <2>4. \A i \in 1..n : x[i].at = clock
    BY <1>1
  <2> HIDE DEF x
  <2> QED BY <1>1, <2>3, <2>4
<1> HIDE DEF x
<1>5. Carried(b, x)
  BY <1>1, <1>4, PassCarries
<1> HIDE DEF b
<1>6. /\ b.buffer \in Seq(Events) /\ b.out \in Seq(Seq(Events))
      /\ PrefixesFit(b.buffer)
      /\ \A k \in 1..Len(b.out) : Whole(b.out[k])
      /\ FlattenSeq(b.out) \o b.buffer = buffer \o x
      /\ Len(b.out) + Len(b.buffer) <= Len(buffer) + Len(x)
      /\ b.window \in {NoWindow} \cup 0..MaxNow + WindowMs /\ b.window <= clock + WindowMs
      /\ b.buffer # <<>> => clock < b.window
      /\ \A i \in 1..Len(b.buffer) : b.window <= b.buffer[i].at + WindowMs
  BY <1>5 DEF Carried, Passes
<1>7. WindowHolds'
  <2>1. DOMAIN buffer' = 1..Len(b.buffer)
    BY <1>2, <1>6
  <2> QED BY <1>2, <1>6, <2>1 DEF WindowHolds
<1>8. Len(added') <= MaxAdded
  <2>1. Len(added \o x) = Len(added) + Len(x)
    BY <1>3, <1>4, ConcatProperties
  <2> QED BY <1>2, <1>4, <2>1
<1>9. /\ clock' \in 0..MaxNow /\ lastPass' \in 0..MaxNow
      /\ windowEnds' \in {NoWindow} \cup 0..MaxNow + WindowMs
      /\ UNCHANGED collapse
  BY <1>2, <1>3, <1>6
<1> DEFINE more == b.out
<1>10. /\ more \in Seq(Seq(Events)) /\ x \in Seq(Events)
       /\ sealed' = sealed \o more /\ added' = added \o x
       /\ buffer' \in Seq(Events) /\ PrefixesFit(buffer')
       /\ \A k \in 1..Len(more) : Whole(more[k])
       /\ FlattenSeq(more) \o buffer' = buffer \o x
       /\ Len(more) + Len(buffer') <= Len(buffer) + Len(x)
  BY <1>2, <1>4, <1>6
<1> HIDE DEF more
<1> QED BY <1>7, <1>8, <1>9, <1>10, SealingKeeps

LEMMA FlushKeeps ==
  ASSUME BatcherInv, Flush
  PROVE  BatcherInv'
<1>1. /\ buffer # <<>>
      /\ sealed' = Append(sealed, Head(Drained(buffer)))
      /\ buffer' = <<>> /\ windowEnds' = NoWindow
      /\ UNCHANGED <<collapse, clock, lastPass, added>>
  BY DEF Flush
<1>2. BatcherTypeOK /\ PrefixesFit(buffer)
  BY DEF BatcherInv
<1>3. /\ buffer \in Seq(Events) /\ added \in Seq(Events) /\ sealed \in Seq(Seq(Events))
      /\ Len(added) <= MaxAdded /\ clock \in 0..MaxNow /\ lastPass \in 0..MaxNow
  BY <1>2 DEF BatcherTypeOK
<1> DEFINE p == PrefixOf(buffer)
           more == <<p>>
           x == <<>>
<1>4. Head(Drained(buffer)) = p
  BY <1>1, <1>3, DrainedSplits
<1>5. /\ p \in Seq(Events) /\ Whole(p)
      /\ PrefixLength(buffer) = Len(buffer)
  BY <1>1, <1>2, <1>3, PrefixIsLongest
<1>6. p = buffer
  BY <1>3, <1>5, SubSeqFull DEF PrefixOf
<1> HIDE DEF p
<1>7. more \in Seq(Seq(Events)) /\ Len(more) = 1 /\ more[1] = p
  BY <1>5
<1>8. sealed' = sealed \o more
  BY <1>1, <1>3, <1>4, <1>5, AppendIsConcat
<1>9. FlattenSeq(more) = p
  BY <1>5, FlattenOne
<1>10. /\ x \in Seq(Events) /\ Len(x) = 0 /\ added' = added \o x
       /\ p \o x = p /\ buffer \o x = buffer
  BY <1>1, <1>3, <1>5, ConcatEmptySeq
<1>11. FlattenSeq(more) \o buffer' = buffer \o x
  BY <1>1, <1>6, <1>9, <1>10
<1>12. Len(more) + Len(buffer') <= Len(buffer) + Len(x)
  <2>1. Len(buffer) \in Nat /\ Len(buffer) # 0 /\ Len(buffer') = 0
    BY <1>1, <1>3
  <2> QED BY <1>7, <1>10, <2>1
<1>13. \A k \in 1..Len(more) : Whole(more[k])
  BY <1>5, <1>7
<1>14. WindowHolds'
  <2>1. NoWindow <= clock + WindowMs /\ DOMAIN <<>> = {}
    BY <1>2, BatcherNumbers DEF NoWindow
  <2> QED BY <1>1, <2>1 DEF WindowHolds
<1>15. buffer' \in Seq(Events) /\ PrefixesFit(buffer')
  BY <1>1, <1>10, NothingWaits
<1> HIDE DEF more, x
<1> QED BY <1>1, <1>3, <1>7, <1>8, <1>10, <1>11, <1>12, <1>13, <1>14, <1>15, SealingKeeps

LEMMA TickKeeps ==
  ASSUME BatcherInv, BatcherTick
  PROVE  BatcherInv'
<1>1. /\ clock < MaxNow /\ clock' = clock + 1
      /\ UNCHANGED <<collapse, buffer, windowEnds, lastPass, added, sealed>>
  BY DEF BatcherTick
<1>2. /\ BatcherTypeOK /\ PrefixesFit(buffer) /\ Len(sealed) + Len(buffer) <= Len(added)
      /\ MailKeepsItsOrder /\ SealedBatchEncodes /\ WindowHolds
  BY DEF BatcherInv
<1>3. clock \in Nat /\ MaxNow \in Nat /\ windowEnds \in Int /\ WindowMs \in Nat
  BY <1>2, BatcherNumbers
<1>4. BatcherTypeOK'
  BY <1>1, <1>2, <1>3 DEF BatcherTypeOK
<1>5. PrefixesFit(buffer)'
  <2>1. PrefixesFit(buffer')
    BY <1>1, <1>2
  <2> QED BY <1>1, <2>1, FitsStays
<1>6. MailKeepsItsOrder' /\ (Len(sealed) + Len(buffer) <= Len(added))'
  BY <1>1, <1>2 DEF MailKeepsItsOrder
<1>7. SealedBatchEncodes'
  BY <1>1, <1>2 DEF SealedBatchEncodes, EncodedBytes
<1>8. WindowHolds'
  <2>1. windowEnds <= clock' + WindowMs
    BY <1>1, <1>2, <1>3 DEF WindowHolds
  <2> QED BY <1>1, <1>2, <2>1 DEF WindowHolds
<1> QED BY <1>4, <1>5, <1>6, <1>7, <1>8 DEF BatcherInv

LEMMA BatcherRests ==
  ASSUME BatcherInv, UNCHANGED batcherVars
  PROVE  BatcherInv'
<1>1. UNCHANGED <<collapse, buffer, windowEnds, clock, lastPass, added, sealed>>
  BY DEF batcherVars
<1>2. /\ BatcherTypeOK /\ PrefixesFit(buffer) /\ Len(sealed) + Len(buffer) <= Len(added)
      /\ MailKeepsItsOrder /\ SealedBatchEncodes /\ WindowHolds
  BY DEF BatcherInv
<1>3. BatcherTypeOK' /\ MailKeepsItsOrder' /\ WindowHolds'
  BY <1>1, <1>2 DEF BatcherTypeOK, MailKeepsItsOrder, WindowHolds
<1>4. PrefixesFit(buffer)'
  <2>1. PrefixesFit(buffer')
    BY <1>1, <1>2
  <2> QED BY <1>1, <2>1, FitsStays
<1>5. SealedBatchEncodes' /\ (Len(sealed) + Len(buffer) <= Len(added))'
  BY <1>1, <1>2 DEF SealedBatchEncodes, EncodedBytes
<1> QED BY <1>3, <1>4, <1>5 DEF BatcherInv

LEMMA BatcherStep == BatcherInv /\ [BatcherNext]_batcherVars => BatcherInv'
<1> SUFFICES ASSUME BatcherInv, [BatcherNext]_batcherVars PROVE BatcherInv'
  OBVIOUS
<1>1. ASSUME NEW n \in 0..2, NEW kinds \in [1..n -> EventKinds], Add(kinds) PROVE BatcherInv'
  BY <1>1, AddKeeps
<1>2. CASE Flush
  BY <1>2, FlushKeeps
<1>3. CASE BatcherTick
  BY <1>3, TickKeeps
<1>4. CASE UNCHANGED batcherVars
  BY <1>4, BatcherRests
<1> QED BY <1>1, <1>2, <1>3, <1>4 DEF BatcherNext

LEMMA BatcherPromises == BatcherInv => BatcherPromise
<1> SUFFICES ASSUME BatcherInv PROVE BatcherPromise
  OBVIOUS
<1>1. BatcherTypeOK /\ MailKeepsItsOrder /\ SealedBatchEncodes /\ WindowHolds
  BY DEF BatcherInv
<1>2. lastPass \in Nat /\ windowEnds \in Int /\ WindowMs \in Nat
  BY <1>1, BatcherNumbers
<1>3. ASSUME NEW i \in DOMAIN buffer PROVE lastPass < buffer[i].at + WindowMs
  <2>1. buffer # <<>> /\ lastPass < windowEnds /\ windowEnds <= buffer[i].at + WindowMs
    BY <1>1 DEF WindowHolds
  <2>2. buffer[i] \in Events
    BY <1>1 DEF BatcherTypeOK
  <2>3. buffer[i].at \in 0..MaxNow /\ MaxNow \in Nat
    BY <1>1, <2>2, EventFields, BatcherNumbers
  <2> QED BY <1>2, <2>1, <2>3
<1> QED BY <1>1, <1>3 DEF BatcherPromise, NobodyOverstays

(* Theorem: the batcher loses no mail, through flushes and with collapse   *)
(* or without; without collapse it seals what the encoder accepts; and it  *)
(* holds no event back past the first pass after its window                *)
(* (batcher/mod.ts), for any caps, window and events.                      *)
THEOREM BatcherKeepsPromise == BatcherSpec => []BatcherPromise
<1> QED BY BatcherStarts, BatcherStep, BatcherPromises, PTL DEF BatcherSpec

-----------------------------------------------------------------------------
(* The components side by side *)

(* Every behaviour of the composition is one of each component: its own    *)
(* part runs, or rests.                                                    *)
PartKnown == part \in Parts

LEMMA ComponentsStart ==
  MCInit => /\ PartKnown
            /\ BatcherInit /\ ReconnectInit /\ TwinsInit /\ MigrationsInit /\ RecoveryInit
            /\ HandoffCommandsInit /\ ControlAsked
<1> SUFFICES ASSUME MCInit PROVE ControlAsked
  BY DEF MCInit, PartKnown
<1>1. CASE part = "control"
  BY <1>1 DEF MCInit, ControlInit, ControlAsked
<1>2. CASE part # "control"
  <2>1. request = CHOOSE r \in ControlRequests : ~r.confirm
    BY <1>2 DEF MCInit
  <2>2. \E r \in ControlRequests : ~r.confirm
    <3> DEFINE r == [version |-> None, root |-> None, expectedRoot |-> None, agent |-> FALSE,
                     thread |-> None, snapshot |-> NoSnapshot, unit |-> "unknown",
                     mailbox |-> "unknown", confirm |-> FALSE]
    <3>1. r \in ControlRequests
      BY DEF ControlRequests
    <3>2. ~r.confirm
      OBVIOUS
    <3> HIDE DEF r
    <3> QED BY <3>1, <3>2
  <2> QED BY <2>1, <2>2 DEF ControlAsked
<1> QED BY <1>1, <1>2

LEMMA ComponentsStep ==
  [MCNext]_mcVars => /\ UNCHANGED part
                     /\ [BatcherNext]_batcherVars
                     /\ [ReconnectNext \/ ReplayNext]_reconnectVars
                     /\ [TwinsNext]_twinVars
                     /\ [MigrationsNext]_migrationVars
                     /\ [RecoveryNext]_recoveryVars
                     /\ [HandoffCommandsNext]_handoffVars
                     /\ [ControlNext]_request
<1> SUFFICES ASSUME [MCNext]_mcVars
             PROVE  /\ UNCHANGED part
                    /\ [BatcherNext]_batcherVars
                    /\ [ReconnectNext \/ ReplayNext]_reconnectVars
                    /\ [TwinsNext]_twinVars
                    /\ [MigrationsNext]_migrationVars
                    /\ [RecoveryNext]_recoveryVars
                    /\ [HandoffCommandsNext]_handoffVars
                    /\ [ControlNext]_request
  OBVIOUS
<1>1. CASE UNCHANGED mcVars
  BY <1>1 DEF mcVars
<1>2. CASE MCNext
  BY <1>2 DEF MCNext, Steps
<1> QED BY <1>1, <1>2

(* In every reachable state each component's inductive invariant holds,    *)
(* for every value of the constants: the composition adds nothing to it.   *)
THEOREM ComponentsAreConsistent == MCSpec => []ComponentsInv
<1>1. MCSpec => []PartKnown
  <2>1. PartKnown /\ UNCHANGED part => PartKnown'
    BY DEF PartKnown
  <2> QED BY <2>1, ComponentsStart, ComponentsStep, PTL DEF MCSpec
<1>2. MCSpec => []BatcherInv
  BY ComponentsStart, ComponentsStep, BatcherStarts, BatcherStep, PTL DEF MCSpec
<1>3. MCSpec => []ReconnectInv
  BY ComponentsStart, ComponentsStep, ReconnectIsConsistent, PTL DEF MCSpec, ReconnectSpec
<1>4. MCSpec => []TwinsInv
  BY ComponentsStart, ComponentsStep, StoresStayAlike, PTL DEF MCSpec, TwinsSpec
<1>5. MCSpec => []MigrationsInv
  BY ComponentsStart, ComponentsStep, MigrationsAgree, PTL DEF MCSpec, MigrationsSpec
<1>6. MCSpec => []RecoveryInv
  BY ComponentsStart, ComponentsStep, RecoveryStarts, RecoveryStep, PTL DEF MCSpec
<1>7. MCSpec => []HandoffInv
  BY ComponentsStart, ComponentsStep, HandoffStarts, HandoffStep, PTL DEF MCSpec
<1>8. MCSpec => []ControlAsked
  BY ComponentsStart, ComponentsStep, ControlStays, PTL DEF MCSpec
<1>9. ASSUME PartKnown, BatcherInv, ReconnectInv, TwinsInv, MigrationsInv, RecoveryInv, HandoffInv,
             ControlAsked
      PROVE  ComponentsInv
  BY <1>9 DEF ComponentsInv, PartKnown, ControlAsked
<1> QED BY <1>1, <1>2, <1>3, <1>4, <1>5, <1>6, <1>7, <1>8, <1>9, PTL

(* What an operator relies on holds in every reachable state: recovery     *)
(* commands explain and keep what they change, hand-offs keep the queue    *)
(* and an idle thread, control answers consistently.                       *)
THEOREM OperatorsKeepPromise == MCSpec => []OperatorPromise
<1>1. ComponentsInv => OperatorPromise
  BY ControlAnswers DEF ComponentsInv, RecoveryInv, HandoffInv, OperatorPromise
<1> QED BY <1>1, ComponentsAreConsistent, PTL
=============================================================================
