-------------------------- MODULE SchemaLifecycle --------------------------
(***************************************************************************)
(* The life of the platform database on SQLite: the classification every   *)
(* start makes before it opens the file, the creation of a new database,   *)
(* the provenance migration M005-001 behind a verified backup, the restore *)
(* of a backup, and the thirteen milestone migrations up and down.         *)
(*                                                                         *)
(* SQLite runs a schema statement outside a transaction until the first    *)
(* data statement of a migration opens one: the tables of a step appear    *)
(* one at a time and stay after a crash, while its manifest rows and the   *)
(* revision stamp commit together.  PostgreSQL runs a step in one          *)
(* transaction, which is a special case.                                   *)
(***************************************************************************)
EXTENDS Naturals, Sequences, FiniteSets

CONSTANTS
    Starters,   \* processes that start the platform
    Operator,   \* the process that runs the maintenance commands
    Nil,        \* no file content
    MaxHistories   \* bound: guarded histories in the database at a time

ASSUME OperatorAssumption == Operator \notin Starters

Users == Starters \cup {Operator}
Histories == {"conversations", "sync", "oauth", "identity", "metadata"}

\* What the classification requires of each generation of the schema.
V1Tables == {"deliveries", "memories", "run_events", "skill_versions"}
M005Tables == {"external_contents", "context_envelopes"}
AuditTables == {"authorization_decision_snapshots", "audit_receipts",
    "audit_result_bindings", "audit_anchor_recovery_checkpoints"}
AuthorityTables == {"deployment_profiles", "deployment_instances",
    "authority_epoch_credentials", "authority_trust_anchors",
    "deployment_instance_leases", "workspace_authorities", "authority_commit_intents"}
RegistryTables == {"authority_registries", "authority_registry_verifier_keys",
    "authority_registry_trust_states", "authority_registry_freshness_proofs",
    "authority_state_root_manifests", "authority_state_root_leaf_families",
    "authority_state_root_leaf_commitments"}
InputTables == {"audience_policy_snapshots", "access_bundles", "capability_grants",
    "agent_grants", "delegation_grants", "workspace_signing_key_versions",
    "idempotency_envelopes"}
HandoffTables == {"authority_close_certificates", "authority_handoffs",
    "authority_handoff_activations", "restore_validation_receipts"}
ScopeTables == {"identity_workspaces", "principals", "workspace_memberships",
    "agent_identities", "scopes"}
IdentityTables == {"accounts", "external_identities", "device_registrations",
    "session_records"}
OAuthTables == {"oauth_transactions", "web_session_bindings",
    "account_onboarding_versions", "identity_idempotency"}
SyncTables == {"device_sync_acknowledgements", "outbox_events",
    "platform_idempotency", "workspace_changes", "workspace_sync_heads"}
ConversationTables == {"agent_run_events", "agent_runs", "attachments",
    "message_attachments", "messages", "run_artifact_lineage", "run_artifacts",
    "thread_versions", "threads"}

Base == V1Tables \cup M005Tables \cup {"corvus_schema"}
HeadRevision == 13

\* The table set of a database at revision k; revision 0 is the stamped
\* database before the first milestone migration.
Required ==
    LET m1 == Base \cup {"alembic_version", "projects"}
        m2 == m1 \cup AuditTables
        m3 == m2 \cup AuthorityTables
        m4 == m3 \cup RegistryTables
        m5 == m4 \cup InputTables
        m6 == m5 \cup HandoffTables
        m7 == m6 \cup ScopeTables
        m10 == m7 \cup IdentityTables
        m11 == m10 \cup OAuthTables
        m12 == (m11 \ {"identity_idempotency"}) \cup SyncTables
    IN  [k \in 0..HeadRevision |->
            <<Base, m1, m2, m3, m4, m5, m6, m7, m7, m7, m10, m11, m12,
              m12 \cup ConversationTables>>[k + 1]]

\* The families each version of the authority manifest must name.
FamilySets ==
    LET v1 == AuditTables \cup (AuthorityTables \ {"deployment_profiles"}) \cup {"projects"}
              \cup (RegistryTables \ {"authority_state_root_leaf_families",
                                      "authority_state_root_leaf_commitments"})
        v2 == v1 \cup InputTables
        v3 == v2 \cup HandoffTables
        v4 == v3 \cup ScopeTables
        v7 == v4 \cup IdentityTables
        v8 == v7 \cup SyncTables
    IN  <<v1, v2, v3, v4,
          v4 \ {"audit_anchor_recovery_checkpoints", "audit_result_bindings"},
          v4, v7, v8, v8 \cup ConversationTables>>

LatestManifest == <<0, 0, 0, 1, 2, 3, 4, 5, 6, 7, 7, 8, 9>>

VARIABLES
    course,      \* whether this behaviour is about starts or about milestones
    db,          \* the database file
    bak,         \* [job -> the published backup and its digest sidecar]
    starter,     \* [process -> what it is doing]
    acked,       \* history: rows and histories an open database accepted and no
                 \* write racing with a drop has lost
    unfinished,  \* history: a migration step began and has not committed
    overlap      \* history: jobs that ran in two processes at once

schemaVars == <<course, db, bak, starter, acked, unfinished, overlap>>

Jobs == {"m005", "stamp"}

NoFile == [file |-> FALSE, tables |-> {}, version |-> 0, revision |-> 0,
           manifests |-> << >>, armed |-> TRUE, rows |-> {}, hist |-> {}]
NewFile == [NoFile EXCEPT !.file = TRUE, !.tables = Base, !.version = 2]
LegacyFile == [NoFile EXCEPT !.file = TRUE, !.tables = V1Tables, !.rows = {"legacy"}]
StampedFile == [LegacyFile EXCEPT !.tables = V1Tables \cup {"corvus_schema"}, !.version = 1]

\* What a database file can hold; its rows are named for who wrote them.
SchemaTables == Base \cup {"alembic_version", "projects"} \cup AuditTables \cup AuthorityTables
    \cup RegistryTables \cup InputTables \cup HandoffTables \cup ScopeTables \cup IdentityTables
    \cup OAuthTables \cup SyncTables \cup ConversationTables
Files ==
    [file : BOOLEAN, tables : SUBSET SchemaTables, version : 0..2, revision : 0..HeadRevision,
     manifests : Seq(SUBSET SchemaTables), armed : BOOLEAN,
     rows : SUBSET (Users \cup {"legacy"}), hist : SUBSET Histories]

ASSUME FileAssumption == Nil \notin Files /\ Users \cap (Histories \cup {"legacy"}) = {}

\* The append-only triggers and the unique indexes of the generation are there.
TriggersMatch(d) == d.armed

\* The manifest rows are those of the expected versions, family by family.
ManifestsMatch(d, k) ==
    /\ Len(d.manifests) = LatestManifest[k]
    /\ \A v \in DOMAIN d.manifests : d.manifests[v] = FamilySets[v]

\* classify_database: reads the file, never changes it.  The set of tables
\* decides which revision, manifest and triggers are required.
Classify(d) ==
    CASE ~d.file \/ d.tables = {} -> "new"
      [] d.tables = V1Tables -> "unstamped_v1"
      [] d.tables = V1Tables \cup {"corvus_schema"} /\ d.version = 1 -> "migration_required"
      [] \E k \in 0..HeadRevision :
            /\ d.tables = Required[k]
            /\ d.version = 2
            /\ TriggersMatch(d)
            /\ k > 0 => d.revision = k
            /\ k > 3 => ManifestsMatch(d, k) -> "current"
      [] OTHER -> "partial"

\* late and raced are histories, of a downgrade: what was written since its
\* preflight, and since the check of its present step.
AtRest == [pc |-> "idle", job |-> "none", copy |-> Nil, step |-> 0, target |-> 0,
         orphan |-> FALSE, late |-> {}, raced |-> {}]

SchemaInit ==
    /\ course \in {"start", "migrate"}
    /\ db \in IF course = "start" THEN {NoFile, LegacyFile, StampedFile} ELSE {NewFile}
    /\ bak = [j \in Jobs |-> [content |-> Nil, digest |-> Nil]]
    /\ starter = [p \in Users |-> AtRest]
    /\ acked = db.rows
    /\ unfinished = FALSE
    /\ overlap = {}

Become(p, r) == starter' = [starter EXCEPT ![p] = r]
OpenStore == [AtRest EXCEPT !.pc = "open"]
History == <<acked, unfinished>>

\* Another process is at the same job, past its own check.
Meets(p, pcs, job) ==
    overlap' = IF \E q \in Users \ {p} : starter[q].pc \in pcs
               THEN overlap \cup {job} ELSE overlap

MigrationSteps == {"upgrade", "creating", "built", "downgrade", "checked", "undone"}

\* The file at the database's path is replaced: a process that has the old
\* one open goes on writing to a file nobody will read again, and a migration
\* command ends on it.
Replace(p, d, after) ==
    /\ db' = d
    /\ starter' = [q \in Users |->
                    IF q = p THEN after
                    ELSE IF starter[q].pc = "open" THEN [starter[q] EXCEPT !.orphan = TRUE]
                    ELSE IF starter[q].pc \in MigrationSteps THEN AtRest
                    ELSE starter[q]]
    /\ unfinished' = FALSE
    /\ UNCHANGED bak

-----------------------------------------------------------------------------
(* Starting the platform.                                                  *)

\* bootstrap_database: any other state is refused and nothing changes.
Bootstrap(p) ==
    /\ p \in Starters /\ starter[p].pc = "idle"
    /\ course = "migrate" => \A q \in Starters : starter[q].pc = "idle"
    /\ LET c == Classify(db) IN
        /\ c \in {"new", "migration_required", "current"}
        /\ Become(p, CASE c = "new" -> [AtRest EXCEPT !.pc = "initialize"]
                       [] c = "migration_required" ->
                            [AtRest EXCEPT !.pc = "backup", !.job = "m005"]
                       [] c = "current" -> OpenStore)
    /\ UNCHANGED <<db, bak, overlap, History>>

\* Mistake: the initialization trusts the classification of its caller.
InitializeUnchecked(p) ==
    /\ starter[p].pc = "initialize"
    /\ Become(p, [AtRest EXCEPT !.pc = "publish", !.copy = NewFile])
    /\ Meets(p, {"publish", "restore"}, "publish")
    /\ UNCHANGED <<db, bak, History>>

\* initialize_database up to the replace: classify again, build the schema
\* under a temporary name.
Initialize(p) ==
    /\ starter[p].pc = "initialize"
    /\ IF Classify(db) = "new"
       THEN /\ Become(p, [AtRest EXCEPT !.pc = "publish", !.copy = NewFile])
            /\ Meets(p, {"publish", "restore"}, "publish")
       ELSE Become(p, AtRest) /\ UNCHANGED overlap
    /\ UNCHANGED <<db, bak, History>>

\* The replace at the end of initialize_database: the path is not looked
\* at again.
InitializePublish(p) ==
    /\ starter[p].pc = "publish"
    /\ Replace(p, starter[p].copy, OpenStore)
    /\ UNCHANGED <<acked, overlap>>

-----------------------------------------------------------------------------
(* The backup and the migration it precedes.                               *)

\* The two callers of _create_verified_backup and the state each requires.
Expected(job) == IF job = "m005" THEN "migration_required" ELSE "unstamped_v1"

\* backup_and_stamp_v1, the operator's command for an unstamped database.
StampV1(p) ==
    /\ p = Operator /\ starter[p].pc = "idle"
    /\ Classify(db) = "unstamped_v1"
    /\ Become(p, [AtRest EXCEPT !.pc = "backup", !.job = "stamp"])
    /\ UNCHANGED <<db, bak, overlap, History>>

BackupSteps == {"copy", "publish_backup", "sidecar", "commit"}

\* The checks before the copy: the classification still holds, and neither
\* the backup nor its sidecar exists.
BackupCheck(p) ==
    /\ starter[p].pc = "backup"
    /\ LET j == starter[p].job IN
        IF Classify(db) = Expected(j) /\ bak[j] = [content |-> Nil, digest |-> Nil]
        THEN /\ Become(p, [starter[p] EXCEPT !.pc = "copy"])
             /\ Meets(p, BackupSteps, "backup")
        ELSE Become(p, AtRest) /\ UNCHANGED overlap
    /\ UNCHANGED <<db, bak, History>>

BackupCopy(p) ==
    /\ starter[p].pc = "copy"
    /\ Become(p, [starter[p] EXCEPT !.pc = "publish_backup", !.copy = db])
    /\ UNCHANGED <<db, bak, overlap, History>>

BackupPublish(p) ==
    /\ starter[p].pc = "publish_backup"
    /\ bak' = [bak EXCEPT ![starter[p].job].content = starter[p].copy]
    /\ Become(p, [starter[p] EXCEPT !.pc = "sidecar"])
    /\ UNCHANGED <<db, overlap, History>>

\* The sidecar, and the comparison of the published file with its digest.
BackupSidecar(p) ==
    /\ starter[p].pc = "sidecar"
    /\ LET j == starter[p].job IN
        /\ bak' = [bak EXCEPT ![j].digest = starter[p].copy]
        /\ Become(p, IF bak[j].content = starter[p].copy
                     THEN [starter[p] EXCEPT !.pc = "commit", !.copy = Nil] ELSE AtRest)
    /\ UNCHANGED <<db, overlap, History>>

\* _migrate_m005_001 and backup_and_stamp_v1 in their write transaction: the
\* schema is read again, changed and stamped, or nothing is.
MigrateCommit(p) ==
    /\ starter[p].pc = "commit"
    /\ IF Classify(db) = Expected(starter[p].job)
       THEN /\ db' = [db EXCEPT !.tables = Base, !.version = 2]
            /\ Become(p, IF starter[p].job = "m005" THEN OpenStore ELSE AtRest)
       ELSE Become(p, AtRest) /\ UNCHANGED db
    /\ UNCHANGED <<bak, overlap, History>>

\* restore_database_backup up to the replace.
Restore(p, j) ==
    /\ p = Operator /\ starter[p].pc = "idle"
    /\ ~db.file
    /\ bak[j].content # Nil /\ bak[j].digest = bak[j].content
    /\ Classify(bak[j].content) \in {"unstamped_v1", "migration_required", "current"}
    /\ Become(p, [AtRest EXCEPT !.pc = "restore", !.copy = bak[j].content])
    /\ Meets(p, {"publish", "restore"}, "publish")
    /\ UNCHANGED <<db, bak, History>>

RestorePublish(p) ==
    /\ starter[p].pc = "restore"
    /\ Replace(p, starter[p].copy, AtRest)
    /\ acked' = acked \cup starter[p].copy.rows
    /\ UNCHANGED overlap

\* The operator moves a damaged database away, as the status' recovery text
\* asks, or goes back to the one before the migration, while nothing runs.
MoveAway(p) ==
    /\ p = Operator /\ \A q \in Users : starter[q].pc = "idle"
    /\ db.file
    /\ Classify(db) = "partial" \/ \E j \in Jobs : bak[j].content # Nil
    /\ db' = NoFile
    /\ acked' = {} /\ unfinished' = FALSE
    /\ UNCHANGED <<bak, starter, overlap>>

-----------------------------------------------------------------------------
(* The milestone migrations.  "early" are the tables made before the first *)
(* data statement of the step, "undo" what a downgrade does before its     *)
(* own: drop the append-only triggers of the manifests, or drop tables.    *)

M1_001 == [creates |-> {"alembic_version", "projects"}, drops |-> {},
           early |-> {"alembic_version", "projects"}, seeds |-> FALSE, undo |-> "tables"]
M1_002 == [creates |-> AuditTables, drops |-> {}, early |-> AuditTables,
           seeds |-> FALSE, undo |-> "tables"]
M1_003 == [creates |-> AuthorityTables, drops |-> {}, early |-> AuthorityTables,
           seeds |-> FALSE, undo |-> "tables"]
M1_004 == [creates |-> RegistryTables, drops |-> {}, early |-> RegistryTables,
           seeds |-> TRUE, undo |-> "tables"]
M1_005 == [creates |-> InputTables, drops |-> {}, early |-> InputTables,
           seeds |-> TRUE, undo |-> "triggers"]
M1_006 == [creates |-> HandoffTables, drops |-> {}, early |-> HandoffTables,
           seeds |-> TRUE, undo |-> "triggers"]
M1_007 == [creates |-> ScopeTables, drops |-> {}, early |-> ScopeTables,
           seeds |-> TRUE, undo |-> "triggers"]
M1_008 == [creates |-> {}, drops |-> {}, early |-> {}, seeds |-> TRUE, undo |-> "triggers"]
M1_009 == [creates |-> {}, drops |-> {}, early |-> {}, seeds |-> TRUE, undo |-> "triggers"]
M2_001 == [creates |-> IdentityTables, drops |-> {}, early |-> IdentityTables,
           seeds |-> TRUE, undo |-> "triggers"]
M2_001a == [creates |-> OAuthTables, drops |-> {}, early |-> OAuthTables,
            seeds |-> FALSE, undo |-> "tables"]
M2_002 == [creates |-> SyncTables, drops |-> {"identity_idempotency"},
           early |-> {"platform_idempotency"}, seeds |-> TRUE, undo |-> "triggers"]
M2_003 == [creates |-> ConversationTables, drops |-> {}, early |-> ConversationTables,
           seeds |-> TRUE, undo |-> "triggers"]

Migration == <<M1_001, M1_002, M1_003, M1_004, M1_005, M1_006, M1_007, M1_008, M1_009,
               M2_001, M2_001a, M2_002, M2_003>>

\* The families a step writes into its manifest: the first four have their
\* own lists, the later ones are derived from the manifest before them.
M1_004_Families == {"audit_anchor_recovery_checkpoints", "audit_receipts",
    "audit_result_bindings", "authority_commit_intents", "authority_epoch_credentials",
    "authority_registries", "authority_registry_freshness_proofs",
    "authority_registry_trust_states", "authority_registry_verifier_keys",
    "authority_state_root_manifests", "authority_trust_anchors",
    "authorization_decision_snapshots", "deployment_instance_leases",
    "deployment_instances", "projects", "workspace_authorities"}
M1_005_Families == M1_004_Families \cup {"access_bundles", "agent_grants",
    "audience_policy_snapshots", "capability_grants", "delegation_grants",
    "idempotency_envelopes", "workspace_signing_key_versions"}
M1_006_Families == M1_005_Families \cup {"authority_close_certificates",
    "authority_handoff_activations", "authority_handoffs", "restore_validation_receipts"}
M1_007_Families == M1_006_Families \cup {"agent_identities", "identity_workspaces",
    "principals", "scopes", "workspace_memberships"}
PostCommitFamilies == {"audit_anchor_recovery_checkpoints", "audit_result_bindings"}

Seed(k, prior) ==
    CASE k = 4 -> M1_004_Families
      [] k = 5 -> M1_005_Families
      [] k = 6 -> M1_006_Families
      [] k = 7 -> M1_007_Families
      [] k = 8 -> prior \ PostCommitFamilies
      [] k = 9 -> prior \cup PostCommitFamilies
      [] k \in {10, 12, 13} -> prior \cup Migration[k].creates

Latest(s) == IF s = << >> THEN {} ELSE s[Len(s)]

\* The history a downgrade of step k looks for before it drops anything.
HistoryOf(k) ==
    CASE k = 13 -> {"conversations"}
      [] k = 12 -> {"sync"}
      [] k = 11 -> {"oauth"}
      [] k = 10 -> {"identity", "metadata"}
      [] OTHER -> {}

\* upgrade_database: only a database classified current is upgraded.
Upgrade(p) ==
    /\ p = Operator /\ starter[p].pc = "idle"
    /\ course = "migrate"
    /\ Classify(db) = "current" /\ db.revision < HeadRevision
    /\ Become(p, [AtRest EXCEPT !.pc = "upgrade", !.step = db.revision + 1])
    /\ UNCHANGED <<db, bak, overlap, History>>

\* The first schema statement of the step.
UpgradeCreate(p) ==
    /\ starter[p].pc = "upgrade"
    /\ LET m == Migration[starter[p].step] IN
        /\ m.early # {}
        /\ db' = [db EXCEPT !.tables = @ \cup {CHOOSE t \in m.early : TRUE}, !.armed = FALSE]
    /\ Become(p, [starter[p] EXCEPT !.pc = "creating"])
    /\ unfinished' = TRUE
    /\ UNCHANGED <<bak, overlap, acked>>

\* The rest of them, with the triggers; the registry's come after its rows.
UpgradeBuild(p) ==
    /\ starter[p].pc = "creating"
    /\ LET k == starter[p].step IN
        db' = [db EXCEPT !.tables = @ \cup Migration[k].early, !.armed = k # 4]
    /\ Become(p, [starter[p] EXCEPT !.pc = "built"])
    /\ UNCHANGED <<bak, overlap, History>>

\* The data statements, what follows them and the revision stamp.
UpgradeCommit(p) ==
    /\ starter[p].pc \in {"upgrade", "built"}
    /\ LET k == starter[p].step
           m == Migration[k] IN
        /\ starter[p].pc = IF m.early = {} THEN "upgrade" ELSE "built"
        /\ db' = [db EXCEPT !.tables = (@ \cup m.creates) \ m.drops,
                            !.armed = TRUE,
                            !.revision = k,
                            !.manifests = IF m.seeds THEN Append(@, Seed(k, Latest(@))) ELSE @]
        /\ Become(p, IF k = HeadRevision THEN AtRest
                     ELSE [starter[p] EXCEPT !.pc = "upgrade", !.step = k + 1])
    /\ unfinished' = FALSE
    /\ UNCHANGED <<bak, overlap, acked>>

\* _preflight_downgrade_history: what a downgrade to t must not find.
Preflight(t) ==
    HistoryOf(13)
        \cup (IF t # 12 THEN HistoryOf(12) ELSE {})
        \cup (IF t \notin {12, 11} THEN HistoryOf(11) ELSE {})
        \cup (IF t \notin {12, 11, 10} THEN HistoryOf(10) ELSE {})

\* downgrade_database: from the head only, after the preflight.
Downgrade(p, t) ==
    /\ p = Operator /\ starter[p].pc = "idle"
    /\ db.revision = HeadRevision
    /\ Preflight(t) \cap db.hist = {}
    /\ Become(p, [AtRest EXCEPT !.pc = "downgrade", !.step = HeadRevision, !.target = t])
    /\ UNCHANGED <<db, bak, overlap, History>>

\* The step's own look for history.  Its first statement fails on a
\* database a crashed downgrade left without its triggers.
DowngradeCheck(p) ==
    /\ starter[p].pc = "downgrade"
    /\ Become(p, IF HistoryOf(starter[p].step) \cap db.hist = {} /\ db.armed
                 THEN [starter[p] EXCEPT !.pc = "checked"] ELSE AtRest)
    /\ UNCHANGED <<db, bak, overlap, History>>

\* What the step does before its first data statement.
DowngradeUndo(p) ==
    /\ starter[p].pc = "checked"
    /\ LET k == starter[p].step
           m == Migration[k] IN
        IF m.undo = "triggers"
        THEN db' = [db EXCEPT !.armed = FALSE]
        ELSE \E left \in {{}, {CHOOSE t \in m.creates : TRUE}} :
                db' = [db EXCEPT !.tables = @ \ (m.creates \ left),
                                 !.hist = @ \ HistoryOf(k)]
    /\ Become(p, [starter[p] EXCEPT !.pc = "undone"])
    /\ acked' = acked \ (starter[p].raced \ db'.hist)
    /\ unfinished' = TRUE
    /\ UNCHANGED <<bak, overlap>>

\* The rest of the step and the revision stamp, in one transaction.
DowngradeCommit(p) ==
    /\ starter[p].pc = "undone"
    /\ LET k == starter[p].step
           m == Migration[k] IN
        /\ db' = [db EXCEPT !.tables = (@ \ m.creates) \cup m.drops,
                            !.hist = @ \ HistoryOf(k),
                            !.armed = TRUE,
                            !.manifests = IF m.seeds THEN SubSeq(@, 1, Len(@) - 1) ELSE @,
                            !.revision = k - 1]
        /\ Become(p, IF k - 1 = starter[p].target THEN AtRest
                     ELSE [starter[p] EXCEPT !.pc = "downgrade", !.step = k - 1, !.raced = {}])
    /\ acked' = acked \ (starter[p].raced \ db'.hist)
    /\ unfinished' = FALSE
    /\ UNCHANGED <<bak, overlap>>

-----------------------------------------------------------------------------
(* An open platform, and the end of a process.                             *)

\* A platform writes a row of the first product line.
WriteRow(p) ==
    /\ starter[p].pc = "open"
    /\ acked' = acked \cup {p}
    /\ db' = IF starter[p].orphan THEN db ELSE [db EXCEPT !.rows = @ \cup {p}]
    /\ UNCHANGED <<bak, starter, overlap, unfinished>>

DowngradeSteps == {"downgrade", "checked", "undone"}

\* A platform writes the first row of one of the guarded histories.
WriteHistory(p, g) ==
    /\ starter[p].pc = "open" /\ ~starter[p].orphan
    /\ Cardinality(db.hist) < MaxHistories
    /\ \E k \in 10..13 : /\ g \in HistoryOf(k) /\ k <= db.revision
                         /\ Migration[k].creates \ {"identity_idempotency"} \subseteq db.tables
    /\ db' = [db EXCEPT !.hist = @ \cup {g}]
    /\ acked' = acked \cup {g}
    /\ starter' = [q \in Users |->
                    [starter[q] EXCEPT
                        !.late = IF starter[q].pc \in DowngradeSteps THEN @ \cup {g} ELSE @,
                        !.raced = IF starter[q].pc \in {"checked", "undone"} THEN @ \cup {g} ELSE @]]
    /\ UNCHANGED <<bak, overlap, unfinished>>

\* A process ends: a platform is closed, or a job dies where it stands.  A
\* transaction it had open is rolled back.
Stop(p) ==
    /\ starter[p].pc # "idle"
    /\ Become(p, AtRest)
    /\ UNCHANGED <<db, bak, overlap, History>>

SchemaNext ==
    /\ UNCHANGED course
    /\ \E p \in Users :
           \/ Bootstrap(p) \/ Initialize(p) \/ InitializePublish(p)
           \/ StampV1(p) \/ BackupCheck(p) \/ BackupCopy(p) \/ BackupPublish(p)
           \/ BackupSidecar(p) \/ MigrateCommit(p)
           \/ \E j \in Jobs : Restore(p, j)
           \/ RestorePublish(p) \/ MoveAway(p)
           \/ Upgrade(p) \/ UpgradeCreate(p) \/ UpgradeBuild(p) \/ UpgradeCommit(p)
           \/ \E t \in 1..12 : Downgrade(p, t)
           \/ DowngradeCheck(p) \/ DowngradeUndo(p) \/ DowngradeCommit(p)
           \/ WriteRow(p)
           \/ \E g \in Histories : WriteHistory(p, g)
           \/ Stop(p)

SchemaSpec == SchemaInit /\ [][SchemaNext]_schemaVars

-----------------------------------------------------------------------------
(* What the lifecycle promises.                                            *)

\* A database is opened exactly when its schema is complete: one a crash left
\* in the middle of a migration step is never classified current, and one on
\* which every step committed always is, at each of the fourteen revisions
\* and in both directions (classify_database against the migrations).
ClassifiedRight == db.version = 2 => (Classify(db) = "current" <=> ~unfinished)

\* A row a platform accepted stays in the database it opened, whatever starts,
\* restores and migrations follow, unless two first starts (or a first start
\* and a restore) ran at once (initialize_database's replace).
RowsSurvive == "publish" \notin overlap => acked \cap (Users \cup {"legacy"}) \subseteq db.rows

\* A database that came from the first product line is changed only once a
\* backup of what it held is published under its digest, in a state the
\* restore accepts, unless two migrations ran at once.
MigratedHasBackup ==
    ("legacy" \in db.rows /\ db.version = 2 /\ overlap = {}) =>
        \E j \in Jobs : /\ bak[j].content # Nil /\ bak[j].digest = bak[j].content
                        /\ Classify(bak[j].content) = Expected(j)
                        /\ "legacy" \in bak[j].content.rows

\* A downgrade drops no history of accounts, sessions, sync or conversations,
\* unless it was written between the step's own check and its drop.
HistoryKept ==
    "publish" \notin overlap => acked \cap Histories \subseteq db.hist

\* A downgrade is refused before its first step or not at all: a later step
\* finds history only when it was written after the preflight.
PreflightCovers ==
    \A p \in Users : starter[p].pc = "downgrade" =>
        \A k \in (starter[p].target + 1)..starter[p].step : HistoryOf(k) \cap db.hist \subseteq starter[p].late

\* No start, migration, restore or downgrade that dies half-way leaves a
\* database that is opened wrongly or has lost rows, backups or histories.
SchemaSound ==
    ClassifiedRight /\ RowsSurvive /\ MigratedHasBackup /\ HistoryKept /\ PreflightCovers
=============================================================================
