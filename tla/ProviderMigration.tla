-------------------------- MODULE ProviderMigration --------------------------
(***************************************************************************)
(* `migrate-provider --apply` (cli.py, provider_migration.py): a project   *)
(* of the legacy layout is indexed again into the account's shared         *)
(* Provider root, and config, lifecycle state, generation manifest,        *)
(* registration sidecar and index state are published under the project's  *)
(* shared identity, one after the other.  Files are edited meanwhile; the  *)
(* command is interrupted (an exception, Ctrl-C) and rolls back, or is     *)
(* killed, and is run again.                                               *)
(***************************************************************************)
EXTENDS Integers

CONSTANTS
    InterruptAt,    \* the steps at which the command may be interrupted
    SharedIndexed,  \* BOOLEAN: a shared database may exist beforehand
    MaxEdits, MaxInterrupts, MaxKills, MaxRuns      \* bounds of the exploration

Working == {"snapshot", "index", "verify", "pubRegs", "pubMan", "pubLife", "pubCfg",
            "record", "commitRegs", "commitMan"}
Undoing == {"undoMan", "undoRegs", "undoCfg", "undoLife"}

VARIABLES
    source,         \* the state of the working tree, a number that grows
    db,             \* [is, source]: the shared database and what it indexes
    legacyDb,       \* "healthy", "missing" or "corrupt"
    python,         \* BOOLEAN: the project has a registration sidecar
    cfg, life, man, regs,   \* whose identity each file carries
    ist,            \* [id, source]: the recorded index state
    pc, before,     \* the command's step, and its first snapshot
    did,            \* [man, regs, cfg, life]: what rollback undoes
    backup,         \* [man, regs, cfg]: the previous files; "none" if there is no backup
    edits, interrupts, kills, runs

vars == <<source, db, legacyDb, python, cfg, life, man, regs, ist, pc, before, did, backup,
          edits, interrupts, kills, runs>>

Nothing == [man |-> FALSE, regs |-> FALSE, cfg |-> FALSE, life |-> FALSE]
NoBackup == [man |-> "none", regs |-> "none", cfg |-> "none"]

Init ==
    /\ source = 1
    /\ db \in {[is |-> "missing", source |-> 0]}
              \cup (IF SharedIndexed THEN {[is |-> "healthy", source |-> 0], [is |-> "partial", source |-> 0]} ELSE {})
    /\ legacyDb \in {"healthy", "missing", "corrupt"}
    /\ python \in BOOLEAN
    /\ cfg = "legacy" /\ life \in {"legacy", "none"}
    /\ man = "legacy" /\ regs = IF python THEN "legacy" ELSE "none"
    /\ ist = [id |-> "legacy", source |-> 1]
    /\ pc = "idle" /\ before = 0 /\ did = Nothing /\ backup = NoBackup
    /\ edits = 0 /\ interrupts = 0 /\ kills = 0 /\ runs = 0

files == <<cfg, life, man, regs, ist>>
counters == <<interrupts, kills>>
fixed == <<legacyDb, python>>

----------------------------------------------------------------------------
(* _lifecycle_identity_action: a state of another project is the project's  *)
(* own under its legacy identity, if the config has one.                    *)
LifecycleAction(c) ==
    IF life \in {"none", c} THEN "none"
    ELSE IF c = "shared" /\ life = "legacy" THEN "migrate"
    ELSE "blocked"

(* plan_provider_migration, read for the config as it is. *)
Plan ==
    IF LifecycleAction(cfg) = "blocked" THEN "blocked"
    ELSE IF cfg = "shared" /\ db.is = "healthy"
         THEN IF LifecycleAction(cfg) = "migrate" THEN "repair_lifecycle_identity" ELSE "already_active"
    ELSE IF db.is = "healthy" THEN "verify_and_publish"
    ELSE IF db.is = "partial" \/ legacyDb = "corrupt" THEN "blocked"
    ELSE "index"

Start ==
    /\ pc = "idle" /\ runs < MaxRuns /\ Plan \notin {"blocked", "already_active"}
    /\ runs' = runs + 1 /\ pc' = "snapshot"
    /\ UNCHANGED <<source, db, fixed, files, before, did, backup, edits, counters>>

(* Variant: the snapshot of an earlier attempt is kept. *)
SnapshotKept ==
    /\ pc = "snapshot" /\ before' = (IF before = 0 THEN source ELSE before) /\ did' = Nothing
    /\ backup' = [NoBackup EXCEPT !.cfg = cfg]
    /\ pc' = IF Plan = "index" THEN "index" ELSE "verify"
    /\ UNCHANGED <<source, db, fixed, files, edits, counters, runs>>

Snapshot ==
    /\ pc = "snapshot" /\ before' = source /\ did' = Nothing
    /\ backup' = [NoBackup EXCEPT !.cfg = cfg]
    /\ pc' = IF Plan = "index" THEN "index" ELSE "verify"
    /\ UNCHANGED <<source, db, fixed, files, edits, counters, runs>>

(* _index_repository: the Provider indexes the source into the shared root. *)
Index ==
    /\ pc = "index"
    /\ db' = [is |-> "healthy", source |-> source] /\ pc' = "verify"
    /\ UNCHANGED <<source, fixed, files, before, did, backup, edits, counters, runs>>

(* The database is inspected and the source compared; the sidecar and the   *)
(* manifest are staged for what the second snapshot says.                   *)
Verify ==
    /\ pc = "verify"
    /\ pc' = IF db.is # "healthy" \/ before # source THEN "undoMan"
             ELSE IF python THEN "pubRegs" ELSE "pubMan"
    /\ UNCHANGED <<source, db, fixed, files, before, did, backup, edits, counters, runs>>

PublishRegs ==
    /\ pc = "pubRegs"
    /\ backup' = [backup EXCEPT !.regs = regs] /\ regs' = "shared"
    /\ did' = [did EXCEPT !.regs = TRUE] /\ pc' = "pubMan"
    /\ UNCHANGED <<source, db, fixed, cfg, life, man, ist, before, edits, counters, runs>>

PublishMan ==
    /\ pc = "pubMan"
    /\ backup' = [backup EXCEPT !.man = man] /\ man' = "shared"
    /\ did' = [did EXCEPT !.man = TRUE] /\ pc' = "pubLife"
    /\ UNCHANGED <<source, db, fixed, cfg, life, regs, ist, before, edits, counters, runs>>

(* The lifecycle state is rebound if it is still under the legacy identity. *)
PublishLife ==
    /\ pc = "pubLife" /\ pc' = "pubCfg"
    /\ life' = IF life = "legacy" THEN "shared" ELSE life
    /\ did' = [did EXCEPT !.life = life = "legacy"]
    /\ UNCHANGED <<source, db, fixed, cfg, man, regs, ist, before, backup, edits, counters, runs>>

PublishCfg ==
    /\ pc = "pubCfg" /\ pc' = "record"
    /\ cfg' = "shared" /\ did' = [did EXCEPT !.cfg = TRUE]
    /\ UNCHANGED <<source, db, fixed, life, man, regs, ist, before, backup, edits, counters, runs>>

(* record_index_state, with the second snapshot. *)
Record ==
    /\ pc = "record" /\ pc' = IF python THEN "commitRegs" ELSE "commitMan"
    /\ ist' = [id |-> "shared", source |-> before]
    /\ UNCHANGED <<source, db, fixed, cfg, life, man, regs, before, did, backup, edits, counters, runs>>

(* commit: the backups of the previous files are removed. *)
CommitRegs ==
    /\ pc = "commitRegs" /\ pc' = "commitMan"
    /\ backup' = [backup EXCEPT !.regs = "none"]
    /\ UNCHANGED <<source, db, fixed, files, before, did, edits, counters, runs>>

CommitMan ==
    /\ pc = "commitMan" /\ pc' = "idle"
    /\ backup' = [backup EXCEPT !.man = "none"]
    /\ UNCHANGED <<source, db, fixed, files, before, did, edits, counters, runs>>

----------------------------------------------------------------------------
(* The handler of any exception: what was published is undone in turn. *)
Interrupt ==
    /\ pc \in InterruptAt /\ interrupts < MaxInterrupts
    /\ interrupts' = interrupts + 1 /\ pc' = "undoMan"
    /\ db' \in IF pc = "index" THEN {db, [is |-> "partial", source |-> 0]} ELSE {db}
    /\ UNCHANGED <<source, fixed, files, before, did, backup, edits, kills, runs>>

UndoMan ==
    /\ pc = "undoMan" /\ pc' = "undoRegs"
    /\ man' = IF did.man THEN backup.man ELSE man
    /\ UNCHANGED <<source, db, fixed, cfg, life, regs, ist, before, did, backup, edits, counters, runs>>

UndoRegs ==
    /\ pc = "undoRegs" /\ pc' = "undoCfg"
    /\ regs' = IF did.regs THEN backup.regs ELSE regs
    /\ UNCHANGED <<source, db, fixed, cfg, life, man, ist, before, did, backup, edits, counters, runs>>

UndoCfg ==
    /\ pc = "undoCfg" /\ pc' = "undoLife"
    /\ cfg' = IF did.cfg THEN backup.cfg ELSE cfg
    /\ UNCHANGED <<source, db, fixed, life, man, regs, ist, before, did, backup, edits, counters, runs>>

(* Variant: the lifecycle state stays rebound. *)
UndoLifeNot ==
    /\ pc = "undoLife" /\ pc' = "idle"
    /\ UNCHANGED <<source, db, fixed, files, before, did, backup, edits, counters, runs>>

UndoLife ==
    /\ pc = "undoLife" /\ pc' = "idle"
    /\ life' = IF did.life THEN "legacy" ELSE life
    /\ UNCHANGED <<source, db, fixed, cfg, man, regs, ist, before, did, backup, edits, counters, runs>>

Kill ==
    /\ pc # "idle" /\ kills < MaxKills /\ kills' = kills + 1 /\ pc' = "idle"
    /\ db' \in IF pc = "index" THEN {db, [is |-> "partial", source |-> 0]} ELSE {db}
    /\ UNCHANGED <<source, fixed, files, before, did, backup, edits, interrupts, runs>>

Edit ==
    /\ edits < MaxEdits /\ edits' = edits + 1 /\ source' = source + 1
    /\ UNCHANGED <<db, fixed, files, pc, before, did, backup, counters, runs>>

----------------------------------------------------------------------------
Steps ==
    \/ Snapshot \/ Index \/ Verify \/ PublishRegs \/ PublishMan \/ PublishLife \/ PublishCfg
    \/ Record \/ CommitRegs \/ CommitMan \/ UndoMan \/ UndoRegs \/ UndoCfg \/ UndoLife

Next == Start \/ Steps \/ Interrupt \/ Kill \/ Edit

Spec == Init /\ [][Next]_vars /\ WF_vars(Steps) /\ WF_vars(Start)

----------------------------------------------------------------------------
Identity == {"legacy", "shared", "none"}

TypeOK ==
    /\ db.is \in {"missing", "partial", "healthy"} /\ db.source \in 0..(MaxEdits + 1)
    /\ {cfg, life, man, regs, ist.id} \subseteq Identity /\ cfg # "none" /\ man # "none"
    /\ pc \in {"idle"} \cup Working \cup Undoing
    /\ python <=> regs # "none"
    /\ {backup.man, backup.regs, backup.cfg} \subseteq Identity

Legacy == cfg = "legacy" /\ life # "shared" /\ man = "legacy" /\ regs # "shared" /\ ist.id = "legacy"
Shared == cfg = "shared" /\ life # "legacy" /\ man = "shared" /\ regs # "legacy" /\ ist.id = "shared"

(* The command ends with every file under one identity, whatever it was     *)
(* interrupted by: all migrated, or all as they were.                       *)
OneIdentity == pc = "idle" => Legacy \/ Shared

(* A config that names the shared project names a database, a manifest and  *)
(* a sidecar that are there, even after the command was killed.             *)
ConfigNamesPublished ==
    cfg = "shared" => db.is = "healthy" /\ man = "shared" /\ regs # "legacy" /\ life # "legacy"

(* An index state never takes the current source for indexed when the       *)
(* database is of an earlier one: every query would be reported fresh.      *)
FreshMeansIndexed ==
    pc = "idle" /\ cfg = "shared" /\ ist.id = "shared" /\ ist.source = source => db.source = source

(* A migration cut short can be run again: the plan does not end up blocked *)
(* by what the migration itself left.                                       *)
NotStranded == pc = "idle" /\ db.is = "healthy" => Plan # "blocked"

(* Run as often as it is cut short, the migration completes, unless there   *)
(* is no sound database to start from.                                      *)
Complete == Shared \/ (Plan = "blocked" /\ db.is # "healthy")

Completes == <>[]Complete
=============================================================================
