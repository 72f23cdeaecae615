----------------------------- MODULE MCUpdates ------------------------------
(***************************************************************************)
(* Instances of ReleaseInstall, ProviderMigration and SessionUpdate for    *)
(* TLC.                                                                    *)
(*                                                                         *)
(* A behaviour follows one scenario, chosen in its initial state: one of   *)
(* the components with bounds of its own, InstallRaces being ReleaseInstall*)
(* as it is. The components run in processes of their own and are not      *)
(* composed; the variables of those that are not at work are Absent, but   *)
(* for the releases, of which none is installed then.                      *)
(***************************************************************************)
EXTENDS ReleaseInstall

CONSTANT Absent      \* the value of the variables that no component uses

VARIABLES
    scenario,
    source, db, legacyDb, python, cfg, life, man, regs, ist, before, did,
    backup, edits, interrupts, runs,
    layout, busy, torn, parent, child, exit, old, report, failures, sessions

\* Everything before the first step that the migration's rollback does not undo.
Early == {"snapshot", "index", "verify", "pubRegs", "pubMan", "pubLife", "pubCfg", "record"}

\* The API names no digests, and nobody is killed.
InstallDamaged == INSTANCE ReleaseInstall WITH HasDigests <- FALSE, MaxKills <- 0

MigrateKilled == INSTANCE ProviderMigration WITH
    InterruptAt <- {},
    SharedIndexed <- TRUE, MaxEdits <- 1, MaxInterrupts <- 0, MaxKills <- 2,
    MaxRuns <- 3

MigrateInterrupted == INSTANCE ProviderMigration WITH
    InterruptAt <- Early, SharedIndexed <- TRUE, MaxEdits <- 1,
    MaxInterrupts <- 2, MaxKills <- 0, MaxRuns <- 4

MigrateEdited == INSTANCE ProviderMigration WITH
    InterruptAt <- {},
    SharedIndexed <- FALSE, MaxEdits <- 3, MaxInterrupts <- 0, MaxKills <- 0,
    MaxRuns <- 1

SessionReports == INSTANCE SessionUpdate WITH
    Layouts <- {"legacy", "shared"}, Timeouts <- FALSE, Reverts <- FALSE,
    MaxEdits <- 2, MaxFailures <- 2, MaxSessions <- 3

SessionCut == INSTANCE SessionUpdate WITH
    Layouts <- {"legacy", "shared"},
    Timeouts <- TRUE, Reverts <- FALSE, MaxEdits <- 2, MaxFailures <- 1,
    MaxSessions <- 3

mcVars == <<scenario, edition, store, dest, pc, version, release, asset, stage,
           provStage, result, damaged, kills, source, db, legacyDb, python,
           cfg, life, man, regs, ist, before, did, backup, edits, interrupts,
           runs, layout, busy, torn, parent, child, exit, old, report,
           failures, sessions>>

NothingInstalled == store = 0 /\ dest = [v \in Versions |-> NoInstallation]

\* Not of ReleaseInstall, and without a value while it is at work.
NotReleaseInstall == <<source, db, legacyDb, python, cfg, life, man, regs, ist, before, did,
        backup, edits, interrupts, runs, layout, busy, torn, parent, child,
        exit, old, report, failures, sessions>>
OnlyReleaseInstall ==
    /\ source = Absent /\ db = Absent /\ legacyDb = Absent /\ python = Absent
    /\ cfg = Absent /\ life = Absent /\ man = Absent /\ regs = Absent
    /\ ist = Absent /\ before = Absent /\ did = Absent /\ backup = Absent
    /\ edits = Absent /\ interrupts = Absent /\ runs = Absent
    /\ layout = Absent /\ busy = Absent /\ torn = Absent /\ parent = Absent
    /\ child = Absent /\ exit = Absent /\ old = Absent /\ report = Absent
    /\ failures = Absent /\ sessions = Absent

\* Not of ProviderMigration, and without a value while it is at work.
NotProviderMigration == <<edition, store, dest, version, release, asset, stage, provStage,
        result, damaged, layout, busy, torn, parent, child, exit, old, report,
        failures, sessions>>
OnlyProviderMigration ==
    /\ edition = Absent /\ NothingInstalled /\ version = Absent
    /\ release = Absent /\ asset = Absent /\ stage = Absent
    /\ provStage = Absent /\ result = Absent /\ damaged = Absent
    /\ layout = Absent /\ busy = Absent /\ torn = Absent /\ parent = Absent
    /\ child = Absent /\ exit = Absent /\ old = Absent /\ report = Absent
    /\ failures = Absent /\ sessions = Absent

\* Not of SessionUpdate, and without a value while it is at work.
NotSessionUpdate == <<edition, store, dest, pc, version, release, asset, stage, provStage,
        result, damaged, kills, legacyDb, python, cfg, life, man, did,
        interrupts, runs>>
OnlySessionUpdate ==
    /\ edition = Absent /\ NothingInstalled /\ pc = Absent
    /\ version = Absent /\ release = Absent /\ asset = Absent
    /\ stage = Absent /\ provStage = Absent /\ result = Absent
    /\ damaged = Absent /\ kills = Absent /\ legacyDb = Absent
    /\ python = Absent /\ cfg = Absent /\ life = Absent /\ man = Absent
    /\ did = Absent /\ interrupts = Absent /\ runs = Absent

In(s, Action, others) == scenario = s /\ Action /\ UNCHANGED <<scenario, others>>

MCInit ==
    \/ scenario = "InstallRaces" /\ Init /\ OnlyReleaseInstall
    \/ scenario = "InstallDamaged" /\ InstallDamaged!Init /\ OnlyReleaseInstall
    \/ scenario = "MigrateKilled" /\ MigrateKilled!Init /\ OnlyProviderMigration
    \/ scenario = "MigrateInterrupted" /\ MigrateInterrupted!Init /\ OnlyProviderMigration
    \/ scenario = "MigrateEdited" /\ MigrateEdited!Init /\ OnlyProviderMigration
    \/ scenario = "SessionReports" /\ SessionReports!Init /\ OnlySessionUpdate
    \/ scenario = "SessionCut" /\ SessionCut!Init /\ OnlySessionUpdate

MCNext ==
    \/ In("InstallRaces", Next, NotReleaseInstall)
    \/ In("InstallDamaged", InstallDamaged!Next, NotReleaseInstall)
    \/ In("MigrateKilled", MigrateKilled!Next, NotProviderMigration)
    \/ In("MigrateInterrupted", MigrateInterrupted!Next, NotProviderMigration)
    \/ In("MigrateEdited", MigrateEdited!Next, NotProviderMigration)
    \/ In("SessionReports", SessionReports!Next, NotSessionUpdate)
    \/ In("SessionCut", SessionCut!Next, NotSessionUpdate)

MCSpec ==
    /\ MCInit /\ [][MCNext]_mcVars
    /\ \A i \in Installers : WF_mcVars(In("InstallDamaged", InstallDamaged!Step(i), NotReleaseInstall))
    /\ WF_mcVars(In("MigrateInterrupted", MigrateInterrupted!Steps, NotProviderMigration))
    /\ WF_mcVars(In("MigrateInterrupted", MigrateInterrupted!Start, NotProviderMigration))
    /\ WF_mcVars(In("SessionCut", SessionCut!Steps, NotSessionUpdate))

-----------------------------------------------------------------------------
(* A migration ends with every file under one identity, leaves nothing that *)
(* blocks the next plan, and a shared config names what is there, whenever  *)
(* the command is killed.                                                   *)
MigrationWhole ==
    /\ scenario = "MigrateInterrupted" =>
        /\ MigrateInterrupted!NotStranded
        /\ MigrateInterrupted!OneIdentity
    /\ scenario = "MigrateKilled" => MigrateKilled!ConfigNamesPublished
(* What is reported is so: one installer reports a version as new, its wheel*)
(* and Provider are of one upload, and who has ended leaves no stage; a     *)
(* migration or a session start that reports a fresh index has one of the   *)
(* source there is; and a session reports of its update what happened.      *)
ReportTrue ==
    /\ scenario = "InstallRaces" => OneWinner /\ OneUpload /\ NoResidue
    /\ scenario = "InstallDamaged" => InstallDamaged!NoResidue
    /\ scenario = "MigrateEdited" => MigrateEdited!FreshMeansIndexed
    /\ scenario = "SessionReports" =>
        /\ SessionReports!ReportTrue
        /\ SessionReports!FreshMeansIndexed
    /\ scenario = "SessionCut" => SessionCut!FreshMeansIndexed
(* Every installer ends; a migration completes, interrupted and repeated;   *)
(* the session starts in the end, whatever its update does.                 *)
AllEnd ==
    /\ \A i \in Installers : <>(scenario = "InstallDamaged" => InstallDamaged!Ended(i))
    /\ <>[](scenario = "MigrateInterrupted" => MigrateInterrupted!Complete)
    /\ (scenario = "SessionCut" /\ parent # "idle")
        ~> (scenario = "SessionCut" => parent = "idle")
=============================================================================
