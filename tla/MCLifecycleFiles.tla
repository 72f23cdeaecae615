-------------------------- MODULE MCLifecycleFiles --------------------------
(***************************************************************************)
(* LifecycleJournal and Removal for TLC: the commands that change a        *)
(* project's files.                                                        *)
(*                                                                         *)
(* A behaviour follows one scenario, chosen in its initial state. In       *)
(* "Killed" the extended module is at work, with the constants of the      *)
(* configuration; in the others its variables stay as they begin and an    *)
(* instance over variables of its own is, with bounds of its own. Enable,  *)
(* update and stop run under the operation lock that a removal takes too,  *)
(* so the components are never at work together; the variables of an       *)
(* instance that is not are Absent.                                        *)
(***************************************************************************)
EXTENDS LifecycleJournal

CONSTANT Absent      \* the value of the variables that no component uses

VARIABLES
    scenario,
    \* file, pc, at and count of the instances,
    tree, place, step, tally,
    \* the rest of an instance of LifecycleJournal: journal, root, cmd, tx,
    \* lease, refresh, report and base,
    record, opRoot, command, memory, holder, refresher, answer, before,
    \* and of one of Removal.
    home, saved, life, marker, receipt, mem, late, written, failed

All == {"enable", "update", "stop"}
\* A project that is enabled for the first time has none of the artifacts but
\* an AGENTS.md of its own.
FirstEnable == {"config", "codex", "skill", "lifecycle", "index", "manifest",
                "registrations", "routing_state", "provider"}

JournalRefresh == INSTANCE LifecycleJournal WITH
    Commands <- All,
    Missing <- FirstEnable, EditsInRestore <- FALSE, CutWrites <- FALSE,
    MaxOps <- 2, MaxKills <- 0, MaxRaises <- 1, MaxEdits <- 0,
    MaxRefreshes <- 2,
    file <- tree, journal <- record, root <- opRoot, pc <- place, cmd <- command,
    at <- step, tx <- memory, lease <- holder, refresh <- refresher,
    report <- answer, base <- before, count <- tally

JournalSettle == INSTANCE LifecycleJournal WITH
    Commands <- All,
    Missing <- FirstEnable, EditsInRestore <- TRUE, CutWrites <- FALSE,
    MaxOps <- 1, MaxKills <- 2, MaxRaises <- 1, MaxEdits <- 1,
    MaxRefreshes <- 0,
    file <- tree, journal <- record, root <- opRoot, pc <- place, cmd <- command,
    at <- step, tx <- memory, lease <- holder, refresh <- refresher,
    report <- answer, base <- before, count <- tally

RemovalKilled == INSTANCE Removal WITH
    EditsRace <- FALSE,
    KillsInRestore <- FALSE, Late <- {}, MaxOps <- 3, MaxKills <- 2,
    MaxRaises <- 0, MaxEdits <- 1, MaxFailures <- 1,
    file <- tree, pc <- place, at <- step, count <- tally

RemovalRaised == INSTANCE Removal WITH
    EditsRace <- FALSE,
    KillsInRestore <- FALSE, Late <- {}, MaxOps <- 3, MaxKills <- 0,
    MaxRaises <- 2, MaxEdits <- 1, MaxFailures <- 2,
    file <- tree, pc <- place, at <- step, count <- tally

RemovalSettled == INSTANCE Removal WITH
    EditsRace <- FALSE,
    KillsInRestore <- FALSE, Late <- {"refresh", "update"}, MaxOps <- 2,
    MaxKills <- 2, MaxRaises <- 1, MaxEdits <- 1, MaxFailures <- 1,
    file <- tree, pc <- place, at <- step, count <- tally

shared == <<tree, place, step, tally>>
ofJournal == <<record, opRoot, command, memory, holder, refresher, answer, before>>
ofRemoval == <<home, saved, life, marker, receipt, mem, late, written, failed>>
all == <<vars, scenario, shared, ofJournal, ofRemoval>>

NoShared == tree = Absent /\ place = Absent /\ step = Absent /\ tally = Absent
NoJournals ==
    /\ record = Absent /\ opRoot = Absent /\ command = Absent /\ memory = Absent
    /\ holder = Absent /\ refresher = Absent /\ answer = Absent /\ before = Absent
NoRemoval ==
    /\ home = Absent /\ saved = Absent /\ life = Absent /\ marker = Absent
    /\ receipt = Absent /\ mem = Absent /\ late = Absent /\ written = Absent
    /\ failed = Absent

MCInit ==
    /\ Init
    /\ \/ scenario = "Killed" /\ NoShared /\ NoJournals /\ NoRemoval
       \/ scenario = "JournalRefresh" /\ JournalRefresh!Init /\ NoRemoval
       \/ scenario = "JournalSettle" /\ JournalSettle!Init /\ NoRemoval
       \/ scenario = "RemovalKilled" /\ RemovalKilled!Init /\ NoJournals
       \/ scenario = "RemovalRaised" /\ RemovalRaised!Init /\ NoJournals
       \/ scenario = "RemovalSettled" /\ RemovalSettled!Init /\ NoJournals

In(s, Action, others) == scenario = s /\ Action /\ UNCHANGED <<vars, scenario, others>>

MCNext ==
    \/ scenario = "Killed" /\ Next /\ UNCHANGED <<scenario, shared, ofJournal, ofRemoval>>
    \/ In("JournalRefresh", JournalRefresh!Next, ofRemoval)
    \/ In("JournalSettle", JournalSettle!Next, ofRemoval)
    \/ In("RemovalKilled", RemovalKilled!Next, ofJournal)
    \/ In("RemovalRaised", RemovalRaised!Next, ofJournal)
    \/ In("RemovalSettled", RemovalSettled!Next, ofJournal)

MCSpec ==
    /\ MCInit /\ [][MCNext]_all
    /\ WF_all(In("JournalSettle", JournalSettle!Settle, ofRemoval))
    /\ WF_all(In("JournalSettle", JournalSettle!Work, ofRemoval))
    /\ WF_all(In("JournalSettle", JournalSettle!Recover, ofRemoval))
    /\ WF_all(In("JournalSettle", JournalSettle!RefreshStep, ofRemoval))
    /\ WF_all(In("RemovalSettled", RemovalSettled!RemoveStep, ofJournal))
    /\ WF_all(In("RemovalSettled", RemovalSettled!RollbackStep, ofJournal))
    /\ WF_all(In("RemovalSettled", RemovalSettled!RecoverStep, ofJournal))
    /\ WF_all(In("RemovalSettled", RemovalSettled!RestoreStep, ofJournal))

-----------------------------------------------------------------------------
(* A project that no removal marker closes is whole, and one reported as     *)
(* removed can be brought back, but for the parts a rollback left behind;    *)
(* what the user wrote meanwhile is never overwritten by a removal (remove,  *)
(* its rollbacks and _recover_incomplete_removal); with refreshes between    *)
(* commands that are not killed the index files are of one generation (the   *)
(* refresh lease of enable, update and stop).                                *)
NothingHalfDone ==
    /\ [](scenario = "JournalRefresh" => JournalRefresh!OneIndexGeneration)
    /\ [](scenario = "RemovalKilled" => RemovalKilled!UnmarkedIsWhole /\ RemovalKilled!RemovedIsRestorable)
    /\ [](scenario = "RemovalRaised" => RemovalRaised!UnmarkedIsWhole /\ RemovalRaised!RemovedIsRestorable)
    /\ [][scenario = "RemovalRaised" => RemovalRaised!EditStays]_all
(* A journal is settled, or the user changed a file it must not touch; an   *)
(* interrupted removal is undone or completed.                              *)
CommandsSettle ==
    /\ (scenario = "JournalSettle" /\ JournalSettle!Journalled)
        ~> (scenario = "JournalSettle" => JournalSettle!Settled)
    /\ (scenario = "RemovalSettled" /\ RemovalSettled!Interrupted)
        ~> (scenario = "RemovalSettled" => RemovalSettled!Settled)
=============================================================================
