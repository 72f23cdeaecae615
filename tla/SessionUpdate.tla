---------------------------- MODULE SessionUpdate ----------------------------
(***************************************************************************)
(* The update a session start may run first (session_update.py) and the    *)
(* `update` command it runs as a child (cli.py): for the legacy layout the *)
(* command indexes in place and publishes sidecar, config and index state  *)
(* itself; for the shared layout it runs a refresh transaction.  The child *)
(* fails, outlasts its time, is asked to terminate and is killed; the      *)
(* source is edited, and edits are undone.                                 *)
(*                                                                         *)
(* The state of the working tree is a number; what a file was made from is *)
(* the number of that state.                                               *)
(***************************************************************************)
EXTENDS Integers

CONSTANTS
    Layouts,        \* a subset of {"legacy", "shared"}
    Timeouts,       \* BOOLEAN: the child may outlast its time
    Reverts,        \* BOOLEAN: an edit may be undone
    MaxEdits, MaxFailures, MaxSessions      \* bounds of the exploration

VARIABLES
    layout, source, busy,   \* busy: another process holds the global Provider lock
    db, regs, ist,          \* what database, sidecar and index state were made from
    torn,                   \* a refresh transaction was cut off in the middle
    parent, child,          \* where each is; a child that is not there is "none"
    before,                 \* [source]: the child's first snapshot
    backup, exit,           \* the sidecar before publication; how the child ended
    old,                    \* [regs, ist]: the index when the session started
    report,                 \* [status, preserved]
    edits, failures, sessions

vars == <<layout, source, busy, db, regs, ist, torn, parent, child, before, backup, exit,
          old, report, edits, failures, sessions>>

NoReport == [status |-> "none", preserved |-> FALSE]

Init ==
    /\ layout \in Layouts /\ source = 1 /\ busy \in BOOLEAN
    /\ db = 1 /\ regs = 1 /\ ist = 1 /\ torn = FALSE
    /\ parent = "idle" /\ child = "none" /\ before = 0 /\ backup = 0 /\ exit = "none"
    /\ old = [regs |-> 1, ist |-> 1] /\ report = NoReport
    /\ edits = 0 /\ failures = 0 /\ sessions = 0

index == <<db, regs, ist, torn>>
world == <<layout, source, busy, edits>>
counters == <<failures, sessions>>

Fresh == ist = source /\ db > 0 /\ regs = source /\ ~torn

Tells(status, preserved) ==
    /\ report' = [status |-> status, preserved |-> preserved] /\ parent' = "idle"

----------------------------------------------------------------------------
(* session_start_update: nothing is run for a current index, nor, for the   *)
(* legacy layout, beside another Provider.                                  *)
Begin ==
    /\ parent = "idle" /\ child = "none" /\ sessions < MaxSessions
    /\ sessions' = sessions + 1 /\ old' = [regs |-> regs, ist |-> ist] /\ exit' = "none"
    /\ IF Fresh THEN Tells("current", FALSE) /\ UNCHANGED child
       ELSE IF layout = "legacy" /\ ist # source /\ busy
            THEN Tells("failed", TRUE) /\ UNCHANGED child
            ELSE parent' = "wait" /\ child' = "look" /\ UNCHANGED report
    /\ UNCHANGED <<world, index, before, backup, failures>>

(* The time is over: the child is asked to terminate, and killed 5 s later. *)
Timeout ==
    /\ Timeouts /\ parent = "wait" /\ child # "exited"
    /\ parent' = "terminating"
    /\ UNCHANGED <<world, index, child, before, backup, exit, old, report, counters>>

KillChild ==
    /\ parent = "terminating" /\ child # "exited"
    /\ child' = "exited" /\ exit' = "killed"
    /\ torn' = (torn \/ child = "publishing")
    /\ UNCHANGED <<world, db, regs, ist, parent, before, backup, old, report, counters>>

TimedOut ==
    /\ parent = "terminating" /\ child = "exited"
    /\ child' = "none" /\ Tells("timeout", TRUE)
    /\ UNCHANGED <<world, index, before, backup, exit, old, counters>>

Completed ==
    /\ parent = "wait" /\ child = "exited"
    /\ child' = "none"
    /\ IF exit \in {"current", "updated"} THEN Tells(exit, FALSE) ELSE Tells("failed", TRUE)
    /\ UNCHANGED <<world, index, before, backup, exit, old, counters>>

----------------------------------------------------------------------------
(* The update command.  Its end is its last line and exit code. *)
Ends(how) == child' = "exited" /\ exit' = how

(* Of an index that is current but for its sidecar only this is rebuilt. *)
LookAgain ==
    /\ child = "look" /\ before' = source
    /\ LET current == ist = source /\ db > 0 /\ ~torn IN
       /\ IF current THEN Ends("current")
          ELSE child' = (IF layout = "legacy" THEN "index" ELSE "begun") /\ UNCHANGED exit
       /\ regs' = IF current THEN source ELSE regs
    /\ UNCHANGED <<world, db, ist, torn, parent, backup, old, report, counters>>

(* _index_repository of the legacy layout: the database is changed in place. *)
Index ==
    /\ child = "index" /\ child' = "verify" /\ db' = source
    /\ UNCHANGED <<world, regs, ist, torn, parent, before, backup, exit, old, report, counters>>

Verify ==
    /\ child = "verify"
    /\ IF before = source THEN child' = "regs" /\ UNCHANGED exit ELSE Ends("failed")
    /\ UNCHANGED <<world, index, parent, before, backup, old, report, counters>>

PublishRegs ==
    /\ child = "regs" /\ child' = "record" /\ backup' = regs /\ regs' = before
    /\ UNCHANGED <<world, db, ist, torn, parent, before, exit, old, report, counters>>

(* The config is rewritten and the index state recorded. *)
Record ==
    /\ child = "record" /\ child' = "commit" /\ ist' = before
    /\ UNCHANGED <<world, db, regs, torn, parent, before, backup, exit, old, report, counters>>

Commit ==
    /\ child = "commit" /\ Ends("updated")
    /\ UNCHANGED <<world, index, parent, before, backup, old, report, counters>>

(* Variant: the sidecar stays published. *)
FailUnrestored ==
    /\ child \in {"look", "index", "verify", "regs", "record"} /\ failures < MaxFailures
    /\ failures' = failures + 1 /\ Ends("failed")
    /\ UNCHANGED <<world, index, parent, before, backup, old, report, sessions>>

(* Something raises: a sidecar published already is rolled back. *)
Fail ==
    /\ child \in {"look", "index", "verify", "regs", "record"} /\ failures < MaxFailures
    /\ failures' = failures + 1 /\ Ends("failed")
    /\ regs' = IF child = "record" THEN backup ELSE regs
    /\ UNCHANGED <<world, db, ist, torn, parent, before, backup, old, report, sessions>>

(* The shared layout: _transactional_refresh, seen as all or nothing unless *)
(* it is cut off while it publishes, for the next command to recover.       *)
Refresh ==
    /\ child = "begun" /\ before = source
    /\ child' = "publishing"
    /\ UNCHANGED <<world, index, parent, before, backup, exit, old, report, counters>>

RefreshFails ==
    /\ child = "begun" /\ (before # source \/ failures < MaxFailures)
    /\ failures' = (IF before = source THEN failures + 1 ELSE failures) /\ Ends("failed")
    /\ UNCHANGED <<world, index, parent, before, backup, old, report, sessions>>

Refreshed ==
    /\ child = "publishing" /\ child' = "commit"
    /\ db' = before /\ regs' = before /\ ist' = before /\ torn' = FALSE
    /\ UNCHANGED <<world, parent, before, backup, exit, old, report, counters>>

(* SIGTERM: while a legacy database is indexed it is an interrupt like any  *)
(* other; everywhere else it ends the process where it is.                  *)
Terminated ==
    /\ parent = "terminating" /\ child \notin {"none", "exited"}
    /\ Ends(IF child = "index" THEN "interrupted" ELSE "terminated")
    /\ db' \in IF child = "index" THEN {db, source} ELSE {db}
    /\ torn' = (torn \/ child = "publishing")
    /\ UNCHANGED <<world, regs, ist, parent, before, backup, old, report, counters>>

----------------------------------------------------------------------------
Edit ==
    /\ edits < MaxEdits /\ edits' = edits + 1
    /\ source' \in {edits + 2} \cup (IF Reverts THEN {1} ELSE {})
    /\ UNCHANGED <<layout, busy, index, parent, child, before, backup, exit, old, report, counters>>

Release ==
    /\ busy /\ busy' = FALSE
    /\ UNCHANGED <<layout, source, edits, index, parent, child, before, backup, exit, old, report, counters>>

Steps ==
    \/ KillChild \/ TimedOut \/ Completed \/ LookAgain \/ Index \/ Verify \/ PublishRegs
    \/ Record \/ Commit \/ Refresh \/ RefreshFails \/ Refreshed \/ Terminated

Next == Begin \/ Timeout \/ Fail \/ Edit \/ Release \/ Steps

(* Parent and child go on; that the child's time ends is not needed.  *)
Spec == Init /\ [][Next]_vars /\ WF_vars(Steps)

----------------------------------------------------------------------------
States == 0..(MaxEdits + 1)

TypeOK ==
    /\ layout \in Layouts /\ {source, db, regs, ist, before, backup} \subseteq States
    /\ {busy, torn} \subseteq BOOLEAN
    /\ parent \in {"idle", "wait", "terminating"}
    /\ child \in {"none", "look", "index", "verify", "regs", "record", "commit", "begun",
                  "publishing", "exited"}
    /\ (parent = "idle") = (child = "none")
    /\ exit \in {"none", "current", "updated", "failed", "interrupted", "terminated", "killed"}
    /\ report.status \in {"none", "current", "updated", "failed", "timeout"}

(* What the session reports is so: "the previous index was preserved" means *)
(* that sidecar and index state are those of its start and no transaction   *)
(* was cut off, "updated" that they are new.                                *)
ReportTrue ==
    parent = "idle" =>
        /\ report.preserved => regs = old.regs /\ ist = old.ist /\ ~torn
        /\ report.status = "updated" => ist = before /\ regs = before

(* An index that is reported fresh was built from the source there is.      *)
FreshMeansIndexed == child = "none" /\ ist = source => db = source

(* A child that was asked to terminate unwound: what it was doing was not   *)
(* cut off in the middle.                                                   *)
UnwindsOnTerm == exit = "terminated" => ~torn

(* The session starts in the end, whatever its update does. *)
SessionStarts == parent # "idle" ~> parent = "idle"
=============================================================================
