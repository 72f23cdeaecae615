------------------------------- MODULE Removal -------------------------------
(***************************************************************************)
(* Recoverable removal of a project: atlas remove, the recovery of an      *)
(* interrupted one, and atlas enable bringing a removed project back       *)
(* (simple_cli.py, project_lifecycle.py, routing_transaction.py).          *)
(*                                                                         *)
(* remove writes a receipt and a marker outside the repository, takes the  *)
(* Codex block, the routing assets and the configuration out of it, and    *)
(* moves the data directory into the recovery area.  Any step can raise,   *)
(* before its effect or between it and the record of it, and so can any    *)
(* step of a rollback: its error is collected, and the part it was to put  *)
(* back is left behind.  Any process can be killed, and the user edits     *)
(* repository files.                                                       *)
(*                                                                         *)
(* Abstractions.  A repository file holds Atlas's content ("on"), is       *)
(* without it ("off") or holds something the user wrote ("user"); backups  *)
(* and digests in the receipt are the contents they stand for.  The        *)
(* lifecycle state lies in the data directory and moves with it.  A file   *)
(* that was created and not written to the end stands as if it were whole. *)
(* What enable does after the restoration is LifecycleJournal.             *)
(***************************************************************************)
EXTENDS Naturals, Sequences

CONSTANTS
  EditsRace,      \* may an edit keep the file's identity, or fall in a recovery?
  KillsInRestore, \* may a process die while it restores a removed project?
  Late,           \* processes that checked the project before: refresh, update
  MaxOps, MaxKills, MaxRaises, MaxEdits, \* bounds
  MaxFailures     \* ... and on the steps that leave something behind

Assets == <<"rule", "skill">>
Routing == {"rule", "skill"}
File == Routing \cup {"config", "codex"}
Stable == {"ready", "stopped", "failed"}

VARIABLES
  file,     \* file[f]: what the repository file holds
  home,     \* the data directory in its place: "data", "none", or a "stray"
            \* one somebody created after the data had been moved
  saved,    \* the data lies in the recovery area
  life,     \* the status in lifecycle-state.json, with the data
  marker,   \* removed.json
  receipt,  \* receipt.json of the operation the marker names
  pc, at,   \* the running command and the routing asset it is at
  mem,      \* what the running command knows
  late,     \* a process between its check of the project and its lease
  written,  \* the files the user wrote since the last removal began
  failed,   \* the parts that a rollback has left behind
  count     \* how often each bounded thing happened

vars == <<file, home, saved, life, marker, receipt, pc, at, mem, late, written,
          failed, count>>

NoMem == [before |-> [f \in File |-> "off"], applied |-> {}, moved |-> FALSE,
          config |-> FALSE, codex |-> FALSE, marked |-> FALSE, life |-> "none"]
NoReceipt == [status |-> "none", life |-> "none", before |-> [f \in File |-> "off"]]

Init ==
  /\ file = [f \in File |-> "on"] /\ home = "data" /\ saved = FALSE
  /\ life \in Stable /\ marker = "none" /\ receipt = NoReceipt
  /\ pc = "idle" /\ at = 0 /\ mem = NoMem /\ late = "none" /\ written = {}
  /\ failed = {}
  /\ count = [ops |-> 0, kills |-> 0, raises |-> 0, edits |-> 0, failures |-> 0]

Count(what) == count' = [count EXCEPT ![what] = @ + 1]
Step(from, to) == pc = from /\ pc' = to
After(f) == IF f = "config" \/ mem.before[f] = "on" THEN "off" ELSE mem.before[f]
Put(f, c) == file' = [file EXCEPT ![f] = c]
Configured == file["config"] # "off"
Parts == {"routing", "config", "codex", "data", "life", "marker"}
PartOf(f) == IF f \in Routing THEN "routing" ELSE f

-----------------------------------------------------------------------------
(* atlas remove                                                            *)

\* It read configuration, state and the four files, and wrote the backups.
\* A user's routing asset is not planned; a user's Codex file is checked later.
Remove ==
  /\ pc = "idle" /\ marker = "none" /\ Configured
  /\ home = "data" /\ life \in Stable
  /\ count.ops < MaxOps /\ Count("ops")
  /\ mem' = [NoMem EXCEPT !.before = file, !.life = life]
  /\ pc' = "receipt" /\ at' = 0 /\ written' = {}
  /\ UNCHANGED <<file, home, saved, life, marker, receipt, late, failed>>

PublishReceipt ==
  /\ Step("receipt", "marker")
  /\ receipt' = [status |-> "removing", life |-> mem.life, before |-> mem.before]
  /\ UNCHANGED <<file, home, saved, life, marker, at, mem, late, count, written, failed>>

PublishMarker ==
  /\ Step("marker", "life")
  /\ marker' = "removing" /\ mem' = [mem EXCEPT !.marked = TRUE]
  /\ UNCHANGED <<file, home, saved, life, receipt, at, late, count, written, failed>>

PublishRemoving ==
  /\ Step("life", "codex") /\ life' = "removing"
  /\ UNCHANGED <<file, home, saved, marker, receipt, at, mem, late, count, written, failed>>

\* codex_remove: out of a file the user wrote only the block is taken.
RemoveCodex ==
  /\ Step("codex", "routing") /\ at' = 1
  /\ IF file["codex"] = "on" THEN Put("codex", "off") ELSE UNCHANGED file
  /\ mem' = [mem EXCEPT !.codex = file["codex"] # "off"]
  /\ UNCHANGED <<home, saved, life, marker, receipt, late, count, written, failed>>

\* RoutingTransaction.apply: one asset; one that changed since the plan raises.
RemoveAsset ==
  /\ pc = "routing"
  /\ IF at > Len(Assets) THEN pc' = "config" /\ UNCHANGED <<file, mem, at>>
     ELSE LET f == Assets[at] IN
          IF f \in written
          THEN pc' = "rb_routing" /\ UNCHANGED <<file, mem, at>>
          ELSE /\ Put(f, After(f))
               /\ mem' = [mem EXCEPT !.applied = IF mem.before[f] # After(f)
                                                 THEN @ \cup {f} ELSE @]
               /\ at' = at + 1 /\ UNCHANGED pc
  /\ UNCHANGED <<home, saved, life, marker, receipt, late, count, written, failed>>

\* _unlink_verified compares the identity of the file, not its content.
UnlinkConfig ==
  /\ pc = "config"
  /\ IF "config" \notin written \/ EditsRace
     THEN pc' = "removed" /\ Put("config", "off") /\ mem' = [mem EXCEPT !.config = TRUE]
     ELSE pc' = "rb_routing" /\ UNCHANGED <<file, mem>>
  /\ UNCHANGED <<home, saved, life, marker, receipt, at, late, count, written, failed>>

PublishRemoved ==
  /\ Step("removed", "move") /\ life' = "removed"
  /\ UNCHANGED <<file, home, saved, marker, receipt, at, mem, late, count, written, failed>>

\* The refresh lease lies in the data directory and is released before.
MoveData ==
  /\ Step("move", "receipt2")
  /\ home' = "none" /\ saved' = TRUE /\ mem' = [mem EXCEPT !.moved = TRUE]
  /\ UNCHANGED <<file, life, marker, receipt, at, late, count, written, failed>>

CompleteReceipt ==
  /\ Step("receipt2", "marker2") /\ receipt' = [receipt EXCEPT !.status = "removed"]
  /\ UNCHANGED <<file, home, saved, life, marker, at, mem, late, count, written, failed>>

CompleteMarker ==
  /\ Step("marker2", "idle") /\ marker' = "removed" /\ mem' = NoMem
  /\ UNCHANGED <<file, home, saved, life, receipt, at, late, count, written, failed>>

Removing == {"receipt", "marker", "life", "codex", "routing", "config", "removed",
             "move", "receipt2", "marker2"}
Undoing == {"u_routing", "u_life", "u_config", "u_data"}
Restoring == {"s_routing", "s_data", "s_config", "s_life", "s_marker"}

\* A step of remove or of the restoration raises; its rollback follows.
Raise ==
  /\ pc \in Removing \cup Restoring
  /\ count.raises < MaxRaises /\ Count("raises")
  /\ pc' = IF pc \in Removing THEN "rb_routing" ELSE "u_routing"
  /\ UNCHANGED <<file, home, saved, life, marker, receipt, at, mem, late, written, failed>>

\* ... or between its effect and the record of it: the marker is published and
\* its identity is not read, codex_remove finds its result unverified, the
\* configuration or the state is restored and its identity is not read.  The
\* rollback does not know of it.
RaiseUnrecorded ==
  /\ count.failures < MaxFailures /\ Count("failures")
  /\ pc' = IF pc \in Removing THEN "rb_routing" ELSE "u_routing"
  /\ \/ pc = "marker" /\ marker' = "removing" /\ UNCHANGED <<file, life, failed>>
     \/ /\ pc = "codex" /\ file["codex"] = "on" /\ Put("codex", "off")
        /\ failed' = failed \cup {"codex"} /\ UNCHANGED <<life, marker>>
     \/ /\ pc = "s_config" /\ ~Configured /\ Put("config", receipt.before["config"])
        /\ failed' = failed \cup {"config"} /\ UNCHANGED <<life, marker>>
     \/ /\ pc = "s_life" /\ life = "removed" /\ life' = "stopped"
        /\ failed' = failed \cup {"life"} /\ UNCHANGED <<file, marker>>
  /\ UNCHANGED <<home, saved, receipt, at, mem, late, written>>

-----------------------------------------------------------------------------
(* The rollback of remove in its except clause.                            *)

\* RoutingTransaction.rollback; an asset the user changed since is left alone.
RollbackRouting(from, to) ==
  /\ Step(from, to)
  /\ file' = [f \in File |-> IF f \in mem.applied \ written
                             THEN mem.before[f] ELSE file[f]]
  /\ UNCHANGED <<home, saved, life, marker, receipt, at, mem, late, count, written, failed>>

RollbackData ==
  /\ Step("rb_data", "rb_config")
  /\ IF mem.moved /\ home = "none"
     THEN home' = "data" /\ saved' = FALSE ELSE UNCHANGED <<home, saved>>
  /\ failed' = IF mem.moved /\ home # "none" THEN failed \cup {"data"} ELSE failed
  /\ UNCHANGED <<file, life, marker, receipt, at, mem, late, count, written>>

\* Variant: the configuration is put back whatever is there.
RollbackConfigOver ==
  /\ Step("rb_config", "rb_codex")
  /\ IF mem.config THEN Put("config", mem.before["config"]) ELSE UNCHANGED file
  /\ UNCHANGED <<home, saved, life, marker, receipt, at, mem, late, count, written, failed>>

RollbackConfig ==
  /\ Step("rb_config", "rb_codex")
  /\ IF mem.config /\ ~Configured
     THEN Put("config", mem.before["config"]) ELSE UNCHANGED file
  /\ UNCHANGED <<home, saved, life, marker, receipt, at, mem, late, count, written, failed>>

\* restore_verified writes into the file whatever it holds now, provided it is
\* the same file.
RollbackCodex ==
  /\ Step("rb_codex", "rb_life")
  /\ IF mem.codex /\ ("codex" \notin written \/ EditsRace)
     THEN Put("codex", mem.before["codex"]) ELSE UNCHANGED file
  /\ UNCHANGED <<home, saved, life, marker, receipt, at, mem, late, count, written, failed>>

RollbackLife ==
  /\ Step("rb_life", "rb_marker")
  /\ life' = IF home = "data" THEN mem.life ELSE life
  /\ UNCHANGED <<file, home, saved, marker, receipt, at, mem, late, count, written, failed>>

\* The marker goes even if something above failed.
RollbackMarker ==
  /\ Step("rb_marker", "idle") /\ mem' = NoMem
  /\ marker' = IF mem.marked THEN "none" ELSE marker
  /\ UNCHANGED <<file, home, saved, life, receipt, at, late, count, written, failed>>

-----------------------------------------------------------------------------
(* _recover_incomplete_removal, by the next lifecycle command.             *)

Original(f) == receipt.before[f]
Removed(f) == IF f = "config" \/ Original(f) = "on" THEN "off" ELSE Original(f)
Known(f) == f \notin written
Recoverable ==
  /\ \A f \in File : Known(f)
  /\ (home # "none") # saved

\* A removal that wrote its final receipt is completed, any other undone.
Recover ==
  /\ pc = "idle" /\ marker = "removing"
  /\ IF receipt.status = "removed"
     THEN marker' = "removed" /\ UNCHANGED <<pc, mem>>
     ELSE /\ Recoverable
          /\ pc' = "r_routing" /\ UNCHANGED marker
          /\ mem' = [NoMem EXCEPT !.before = receipt.before,
                       !.config = file["config"] = "off",
                       !.codex = file["codex"] # Original("codex")]
  /\ UNCHANGED <<file, home, saved, life, receipt, at, late, count, written, failed>>

\* RoutingTransaction.apply_recovery looks at the assets again.
RecoverRouting ==
  /\ pc = "r_routing"
  /\ IF \A f \in Routing : Known(f)
     THEN pc' = "r_data" /\ file' = [f \in File |-> IF f \in Routing THEN Original(f)
                                                                     ELSE file[f]]
     ELSE pc' = "idle" /\ UNCHANGED file
  /\ UNCHANGED <<home, saved, life, marker, receipt, at, mem, late, count, written, failed>>

RecoverData ==
  /\ pc = "r_data"
  /\ IF saved /\ home # "none" THEN pc' = "idle" /\ UNCHANGED <<home, saved>>
     ELSE pc' = "r_config" /\ home' = "data" /\ saved' = FALSE
  /\ UNCHANGED <<file, life, marker, receipt, at, mem, late, count, written, failed>>

RecoverConfig ==
  /\ Step("r_config", "r_codex")
  /\ IF mem.config THEN Put("config", Original("config")) ELSE UNCHANGED file
  /\ UNCHANGED <<home, saved, life, marker, receipt, at, mem, late, count, written, failed>>

RecoverCodex ==
  /\ Step("r_codex", "r_life")
  /\ IF mem.codex THEN Put("codex", Original("codex")) ELSE UNCHANGED file
  /\ UNCHANGED <<home, saved, life, marker, receipt, at, mem, late, count, written, failed>>

RecoverLife ==
  /\ Step("r_life", "r_marker") /\ life' = receipt.life
  /\ UNCHANGED <<file, home, saved, marker, receipt, at, mem, late, count, written, failed>>

RecoverMarker ==
  /\ Step("r_marker", "idle") /\ marker' = "none" /\ receipt' = NoReceipt
  /\ UNCHANGED <<file, home, saved, life, at, mem, late, count, written, failed>>

-----------------------------------------------------------------------------
(* _restore_removed_project, by atlas enable.                              *)

Restore ==
  /\ pc = "idle" /\ marker = "removed" /\ receipt.status = "removed"
  /\ saved /\ ~Configured /\ home = "none"
  /\ written \cap Routing = {}
  /\ count.ops < MaxOps /\ Count("ops")
  /\ pc' = "s_routing" /\ mem' = NoMem
  /\ UNCHANGED <<file, home, saved, life, marker, receipt, at, late, written, failed>>

RestoreRouting ==
  /\ pc = "s_routing"
  /\ IF \A f \in Routing : f \notin written /\ file[f] = Removed(f)
     THEN /\ pc' = "s_data"
          /\ file' = [f \in File |-> IF f \in Routing THEN Original(f) ELSE file[f]]
          /\ mem' = [mem EXCEPT !.applied = {f \in Routing : Original(f) # Removed(f)},
                                !.before = [f \in File |-> Removed(f)]]
     ELSE pc' = "u_routing" /\ UNCHANGED <<file, mem>>
  /\ UNCHANGED <<home, saved, life, marker, receipt, at, late, count, written, failed>>

RestoreData ==
  /\ pc = "s_data"
  /\ IF home = "none"
     THEN /\ pc' = "s_config" /\ home' = "data" /\ saved' = FALSE
          /\ mem' = [mem EXCEPT !.moved = TRUE]
     ELSE pc' = "u_routing" /\ UNCHANGED <<home, saved, mem>>
  /\ UNCHANGED <<file, life, marker, receipt, at, late, count, written, failed>>

RestoreConfig ==
  /\ pc = "s_config"
  /\ IF Configured THEN pc' = "u_routing" /\ UNCHANGED <<file, mem>>
     ELSE /\ pc' = "s_life" /\ Put("config", Original("config"))
          /\ mem' = [mem EXCEPT !.config = TRUE]
  /\ UNCHANGED <<home, saved, life, marker, receipt, at, late, count, written, failed>>

RestoreLife ==
  /\ pc = "s_life"
  /\ IF life = "removed"
     THEN pc' = "s_marker" /\ life' = "stopped" /\ mem' = [mem EXCEPT !.life = life]
     ELSE pc' = "u_routing" /\ UNCHANGED <<life, mem>>
  /\ UNCHANGED <<file, home, saved, marker, receipt, at, late, count, written, failed>>

RestoreMarker ==
  /\ Step("s_marker", "idle") /\ marker' = "none" /\ mem' = NoMem
  /\ UNCHANGED <<file, home, saved, life, receipt, at, late, count, written, failed>>

\* Its rollback: routing, state, configuration (if it is the file it wrote),
\* and the data last.
UndoLife ==
  /\ Step("u_life", "u_config")
  /\ life' = IF mem.life # "none" THEN mem.life ELSE life
  /\ UNCHANGED <<file, home, saved, marker, receipt, at, mem, late, count, written, failed>>
UndoConfig ==
  /\ Step("u_config", "u_data")
  /\ IF mem.config /\ ("config" \notin written \/ EditsRace)
     THEN Put("config", "off") ELSE UNCHANGED file
  /\ UNCHANGED <<home, saved, life, marker, receipt, at, mem, late, count, written, failed>>
UndoData ==
  /\ Step("u_data", "idle") /\ mem' = NoMem
  /\ IF mem.moved /\ home = "data" THEN home' = "none" /\ saved' = TRUE
                                   ELSE UNCHANGED <<home, saved>>
  /\ UNCHANGED <<file, life, marker, receipt, at, late, count, written, failed>>

\* A step of either rollback raises; the error is collected and the next step
\* follows.  RoutingTransaction.rollback collects the assets one by one.
LeavesAssets(from, to) ==
  \E left \in SUBSET mem.applied \ {{}} :
    /\ Step(from, to) /\ failed' = failed \cup {"routing"} /\ UNCHANGED mem
    /\ file' = [f \in File |-> IF f \in mem.applied \ (written \cup left)
                               THEN mem.before[f] ELSE file[f]]
Leaves(part, from, to) ==
  /\ Step(from, to) /\ failed' = failed \cup {part}
  /\ mem' = (IF to = "idle" THEN NoMem ELSE mem) /\ UNCHANGED file
RollbackRaises ==
  /\ count.failures < MaxFailures /\ Count("failures")
  /\ \/ LeavesAssets("rb_routing", "rb_data") \/ LeavesAssets("u_routing", "u_life")
     \/ mem.moved /\ (Leaves("data", "rb_data", "rb_config") \/ Leaves("data", "u_data", "idle"))
     \/ mem.config /\ (Leaves("config", "rb_config", "rb_codex")
                        \/ Leaves("config", "u_config", "u_data"))
     \/ mem.codex /\ Leaves("codex", "rb_codex", "rb_life")
     \/ home # "none" /\ Leaves("life", "rb_life", "rb_marker")
     \/ mem.life # "none" /\ Leaves("life", "u_life", "u_config")
     \/ mem.marked /\ Leaves("marker", "rb_marker", "idle")
  /\ UNCHANGED <<home, saved, life, marker, receipt, at, late, written>>

-----------------------------------------------------------------------------
\* The rest of enable (LifecycleJournal) makes a project that is there ready.
Enable ==
  /\ pc = "idle" /\ marker = "none" /\ home = "data" /\ ~saved
  /\ life \in {"stopped", "failed"} /\ Configured
  /\ life' = "ready"
  /\ file' = [f \in File |-> IF file[f] = "user" THEN "user" ELSE "on"]
  /\ failed' = {}
  /\ UNCHANGED <<home, saved, marker, receipt, pc, at, mem, late, count, written>>

\* A process killed, or interrupted: the except clause does not catch that.
Kill ==
  /\ pc # "idle" /\ (pc \in Restoring \cup Undoing => KillsInRestore)
  /\ count.kills < MaxKills /\ Count("kills")
  /\ pc' = "idle" /\ mem' = NoMem
  /\ UNCHANGED <<file, home, saved, life, marker, receipt, at, late, written, failed>>

Recovering == {"r_routing", "r_data", "r_config", "r_codex", "r_life", "r_marker"}
Edit(f) ==
  /\ count.edits < MaxEdits /\ Count("edits")
  /\ f \notin written /\ (pc \in Recovering => EditsRace)
  /\ Put(f, "user") /\ written' = written \cup {f}
  /\ UNCHANGED <<home, saved, life, marker, receipt, pc, at, mem, late, failed>>

\* A refresh or an update of another process sees a live project ...
Check(p) ==
  /\ late = "none" /\ p \in Late /\ marker = "none" /\ Configured
  /\ life = "ready" /\ home = "data" /\ late' = p
  /\ UNCHANGED <<file, home, saved, life, marker, receipt, pc, at, mem, count, written, failed>>

\* ... and asks for its refresh lease later, creating the directory the lease
\* is to lie in; an update first needs the operation lease.
TakeLease ==
  /\ late # "none" /\ (late = "update" => pc = "idle")
  /\ late' = "none" /\ home' = IF home = "none" THEN "stray" ELSE home
  /\ UNCHANGED <<file, saved, life, marker, receipt, pc, at, mem, count, written, failed>>

RemoveStep == PublishReceipt \/ PublishMarker \/ PublishRemoving \/ RemoveCodex
  \/ RemoveAsset \/ UnlinkConfig \/ PublishRemoved \/ MoveData \/ CompleteReceipt
  \/ CompleteMarker
RollbackStep == RollbackRouting("rb_routing", "rb_data") \/ RollbackData
  \/ RollbackConfig \/ RollbackCodex \/ RollbackLife \/ RollbackMarker
  \/ RollbackRouting("u_routing", "u_life") \/ UndoLife \/ UndoConfig \/ UndoData
RecoverStep == Recover \/ RecoverRouting \/ RecoverData \/ RecoverConfig
  \/ RecoverCodex \/ RecoverLife \/ RecoverMarker
RestoreStep == RestoreRouting \/ RestoreData \/ RestoreConfig \/ RestoreLife
  \/ RestoreMarker

Next == Remove \/ Restore \/ Enable \/ RemoveStep \/ RollbackStep \/ RecoverStep
  \/ RestoreStep \/ Raise \/ RaiseUnrecorded \/ RollbackRaises \/ Kill \/ TakeLease
  \/ (\E f \in File : Edit(f)) \/ (\E p \in Late : Check(p))

Spec == Init /\ [][Next]_vars
\* A running process goes on; users keep issuing lifecycle commands.
FairSpec == Spec /\ WF_vars(RemoveStep) /\ WF_vars(RollbackStep)
                 /\ WF_vars(RecoverStep) /\ WF_vars(RestoreStep)

-----------------------------------------------------------------------------
TypeOK ==
  /\ file \in [File -> {"on", "off", "user"}]
  /\ home \in {"data", "none", "stray"} /\ saved \in BOOLEAN
  /\ life \in Stable \cup {"removing", "removed"}
  /\ marker \in {"none", "removing", "removed"}
  /\ receipt.status \in {"none", "removing", "removed"}
  /\ at \in 0 .. Len(Assets) + 1 /\ mem.applied \subseteq Routing
  /\ late \in Late \cup {"none"} /\ written \subseteq File /\ failed \subseteq Parts

\* A project reported as removed can be brought back, but for the parts that a
\* rollback left behind: its data lie in the recovery area, in the state they
\* were moved in, and nothing stands where enable would put a file.
RemovedIsRestorable ==
  pc = "idle" /\ marker = "removed" /\ "marker" \notin failed =>
    /\ "data" \notin failed => saved /\ home = "none"
    /\ "life" \notin failed => life = "removed"
    /\ \A f \in Routing \cup {"config"} : file[f] = "on" => PartOf(f) \in failed

\* What the change log says of it (CHANGELOG.md:133-135): the recovery receipt is
\* one "that a later enable can restore", whatever failed before.
EnableCanRestore ==
  pc = "idle" /\ marker = "removed" =>
    /\ saved /\ home = "none" /\ life = "removed"
    /\ \A f \in Routing \cup {"config"} : file[f] # "on"

\* A project whose gate no marker closes is whole, but for the parts a rollback
\* left behind: the data are in their place (without them the gate is open, for
\* a state that is not there counts as ready), their state is stable when nothing
\* runs, and with the state "ready" no file is missing.
UnmarkedIsWhole ==
  marker = "none" =>
    /\ "data" \notin failed => home = "data" /\ ~saved
    /\ pc = "idle" /\ {"data", "life"} \cap failed = {} => life \in Stable
    /\ life = "ready" => \A f \in File : file[f] = "off" => PartOf(f) \in failed

\* What the user wrote after the removal began is never overwritten.
EditStays == \A f \in written : pc # "idle" => file'[f] = "user"

UserEditKept == [][EditStays]_vars

\* An interrupted removal does not stay so: the next commands undo or complete
\* it, unless a file the user changed or a directory a late process created
\* stops them.
Interrupted == pc = "idle" /\ marker = "removing"
Settled == marker # "removing" \/ home = "stray" \/ \E f \in File : ~Known(f)

RemovalSettles == Interrupted ~> Settled
=============================================================================
