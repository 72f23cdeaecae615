---------------------------- MODULE RustRefresh ----------------------------
(***************************************************************************)
(* The Rust refresh (rust_refresh.py) and its recovery journal             *)
(* (rust_refresh_recovery.py): one generation is a syntax shard, the       *)
(* generation manifest, the pointer to the shard and the index state, four *)
(* files replaced one after the other under the project's refresh lease.   *)
(* The journal keeps a hard link to the old manifest, pointer and state;   *)
(* the phase "state_published" is the acceptance point.                    *)
(*                                                                         *)
(* A file's content is the generation that wrote it, 0 for no file; a      *)
(* source is a version of the repository.                                  *)
(***************************************************************************)
EXTENDS Integers, Sequences, FiniteSets

CONSTANTS
    Procs,
    MaxGenerations, MaxEdits,   \* bounds of the exploration
    MaxKills, MaxFaults,        \* kills of a process, exceptions raised by a step
    Reverts,                    \* may an edit bring an earlier source back?
    KilledUndoing               \* may a rollback be killed or raise half-way?

Free == "free"

ASSUME ConstantsOK ==
    /\ {MaxGenerations, MaxEdits, MaxKills, MaxFaults} \subseteq Nat
    /\ {Reverts, KilledUndoing} \subseteq BOOLEAN /\ Free \notin Procs

Artifacts == {"manifest", "pointer", "state"}
Published == {"shard", "manifest", "pointer", "state"}
Generations == 0..MaxGenerations
Sources == 0..MaxEdits

VARIABLES
    source, edits,      \* the repository
    disk,               \* [Artifacts -> Generations]
    shards,             \* the generations whose shard is in rust-syntax/
    made,               \* generation -> [bound |-> source of the manifest, read |-> of the facts]
    backup,             \* [Artifacts -> Generations \cup {-1}]: the hard links, -1 for none
    journal,            \* the journal on disk
    lease,              \* a process or Free
    run,                \* [Procs -> what the process is doing]
    accepted,           \* the last generation whose acceptance point was passed
    kills, faults       \* how often

vars == <<source, edits, disk, shards, made, backup, journal, lease, run, accepted,
          kills, faults>>

NoLink == -1
NoJournal == [phase |-> "none", after |-> 0, existed |-> {}, shard |-> FALSE]
Idle == [pc |-> "idle", kind |-> "none", before |-> 0, after |-> 0, prov |-> 0, read |-> 0,
         undone |-> {}, result |-> "none", whole |-> TRUE]

Init ==
    /\ source = 0 /\ edits = 0
    /\ disk = [a \in Artifacts |-> 0] /\ shards = {} /\ made = <<>>
    /\ backup = [a \in Artifacts |-> NoLink] /\ journal = NoJournal
    /\ lease = Free /\ run = [p \in Procs |-> Idle]
    /\ accepted = 0 /\ kills = 0 /\ faults = 0

At(p, pc) == run[p].pc = pc
To(p, pc) == run' = [run EXCEPT ![p].pc = pc]
files == <<disk, shards, backup, journal>>
world == <<source, edits, kills, faults>>

(* All four files are of generation g. *)
WholeAt(g, d, s) == (\A a \in Artifacts : d[a] = g) /\ (g > 0 => g \in s)
Whole(g) == WholeAt(g, disk, shards)

----------------------------------------------------------------------------
(* refresh() and recover_pending_rust_refresh(): both begin with the lease *)
(* and with the recovery of what an earlier process left.  Where the lease *)
(* is not free they answer "refresh_owned_elsewhere" and change nothing.   *)

Enter(p, kind) ==
    /\ At(p, "idle") /\ lease = Free
    /\ lease' = p
    /\ run' = [run EXCEPT ![p] = [Idle EXCEPT !.pc = "recover", !.kind = kind]]
    /\ UNCHANGED <<files, made, accepted, world>>

(* _cleanup_owned_stage_files removes every hard link, of this journal or
   of one that was never written.                                          *)
Swept == [a \in Artifacts |-> NoLink]

Recovered(p) == IF run[p].kind = "recover" THEN "leave" ELSE "plan"

RecoverNothing(p) ==
    /\ At(p, "recover") /\ journal = NoJournal
    /\ backup' = Swept
    /\ To(p, Recovered(p))
    /\ UNCHANGED <<disk, shards, journal, made, lease, accepted, world>>

(* Variant: a published pointer counts as acceptance. *)
AcceptedPhasesEarly == {"pointer_published", "state_published", "committing"}

AcceptedPhases == {"state_published", "committing"}

RecoverJournal(p) ==
    /\ At(p, "recover") /\ journal # NoJournal
    /\ To(p, IF journal.phase \in AcceptedPhases THEN "discard" ELSE "undo")
    /\ UNCHANGED <<files, made, lease, accepted, world>>

(***************************************************************************)
(* The candidate: the source is read for the provisional manifest, by the  *)
(* scanner, for the candidate manifest and once more after it.             *)
(***************************************************************************)
Plan(p) ==
    /\ At(p, "plan") /\ Len(made) < MaxGenerations
    /\ run' = [run EXCEPT ![p].pc = "scan", ![p].before = disk["manifest"],
                          ![p].after = Len(made) + 1, ![p].prov = source]
    /\ made' = Append(made, [bound |-> source, read |-> source])
    /\ UNCHANGED <<files, lease, accepted, world>>

Scan(p) ==
    /\ At(p, "scan")
    /\ run' = [run EXCEPT ![p].pc = "compare", ![p].read = source]
    /\ made' = [made EXCEPT ![run[p].after].read = source]
    /\ UNCHANGED <<files, lease, accepted, world>>

(* Variant: the candidate is not compared with the provisional manifest. *)
CompareUnchecked(p) ==
    /\ At(p, "compare")
    /\ To(p, "last_look")
    /\ made' = [made EXCEPT ![run[p].after].bound = source]
    /\ UNCHANGED <<files, lease, accepted, world>>

Compare(p) ==
    /\ At(p, "compare")
    /\ To(p, IF source = run[p].prov THEN "last_look" ELSE "failed")
    /\ made' = [made EXCEPT ![run[p].after].bound = source]
    /\ UNCHANGED <<files, lease, accepted, world>>

LastLook(p) ==
    /\ At(p, "last_look")
    /\ To(p, IF source = made[run[p].after].bound THEN "link" ELSE "failed")
    /\ UNCHANGED <<files, made, lease, accepted, world>>

----------------------------------------------------------------------------
(* RustRefreshRecoveryJournal.begin: the hard links, then the journal.  An *)
(* exception between the two discards the links.                           *)
Link(p) ==
    /\ At(p, "link")
    /\ backup' = [a \in Artifacts |-> IF disk[a] = 0 THEN NoLink ELSE disk[a]]
    /\ To(p, "begin")
    /\ UNCHANGED <<disk, shards, journal, made, lease, accepted, world>>

BeginJournal(p) ==
    /\ At(p, "begin")
    /\ journal' = [phase |-> "prepared", after |-> run[p].after,
                   existed |-> {a \in Artifacts : disk[a] # 0},
                   shard |-> run[p].after \in shards]
    /\ To(p, "shard")
    /\ UNCHANGED <<disk, shards, backup, made, lease, accepted, world>>

(* The files in their order, each followed by the phase it reached.  Only
   the phase of the state is the acceptance point: from there on the
   process keeps the generation, whatever is raised.                       *)
After == [shard |-> "manifest", manifest |-> "pointer", pointer |-> "state",
          state |-> "committing"]
Advance == [shard |-> "advance_shard", manifest |-> "advance_manifest",
            pointer |-> "advance_pointer", state |-> "advance_state"]
PhaseOf == [shard |-> "shard_published", manifest |-> "manifest_published",
            pointer |-> "pointer_published", state |-> "state_published"]

(* The pointer is loaded back after it was replaced: its shard must be there. *)
PointerLoads(p) == run[p].after \in shards

Replace(p, f) ==
    /\ At(p, f)
    /\ IF f = "shard"
         THEN shards' = shards \cup {run[p].after} /\ disk' = disk
         ELSE disk' = [disk EXCEPT ![f] = run[p].after] /\ shards' = shards
    /\ To(p, IF f = "pointer" /\ ~PointerLoads(p) THEN "undo" ELSE Advance[f])
    /\ UNCHANGED <<backup, journal, made, lease, accepted, world>>

Reach(p, f) ==
    /\ At(p, Advance[f])
    /\ journal' = [journal EXCEPT !.phase = PhaseOf[f]]
    /\ accepted' = IF f = "state" THEN run[p].after ELSE accepted
    /\ run' = [run EXCEPT ![p].pc = After[f],
                          ![p].result = IF f = "state" THEN "refreshed" ELSE @]
    /\ UNCHANGED <<disk, shards, backup, made, lease, world>>

(* advance("committing"); an OSError is only collected. *)
Committing(p) ==
    /\ At(p, "committing")
    /\ journal' = [journal EXCEPT !.phase = "committing"]
    /\ To(p, "discard")
    /\ UNCHANGED <<disk, shards, backup, made, lease, accepted, world>>

----------------------------------------------------------------------------
(* rollback(): state, pointer and manifest, each by moving its hard link   *)
(* back; then the shard; then commit().  A link that is no longer there    *)
(* raises.  The journal is not written in between.                         *)
UndoOrder == <<"state", "pointer", "manifest">>
NextUndo(p) ==
    CHOOSE i \in 1..4 : /\ \A j \in 1..(i - 1) : UndoOrder[j] \in run[p].undone
                        /\ i <= 3 => UndoOrder[i] \notin run[p].undone

Undo(p, a) ==
    /\ At(p, "undo") /\ NextUndo(p) <= 3 /\ a = UndoOrder[NextUndo(p)]
    /\ a \in journal.existed => backup[a] # NoLink
    /\ disk' = [disk EXCEPT ![a] = IF a \in journal.existed THEN backup[a] ELSE 0]
    /\ backup' = [backup EXCEPT ![a] = NoLink]
    /\ run' = [run EXCEPT ![p].undone = @ \cup {a}]
    /\ UNCHANGED <<shards, journal, made, lease, accepted, world>>

(* An error of the refresh's own rollback is in its rollback_errors; one of
   the recovery before it is not, and previous_generation_preserved stays. *)
Report(p) == run' = [run EXCEPT ![p].pc = "leave", ![p].result = "failed",
                                ![p].whole = run[p].after = 0]

(* The link is gone: os.lstat raises, the journal stays as it is. *)
UndoRaises(p, a) ==
    /\ At(p, "undo") /\ NextUndo(p) <= 3 /\ a = UndoOrder[NextUndo(p)]
    /\ a \in journal.existed /\ backup[a] = NoLink
    /\ Report(p)
    /\ UNCHANGED <<files, made, lease, accepted, world>>

UndoShard(p) ==
    /\ At(p, "undo") /\ NextUndo(p) = 4
    /\ shards' = IF journal.shard THEN shards ELSE shards \ {journal.after}
    /\ To(p, "discard")
    /\ UNCHANGED <<disk, backup, journal, made, lease, accepted, world>>

(* commit(): the links, then the journal. *)
Discard(p) ==
    /\ At(p, "discard")
    /\ backup' = Swept
    /\ To(p, "unlink")
    /\ UNCHANGED <<disk, shards, journal, made, lease, accepted, world>>

Unlink(p) ==
    /\ At(p, "unlink")
    /\ journal' = NoJournal
    /\ run' = [run EXCEPT
         ![p].pc = IF run[p].after = 0 THEN Recovered(p) ELSE "leave", ![p].undone = {},
         ![p].result = IF run[p].after > 0 /\ @ = "none" THEN "failed" ELSE @]
    /\ UNCHANGED <<disk, shards, backup, made, lease, accepted, world>>

----------------------------------------------------------------------------
(* An exception, of a step or of the system below it.  Before the journal  *)
(* the refresh just fails; with it, it is rolled back; after the           *)
(* acceptance point the error is collected and the journal may stay; in a  *)
(* rollback the error is reported and the journal stays.                   *)
Publishing == Published \cup {Advance[f] : f \in Published}

Ending(p) == run[p].pc \in {"discard", "unlink"}
Undoing(p) == At(p, "undo") \/ (Ending(p) /\ journal.phase \notin AcceptedPhases)

(* Variant: what is raised after the acceptance point rolls back too. *)
RaiseRollsBackAccepted(p) ==
    /\ faults < MaxFaults
    /\ \/ /\ run[p].pc \in {"plan", "scan", "compare", "last_look", "link", "begin"}
          /\ backup' = Swept
          /\ To(p, "failed")
       \/ /\ run[p].pc \in Publishing \cup {"committing"}
          /\ UNCHANGED backup
          /\ run' = [run EXCEPT ![p].pc = "undo", ![p].result = "none"]
       \/ /\ Ending(p) /\ journal.phase \in AcceptedPhases
          /\ UNCHANGED backup
          /\ run' = [run EXCEPT ![p].pc = "leave",
                               ![p].result = IF run[p].after = 0 THEN "failed" ELSE @]
       \/ /\ KilledUndoing /\ Undoing(p)
          /\ UNCHANGED backup
          /\ Report(p)
    /\ faults' = faults + 1
    /\ UNCHANGED <<source, edits, disk, shards, journal, made, lease, accepted, kills>>

Raise(p) ==
    /\ faults < MaxFaults
    /\ \/ /\ run[p].pc \in {"plan", "scan", "compare", "last_look", "link", "begin"}
          /\ backup' = Swept
          /\ To(p, "failed")
       \/ /\ run[p].pc \in Publishing
          /\ UNCHANGED backup
          /\ To(p, "undo")
       \/ /\ run[p].pc = "committing"
          /\ UNCHANGED backup
          /\ To(p, "discard")
       \/ /\ Ending(p) /\ journal.phase \in AcceptedPhases
          /\ UNCHANGED backup
          /\ run' = [run EXCEPT ![p].pc = "leave",
                               ![p].result = IF run[p].after = 0 THEN "failed" ELSE @]
       \/ /\ KilledUndoing /\ Undoing(p)
          /\ UNCHANGED backup
          /\ Report(p)
    /\ faults' = faults + 1
    /\ UNCHANGED <<source, edits, disk, shards, journal, made, lease, accepted, kills>>

Failed(p) ==
    /\ At(p, "failed")
    /\ run' = [run EXCEPT ![p].pc = "leave", ![p].result = "failed"]
    /\ UNCHANGED <<files, made, lease, accepted, world>>

(* The finally block: the lease is given back, and the answer returned. *)
Leave(p) ==
    /\ At(p, "leave")
    /\ lease' = Free
    /\ run' = [run EXCEPT ![p] = Idle]
    /\ UNCHANGED <<files, made, accepted, world>>

(* A staged file that was not published is unlinked first, and an error of *)
(* that ends the finally block before the lease is given back: the process *)
(* keeps the lease, and its refresh lock, until it ends.                   *)
LeaveRaises(p) ==
    /\ At(p, "leave") /\ run[p].result = "failed" /\ run[p].after > 0
    /\ To(p, "stuck")
    /\ UNCHANGED <<files, made, lease, accepted, world>>

(* A kill: the flock of the lease goes with the process. *)
Kill(p) ==
    /\ kills < MaxKills /\ ~At(p, "idle")
    /\ (Undoing(p) => KilledUndoing)
    /\ kills' = kills + 1
    /\ lease' = IF lease = p THEN Free ELSE lease
    /\ run' = [run EXCEPT ![p] = Idle]
    /\ UNCHANGED <<source, edits, files, made, accepted, faults>>

Edit ==
    /\ edits < MaxEdits
    /\ edits' = edits + 1
    /\ source' \in {s \in Sources : s # source /\ (~Reverts => s > source)}
    /\ UNCHANGED <<files, made, lease, run, accepted, kills, faults>>

----------------------------------------------------------------------------
Step(p) ==
    \/ RecoverNothing(p) \/ RecoverJournal(p)
    \/ Plan(p) \/ Scan(p) \/ Compare(p) \/ LastLook(p) \/ Link(p) \/ BeginJournal(p)
    \/ \E f \in Published : Replace(p, f) \/ Reach(p, f)
    \/ Committing(p)
    \/ \E a \in Artifacts : Undo(p, a) \/ UndoRaises(p, a)
    \/ UndoShard(p) \/ Discard(p) \/ Unlink(p) \/ Failed(p) \/ Leave(p)

Next ==
    \/ Edit
    \/ \E p \in Procs :
         \/ \E kind \in {"refresh", "recover"} : Enter(p, kind)
         \/ Step(p) \/ Raise(p) \/ LeaveRaises(p) \/ Kill(p)

(* A process that is not killed goes on, and somebody asks for a recovery. *)
Spec ==
    /\ Init /\ [][Next]_vars
    /\ \A p \in Procs : WF_vars(Step(p)) /\ WF_vars(Enter(p, "recover"))

----------------------------------------------------------------------------
Steps == {"idle", "recover", "plan", "scan", "compare", "last_look", "link", "begin",
          "committing", "undo", "discard", "unlink", "failed", "leave", "stuck"} \cup Publishing

TypeOK ==
    /\ source \in Sources /\ edits \in 0..MaxEdits
    /\ disk \in [Artifacts -> Generations] /\ shards \subseteq 1..Len(made)
    /\ made \in Seq([bound : Sources, read : Sources]) /\ Len(made) <= MaxGenerations
    /\ backup \in [Artifacts -> Generations \cup {NoLink}]
    /\ journal \in [phase : {"none", "prepared", "committing"} \cup {PhaseOf[f] : f \in Published},
                    after : Generations, existed : SUBSET Artifacts, shard : BOOLEAN]
    /\ lease \in Procs \cup {Free} /\ accepted \in Generations
    /\ run \in [Procs -> [pc : Steps, kind : {"none", "refresh", "recover"},
                          before : Generations, after : Generations,
                          prov : Sources, read : Sources, undone : SUBSET Artifacts,
                          result : {"none", "refreshed", "failed"}, whole : BOOLEAN]]
    /\ kills \in 0..MaxKills /\ faults \in 0..MaxFaults
    /\ \A p \in Procs : run[p].pc = "idle" \/ lease = p

(* Wherever no refresh runs and no journal is left, the four files are of  *)
(* one generation: the last one whose acceptance point was passed, however *)
(* many later ones were raised, rolled back, killed and recovered.         *)
RestIsLastAccepted == lease = Free /\ journal = NoJournal => Whole(accepted)

(* At every instant, in every publication and every rollback, the shard    *)
(* the pointer names exists: a reader that opens it needs no lease.        *)
PointerHasShard == disk["pointer"] # 0 => disk["pointer"] \in shards

(* What refresh() answers is true when it answers: after "refreshed" all   *)
(* files are of generation_after; after "failed" with                      *)
(* previous_generation_preserved they are of generation_before.            *)
AnswersTrue ==
    \A p \in Procs :
        At(p, "leave") /\ run[p].kind = "refresh" /\ run[p].after > 0 =>
            /\ run[p].result = "refreshed" => Whole(run[p].after)
            /\ run[p].result = "failed" /\ run[p].whole => Whole(run[p].before)

(* A generation whose state was published is not taken back: no step moves *)
(* a file of the accepted generation to another, except a later refresh    *)
(* that publishes its own.                                                 *)
KeepsAccepted ==
    \A a \in Artifacts : Whole(accepted) /\ accepted' = accepted /\ disk'[a] # disk[a]
        => \E p \in Procs : disk'[a] = run[p].after /\ run[p].after > accepted
AcceptedStays == [][KeepsAccepted]_vars

(* previous_generation_preserved is never said of files of two generations. *)
PreservedIsWhole ==
    \A p \in Procs :
        At(p, "leave") /\ run[p].result = "failed" /\ run[p].whole =>
            \E g \in Generations : Whole(g)

(* The facts in a published shard were read from the source its manifest   *)
(* and its pointer name.                                                   *)
FactsOfTheirSource == \A g \in shards : made[g].read = made[g].bound

(* A journal left behind is settled by the next recovery. *)
RecoverySettles == journal # NoJournal ~> journal = NoJournal
============================================================================
