--------------------------- MODULE LifecycleJournal ---------------------------
(***************************************************************************)
(* The durable journal around enable, update and stop                      *)
(* (lifecycle_recovery.py) with the two in-process transactions it         *)
(* encloses (enable_transaction.py, routing_transaction.py).               *)
(*                                                                         *)
(* A command backs up ten artifacts of one project, writes the journal,    *)
(* replaces artifacts one at a time, and either accepts or rolls back.     *)
(* It can be killed between any two steps, a step can raise, and the user  *)
(* can edit the four artifacts that lie in the repository at any time.     *)
(* The next lifecycle command recovers the journal before anything else.   *)
(*                                                                         *)
(* Abstractions.  The content of an artifact is a number: 0 is an absent   *)
(* file, 3n + 1 what the n-th command publishes, 3n its transitional       *)
(* lifecycle state (enabling, updating, stopping), 3n + 2 its stopped      *)
(* state; User and Refreshed(k) are what the user and a refresh write,     *)
(* Merged is the user's Codex text with the block of Atlas put into it,    *)
(* and Torn is a file that was truncated or created to be written.         *)
(* Backups and digests are the contents they were taken from.  The         *)
(* operation lease serializes commands (LifecycleCommands), so at most one *)
(* command or recovery runs at a time.                                     *)
(***************************************************************************)
EXTENDS Integers, Sequences

CONSTANTS
  Commands,      \* the commands users run: a subset of DOMAIN Script
  Missing,       \* the artifacts that do not exist at first
  EditsInRestore,\* may the user edit while a rollback is restoring?
  CutWrites,     \* may a file that is written in place be left half-written?
  MaxOps,        \* bound: commands started
  MaxKills,      \* bound: commands and recoveries killed
  MaxRaises,     \* bound: steps that raise
  MaxEdits,      \* bound: user edits
  MaxRefreshes   \* bound: refreshes by other processes

\* The artifacts in the order begin() captures them; _finish() restores them
\* in the reverse order.
Order == <<"config", "codex", "rule", "skill", "lifecycle", "index",
           "manifest", "registrations", "routing_state", "provider">>
Artifact == {Order[i] : i \in DOMAIN Order}
Routing == {"rule", "skill"}
Guarded == {"config", "codex"}
External == Routing \cup Guarded
\* EnableTransaction.paths, in the order it snapshots them.
TxFiles == <<"config", "codex", "lifecycle", "index", "manifest",
             "registrations", "routing_state">>
IndexFiles == <<"provider", "registrations", "manifest", "index">>

Write(a) == [do |-> "write", of |-> a]
Allow(a) == [do |-> "allow", of |-> a]
Mark == [do |-> "mark", of |-> "lifecycle"]

\* What enable publishes, in its order: routing assets, receipt of the routing,
\* state "enabling", the configuration, the index, the Codex block, "ready".
EnableScript ==
  <<Allow("config"), Write("rule"), Write("skill"), Write("routing_state"),
    Mark, Write("config"), Write("provider"), Write("registrations"),
    Write("index"), Allow("codex"), Write("codex"), Write("lifecycle")>>

\* Variant: the Codex bytes are not authorized before they are published.
UpdateScriptUnauthorized ==
  <<Write("rule"), Write("skill"), Mark, Allow("config"), Write("config"),
    Write("codex"), Write("lifecycle")>>

UpdateScript ==
  <<Write("rule"), Write("skill"), Mark, Allow("config"), Write("config"),
    Allow("codex"), Write("codex"), Write("lifecycle")>>

StopScript == <<Mark, Write("lifecycle")>>

Script == [enable |-> EnableScript, update |-> UpdateScript,
           stop |-> StopScript]

\* What no command writes.
Torn == -1
User == -2
Merged == -3
Refreshed(k) == -3 - k

ASSUME ConstantsOK ==
  /\ Commands \subseteq DOMAIN Script /\ Missing \subseteq Artifact
  /\ {EditsInRestore, CutWrites} \subseteq BOOLEAN
  /\ {MaxOps, MaxKills, MaxRaises, MaxEdits, MaxRefreshes} \subseteq Nat

VARIABLES
  file,      \* file[a]: the content of artifact a
  journal,   \* active-lifecycle-v1.json; phase "none" when it is absent
  root,      \* the operation root with the backups exists
  pc, cmd, at,  \* the running command or recovery: what, which, how far
  tx,        \* EnableTransaction and RoutingTransaction, in memory
  lease,     \* who holds the exclusive refresh lease
  refresh,   \* how far a refresh by another process is, 0 when none runs
  report,    \* what the last command reported
  base,      \* file when the last command began
  count      \* how often each bounded thing happened

vars == <<file, journal, root, pc, cmd, at, tx, lease, refresh, report, base,
          count>>

NoJournal == [phase |-> "none", before |-> [a \in Artifact |-> 0],
              allowed |-> [a \in External |-> {}]]
NoTx == [before |-> [a \in Artifact |-> 0], expected |-> [a \in Artifact |-> 0],
         allowed |-> [a \in Guarded |-> {}], applied |-> {}, indexed |-> FALSE,
         errors |-> FALSE, read |-> 0]
Journalled == journal.phase # "none"

Final(a) == IF cmd = "stop" /\ a = "lifecycle"
            THEN 3 * count.ops + 2 ELSE 3 * count.ops + 1
Transitional == 3 * count.ops

Count(what) == count' = [count EXCEPT ![what] = @ + 1]

Init ==
  /\ file = [a \in Artifact |-> IF a \in Missing THEN 0 ELSE 1]
  /\ journal = NoJournal /\ root = FALSE
  /\ pc = "idle" /\ cmd = "none" /\ at = 0 /\ tx = NoTx
  /\ lease = "none" /\ refresh = 0 /\ report = "none" /\ base = file
  /\ count = [ops |-> 0, kills |-> 0, raises |-> 0, edits |-> 0, refreshes |-> 0]

-----------------------------------------------------------------------------
(* A command.                                                              *)

\* The command recovered, took both leases and snapshots its files
\* (EnableTransaction.__init__, RoutingTransaction.__init__).
Start(c) ==
  /\ pc = "idle" /\ ~Journalled /\ ~root
  /\ lease = "none" /\ lease' = "command"
  /\ count.ops < MaxOps /\ Count("ops")
  /\ cmd' = c /\ pc' = "capture" /\ at' = 1 /\ base' = file
  /\ tx' = [NoTx EXCEPT !.before = file, !.expected = file,
              !.allowed = [a \in Guarded |-> {file[a]}]]
  /\ report' = "none"
  /\ UNCHANGED <<file, journal, root, refresh>>

\* begin() digests and backs up the artifacts one after the other, then
\* writes the journal.  A routing asset may become what the plan makes it.
Capture ==
  /\ pc = "capture" /\ at <= Len(Order)
  /\ LET a == Order[at] IN
       journal' = [journal EXCEPT !.before[a] = file[a]]
  /\ root' = TRUE /\ at' = at + 1
  /\ UNCHANGED <<file, pc, cmd, tx, lease, refresh, report, base, count>>

WriteJournal ==
  /\ pc = "capture" /\ at > Len(Order)
  /\ journal' = [journal EXCEPT !.phase = "prepared",
                   !.allowed = [a \in External |->
                     {journal.before[a]} \cup
                       IF a \in Routing /\ cmd # "stop" THEN {Final(a)} ELSE {}]]
  /\ pc' = "run" /\ at' = 1
  /\ UNCHANGED <<file, root, cmd, tx, lease, refresh, report, base, count>>

Step == Script[cmd][at]
Running(do) == pc = "run" /\ at <= Len(Script[cmd]) /\ Step.do = do

\* allow_config(), allow_codex_plan(): the journal is rewritten before the
\* repository file is.
Authorize ==
  /\ Running("allow")
  /\ tx' = [tx EXCEPT !.allowed[Step.of] = @ \cup {Final(Step.of)}]
  /\ journal' = [journal EXCEPT !.allowed[Step.of] = @ \cup {Final(Step.of)}]
  /\ at' = at + 1
  /\ UNCHANGED <<file, root, pc, cmd, lease, refresh, report, base, count>>

\* RoutingTransaction._publish: an asset that changed since planning stops the
\* command.
ApplyRouting ==
  /\ Running("write") /\ Step.of \in Routing
  /\ IF file[Step.of] = tx.before[Step.of]
     THEN /\ file' = [file EXCEPT ![Step.of] = Final(Step.of)]
          /\ tx' = [tx EXCEPT !.applied = @ \cup {Step.of}]
          /\ at' = at + 1 /\ pc' = pc
     ELSE pc' = "undo_routing" /\ UNCHANGED <<file, tx, at>>
  /\ UNCHANGED <<journal, root, cmd, lease, refresh, report, base, count>>

\* EnableTransaction.run(): after the published file the transaction reads all
\* its files; config and Codex must be in a state it authorized.
Observe(f) ==
  LET conflicts == {a \in Guarded : f[a] \notin tx.allowed[a]} IN
  /\ tx' = [tx EXCEPT
       !.expected = [a \in Artifact |-> IF a \in conflicts THEN @[a] ELSE f[a]],
       !.indexed = @ \/ Step.of \in {"provider", "registrations", "index"},
       !.read = 0]
  /\ IF conflicts = {} THEN pc' = "run" /\ at' = at + 1
                       ELSE pc' = "undo_routing" /\ at' = at

\* The Codex file is read again and written with the block in it, whatever it
\* holds (codex_apply); of a configuration that existed only device and inode
\* must be the ones the command found (write_verified), and one that did not is
\* created (write_exclusive).
Takes(a) == a = "codex" \/ tx.before[a] # 0 \/ file[a] = 0

\* The file is truncated, or created, and then written.  What the Codex file was
\* read as may be older than what is truncated.
Truncate ==
  /\ Running("write") /\ Step.of \in Guarded /\ Takes(Step.of)
  /\ file' = [file EXCEPT ![Step.of] = Torn] /\ pc' = "writing"
  /\ \E c \in {file[Step.of]} \cup
          (IF Step.of = "codex" THEN {tx.before[Step.of]} ELSE {}) :
       tx' = [tx EXCEPT !.read = c]
  /\ UNCHANGED <<journal, root, cmd, at, lease, refresh, report, base, count>>

\* A guarded file may also be refused and stay as it is: another file was put in
\* its place, or the Codex plan finds a conflict in what the user wrote.
Refused == Step.of \in Guarded /\ pc = "run"
Publishing ==
  \/ pc = "writing"
  \/ /\ Running("write") \/ Running("mark")
     /\ Step.of \notin Routing
     /\ Refused => file[Step.of] # tx.before[Step.of]

\* What a publication puts into a file.
ToWrite(a) ==
  IF Step.do = "mark" THEN Transitional
  ELSE IF a = "codex" /\ tx.read # tx.before[a] THEN Merged ELSE Final(a)
Published(a) == IF Refused THEN file ELSE [file EXCEPT ![a] = ToWrite(a)]

Publish ==
  /\ Publishing
  /\ file' = Published(Step.of)
  /\ IF cmd = "stop" THEN at' = at + 1 /\ UNCHANGED <<pc, tx>>
                     ELSE Observe(file')
  /\ UNCHANGED <<journal, root, cmd, lease, refresh, report, base, count>>

\* enable leaves the state of a project that is ready alone while it works.
SkipMark ==
  /\ Running("mark") /\ cmd = "enable" /\ file["lifecycle"] % 3 = 1
  /\ at' = at + 1
  /\ UNCHANGED <<file, journal, root, pc, cmd, tx, lease, refresh, report, base,
                 count>>

AcceptChange ==
  /\ pc = "run" /\ at > Len(Script[cmd])
  /\ journal' = [journal EXCEPT !.phase = "accepted"]
  /\ pc' = "unlink" /\ report' = "done"
  /\ UNCHANGED <<file, root, cmd, at, tx, lease, refresh, base, count>>

\* An exception: before the journal exists only the operation root is removed;
\* a write in place puts back what it read, or unlinks the Codex file it made.
\* KeyboardInterrupt, which it does not catch, leaves a half-written file, and
\* so does any error while a configuration is created.
Raise ==
  /\ count.raises < MaxRaises /\ Count("raises")
  /\ \/ /\ pc = "capture" /\ pc' = "rmtree"
        /\ journal' = NoJournal /\ report' = "preserved" /\ UNCHANGED file
     \/ /\ pc = "run" /\ pc' = IF cmd = "stop" THEN "check" ELSE "undo_routing"
        /\ UNCHANGED <<file, journal, report>>
     \/ /\ pc = "writing" /\ pc' = "undo_routing"
        /\ \/ /\ Step.of = "codex" \/ tx.read # 0
              /\ file' = [file EXCEPT ![Step.of] = tx.read]
           \/ CutWrites /\ UNCHANGED file
        /\ UNCHANGED <<journal, report>>
  /\ at' = 1
  /\ UNCHANGED <<root, cmd, tx, lease, refresh, base>>

-----------------------------------------------------------------------------
(* Rollback in the process, then of the journal.                           *)

\* RoutingTransaction.rollback: one asset; an edited one is an error.
UndoRouting ==
  /\ pc = "undo_routing"
  /\ IF tx.applied = {}
     THEN /\ pc' = IF tx.indexed THEN "undo_provider" ELSE "undo_files"
          /\ at' = Len(TxFiles) /\ UNCHANGED <<file, tx>>
     ELSE LET a == IF "skill" \in tx.applied THEN "skill" ELSE "rule" IN
          /\ file' = IF file[a] = Final(a)
                     THEN [file EXCEPT ![a] = tx.before[a]] ELSE file
          /\ tx' = [tx EXCEPT !.applied = @ \ {a},
                      !.errors = @ \/ file[a] \notin {Final(a), tx.before[a]}]
          /\ UNCHANGED <<pc, at>>
  /\ UNCHANGED <<journal, root, cmd, lease, refresh, report, base, count>>

UndoProvider ==
  /\ pc = "undo_provider" /\ pc' = "undo_files"
  /\ file' = [file EXCEPT !["provider"] = tx.before["provider"]]
  /\ UNCHANGED <<journal, root, cmd, at, tx, lease, refresh, report, base, count>>

\* EnableTransaction.rollback: one file; one that is not as the transaction
\* left it is an error and stays.
UndoFile ==
  /\ pc = "undo_files"
  /\ IF at = 0 THEN pc' = "check" /\ UNCHANGED <<file, tx, at>>
     ELSE LET a == TxFiles[at] IN
          /\ file' = IF file[a] = tx.expected[a]
                     THEN [file EXCEPT ![a] = tx.before[a]] ELSE file
          /\ tx' = [tx EXCEPT !.errors = @ \/ file[a] # tx.expected[a]]
          /\ at' = at - 1 /\ UNCHANGED pc
  /\ UNCHANGED <<journal, root, cmd, lease, refresh, report, base, count>>

\* Control returns to the caller: the command releases what it holds.
Return == /\ pc' = "idle" /\ at' = 0
          /\ lease' = IF lease = "command" THEN "none" ELSE lease

Recognized(a) == file[a] \in journal.allowed[a]
\* Variant: recovery does not look at the repository files first.
CheckNothing ==
  /\ pc = "check"
  /\ pc' = "restore" /\ at' = Len(Order) /\ UNCHANGED <<lease, report>>
  /\ UNCHANGED <<file, journal, root, cmd, tx, refresh, base, count>>

\* Variant: the caller does not hear that recovery refused.
CheckQuiet ==
  /\ pc = "check"
  /\ IF \A a \in External : Recognized(a)
     THEN pc' = "restore" /\ at' = Len(Order) /\ UNCHANGED <<lease, report>>
     ELSE Return /\ report' = "preserved"
  /\ UNCHANGED <<file, journal, root, cmd, tx, refresh, base, count>>

\* _finish(accept=False) first checks every artifact of the repository.
Check ==
  /\ pc = "check"
  /\ IF \A a \in External : Recognized(a)
     THEN pc' = "restore" /\ at' = Len(Order) /\ UNCHANGED <<lease, report>>
     ELSE Return /\ report' = "unknown"
  /\ UNCHANGED <<file, journal, root, cmd, tx, refresh, base, count>>

\* Variant: artifacts that did not exist are left where they are.
RestoreExisting ==
  /\ pc = "restore" /\ at > 0
  /\ file' = IF journal.before[Order[at]] = 0 THEN file
             ELSE [file EXCEPT ![Order[at]] = journal.before[Order[at]]]
  /\ at' = at - 1
  /\ UNCHANGED <<journal, root, pc, cmd, tx, lease, refresh, report, base, count>>

\* Then it restores all of them, the last captured first.
Restore ==
  /\ pc = "restore" /\ at > 0
  /\ file' = [file EXCEPT ![Order[at]] = journal.before[Order[at]]]
  /\ at' = at - 1
  /\ UNCHANGED <<journal, root, pc, cmd, tx, lease, refresh, report, base, count>>

\* A restoration that fails is noted; the others still happen.
RestoreFails ==
  /\ pc = "restore" /\ at > 0
  /\ count.raises < MaxRaises /\ Count("raises")
  /\ tx' = [tx EXCEPT !.errors = TRUE, !.indexed = TRUE]
  /\ pc' = "restore_rest" /\ at' = at - 1
  /\ UNCHANGED <<file, journal, root, cmd, lease, refresh, report, base>>

RestoreRest ==
  /\ pc = "restore_rest"
  /\ IF at > 0
     THEN /\ file' = [file EXCEPT ![Order[at]] = journal.before[Order[at]]]
          /\ at' = at - 1 /\ UNCHANGED <<pc, lease, report>>
     ELSE Return /\ report' = "unknown" /\ UNCHANGED file
  /\ UNCHANGED <<journal, root, cmd, tx, refresh, base, count>>

RestoreDone ==
  /\ pc = "restore" /\ at = 0
  /\ pc' = "unlink"
  /\ report' = IF tx.errors THEN "unknown" ELSE "preserved"
  /\ UNCHANGED <<file, journal, root, cmd, at, tx, lease, refresh, base, count>>

Unlink ==
  /\ pc = "unlink" /\ pc' = "rmtree"
  /\ journal' = NoJournal
  /\ UNCHANGED <<file, root, cmd, at, tx, lease, refresh, report, base, count>>

Rmtree ==
  /\ pc = "rmtree" /\ Return /\ root' = FALSE
  /\ UNCHANGED <<file, journal, cmd, tx, refresh, report, base, count>>

-----------------------------------------------------------------------------
(* Recovery by the next command, and what others do meanwhile.             *)

\* _validate: the backups are there and what was is always authorized.
Valid == root /\ \A a \in External : journal.before[a] \in journal.allowed[a]

\* Variant: a journal whose command was accepted is not looked at again.
RecoverPrepared ==
  /\ pc = "idle"
  /\ Journalled => journal.phase = "prepared" /\ Valid
  /\ Journalled \/ root
  /\ pc' = IF ~Journalled THEN "rmtree" ELSE "check"
  /\ tx' = NoTx
  /\ UNCHANGED <<file, journal, root, cmd, at, lease, refresh, report, base, count>>

\* recover_lifecycle_transaction, called by _recover_before_mutation under the
\* operation lease only.  An operation root without a journal is removed.
Recover ==
  /\ pc = "idle" /\ (Journalled \/ root)
  /\ Journalled => Valid
  /\ pc' = IF ~Journalled THEN "rmtree"
           ELSE IF journal.phase = "accepted" THEN "unlink" ELSE "check"
  /\ tx' = NoTx
  /\ UNCHANGED <<file, journal, root, cmd, at, lease, refresh, report, base, count>>

\* The process dies; the operating system releases its leases.
Kill ==
  /\ pc # "idle" /\ count.kills < MaxKills /\ Count("kills")
  /\ pc = "writing" => CutWrites
  /\ Return /\ tx' = NoTx /\ report' = "none"
  /\ journal' = IF pc = "capture" THEN NoJournal ELSE journal
  /\ UNCHANGED <<file, root, cmd, refresh, base>>

\* The user writes a repository file, or puts back what the command found.
Edit(a) ==
  /\ count.edits < MaxEdits /\ Count("edits")
  /\ pc # "writing" /\ (pc \in {"restore", "restore_rest"} => EditsInRestore)
  /\ \E c \in {User, base[a]} : c # file[a] /\ file' = [file EXCEPT ![a] = c]
  /\ UNCHANGED <<journal, root, pc, cmd, at, tx, lease, refresh, report, base>>

\* A refresh by another process: it needs the refresh lease and a ready
\* project, and does not look for a lifecycle journal.
RefreshBegin ==
  /\ lease = "none" /\ refresh = 0 /\ file["lifecycle"] % 3 = 1
  /\ count.refreshes < MaxRefreshes /\ Count("refreshes")
  /\ lease' = "refresh" /\ refresh' = 1
  /\ UNCHANGED <<file, journal, root, pc, cmd, at, tx, report, base>>

RefreshStep ==
  /\ refresh > 0
  /\ IF refresh <= Len(IndexFiles)
     THEN /\ file' = [file EXCEPT ![IndexFiles[refresh]] = Refreshed(count.refreshes)]
          /\ refresh' = refresh + 1 /\ UNCHANGED lease
     ELSE refresh' = 0 /\ lease' = "none" /\ UNCHANGED file
  /\ UNCHANGED <<journal, root, pc, cmd, at, tx, report, base, count>>

Settle == UndoRouting \/ UndoProvider \/ UndoFile \/ Check \/ Restore
            \/ RestoreFails \/ RestoreRest \/ RestoreDone \/ Unlink \/ Rmtree
Work == Capture \/ WriteJournal \/ Authorize \/ ApplyRouting \/ Truncate \/ Publish
          \/ SkipMark \/ AcceptChange \/ Raise
Next == \/ \E c \in Commands : Start(c)
        \/ Work \/ Settle \/ Recover \/ Kill
        \/ \E a \in External : Edit(a)
        \/ RefreshBegin \/ RefreshStep

Spec == Init /\ [][Next]_vars
\* A process that runs goes on; users keep issuing lifecycle commands, so a
\* journal that was left behind is eventually found.
FairSpec == Spec /\ WF_vars(Settle) /\ WF_vars(Work) /\ WF_vars(Recover)
                 /\ WF_vars(RefreshStep)

-----------------------------------------------------------------------------
Content == Int
TypeOK ==
  /\ file \in [Artifact -> Content] /\ base \in [Artifact -> Content]
  /\ journal \in [phase : {"none", "prepared", "accepted"},
                  before : [Artifact -> Content],
                  allowed : [External -> SUBSET Content]]
  /\ root \in BOOLEAN
  /\ pc \in {"idle", "capture", "run", "writing", "undo_routing", "undo_provider",
             "undo_files", "check", "restore", "restore_rest", "unlink", "rmtree"}
  /\ cmd \in DOMAIN Script \cup {"none"} /\ at \in Nat
  /\ tx \in [before : [Artifact -> Content], expected : [Artifact -> Content],
             allowed : [Guarded -> SUBSET Content], applied : SUBSET Routing,
             indexed : BOOLEAN, errors : BOOLEAN, read : Content]
  /\ lease \in {"none", "command", "refresh"}
  /\ refresh \in 0 .. Len(IndexFiles) + 1
  /\ report \in {"none", "done", "preserved", "unknown"}
  /\ count \in [{"ops", "kills", "raises", "edits", "refreshes"} -> Nat]

\* What the journal may have to undo it can always recognize: while it stands,
\* a repository file that recovery would refuse holds what the user wrote, alone
\* or with the block of Atlas merged into it, and nothing else the command put
\* there (LifecycleRecoveryJournal.allow); of the instant between truncating and
\* writing a file only one that is cut short would stay.
OwnWritesRecognized ==
  journal.phase = "prepared" /\ pc # "writing" =>
    \A a \in External : file[a] \in journal.allowed[a] \cup {User, Merged, base[a]}

Written == {Script[cmd][i].of : i \in {j \in DOMAIN Script[cmd] :
                                         Script[cmd][j].do # "allow"}}
Kept(a) == file[a] = base[a] \/ (a \in External /\ file[a] = User)
Put(a) == file[a] = Final(a) \/ (a \in External /\ file[a] \in {User, base[a]})
Undone == \A a \in Artifact : Kept(a)
Done == \A a \in Artifact : IF a \in Written THEN Put(a) ELSE Kept(a)

\* Once neither a command runs nor a journal stands, the last command happened
\* to every artifact or to none, however often it and its recovery were killed
\* (a repository file may hold what the user wrote).
AllOrNothing ==
  pc = "idle" /\ ~Journalled /\ cmd # "none" => Undone \/ Done

\* The report is true: "ready" or "stopped" means every artifact is published,
\* and previous_state_preserved that every one is what it was.
ReportHonest ==
  pc = "idle" => /\ report = "done" => Done
                 /\ report = "preserved" => Undone

\* What the user wrote into a repository file since the command began (before
\* that it is what the command starts from) is kept by the command, its rollback
\* and a recovery: in the file, merged with the block of Atlas, or in the memory
\* of the process that rewrites the Codex file.  Only the truncation of config or
\* Codex file may lose it: it does not compare the text with what was read.
Held(a) == \/ file[a] \in {User, Merged}
           \/ pc = "writing" /\ a = "codex" /\ Step.of = a /\ tx.read = User
EditStays ==
  \A a \in External :
    Held(a) /\ base[a] \notin {User, Merged} /\ ~Held(a)' =>
      \/ count'.edits > count.edits
      \/ a \in Guarded /\ pc = "run" /\ pc' = "writing"

UserEditKept == [][EditStays]_vars

\* A journal does not stand for ever: it is settled, or the user changed a file
\* recovery must not touch.
Settled == ~Journalled \/ \E a \in External : ~Recognized(a)

JournalSettles == Journalled ~> Settled

\* When nothing runs, database, sidecar and index state are of one generation.
OneIndexGeneration ==
  pc = "idle" /\ refresh = 0 /\ ~Journalled =>
    file["provider"] = file["registrations"] /\ file["registrations"] = file["index"]
=============================================================================
