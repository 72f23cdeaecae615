------------------------- MODULE RefreshTransaction -------------------------
(***************************************************************************)
(* One project's index generation on disk, the processes that refresh it   *)
(* and the processes that query it (refresh_coordinator.py,                *)
(* refresh_recovery.py and the staged publication classes).                *)
(*                                                                         *)
(* A generation is four files: the Provider database, the Python           *)
(* registration sidecar, the generation manifest and the index state.  A   *)
(* refresh replaces them one at a time under an exclusive project lease    *)
(* and a journal on disk; every replacement is a step of its own here, so  *)
(* that a process can be killed, or a call can raise, between any two.     *)
(*                                                                         *)
(* Abstractions.  The content of a file is the number of the refresh that  *)
(* built it (0: the file does not exist).  A backup is a hard link, so all *)
(* backups of a file share one inode, whose content is orig[a]; a file in  *)
(* linked still is that inode.  Renaming a link over a file that is the    *)
(* same inode does nothing and leaves the link behind (POSIX rename).      *)
(* Staged files have random names; what matters of them is their kind and  *)
(* the artifact they belong to, or, once nobody knows the name of such a   *)
(* file any more (an orphan), the directory it lies in.                    *)
(***************************************************************************)
EXTENDS Naturals, FiniteSets

CONSTANTS
  Proc,         \* frontends of one project: MCP servers and CLI commands
  NoProc,       \* nobody holds the exclusive lease
  Python,       \* config.language = "python": the project has a sidecar
  SharedCache,  \* other projects keep their database in the same cache_dir
  Raising,      \* the stages in which a step may raise an exception
  Killed,       \* the stages in which a process may be killed
  MaxGen,       \* bound: no refresh starts once this generation was built
  MaxKills      \* bound: how many times processes are killed

Artifact == {"provider", "sidecar", "manifest", "state"}
Stage == {"forward", "published", "commit", "rollback", "finally", "recovery", "idle"}

ASSUME ConstantsOK ==
  /\ NoProc \notin Proc \cup Nat
  /\ Python \in BOOLEAN /\ SharedCache \in BOOLEAN
  /\ Raising \subseteq Stage /\ Killed \subseteq Stage
  /\ MaxGen \in Nat /\ MaxKills \in Nat

VARIABLES
  file,     \* file[a]: the generation artifact a holds, 0 when it is absent
  linked,   \* the artifacts that still are the inode their backups link to
  orig,     \* orig[a]: content of the inode the backups of a link to
  staging,  \* staged files on disk: <<kind, artifact>>
  journal,  \* refresh-transaction-v1.json; phase "none" when it is absent
  owner,    \* the process holding the exclusive project lease
  readers,  \* the processes holding it shared
  pc,       \* pc[p]: what p does next
  tx,       \* tx[p]: local variables of refresh() and of the journal object
  view,     \* view[p]: what p keeps in memory of the generation it serves
  nextGen,  \* the next generation to be built
  kills     \* how many processes were killed

disk == <<file, linked, orig, staging, journal>>
vars == <<disk, owner, readers, pc, tx, view, nextGen, kills>>

-----------------------------------------------------------------------------
(* The journal and the local state of a refresh.                           *)

\* Variant: the phases of a generation whose state is not yet recorded.
AcceptUnrecorded == {"manifest_published", "state_published",
                     "generation_activated", "committing"}
\* Variant: an interrupted commit would be rolled back.
AcceptUncommitted == {"state_published", "generation_activated"}

Accept == {"state_published", "generation_activated", "committing"}
Phase == {"prepared", "provider_indexed", "provider_validated",
          "candidate_ready", "sidecar_published", "manifest_published"}
            \cup Accept

NoJournal == [phase |-> "none", existed |-> {}, before |-> 0, after |-> 0]
Journalled == journal.phase # "none"

\* why: who called the journal's rollback() or commit(); named: the entries of
\* the journal object that still hold a backup name; held: the staged objects
\* whose backup is not None; sidecar, manifest: life of the staged candidates.
NoTx == [why |-> "refresh", named |-> {}, rec |-> FALSE, called |-> FALSE,
         pbackup |-> FALSE, held |-> {}, sidecar |-> "none",
         manifest |-> "none", base |-> 0, cand |-> 0,
         stateBytes |-> 0, manifestBytes |-> 0]

NoView == [idx |-> 0, svc |-> 0, deferred |-> FALSE]

Published == IF Python THEN Artifact ELSE Artifact \ {"sidecar"}
Existing == {a \in Artifact : file[a] # 0}

\* Renaming a backup of kind k over artifact a (os.replace).
RenameOver(k, a) ==
  /\ file' = [file EXCEPT ![a] = orig[a]]
  /\ staging' = IF a \in linked THEN staging ELSE staging \ {<<k, a>>}
  /\ linked' = linked \cup {a}

\* A file is replaced by a new inode holding generation g, or removed (g = 0).
Replace(a, g) ==
  /\ file' = [file EXCEPT ![a] = g]
  /\ linked' = linked \ {a}

Directory(a) == IF a = "provider" THEN "cache_dir" ELSE "data_dir"
Orphan(a) == <<"orphan", Directory(a)>>
InDirectory(d) == {e \in staging :
                     d = IF e[1] = "orphan" THEN e[2] ELSE Directory(e[2])}

\* Files of the kinds K stay on disk and nobody remembers their names.
Forget(K) ==
  {Orphan(e[2]) : e \in {f \in staging : f[1] \in K}}
    \cup {e \in staging : e[1] \notin K}

Goto(p, l) == pc' = [pc EXCEPT ![p] = l]
\* Variant: an exclusive lease that does not wait for shared holders.
FreeOfOwner == owner = NoProc
Free == owner = NoProc /\ readers = {}

Init ==
  /\ \E g \in {0, 1} :
       file = [a \in Artifact |-> IF a \in Published THEN g ELSE 0]
  /\ linked = {}
  /\ orig = [a \in Artifact |-> 0]
  /\ staging = {}
  /\ journal = NoJournal
  /\ owner = NoProc
  /\ readers = {}
  /\ pc = [p \in Proc |-> "down"]
  /\ tx = [p \in Proc |-> NoTx]
  /\ view = [p \in Proc |-> NoView]
  /\ nextGen = 2
  /\ kills = 0

-----------------------------------------------------------------------------
(* Starting a process, and queries.                                        *)

\* The registration index is loaded before the coordinator exists, without
\* the lease, and only when it matches the source.
Boot(p) ==
  /\ pc[p] = "down"
  /\ Goto(p, "construct")
  /\ \E s \in {0, file["sidecar"]} :
       view' = [view EXCEPT ![p] = [idx |-> 0, svc |-> s, deferred |-> FALSE]]
  /\ UNCHANGED <<disk, owner, readers, tx, nextGen, kills>>

\* Variant: a constructor that recovers while another process holds the lease.
ConstructUnleased(p) ==
  /\ pc[p] = "construct"
  /\ tx' = [tx EXCEPT ![p] = [NoTx EXCEPT !.why = "start"]]
  /\ Goto(p, "recover")
  /\ UNCHANGED <<disk, owner, readers, view, nextGen, kills>>

Construct(p) ==
  /\ pc[p] = "construct"
  /\ IF Free
     THEN /\ owner' = p
          /\ tx' = [tx EXCEPT ![p] = [NoTx EXCEPT !.why = "start"]]
          /\ Goto(p, "recover")
          /\ UNCHANGED view
     ELSE /\ view' = [view EXCEPT ![p].deferred = TRUE]
          /\ Goto(p, "idle")
          /\ UNCHANGED <<owner, tx>>
  /\ UNCHANGED <<disk, readers, nextGen, kills>>

\* acquire_shared polls until no process holds the lease exclusively.
QueryBegin(p) ==
  /\ pc[p] = "idle"
  /\ owner = NoProc
  /\ readers' = readers \cup {p}
  /\ Goto(p, "bind")
  /\ UNCHANGED <<disk, owner, tx, view, nextGen, kills>>

\* Variant: the new id with the registration index of the old generation.
ActivatedKeepingIndex(p, g) == [view[p] EXCEPT !.idx = g]

\* _replace_status: bind the memory of p to generation g.
Activated(p, g) ==
  [view[p] EXCEPT !.idx = g, !.svc = IF Python THEN file["sidecar"] ELSE 0]

\* A journal refuses the query; so does a registration index that does not
\* match the edited source, when the manifest is new to p.
QueryRefused(p) ==
  /\ pc[p] = "bind"
  /\ \/ Journalled
     \/ Python /\ file["manifest"] \notin {0, view[p].idx}
  /\ readers' = readers \ {p}
  /\ Goto(p, "idle")
  /\ UNCHANGED <<disk, owner, tx, view, nextGen, kills>>

\* Variant: a query that does not look for a journal.
QueryBindUnchecked(p) ==
  /\ pc[p] = "bind"
  /\ view' = IF file["manifest"] \in {0, view[p].idx} THEN view
             ELSE [view EXCEPT ![p] = Activated(p, file["manifest"])]
  /\ Goto(p, "querying")
  /\ UNCHANGED <<disk, owner, readers, tx, nextGen, kills>>

\* Variant: a query that trusts the generation it has in memory.
QueryBindCached(p) ==
  /\ pc[p] = "bind"
  /\ ~Journalled
  /\ Goto(p, "querying")
  /\ UNCHANGED <<disk, owner, readers, tx, view, nextGen, kills>>

QueryBind(p) ==
  /\ pc[p] = "bind"
  /\ ~Journalled
  /\ IF file["manifest"] \notin {0, view[p].idx}
     THEN view' = [view EXCEPT ![p] = Activated(p, file["manifest"])]
     ELSE UNCHANGED view
  /\ Goto(p, "querying")
  /\ UNCHANGED <<disk, owner, readers, tx, nextGen, kills>>

QueryEnd(p) ==
  /\ pc[p] = "querying"
  /\ readers' = readers \ {p}
  /\ Goto(p, "idle")
  /\ UNCHANGED <<disk, owner, tx, view, nextGen, kills>>

-----------------------------------------------------------------------------
(* Recovery: recover_refresh_transaction, and the journal's rollback() and *)
(* commit(), which a refresh calls too (tx[p].why says who did).           *)

Recover(p) ==
  /\ pc[p] = "recover"
  /\ tx' = [tx EXCEPT ![p].named = journal.existed]
  /\ Goto(p, IF ~Journalled THEN "cleanup"
             ELSE IF journal.phase \in Accept THEN "discard" ELSE "undo_state")
  /\ UNCHANGED <<disk, owner, readers, view, nextGen, kills>>

UndoOf == [undo_state |-> "state", undo_manifest |-> "manifest",
           undo_sidecar |-> "sidecar", undo_provider |-> "provider"]
AfterUndo == [undo_state |-> "undo_manifest", undo_manifest |-> "undo_sidecar",
              undo_sidecar |-> "undo_provider", undo_provider |-> "discard"]

\* _restore raises when the entry no longer names a backup that exists.
Restorable(p, a) == a \in tx[p].named /\ <<"recovery", a>> \in staging

UndoOne(p) ==
  /\ pc[p] \in DOMAIN UndoOf
  /\ LET a == UndoOf[pc[p]] IN
       /\ IF a \in journal.existed
          THEN /\ Restorable(p, a)
               /\ RenameOver("recovery", a)
          ELSE Replace(a, 0) /\ UNCHANGED staging
       /\ tx' = [tx EXCEPT ![p].named = @ \ {a}]
  /\ Goto(p, AfterUndo[pc[p]])
  /\ UNCHANGED <<orig, journal, owner, readers, view, nextGen, kills>>

\* commit() goes through the entries in the order begin() wrote them.
DiscardRank == [provider |-> 1, sidecar |-> 2, manifest |-> 3, state |-> 4]
DiscardFirst(S) == CHOOSE a \in S : \A b \in S : DiscardRank[a] <= DiscardRank[b]

DiscardOne(p) ==
  /\ pc[p] = "discard"
  /\ tx[p].named # {}
  /\ LET a == DiscardFirst(tx[p].named) IN
       /\ staging' = staging \ {<<"recovery", a>>}
       /\ tx' = [tx EXCEPT ![p].named = @ \ {a}]
  /\ UNCHANGED <<file, linked, orig, journal, owner, readers, pc, view,
                 nextGen, kills>>

\* The last act of commit().  Links left behind by a rename are orphans now.
UnlinkJournal(p) ==
  /\ pc[p] = "discard"
  /\ tx[p].named = {}
  /\ journal' = NoJournal
  /\ staging' = Forget({"recovery"})
  /\ tx' = [tx EXCEPT ![p].rec = FALSE]
  /\ Goto(p, CASE tx[p].why = "commit" -> "finally"
               [] tx[p].why = "rollback" -> "fail_status"
               [] OTHER -> "cleanup")
  /\ UNCHANGED <<file, linked, orig, owner, readers, view, nextGen, kills>>

\* _cleanup_owned_stage_files goes by prefix: it removes every staged file it
\* finds in the data directory, then in the cache directory, whoever made it.
CleanupData(p) ==
  /\ pc[p] = "cleanup"
  /\ staging' = InDirectory("cache_dir")
  /\ Goto(p, "cleanup_cache")
  /\ UNCHANGED <<file, linked, orig, journal, owner, readers, tx, view,
                 nextGen, kills>>

CleanupCache(p) ==
  /\ pc[p] = "cleanup_cache"
  /\ staging' = InDirectory("data_dir")
  /\ view' = [view EXCEPT ![p].deferred = FALSE]
  /\ IF tx[p].why = "start"
     THEN owner' = NoProc /\ Goto(p, "idle")
     ELSE UNCHANGED owner /\ Goto(p, "plan")
  /\ UNCHANGED <<file, linked, orig, journal, readers, tx, nextGen, kills>>

\* A coordinator of another project recovers under its own project's lease
\* and cleans the cache directory it shares with this one.
ForeignCleanup ==
  /\ SharedCache
  /\ InDirectory("cache_dir") # {}
  /\ staging' = InDirectory("data_dir")
  /\ UNCHANGED <<file, linked, orig, journal, owner, readers, pc, tx, view,
                 nextGen, kills>>

-----------------------------------------------------------------------------
(* refresh(), up to the last commit.                                       *)

\* A busy lease returns refresh_owned_elsewhere and changes nothing.
RefreshStart(p) ==
  /\ pc[p] = "idle"
  /\ Free
  /\ nextGen <= MaxGen
  /\ owner' = p
  /\ tx' = [tx EXCEPT ![p] = NoTx]
  /\ Goto(p, IF view[p].deferred \/ Journalled THEN "recover" ELSE "plan")
  /\ UNCHANGED <<disk, readers, view, nextGen, kills>>

\* Nothing to do: the memory of p may still be behind the manifest, or not fresh.
PlanNoop(p) ==
  /\ pc[p] = "plan"
  /\ file["manifest"] # 0
  /\ \/ view' = [view EXCEPT ![p] = Activated(p, file["manifest"])]
     \/ view[p].idx = file["manifest"] /\ UNCHANGED view
  /\ tx' = [tx EXCEPT ![p].base = file["manifest"]]
  /\ Goto(p, "finally")
  /\ UNCHANGED <<disk, owner, readers, nextGen, kills>>

PlanRefresh(p) ==
  /\ pc[p] = "plan"
  /\ tx' = [tx EXCEPT ![p].base = file["manifest"]]
  /\ Goto(p, IF Python THEN "stage" ELSE "link")
  /\ UNCHANGED <<disk, owner, readers, view, nextGen, kills>>

StageRegistration(p) ==
  /\ pc[p] = "stage"
  /\ staging' = staging \cup {<<"candidate", "sidecar">>}
  /\ tx' = [tx EXCEPT ![p].sidecar = "staged"]
  /\ Goto(p, "link")
  /\ UNCHANGED <<file, linked, orig, journal, owner, readers, view,
                 nextGen, kills>>

\* The bytes of state and manifest are read, then begin() links every file.
LinkBackups(p) ==
  /\ pc[p] = "link"
  /\ orig' = file
  /\ linked' = Existing
  /\ staging' = staging \cup {<<"recovery", a>> : a \in Existing}
  /\ tx' = [tx EXCEPT ![p].stateBytes = file["state"],
                      ![p].manifestBytes = file["manifest"]]
  /\ Goto(p, "journal")
  /\ UNCHANGED <<file, journal, owner, readers, view, nextGen, kills>>

WriteJournal(p) ==
  /\ pc[p] = "journal"
  /\ journal' = [phase |-> "prepared", existed |-> Existing,
                 before |-> tx[p].base, after |-> 0]
  /\ tx' = [tx EXCEPT ![p].rec = TRUE, ![p].named = Existing]
  /\ Goto(p, "backup")
  /\ UNCHANGED <<file, linked, orig, staging, owner, readers, view,
                 nextGen, kills>>

\* ProviderDatabaseBackup.create, and the machine-wide Provider write lock.
BackupProvider(p) ==
  /\ pc[p] = "backup"
  /\ IF file["provider"] = 0
     THEN tx' = [tx EXCEPT ![p].pbackup = TRUE] /\ UNCHANGED staging
     ELSE /\ tx' = [tx EXCEPT ![p].pbackup = TRUE,
                              ![p].held = @ \cup {"provider"}]
          /\ staging' = staging \cup {<<"backup", "provider">>}
  /\ Goto(p, "admit")
  /\ UNCHANGED <<file, linked, orig, journal, owner, readers, view,
                 nextGen, kills>>

AdmitProvider(p) ==
  /\ pc[p] = "admit"
  /\ tx' = [tx EXCEPT ![p].called = TRUE]
  /\ Goto(p, "call")
  /\ UNCHANGED <<disk, owner, readers, view, nextGen, kills>>

\* The Provider publishes the rebuilt database by replacing the file.  Its
\* answer may still be lost or refused (Raise at the next step).
CallProvider(p) ==
  /\ pc[p] = "call"
  /\ Replace("provider", nextGen)
  /\ tx' = [tx EXCEPT ![p].cand = nextGen]
  /\ nextGen' = nextGen + 1
  /\ Goto(p, "adv_indexed")
  /\ UNCHANGED <<orig, staging, journal, owner, readers, view, kills>>

\* Variant: a phase that is none of REFRESH_PHASES.
PhaseOfUnsupported == [l \in {"adv_indexed", "adv_validated", "adv_candidate",
                              "adv_sidecar", "adv_manifest", "adv_state",
                              "adv_activated", "adv_committing"} |-> "indexed"]
PhaseOf == [adv_indexed |-> "provider_indexed",
            adv_validated |-> "provider_validated",
            adv_candidate |-> "candidate_ready",
            adv_sidecar |-> "sidecar_published",
            adv_manifest |-> "manifest_published",
            adv_state |-> "state_published",
            adv_activated |-> "generation_activated",
            adv_committing |-> "committing"]
AfterAdvance == [adv_indexed |-> "adv_validated",
                 adv_validated |-> "adv_candidate",
                 adv_candidate |-> "stage_manifest",
                 adv_sidecar |-> "pub_manifest",
                 adv_manifest |-> "rec_state",
                 adv_state |-> "activate",
                 adv_activated |-> "adv_committing",
                 adv_committing |-> "commit_staged"]

\* advance(), set_candidate() and mark_state_published(): the journal is
\* rewritten in place of the old one.
Advance(p) ==
  /\ pc[p] \in DOMAIN PhaseOf
  /\ journal' = [journal EXCEPT
                   !.phase = PhaseOf[pc[p]],
                   !.after = IF pc[p] = "adv_candidate" THEN tx[p].cand ELSE @]
  /\ Goto(p, AfterAdvance[pc[p]])
  /\ UNCHANGED <<file, linked, orig, staging, owner, readers, tx, view,
                 nextGen, kills>>

StageManifest(p) ==
  /\ pc[p] = "stage_manifest"
  /\ staging' = staging \cup {<<"candidate", "manifest">>}
  /\ tx' = [tx EXCEPT ![p].manifest = "staged"]
  /\ Goto(p, IF Python THEN "pub_sidecar" ELSE "pub_manifest")
  /\ UNCHANGED <<file, linked, orig, journal, owner, readers, view,
                 nextGen, kills>>

\* publish() links the old file to a backup, then renames the candidate over it.
PublishStaged(p, a) ==
  /\ Replace(a, tx[p].cand)
  /\ staging' = (staging \ {<<"candidate", a>>})
                  \cup {<<"backup", b>> : b \in Existing \cap {a}}
  /\ UNCHANGED <<orig, journal, owner, readers, view, nextGen, kills>>

PublishSidecar(p) ==
  /\ pc[p] = "pub_sidecar"
  /\ PublishStaged(p, "sidecar")
  /\ tx' = [tx EXCEPT ![p].sidecar = "published",
                      ![p].held = @ \cup (Existing \cap {"sidecar"})]
  /\ Goto(p, "adv_sidecar")

PublishManifest(p) ==
  /\ pc[p] = "pub_manifest"
  /\ PublishStaged(p, "manifest")
  /\ tx' = [tx EXCEPT ![p].manifest = "published",
                      ![p].held = @ \cup (Existing \cap {"manifest"})]
  /\ Goto(p, "adv_manifest")

RecordState(p) ==
  /\ pc[p] = "rec_state"
  /\ Replace("state", tx[p].cand)
  /\ Goto(p, "adv_state")
  /\ UNCHANGED <<orig, staging, journal, owner, readers, tx, view,
                 nextGen, kills>>

Activate(p) ==
  /\ pc[p] = "activate"
  /\ view' = [view EXCEPT ![p] = Activated(p, tx[p].cand)]
  /\ Goto(p, "adv_activated")
  /\ UNCHANGED <<disk, owner, readers, tx, nextGen, kills>>

\* The commits of the staged objects swallow an OSError and keep the backup.
CommitStaged(p) ==
  /\ pc[p] = "commit_staged"
  /\ \E keep \in SUBSET tx[p].held :
       /\ "commit" \in Raising \/ keep = {}
       /\ staging' = staging \ {<<"backup", a>> : a \in tx[p].held \ keep}
       /\ tx' = [tx EXCEPT ![p].held = keep, ![p].why = "commit"]
  /\ Goto(p, "discard")
  /\ UNCHANGED <<file, linked, orig, journal, owner, readers, view,
                 nextGen, kills>>

-----------------------------------------------------------------------------
(* The except and finally blocks of refresh().                             *)

\* Variant: the guarded actions start over before the Provider is restored.
AfterFailRepeating ==
  [fail_manifest |-> "fail_sidecar", fail_sidecar |-> "fail_state",
   fail_state |-> "fail_bytes", fail_bytes |-> "fail_manifest",
   fail_status |-> "finally"]
AfterFail == [fail_manifest |-> "fail_sidecar", fail_sidecar |-> "fail_state",
              fail_state |-> "fail_bytes", fail_bytes |-> "fail_provider",
              fail_status |-> "finally"]

\* rollback() of a staged object whose candidate was published: put the backup
\* back, or remove the file when there was (or is) no backup.
Unpublish(p, a) ==
  IF a \in tx[p].held
  THEN <<"backup", a>> \in staging /\ RenameOver("backup", a)
  ELSE Replace(a, 0) /\ UNCHANGED staging

FailManifest(p) ==
  /\ pc[p] = "fail_manifest"
  /\ IF tx[p].manifest = "published"
     THEN Unpublish(p, "manifest")
     ELSE /\ staging' = staging \ {<<"candidate", "manifest">>}
          /\ UNCHANGED <<file, linked>>
  /\ tx' = [tx EXCEPT ![p].manifest = "none", ![p].held = @ \ {"manifest"}]
  /\ Goto(p, AfterFail[pc[p]])
  /\ UNCHANGED <<orig, journal, owner, readers, view, nextGen, kills>>

\* The sidecar is only unpublished while it is the inode that was published.
FailSidecar(p) ==
  /\ pc[p] = "fail_sidecar"
  /\ IF tx[p].sidecar = "published"
     THEN /\ file["sidecar"] = tx[p].cand
          /\ Unpublish(p, "sidecar")
     ELSE /\ staging' = staging \ {<<"candidate", "sidecar">>}
          /\ UNCHANGED <<file, linked>>
  /\ tx' = [tx EXCEPT ![p].sidecar = "none", ![p].held = @ \ {"sidecar"}]
  /\ Goto(p, AfterFail[pc[p]])
  /\ UNCHANGED <<orig, journal, owner, readers, view, nextGen, kills>>

\* _restore_file writes a new inode with the bytes that were read.
FailState(p) ==
  /\ pc[p] = "fail_state"
  /\ IF tx[p].called
     THEN Replace("state", tx[p].stateBytes)
     ELSE UNCHANGED <<file, linked>>
  /\ Goto(p, AfterFail[pc[p]])
  /\ UNCHANGED <<orig, staging, journal, owner, readers, tx, view,
                 nextGen, kills>>

FailBytes(p) ==
  /\ pc[p] = "fail_bytes"
  /\ IF tx[p].manifestBytes # 0
     THEN Replace("manifest", tx[p].manifestBytes)
     ELSE UNCHANGED <<file, linked>>
  /\ Goto(p, AfterFail[pc[p]])
  /\ UNCHANGED <<orig, staging, journal, owner, readers, tx, view,
                 nextGen, kills>>

\* What follows the guarded actions: the journal's rollback(), if there is one.
ToJournalRollback(p) == Goto(p, IF tx[p].rec THEN "undo_state" ELSE "fail_status")

\* The Provider backup restores what it saved.  When the call never replaced
\* the database the rename does nothing and its link becomes an orphan.
FailProvider(p) ==
  /\ pc[p] = "fail_provider"
  /\ IF tx[p].pbackup /\ tx[p].called
     THEN IF "provider" \in journal.existed
          THEN /\ "provider" \in tx[p].held
               /\ <<"backup", "provider">> \in staging
               /\ file' = [file EXCEPT !["provider"] = orig["provider"]]
               /\ staging' = (staging \ {<<"backup", "provider">>})
                    \cup {Orphan(a) : a \in linked \cap {"provider"}}
               /\ linked' = linked \cup {"provider"}
               /\ tx' = [tx EXCEPT ![p].why = "rollback",
                                   ![p].held = @ \ {"provider"}]
          ELSE /\ Replace("provider", 0)
               /\ tx' = [tx EXCEPT ![p].why = "rollback"]
               /\ UNCHANGED staging
     ELSE /\ tx' = [tx EXCEPT ![p].why = "rollback"]
          /\ UNCHANGED <<file, linked, staging>>
  /\ ToJournalRollback(p)
  /\ UNCHANGED <<orig, journal, owner, readers, view, nextGen, kills>>

\* _replace_failure_status: the registration index in memory is left alone.
FailStatus(p) ==
  /\ pc[p] = "fail_status"
  /\ view' = [view EXCEPT ![p].idx = tx[p].base]
  /\ Goto(p, "finally")
  /\ UNCHANGED <<disk, owner, readers, tx, nextGen, kills>>

\* close() the staged objects, drop the Provider backup, release the lease: the
\* commits among them only report an error.
Finally(p) ==
  /\ pc[p] = "finally"
  /\ staging' = {e \in staging :
                   /\ e[1] # "candidate"
                   /\ ~(e[1] = "backup" /\ e[2] \in tx[p].held)}
  /\ owner' = NoProc
  /\ tx' = [tx EXCEPT ![p] = NoTx]
  /\ Goto(p, "idle")
  /\ UNCHANGED <<file, linked, orig, journal, readers, view, nextGen, kills>>

-----------------------------------------------------------------------------
(* Exceptions and kills.                                                   *)

FailPc == {"fail_manifest", "fail_sidecar", "fail_state", "fail_bytes",
           "fail_provider"}
ForwardPc == {"plan", "stage", "link", "journal", "backup", "admit", "call",
              "adv_indexed", "adv_validated", "adv_candidate",
              "stage_manifest", "pub_sidecar", "adv_sidecar", "pub_manifest",
              "adv_manifest", "rec_state", "adv_state"}
PublishedPc == {"activate", "adv_activated", "adv_committing"}
SharedPc == DOMAIN UndoOf \cup {"discard"}
RecoveryPc == {"recover", "cleanup", "cleanup_cache"}
OwnerPc == ForwardPc \cup PublishedPc \cup FailPc \cup SharedPc \cup RecoveryPc
             \cup {"commit_staged", "fail_status", "finally", "stuck"}
Pc == OwnerPc \cup {"down", "construct", "idle", "bind", "querying"}

\* The stage p is in, which decides whether it may be hit.
StageOf(p) ==
  IF pc[p] \in ForwardPc \cup {"finally", "stuck"} THEN "forward"
  ELSE IF pc[p] \in PublishedPc THEN "published"
  ELSE IF pc[p] = "commit_staged" THEN "commit"
  ELSE IF pc[p] \in FailPc \cup {"fail_status"} THEN "rollback"
  ELSE IF pc[p] \in RecoveryPc THEN "recovery"
  ELSE IF pc[p] \notin SharedPc THEN "idle"
  ELSE IF tx[p].why \in {"commit", "rollback"} THEN tx[p].why ELSE "recovery"

\* An exception inside try: to the except block.  The links begin() made are
\* discarded if linking fails and forgotten if writing the journal fails.
RaiseForward(p) ==
  /\ \/ pc[p] \in ForwardPc \cup PublishedPc
     \/ pc[p] = "discard" /\ tx[p].why = "commit"
  /\ StageOf(p) \in Raising
  /\ staging' = IF pc[p] = "journal" THEN Forget({"recovery"}) ELSE staging
  /\ Goto(p, "fail_manifest")
  /\ UNCHANGED <<file, linked, orig, journal, owner, readers, tx, view,
                 nextGen, kills>>

\* The action that restores the Provider cannot but raise when its backup is gone.
Unrecoverable(p) ==
  /\ pc[p] = "fail_provider" /\ tx[p].pbackup /\ tx[p].called
  /\ "provider" \in journal.existed
  /\ ~("provider" \in tx[p].held /\ <<"backup", "provider">> \in staging)

\* Every action of the except block is guarded: an error moves on to the next.
\* One while the status is read leaves the block; finally runs all the same.
RaiseRollbackAction(p) ==
  /\ pc[p] \in FailPc \cup {"fail_status"}
  /\ "rollback" \in Raising \/ Unrecoverable(p)
  /\ IF pc[p] = "fail_provider"
     THEN ToJournalRollback(p) /\ tx' = [tx EXCEPT ![p].why = "rollback"]
     ELSE Goto(p, AfterFail[pc[p]]) /\ UNCHANGED tx
  /\ UNCHANGED <<disk, owner, readers, view, nextGen, kills>>

\* The journal's rollback() or commit() raises, or the cleanup does.  The
\* constructor passes the exception on and its process ends.
RaiseRecovery(p) ==
  /\ pc[p] \in SharedPc \cup RecoveryPc
  /\ StageOf(p) \in {"rollback", "recovery"}
  /\ \/ StageOf(p) \in Raising
     \/ /\ pc[p] \in DOMAIN UndoOf
        /\ UndoOf[pc[p]] \in journal.existed
        /\ ~Restorable(p, UndoOf[pc[p]])
  /\ IF tx[p].why = "start"
     THEN /\ owner' = NoProc
          /\ tx' = [tx EXCEPT ![p] = NoTx]
          /\ view' = [view EXCEPT ![p] = NoView]
          /\ Goto(p, "down")
     ELSE Goto(p, "fail_status") /\ UNCHANGED <<owner, tx, view>>
  /\ UNCHANGED <<disk, readers, nextGen, kills>>

\* A staged file that the except block could not unlink is unlinked again by
\* close(); when that raises too, refresh() ends before it releases the lease.
\* The process is stuck: its lease and its refresh lock stay until it is gone.
RaiseFinally(p) ==
  /\ pc[p] = "finally" /\ "finally" \in Raising
  /\ "staged" \in {tx[p].sidecar, tx[p].manifest}
  /\ staging' = Forget({"candidate", "backup"})
  /\ tx' = [tx EXCEPT ![p] = NoTx]
  /\ Goto(p, "stuck")
  /\ UNCHANGED <<file, linked, orig, journal, owner, readers, view, nextGen, kills>>

\* The operating system releases the leases of a killed process.
Kill(p) ==
  /\ pc[p] # "down"
  /\ StageOf(p) \in Killed
  /\ kills < MaxKills
  /\ kills' = kills + 1
  /\ Goto(p, "down")
  /\ tx' = [tx EXCEPT ![p] = NoTx]
  /\ view' = [view EXCEPT ![p] = NoView]
  /\ readers' = readers \ {p}
  /\ IF owner = p
     THEN /\ owner' = NoProc
          /\ staging' = Forget(IF Journalled THEN {"candidate", "backup"}
                               ELSE {"candidate", "backup", "recovery"})
     ELSE UNCHANGED <<owner, staging>>
  /\ UNCHANGED <<file, linked, orig, journal, nextGen>>

RefreshStep(p) ==
  \/ PlanNoop(p) \/ PlanRefresh(p) \/ StageRegistration(p) \/ LinkBackups(p)
  \/ WriteJournal(p) \/ BackupProvider(p) \/ AdmitProvider(p)
  \/ CallProvider(p) \/ Advance(p) \/ StageManifest(p) \/ PublishSidecar(p)
  \/ PublishManifest(p) \/ RecordState(p) \/ Activate(p) \/ CommitStaged(p)
RecoveryStep(p) ==
  \/ Recover(p) \/ UndoOne(p) \/ DiscardOne(p) \/ UnlinkJournal(p)
  \/ CleanupData(p) \/ CleanupCache(p)
FailureStep(p) ==
  \/ FailManifest(p) \/ FailSidecar(p) \/ FailState(p) \/ FailBytes(p)
  \/ FailProvider(p) \/ FailStatus(p) \/ Finally(p)
RaiseStep(p) ==
  \/ RaiseForward(p) \/ RaiseRollbackAction(p) \/ RaiseRecovery(p) \/ RaiseFinally(p)
QueryStep(p) == QueryRefused(p) \/ QueryBind(p) \/ QueryEnd(p)

\* What a process does without being asked to.
Continue(p) == RefreshStep(p) \/ RecoveryStep(p) \/ FailureStep(p)
                 \/ RaiseStep(p) \/ QueryStep(p) \/ Construct(p)

Next ==
  \/ \E p \in Proc : Continue(p) \/ Boot(p) \/ QueryBegin(p) \/ RefreshStart(p)
                       \/ Kill(p)
  \/ ForeignCleanup

Spec == Init /\ [][Next]_vars

\* A process that is running keeps running; nobody has to start one.
FairSpec == Spec /\ \A p \in Proc : WF_vars(Continue(p))

-----------------------------------------------------------------------------
(* Properties.                                                             *)

StagingType == ({"candidate", "backup", "recovery"} \X Artifact)
                 \cup ({"orphan"} \X {"data_dir", "cache_dir"})
JournalType == [phase : Phase \cup {"none"}, existed : SUBSET Artifact,
                before : Nat, after : Nat]
TxType == [why : {"start", "refresh", "commit", "rollback"},
           named : SUBSET Artifact, rec : BOOLEAN, called : BOOLEAN,
           pbackup : BOOLEAN, held : SUBSET Artifact,
           sidecar : {"none", "staged", "published"},
           manifest : {"none", "staged", "published"},
           base : Nat, cand : Nat, stateBytes : Nat, manifestBytes : Nat]
ViewType == [idx : Nat, svc : Nat, deferred : BOOLEAN]

\* The type of every variable.  The phase of a journal is one of REFRESH_PHASES,
\* which recovery insists on, and no process leaves the known locations.
TypeOK ==
  /\ file \in [Artifact -> Nat] /\ orig \in [Artifact -> Nat]
  /\ linked \subseteq Artifact
  /\ staging \subseteq StagingType
  /\ journal \in JournalType
  /\ owner \in Proc \cup {NoProc}
  /\ readers \subseteq Proc
  /\ pc \in [Proc -> Pc]
  /\ tx \in [Proc -> TxType]
  /\ view \in [Proc -> ViewType]
  /\ nextGen \in Nat /\ kills \in Nat

\* All published artifacts hold the same generation.
Uniform == \A a, b \in Published : file[a] = file[b]

\* Whenever no journal is on disk the Provider database, the sidecar, the
\* manifest and the state belong to one generation: there is no moment at which
\* a mixed index could pass for a published one.
PublishedUniform == ~Journalled => Uniform

\* A query that was admitted reads one generation, and the generation id in its
\* status is the one on disk.
SnapshotBound ==
  \A p \in Proc : pc[p] = "querying" =>
     Uniform /\ view[p].idx = file["manifest"]

\* The registration index a process answers from is never that of another
\* generation than the one its status names.
RegistrationBound ==
  \A p \in Proc : (pc[p] = "querying" /\ view[p].idx # 0) =>
     view[p].svc \in {0, view[p].idx}

\* While nobody works on it, a journal that will be rolled back finds each
\* backup it names: the interrupted refresh can be undone.
RecoverableAtRest ==
  (owner = NoProc /\ Journalled /\ journal.phase \notin Accept) =>
     \A a \in journal.existed : <<"recovery", a>> \in staging

\* Nothing but its own refresh removes the backup of the Provider database a
\* live refresh holds, nor its staged sidecar.
LiveStagingSurvives ==
  \A p \in Proc :
    /\ "provider" \in tx[p].held => <<"backup", "provider">> \in staging
    /\ tx[p].sidecar = "staged" /\ pc[p] # "down" =>
         <<"candidate", "sidecar">> \in staging

\* No step replaces a file, or leaves a journal, while a query is running on it:
\* what a query reads late belongs to what it read early.
QueryReadsFrozenFiles ==
  [][(\E p \in Proc : pc[p] = "querying")
       => UNCHANGED <<file, journal>>]_vars

\* The files and the journal implement the abstract generation store.  While a
\* refresh is unsettled its journal says what was published; a mixed set of
\* files is no generation at all.
PublishedGeneration ==
  IF Journalled THEN journal.before
  ELSE IF Uniform THEN file["manifest"] ELSE NoProc

Store == INSTANCE GenerationStore WITH
           gen <- PublishedGeneration,
           open <- ~Journalled,
           bound <- [p \in Proc |-> IF pc[p] = "querying" THEN view[p].idx
                                                         ELSE NoProc],
           Unbound <- NoProc

\* A generation is replaced whole, by a later one, and never under a query.
ImplementsStore == Store!Spec

\* The lease a refresh or a recovery takes is given back, whatever its commit,
\* its rollback, the recovery and their cleanups raise, by all but a refresh
\* whose staged file could not be unlinked twice.
LeaseReleased == \A p \in Proc : (owner = p) ~> (owner # p \/ pc[p] = "stuck")
=============================================================================
