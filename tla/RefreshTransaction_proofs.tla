---------------------- MODULE RefreshTransaction_proofs ----------------------
(***************************************************************************)
(* Theorems about RefreshTransaction, for any number of processes and      *)
(* refreshes, any set of stages in which steps raise or processes are      *)
(* killed, and any number of kills.                                        *)
(*                                                                         *)
(* TypeCorrect comes first.  LeaseInv says that the lease has one holder   *)
(* and excludes readers; with it, a step of one process cannot disturb     *)
(* what another relies on.  JournalInv says what the journal means for the *)
(* files, and ProcessInv what a process knows where it is; together they   *)
(* are inductive (GenerationInv) and give OneGeneration.  SnapshotInv adds *)
(* what binds a query to the generation on disk.                           *)
(*                                                                         *)
(* None of these says which of two generations is the later one, nor that  *)
(* the generation a journal names is the one its backups hold.  OrderInv   *)
(* does, and with it the files, the journal and the queries implement      *)
(* GenerationStore, when nothing raises after the state is published       *)
(* (NoLateRaise).  RegistrationsInv adds what registrations a process has  *)
(* in memory, when nothing raises in a refresh (NoRefreshRaise).           *)
(*                                                                         *)
(* Last, what the staged files of a refresh are worth: while it runs       *)
(* nobody takes them from it, and once it was interrupted the backups its  *)
(* journal names are all there.  Both need a cache directory no other      *)
(* project cleans (~SharedCache): a foreign cleanup removes the Provider's *)
(* backup of this project too.                                             *)
(***************************************************************************)
EXTENDS RefreshTransaction, TLAPS

(* Type correctness, by groups of actions.                                 *)

USE DEF disk, vars

\* The control locations, written out once.
LEMMA PcLocations ==
  /\ Pc = {"plan", "stage", "link", "journal", "backup", "admit", "call",
           "adv_indexed", "adv_validated", "adv_candidate", "stage_manifest",
           "pub_sidecar", "adv_sidecar", "pub_manifest", "adv_manifest",
           "rec_state", "adv_state", "activate", "adv_activated",
           "adv_committing", "fail_manifest", "fail_sidecar", "fail_state",
           "fail_bytes", "fail_provider", "undo_state", "undo_manifest",
           "undo_sidecar", "undo_provider", "discard", "recover", "cleanup",
           "cleanup_cache", "commit_staged", "fail_status", "finally", "stuck",
           "down", "construct", "idle", "bind", "querying"}
  /\ DOMAIN UndoOf = {"undo_state", "undo_manifest", "undo_sidecar",
                      "undo_provider"}
  /\ DOMAIN PhaseOf = {"adv_indexed", "adv_validated", "adv_candidate",
                       "adv_sidecar", "adv_manifest", "adv_state",
                       "adv_activated", "adv_committing"}
BY DEF Pc, OwnerPc, ForwardPc, PublishedPc, FailPc, SharedPc, RecoveryPc,
       UndoOf, PhaseOf

\* The local variables no refresh uses are well typed.
LEMMA NoTxType == NoTx \in TxType
BY DEF NoTx, TxType

\* So is the memory of a process that serves no generation yet.
LEMMA NoViewType == NoView \in ViewType
BY DEF NoView, ViewType

\* Types hold initially.
LEMMA InitType == Init => TypeOK
<1>1. NoJournal \in JournalType
  BY DEF NoJournal, JournalType
<1>2. ASSUME Init PROVE pc \in [Proc -> Pc]
  BY <1>2, PcLocations DEF Init
<1> QED
  BY <1>1, <1>2, NoTxType, NoViewType DEF TypeOK, Init, Artifact

\* Booting keeps the types.
LEMMA BootType ==
  ASSUME TypeOK, NEW p \in Proc, Boot(p) PROVE TypeOK'
BY PcLocations DEF TypeOK, Boot, Goto, ViewType, Artifact

\* The steps of a query keep the types.
LEMMA QueryType ==
  ASSUME TypeOK, NEW p \in Proc,
         QueryBegin(p) \/ QueryRefused(p) \/ QueryBind(p) \/ QueryEnd(p)
  PROVE  TypeOK'
<1>1. CASE QueryBegin(p)
  BY <1>1, PcLocations DEF TypeOK, QueryBegin, Goto
<1>2. CASE QueryRefused(p)
  BY <1>2, PcLocations DEF TypeOK, QueryRefused, Goto
<1>3. CASE QueryBind(p)
  <2>1. Activated(p, file["manifest"]) \in ViewType
    BY DEF TypeOK, Activated, ViewType, Artifact
  <2> QED
    BY <1>3, <2>1, PcLocations DEF TypeOK, QueryBind, Goto
<1>4. CASE QueryEnd(p)
  BY <1>4, PcLocations DEF TypeOK, QueryEnd, Goto
<1> QED
  BY <1>1, <1>2, <1>3, <1>4

\* Every kind of staged file is one TypeOK knows.
LEMMA StagingTypes ==
  ASSUME NEW a \in Artifact
  PROVE  /\ <<"candidate", a>> \in StagingType
         /\ <<"backup", a>> \in StagingType
         /\ <<"recovery", a>> \in StagingType
         /\ Orphan(a) \in StagingType
BY DEF StagingType, Orphan, Directory

\* So are the orphans that staged files become.
LEMMA ForgetType ==
  ASSUME staging \subseteq StagingType, NEW K
  PROVE  Forget(K) \subseteq StagingType
BY DEF Forget, StagingType, Orphan, Directory

\* The steps of recovery keep the types.
LEMMA RecoveryType ==
  ASSUME TypeOK, NEW p \in Proc, RecoveryStep(p)
  PROVE  TypeOK'
<1>1. CASE Recover(p)
  <2>1. [tx[p] EXCEPT !.named = journal.existed] \in TxType
    BY SMTT(20) DEF TypeOK, TxType, JournalType
  <2> QED
    BY <1>1, <2>1, PcLocations DEF TypeOK, Recover, Goto
<1>2. CASE UndoOne(p)
  <2>1. UndoOf[pc[p]] \in Artifact /\ AfterUndo[pc[p]] \in Pc
    BY <1>2, PcLocations DEF UndoOne, UndoOf, AfterUndo, Artifact
  <2>2. file' \in [Artifact -> Nat] /\ linked' \subseteq Artifact
        /\ staging' \subseteq StagingType
    <3> DEFINE a == UndoOf[pc[p]]
    <3>1. a \in Artifact
      BY <2>1
    <3>2. RenameOver("recovery", a) \/ (Replace(a, 0) /\ UNCHANGED staging)
      BY <1>2 DEF UndoOne
    <3> QED
      BY <3>1, <3>2 DEF TypeOK, RenameOver, Replace
  <2>3. [tx[p] EXCEPT !.named = @ \ {UndoOf[pc[p]]}] \in TxType
    BY DEF TypeOK, TxType
  <2>4. tx' \in [Proc -> TxType] /\ pc' \in [Proc -> Pc]
    BY <1>2, <2>1, <2>3 DEF TypeOK, UndoOne, Goto
  <2> QED
    BY <1>2, <2>2, <2>4 DEF TypeOK, UndoOne
<1>3. CASE DiscardOne(p)
  <2>1. [tx[p] EXCEPT !.named = @ \ {DiscardFirst(tx[p].named)}] \in TxType
    BY SMTT(20) DEF TypeOK, TxType
  <2> QED
    BY <1>3, <2>1 DEF TypeOK, DiscardOne
<1>4. CASE UnlinkJournal(p)
  <2>1. journal' \in JournalType
    BY <1>4 DEF UnlinkJournal, NoJournal, JournalType
  <2>2. [tx[p] EXCEPT !.rec = FALSE] \in TxType
    BY ZenonT(40) DEF TypeOK, TxType
  <2>3. pc' \in [Proc -> Pc]
    BY <1>4, PcLocations DEF TypeOK, UnlinkJournal, Goto
  <2>4. staging' \subseteq StagingType
    BY <1>4, ForgetType DEF TypeOK, UnlinkJournal
  <2> QED
    BY <1>4, <2>1, <2>2, <2>3, <2>4 DEF TypeOK, UnlinkJournal
<1>5. CASE CleanupData(p)
  BY <1>5, PcLocations DEF TypeOK, CleanupData, Goto, InDirectory
<1>6. CASE CleanupCache(p)
  <2>1. [view[p] EXCEPT !.deferred = FALSE] \in ViewType
    BY DEF TypeOK, ViewType
  <2> QED
    BY <1>6, <2>1, PcLocations DEF TypeOK, CleanupCache, Goto, InDirectory
<1> QED
  BY <1>1, <1>2, <1>3, <1>4, <1>5, <1>6 DEF RecoveryStep

\* Every field a refresh assigns keeps the type of its local variables.
LEMMA TxFields ==
  ASSUME NEW r \in TxType, NEW S \in SUBSET Artifact, NEW g \in Nat, NEW h \in Nat,
         NEW l \in {"none", "staged", "published"},
         NEW w \in {"start", "refresh", "commit", "rollback"}
  PROVE  /\ [r EXCEPT !.base = g] \in TxType
         /\ [r EXCEPT !.cand = g] \in TxType
         /\ [r EXCEPT !.stateBytes = g, !.manifestBytes = h] \in TxType
         /\ [r EXCEPT !.sidecar = l] \in TxType
         /\ [r EXCEPT !.manifest = l] \in TxType
         /\ [r EXCEPT !.sidecar = l, !.held = S] \in TxType
         /\ [r EXCEPT !.manifest = l, !.held = S] \in TxType
         /\ [r EXCEPT !.rec = TRUE, !.named = S] \in TxType
         /\ [r EXCEPT !.called = TRUE] \in TxType
         /\ [r EXCEPT !.pbackup = TRUE] \in TxType
         /\ [r EXCEPT !.pbackup = TRUE, !.held = S] \in TxType
         /\ [r EXCEPT !.held = S, !.why = w] \in TxType
         /\ [r EXCEPT !.why = w, !.held = S] \in TxType
         /\ [r EXCEPT !.why = w] \in TxType
BY DEF TxType

\* The forward steps of a refresh keep the types.
LEMMA RefreshType ==
  ASSUME TypeOK, NEW p \in Proc, RefreshStep(p)
  PROVE  TypeOK'
<1> DEFINE r == tx[p]
<1>a. /\ r \in TxType /\ r.cand \in Nat /\ r.base \in Nat
      /\ r.held \in SUBSET Artifact
  BY DEF TypeOK, TxType
<1>b. \A a \in Artifact : file[a] \in Nat
  BY DEF TypeOK
<1>c. {"provider", "sidecar", "manifest", "state"} = Artifact
  BY DEF Artifact
<1>1. CASE PlanNoop(p)
  <2>1. Activated(p, file["manifest"]) \in ViewType
    BY DEF TypeOK, Activated, ViewType, Artifact
  <2>2. [r EXCEPT !.base = file["manifest"]] \in TxType
    BY <1>a, <1>b, <1>c, TxFields
  <2> QED
    BY <1>1, <2>1, <2>2, PcLocations DEF TypeOK, PlanNoop, Goto
<1>2. CASE PlanRefresh(p)
  <2>1. [r EXCEPT !.base = file["manifest"]] \in TxType
    BY <1>a, <1>b, <1>c, TxFields
  <2> QED
    BY <1>2, <2>1, PcLocations DEF TypeOK, PlanRefresh, Goto
<1>3. CASE StageRegistration(p)
  <2>1. [r EXCEPT !.sidecar = "staged"] \in TxType
    BY <1>a, TxFields
  <2> QED
    BY <1>3, <2>1, <1>c, StagingTypes, PcLocations
    DEF TypeOK, StageRegistration, Goto
<1>4. CASE LinkBackups(p)
  <2>1. [r EXCEPT !.stateBytes = file["state"],
                  !.manifestBytes = file["manifest"]] \in TxType
    BY <1>a, <1>b, <1>c, TxFields
  <2>2. Existing \subseteq Artifact
    BY DEF Existing
  <2>3. tx' \in [Proc -> TxType]
    BY <1>4, <2>1 DEF TypeOK, LinkBackups
  <2>4. staging' \subseteq StagingType
    BY <1>4, <2>2, StagingTypes DEF TypeOK, LinkBackups
  <2> QED
    BY <1>4, <2>2, <2>3, <2>4, PcLocations DEF TypeOK, LinkBackups, Goto
<1>5. CASE WriteJournal(p)
  <2>1. Existing \in SUBSET Artifact
    BY DEF Existing
  <2>2. [r EXCEPT !.rec = TRUE, !.named = Existing] \in TxType
    BY <1>a, <2>1, TxFields
  <2>3. journal' \in JournalType
    BY <1>5, <1>a, <2>1 DEF WriteJournal, JournalType, Phase
  <2> QED
    BY <1>5, <2>2, <2>3, PcLocations DEF TypeOK, WriteJournal, Goto
<1>6. CASE BackupProvider(p)
  <2>1. /\ [r EXCEPT !.pbackup = TRUE] \in TxType
        /\ [r EXCEPT !.pbackup = TRUE, !.held = @ \cup {"provider"}] \in TxType
    BY <1>a, <1>c DEF TxType
  <2>2. tx' \in [Proc -> TxType]
    BY <1>6, <2>1 DEF TypeOK, BackupProvider
  <2>3. staging' \subseteq StagingType
    BY <1>6, <1>c, StagingTypes DEF TypeOK, BackupProvider
  <2> QED
    BY <1>6, <2>2, <2>3, PcLocations DEF TypeOK, BackupProvider, Goto
<1>7. CASE AdmitProvider(p)
  BY <1>7, <1>a, TxFields, PcLocations DEF TypeOK, AdmitProvider, Goto
<1>8. CASE CallProvider(p)
  <2>1. [r EXCEPT !.cand = nextGen] \in TxType
    BY <1>a, TxFields DEF TypeOK
  <2> QED
    BY <1>8, <1>c, <2>1, PcLocations DEF TypeOK, CallProvider, Replace, Goto
<1>9. CASE Advance(p)
  <2>1. PhaseOf[pc[p]] \in Phase /\ AfterAdvance[pc[p]] \in Pc
    BY <1>9, PcLocations DEF Advance, PhaseOf, AfterAdvance, Phase, Accept
  <2>2. journal' \in JournalType
    BY <1>9, <1>a, <2>1 DEF TypeOK, Advance, JournalType
  <2> QED
    BY <1>9, <2>1, <2>2 DEF TypeOK, Advance, Goto
<1>10. CASE StageManifest(p)
  <2>1. [r EXCEPT !.manifest = "staged"] \in TxType
    BY <1>a, TxFields
  <2> QED
    BY <1>10, <1>c, <2>1, StagingTypes, PcLocations
    DEF TypeOK, StageManifest, Goto
<1>11. ASSUME NEW a \in Artifact, PublishStaged(p, a)
       PROVE  /\ file' \in [Artifact -> Nat] /\ linked' \subseteq Artifact
              /\ staging' \subseteq StagingType
  <2>1. \A b \in Existing \cap {a} : <<"backup", b>> \in StagingType
    BY StagingTypes DEF Existing
  <2> QED
    BY <1>11, <1>a, <2>1 DEF TypeOK, PublishStaged, Replace
<1>12. CASE PublishSidecar(p)
  <2>1. [r EXCEPT !.sidecar = "published",
                  !.held = @ \cup (Existing \cap {"sidecar"})] \in TxType
    BY <1>a DEF TxType, Existing
  <2> QED
    BY <1>12, <1>11, <1>c, <2>1, PcLocations
    DEF TypeOK, PublishSidecar, PublishStaged, Goto
<1>13. CASE PublishManifest(p)
  <2>1. [r EXCEPT !.manifest = "published",
                  !.held = @ \cup (Existing \cap {"manifest"})] \in TxType
    BY <1>a DEF TxType, Existing
  <2> QED
    BY <1>13, <1>11, <1>c, <2>1, PcLocations
    DEF TypeOK, PublishManifest, PublishStaged, Goto
<1>14. CASE RecordState(p)
  BY <1>14, <1>a, <1>c, PcLocations DEF TypeOK, RecordState, Replace, Goto
<1>15. CASE Activate(p)
  <2>1. Activated(p, r.cand) \in ViewType
    BY <1>a DEF TypeOK, Activated, ViewType, Artifact
  <2> QED
    BY <1>15, <2>1, PcLocations DEF TypeOK, Activate, Goto
<1>16. CASE CommitStaged(p)
  <2>1. PICK keep \in SUBSET r.held :
          /\ staging' = staging \ {<<"backup", a>> : a \in r.held \ keep}
          /\ tx' = [tx EXCEPT ![p].held = keep, ![p].why = "commit"]
    BY <1>16 DEF CommitStaged
  <2>2. [r EXCEPT !.held = keep, !.why = "commit"] \in TxType
    BY <1>a, TxFields
  <2> QED
    BY <1>16, <2>1, <2>2, PcLocations DEF TypeOK, CommitStaged, Goto
<1> QED
  BY <1>1, <1>2, <1>3, <1>4, <1>5, <1>6, <1>7, <1>8, <1>9, <1>10, <1>12, <1>13,
     <1>14, <1>15, <1>16 DEF RefreshStep

\* The steps of the except and finally blocks keep the types.
LEMMA FailureType ==
  ASSUME TypeOK, NEW p \in Proc, FailureStep(p)
  PROVE  TypeOK'
<1> DEFINE r == tx[p]
<1>a. /\ r \in TxType /\ r.cand \in Nat /\ r.base \in Nat
      /\ r.stateBytes \in Nat /\ r.manifestBytes \in Nat
  BY DEF TypeOK, TxType
<1>b. /\ \A a \in Artifact : file[a] \in Nat /\ orig[a] \in Nat
      /\ {"provider", "sidecar", "manifest", "state"} = Artifact
  BY DEF TypeOK, Artifact
<1>c. \A l \in DOMAIN AfterFail : AfterFail[l] \in Pc
  BY PcLocations DEF AfterFail
<1>d. DOMAIN AfterFail = {"fail_manifest", "fail_sidecar", "fail_state",
                          "fail_bytes", "fail_status"}
  BY DEF AfterFail
<1>e. \A a \in Artifact :
        Unpublish(p, a) => /\ file' \in [Artifact -> Nat]
                           /\ linked' \subseteq Artifact
                           /\ staging' \subseteq StagingType
  BY DEF TypeOK, Unpublish, RenameOver, Replace
<1>1. CASE FailManifest(p)
  <2>1. [r EXCEPT !.manifest = "none", !.held = @ \ {"manifest"}] \in TxType
    BY <1>a DEF TxType
  <2>2. /\ file' \in [Artifact -> Nat] /\ linked' \subseteq Artifact
        /\ staging' \subseteq StagingType
    BY <1>1, <1>b, <1>e DEF TypeOK, FailManifest
  <2>3. tx' \in [Proc -> TxType] /\ pc' \in [Proc -> Pc]
    BY <1>1, <1>c, <1>d, <2>1 DEF TypeOK, FailManifest, Goto
  <2> QED
    BY <1>1, <2>2, <2>3 DEF TypeOK, FailManifest
<1>2. CASE FailSidecar(p)
  <2>1. [r EXCEPT !.sidecar = "none", !.held = @ \ {"sidecar"}] \in TxType
    BY <1>a DEF TxType
  <2>2. /\ file' \in [Artifact -> Nat] /\ linked' \subseteq Artifact
        /\ staging' \subseteq StagingType
    BY <1>2, <1>b, <1>e DEF TypeOK, FailSidecar
  <2>3. tx' \in [Proc -> TxType] /\ pc' \in [Proc -> Pc]
    BY <1>2, <1>c, <1>d, <2>1 DEF TypeOK, FailSidecar, Goto
  <2> QED
    BY <1>2, <2>2, <2>3 DEF TypeOK, FailSidecar
<1>3. CASE FailState(p)
  BY <1>3, <1>a, <1>b, <1>c, <1>d DEF TypeOK, FailState, Replace, Goto
<1>4. CASE FailBytes(p)
  BY <1>4, <1>a, <1>b, <1>c, <1>d DEF TypeOK, FailBytes, Replace, Goto
<1>5. CASE FailProvider(p)
  <2>1. /\ [r EXCEPT !.why = "rollback"] \in TxType
        /\ [r EXCEPT !.why = "rollback", !.held = @ \ {"provider"}] \in TxType
    BY <1>a DEF TxType
  <2>2. tx' \in [Proc -> TxType]
    BY <1>5, <2>1 DEF TypeOK, FailProvider
  <2>3. pc' \in [Proc -> Pc]
    BY <1>5, PcLocations DEF TypeOK, FailProvider, ToJournalRollback, Goto
  <2>4. file' \in [Artifact -> Nat] /\ linked' \subseteq Artifact
    BY <1>5, <1>b DEF TypeOK, FailProvider, Replace
  <2>5. staging' \subseteq StagingType
    <3>1. \/ UNCHANGED staging
          \/ staging' = (staging \ {<<"backup", "provider">>})
                          \cup {Orphan(a) : a \in linked \cap {"provider"}}
      BY <1>5 DEF FailProvider
    <3>2. Orphan("provider") \in StagingType
      BY <1>b, StagingTypes
    <3> QED
      BY <3>1, <3>2 DEF TypeOK
  <2> QED
    BY <1>5, <2>2, <2>3, <2>4, <2>5 DEF TypeOK, FailProvider
<1>6. CASE FailStatus(p)
  <2>1. [view[p] EXCEPT !.idx = r.base] \in ViewType
    BY <1>a DEF TypeOK, ViewType
  <2> QED
    BY <1>6, <2>1, PcLocations DEF TypeOK, FailStatus, Goto
<1>7. CASE Finally(p)
  BY <1>7, NoTxType, PcLocations DEF TypeOK, Finally, Goto
<1> QED
  BY <1>1, <1>2, <1>3, <1>4, <1>5, <1>6, <1>7 DEF FailureStep

\* An exception keeps the types.
LEMMA RaiseType ==
  ASSUME TypeOK, NEW p \in Proc, RaiseStep(p)
  PROVE  TypeOK'
<1>1. CASE RaiseForward(p)
  <2>1. staging' \subseteq StagingType
    BY <1>1, ForgetType DEF TypeOK, RaiseForward
  <2> QED
    BY <1>1, <2>1, PcLocations DEF TypeOK, RaiseForward, Goto
<1>2. CASE RaiseRollbackAction(p)
  <2>1. [tx[p] EXCEPT !.why = "rollback"] \in TxType
    BY TxFields DEF TypeOK
  <2>2. tx' \in [Proc -> TxType]
    BY <1>2, <2>1 DEF TypeOK, RaiseRollbackAction
  <2>3. pc' \in [Proc -> Pc]
    BY <1>2, PcLocations
    DEF TypeOK, RaiseRollbackAction, ToJournalRollback, Goto, FailPc, AfterFail
  <2> QED
    BY <1>2, <2>2, <2>3 DEF TypeOK, RaiseRollbackAction
<1>3. CASE RaiseRecovery(p)
  BY <1>3, NoTxType, NoViewType, PcLocations DEF TypeOK, RaiseRecovery, Goto
<1>4. CASE RaiseFinally(p)
  BY <1>4, ForgetType, NoTxType, PcLocations DEF TypeOK, RaiseFinally, Goto
<1> QED
  BY <1>1, <1>2, <1>3, <1>4 DEF RaiseStep

\* Taking the lease and being killed keep the types.
LEMMA ProcessType ==
  ASSUME TypeOK, NEW p \in Proc, Construct(p) \/ RefreshStart(p) \/ Kill(p)
  PROVE  TypeOK'
<1>1. CASE Construct(p)
  <2>1. [NoTx EXCEPT !.why = "start"] \in TxType
    BY NoTxType, TxFields
  <2>2. [view[p] EXCEPT !.deferred = TRUE] \in ViewType
    BY DEF TypeOK, ViewType
  <2>3. CASE Free
    BY <1>1, <2>1, <2>3, PcLocations DEF TypeOK, Construct, Goto
  <2>4. CASE ~Free
    BY <1>1, <2>2, <2>4, PcLocations, ZenonT(40) DEF TypeOK, Construct, Goto
  <2> QED
    BY <2>3, <2>4
<1>2. CASE RefreshStart(p)
  BY <1>2, NoTxType, PcLocations DEF TypeOK, RefreshStart, Goto
<1>3. CASE Kill(p)
  <2>1. staging' \subseteq StagingType
    BY <1>3, ForgetType DEF TypeOK, Kill
  <2> QED
    BY <1>3, <2>1, NoTxType, NoViewType, PcLocations DEF TypeOK, Kill, Goto
<1> QED
  BY <1>1, <1>2, <1>3

\* Types are inductive.
LEMMA NextType == TypeOK /\ [Next]_vars => TypeOK'
<1> SUFFICES ASSUME TypeOK, [Next]_vars PROVE TypeOK'
  OBVIOUS
<1>1. CASE UNCHANGED vars
  BY <1>1 DEF TypeOK
<1>2. CASE ForeignCleanup
  BY <1>2 DEF TypeOK, ForeignCleanup, InDirectory
<1>3. ASSUME NEW p \in Proc, Continue(p) PROVE TypeOK'
  BY <1>3, RefreshType, RecoveryType, FailureType, RaiseType, QueryType,
     ProcessType DEF Continue, QueryStep
<1> QED
  BY <1>1, <1>2, <1>3, BootType, QueryType, ProcessType DEF Next

\* In every behaviour each variable keeps its type: no process leaves the known
\* control locations, and the phase of a journal on disk is one recovery knows.
THEOREM TypeCorrect == Spec => []TypeOK
BY InitType, NextType, PTL DEF Spec

-----------------------------------------------------------------------------
(* The inductive invariant.                                                *)

\* The lease: who holds it, and that it excludes readers.
LeaseInv ==
  /\ \A p \in Proc : pc[p] \in OwnerPc <=> owner = p
  /\ \A p \in Proc : pc[p] \in {"bind", "querying"} <=> p \in readers
  /\ owner # NoProc => readers = {}

\* The journal: what it says of the files on disk, whoever left it there.
UniformOrig == \A a, b \in Published : orig[a] = orig[b]
Unsettled == Journalled /\ journal.phase \notin Accept
JournalInv ==
  /\ ~Unsettled => Uniform
  /\ Journalled => /\ UniformOrig
                   /\ journal.existed = {a \in Artifact : orig[a] # 0}

\* What p relies on where it is.
UnjournalledPc == {"plan", "stage", "link", "journal"}
BeforeCall == {"backup", "admit", "call"}
AfterCall == {"adv_indexed", "adv_validated", "adv_candidate", "stage_manifest",
              "pub_sidecar", "adv_sidecar", "pub_manifest", "adv_manifest",
              "rec_state", "adv_state"}

\* Without a journal p has replaced nothing, and the bytes it read are current.
NothingReplaced(p) ==
  /\ ~Journalled /\ ~tx[p].rec /\ ~tx[p].called
  /\ tx[p].manifest # "published" /\ tx[p].sidecar # "published"
  /\ tx[p].manifestBytes \in {0, file["manifest"]}

\* A recovery that a start or a refresh runs first has no refresh to undo.
Untouched(p) ==
  /\ ~tx[p].rec /\ ~tx[p].called
  /\ tx[p].manifest # "published" /\ tx[p].sidecar # "published"
  /\ tx[p].manifestBytes = 0
Recovering(p) ==
  pc[p] \in RecoveryPc \/ (pc[p] \in SharedPc /\ tx[p].why \in {"start", "refresh"})

\* The artifacts the forward path has replaced when p is at l, and those the
\* rollback has restored.
ReplacedAt(l) ==
  {"provider"}
    \cup (IF l \in {"adv_sidecar", "pub_manifest", "adv_manifest", "rec_state",
                    "adv_state"} THEN Published \cap {"sidecar"} ELSE {})
    \cup (IF l \in {"adv_manifest", "rec_state", "adv_state"}
          THEN {"manifest"} ELSE {})
    \cup (IF l = "adv_state" THEN {"state"} ELSE {})
RestoredAt(l) ==
  IF l = "undo_state" THEN {}
  ELSE {"state"}
    \cup (IF l \in {"undo_sidecar", "undo_provider"} THEN {"manifest"} ELSE {})
    \cup (IF l = "undo_provider" THEN {"sidecar"} ELSE {})

ProcessInv(p) ==
  /\ pc[p] \in UnjournalledPc => NothingReplaced(p)
  /\ pc[p] = "journal" => orig = file
  /\ pc[p] \in BeforeCall \cup AfterCall => Unsettled /\ tx[p].rec
  /\ pc[p] \in AfterCall => \A a \in ReplacedAt(pc[p]) : file[a] = tx[p].cand
  /\ pc[p] \in PublishedPc \cup {"commit_staged"} => journal.phase \in Accept
  /\ pc[p] \in FailPc => IF tx[p].rec THEN Unsettled ELSE NothingReplaced(p)
  /\ pc[p] \in DOMAIN UndoOf =>
       Unsettled /\ \A a \in RestoredAt(pc[p]) : file[a] = orig[a]
  /\ pc[p] = "discard" =>
       Journalled /\ (Unsettled => \A a \in Artifact : file[a] = orig[a])
  /\ pc[p] \in {"cleanup", "cleanup_cache"} => ~Journalled
  /\ Recovering(p) => Untouched(p)

GenerationInv == TypeOK /\ LeaseInv /\ JournalInv /\ \A p \in Proc : ProcessInv(p)

-----------------------------------------------------------------------------
(* The lease.                                                              *)

\* The control locations of a process that holds the exclusive lease.
LEMMA OwnerLocations ==
  /\ OwnerPc \subseteq Pc
  /\ OwnerPc \cap {"down", "construct", "idle", "bind", "querying"} = {}
  /\ OwnerPc = {"plan", "stage", "link", "journal", "backup", "admit", "call",
           "adv_indexed", "adv_validated", "adv_candidate", "stage_manifest",
           "pub_sidecar", "adv_sidecar", "pub_manifest", "adv_manifest",
           "rec_state", "adv_state", "activate", "adv_activated",
           "adv_committing", "fail_manifest", "fail_sidecar", "fail_state",
           "fail_bytes", "fail_provider", "undo_state", "undo_manifest",
           "undo_sidecar", "undo_provider", "discard", "recover", "cleanup",
           "cleanup_cache", "commit_staged", "fail_status", "finally", "stuck"}
BY DEF Pc, OwnerPc, ForwardPc, PublishedPc, FailPc, SharedPc, RecoveryPc, UndoOf

\* A process that holds the lease keeps it while it goes on working.
LEMMA WorkKeepsLease ==
  ASSUME TypeOK, LeaseInv, NEW p \in Proc,
         pc[p] \in OwnerPc, pc' = [pc EXCEPT ![p] = pc'[p]], pc'[p] \in OwnerPc,
         UNCHANGED <<owner, readers>>
  PROVE  LeaseInv' /\ owner' = p
BY OwnerLocations, ConstantsOK DEF TypeOK, LeaseInv

\* A forward step goes from a location under the lease to another one.
LEMMA RefreshMoves ==
  ASSUME TypeOK, NEW p \in Proc, RefreshStep(p)
  PROVE  /\ pc[p] \in OwnerPc /\ pc'[p] \in OwnerPc
         /\ pc' = [pc EXCEPT ![p] = pc'[p]]
         /\ UNCHANGED <<owner, readers>>
<1>1. CASE PlanNoop(p)
  BY <1>1, OwnerLocations DEF TypeOK, PlanNoop, Goto
<1>2. CASE PlanRefresh(p)
  BY <1>2, OwnerLocations DEF TypeOK, PlanRefresh, Goto
<1>3. CASE StageRegistration(p)
  BY <1>3, OwnerLocations DEF TypeOK, StageRegistration, Goto
<1>4. CASE LinkBackups(p)
  BY <1>4, OwnerLocations DEF TypeOK, LinkBackups, Goto
<1>5. CASE WriteJournal(p)
  BY <1>5, OwnerLocations DEF TypeOK, WriteJournal, Goto
<1>6. CASE BackupProvider(p)
  BY <1>6, OwnerLocations DEF TypeOK, BackupProvider, Goto
<1>7. CASE AdmitProvider(p)
  BY <1>7, OwnerLocations DEF TypeOK, AdmitProvider, Goto
<1>8. CASE CallProvider(p)
  BY <1>8, OwnerLocations DEF TypeOK, CallProvider, Goto
<1>9. CASE Advance(p)
  <2>1. pc[p] \in OwnerPc /\ AfterAdvance[pc[p]] \in OwnerPc
    BY <1>9, OwnerLocations, PcLocations DEF Advance, AfterAdvance
  <2> QED
    BY <1>9, <2>1 DEF TypeOK, Advance, Goto
<1>10. CASE StageManifest(p)
  BY <1>10, OwnerLocations DEF TypeOK, StageManifest, Goto
<1>11. CASE PublishSidecar(p)
  BY <1>11, OwnerLocations DEF TypeOK, PublishSidecar, PublishStaged, Goto
<1>12. CASE PublishManifest(p)
  BY <1>12, OwnerLocations DEF TypeOK, PublishManifest, PublishStaged, Goto
<1>13. CASE RecordState(p)
  BY <1>13, OwnerLocations DEF TypeOK, RecordState, Goto
<1>14. CASE Activate(p)
  BY <1>14, OwnerLocations DEF TypeOK, Activate, Goto
<1>15. CASE CommitStaged(p)
  BY <1>15, OwnerLocations DEF TypeOK, CommitStaged, Goto
<1> QED
  BY <1>1, <1>2, <1>3, <1>4, <1>5, <1>6, <1>7, <1>8, <1>9, <1>10, <1>11, <1>12,
     <1>13, <1>14, <1>15 DEF RefreshStep

\* The steps of recovery and of the except block that are not the last.
LEMMA RecoveryMoves ==
  ASSUME TypeOK, NEW p \in Proc,
         \/ Recover(p) \/ UndoOne(p) \/ DiscardOne(p) \/ UnlinkJournal(p)
         \/ CleanupData(p) \/ (CleanupCache(p) /\ tx[p].why # "start")
  PROVE  /\ pc[p] \in OwnerPc /\ pc'[p] \in OwnerPc
         /\ pc' = [pc EXCEPT ![p] = pc'[p]]
         /\ UNCHANGED <<owner, readers>>
<1>1. CASE Recover(p)
  BY <1>1, OwnerLocations DEF TypeOK, Recover, Goto
<1>2. CASE UndoOne(p)
  <2>1. pc[p] \in OwnerPc /\ AfterUndo[pc[p]] \in OwnerPc
    BY <1>2, OwnerLocations, PcLocations DEF UndoOne, AfterUndo
  <2> QED
    BY <1>2, <2>1 DEF TypeOK, UndoOne, Goto
<1>3. CASE DiscardOne(p)
  BY <1>3, OwnerLocations DEF TypeOK, DiscardOne
<1>4. CASE UnlinkJournal(p)
  BY <1>4, OwnerLocations DEF TypeOK, UnlinkJournal, Goto
<1>5. CASE CleanupData(p)
  BY <1>5, OwnerLocations DEF TypeOK, CleanupData, Goto
<1>6. CASE CleanupCache(p) /\ tx[p].why # "start"
  BY <1>6, OwnerLocations DEF TypeOK, CleanupCache, Goto
<1> QED
  BY <1>1, <1>2, <1>3, <1>4, <1>5, <1>6

\* The steps of the except block, but the last, and exceptions stay under the
\* lease as well.
LEMMA FailureMoves ==
  ASSUME TypeOK, NEW p \in Proc,
         \/ FailManifest(p) \/ FailSidecar(p) \/ FailState(p) \/ FailBytes(p)
         \/ FailProvider(p) \/ FailStatus(p)
         \/ RaiseForward(p) \/ RaiseRollbackAction(p)
         \/ (RaiseRecovery(p) /\ tx[p].why # "start")
  PROVE  /\ pc[p] \in OwnerPc /\ pc'[p] \in OwnerPc
         /\ pc' = [pc EXCEPT ![p] = pc'[p]]
         /\ UNCHANGED <<owner, readers>>
<1>1. CASE FailManifest(p)
  BY <1>1, OwnerLocations DEF TypeOK, FailManifest, Goto, AfterFail
<1>2. CASE FailSidecar(p)
  BY <1>2, OwnerLocations DEF TypeOK, FailSidecar, Goto, AfterFail
<1>3. CASE FailState(p)
  BY <1>3, OwnerLocations DEF TypeOK, FailState, Goto, AfterFail
<1>4. CASE FailBytes(p)
  BY <1>4, OwnerLocations DEF TypeOK, FailBytes, Goto, AfterFail
<1>5. CASE FailProvider(p)
  BY <1>5, OwnerLocations DEF TypeOK, FailProvider, ToJournalRollback, Goto
<1>6. CASE FailStatus(p)
  BY <1>6, OwnerLocations DEF TypeOK, FailStatus, Goto
<1>7. CASE RaiseForward(p)
  BY <1>7, OwnerLocations
  DEF TypeOK, RaiseForward, Goto, ForwardPc, PublishedPc
<1>8. CASE RaiseRollbackAction(p)
  BY <1>8, OwnerLocations
  DEF TypeOK, RaiseRollbackAction, ToJournalRollback, Goto, FailPc, AfterFail
<1>9. CASE RaiseRecovery(p) /\ tx[p].why # "start"
  BY <1>9, OwnerLocations, PcLocations
  DEF TypeOK, RaiseRecovery, Goto, SharedPc, RecoveryPc
<1> QED
  BY <1>1, <1>2, <1>3, <1>4, <1>5, <1>6, <1>7, <1>8, <1>9

\* The last steps under the lease: they give it back, or get stuck with it.
Releases(p) ==
  \/ CleanupCache(p) /\ tx[p].why = "start"
  \/ RaiseRecovery(p) /\ tx[p].why = "start"
  \/ Finally(p)
  \/ RaiseFinally(p)

\* The last step under the lease gives it back, or keeps it for good.
LEMMA ReleaseLease ==
  ASSUME TypeOK, LeaseInv, NEW p \in Proc, Releases(p)
  PROVE  /\ LeaseInv' /\ owner = p /\ owner' \in {p, NoProc}
         /\ pc'[p] \in {"idle", "down", "stuck"}
<1>1. /\ pc[p] \in OwnerPc
      /\ pc' = [pc EXCEPT ![p] = pc'[p]]
      /\ UNCHANGED readers
      /\ \/ pc'[p] \in {"idle", "down"} /\ owner' = NoProc
         \/ pc'[p] = "stuck" /\ UNCHANGED owner
  <2>1. CASE CleanupCache(p) /\ tx[p].why = "start"
    BY <2>1, OwnerLocations DEF TypeOK, CleanupCache, Goto
  <2>2. CASE RaiseRecovery(p) /\ tx[p].why = "start"
    BY <2>2, OwnerLocations, PcLocations
    DEF TypeOK, RaiseRecovery, Goto, SharedPc, RecoveryPc
  <2>3. CASE Finally(p)
    BY <2>3, OwnerLocations DEF TypeOK, Finally, Goto
  <2>4. CASE RaiseFinally(p)
    BY <2>4, OwnerLocations DEF TypeOK, RaiseFinally, Goto
  <2> QED
    BY <2>1, <2>2, <2>3, <2>4 DEF Releases
<1> QED
  BY <1>1, OwnerLocations, ConstantsOK DEF TypeOK, LeaseInv

\* A killed process loses whatever lease it held.
LEMMA KillLease ==
  ASSUME TypeOK, LeaseInv, NEW p \in Proc, Kill(p)
  PROVE  LeaseInv'
<1>1. pc' = [pc EXCEPT ![p] = "down"] /\ readers' = readers \ {p}
  BY DEF Kill, Goto
<1>2. owner' = IF owner = p THEN NoProc ELSE owner
  BY DEF Kill
<1> QED
  BY <1>1, <1>2, OwnerLocations, ConstantsOK DEF TypeOK, LeaseInv

\* The lease is only taken when nobody holds it, shared or exclusively.
LEMMA TakeLease ==
  ASSUME TypeOK, LeaseInv, NEW p \in Proc, Construct(p) \/ RefreshStart(p)
  PROVE  LeaseInv'
<1>1. /\ pc' = [pc EXCEPT ![p] = pc'[p]] /\ UNCHANGED readers
      /\ pc[p] \in {"construct", "idle"}
      /\ \/ Free /\ owner' = p /\ pc'[p] \in OwnerPc
         \/ UNCHANGED owner /\ pc'[p] = "idle"
  <2>1. CASE Construct(p)
    BY <2>1, OwnerLocations DEF TypeOK, Construct, Goto
  <2>2. CASE RefreshStart(p)
    BY <2>2, OwnerLocations DEF TypeOK, RefreshStart, Goto
  <2> QED
    BY <2>1, <2>2
<1> QED
  BY <1>1, OwnerLocations, ConstantsOK DEF TypeOK, LeaseInv, Free

\* Booting and querying respect the exclusive lease.
LEMMA QueryLease ==
  ASSUME TypeOK, LeaseInv, NEW p \in Proc,
         Boot(p) \/ QueryBegin(p) \/ QueryStep(p)
  PROVE  LeaseInv'
<1>1. CASE Boot(p)
  BY <1>1, OwnerLocations DEF TypeOK, LeaseInv, Boot, Goto
<1>2. CASE QueryBegin(p)
  BY <1>2, OwnerLocations, ConstantsOK DEF TypeOK, LeaseInv, QueryBegin, Goto
<1>3. CASE QueryRefused(p)
  BY <1>3, OwnerLocations DEF TypeOK, LeaseInv, QueryRefused, Goto
<1>4. CASE QueryBind(p)
  BY <1>4, OwnerLocations DEF TypeOK, LeaseInv, QueryBind, Goto
<1>5. CASE QueryEnd(p)
  BY <1>5, OwnerLocations DEF TypeOK, LeaseInv, QueryEnd, Goto
<1> QED
  BY <1>1, <1>2, <1>3, <1>4, <1>5 DEF QueryStep

\* The steps of the process that holds the lease, the last ones apart.
Works(p) ==
  \/ RefreshStep(p)
  \/ Recover(p) \/ UndoOne(p) \/ DiscardOne(p) \/ UnlinkJournal(p)
  \/ CleanupData(p) \/ (CleanupCache(p) /\ tx[p].why # "start")
  \/ FailManifest(p) \/ FailSidecar(p) \/ FailState(p) \/ FailBytes(p)
  \/ FailProvider(p) \/ FailStatus(p)
  \/ RaiseForward(p) \/ RaiseRollbackAction(p)
  \/ (RaiseRecovery(p) /\ tx[p].why # "start")

\* A process that does any of these holds the lease, and still does after it.
LEMMA WorkLease ==
  ASSUME TypeOK, LeaseInv, NEW p \in Proc, Works(p)
  PROVE  LeaseInv' /\ owner = p /\ owner' = p /\ pc[p] \in OwnerPc
<1>1. /\ pc[p] \in OwnerPc /\ pc'[p] \in OwnerPc
      /\ pc' = [pc EXCEPT ![p] = pc'[p]]
      /\ UNCHANGED <<owner, readers>>
  BY RefreshMoves, RecoveryMoves, FailureMoves DEF Works
<1> QED
  BY <1>1, WorkKeepsLease DEF LeaseInv

\* Every step of a process is one of these.
LEMMA NextCases ==
  ASSUME Next
  PROVE  \/ ForeignCleanup
         \/ \E p \in Proc : \/ Works(p) \/ Releases(p) \/ Kill(p)
                            \/ Construct(p) \/ RefreshStart(p)
                            \/ Boot(p) \/ QueryBegin(p) \/ QueryStep(p)
BY DEF Next, Continue, RecoveryStep, FailureStep, RaiseStep, Works, Releases

\* Nobody holds the lease initially.
LEMMA InitLease == Init => LeaseInv
BY OwnerLocations, ConstantsOK DEF Init, LeaseInv

\* The lease invariant is inductive, given the types.
LEMMA NextLease == TypeOK /\ LeaseInv /\ [Next]_vars => LeaseInv'
<1> SUFFICES ASSUME TypeOK, LeaseInv, [Next]_vars PROVE LeaseInv'
  OBVIOUS
<1>1. CASE UNCHANGED vars
  BY <1>1 DEF LeaseInv
<1>2. CASE ForeignCleanup
  BY <1>2 DEF LeaseInv, ForeignCleanup
<1> QED
  BY <1>1, <1>2, NextCases, WorkLease, ReleaseLease, KillLease, TakeLease,
     QueryLease

\* What the lease is for: the process that refreshes or recovers is its only
\* holder, and no query is admitted meanwhile.
THEOREM LeaseExclusive == Spec => []LeaseInv
<1>1. TypeOK /\ LeaseInv /\ [Next]_vars => LeaseInv'
  BY NextLease
<1> QED
  BY InitLease, <1>1, TypeCorrect, PTL DEF Spec

\* No step replaces a file, or changes the journal, under a running query: only
\* holders of the exclusive lease do.
THEOREM QueriesReadFrozenFiles == Spec => QueryReadsFrozenFiles
<1>1. ASSUME TypeOK, LeaseInv, [Next]_vars, \E p \in Proc : pc[p] = "querying"
      PROVE  UNCHANGED <<file, journal>>
  <2>1. owner = NoProc
    BY <1>1, ConstantsOK DEF TypeOK, LeaseInv
  <2>2. ASSUME NEW p \in Proc PROVE ~Works(p) /\ ~Releases(p)
    <3>1. ~Works(p)
      BY <1>1, <2>1, WorkLease, ConstantsOK
    <3>2. ASSUME Releases(p) PROVE FALSE
      <4>1. pc[p] \in OwnerPc
        <5>1. CASE CleanupCache(p)
          BY <5>1, OwnerLocations DEF CleanupCache
        <5>2. CASE RaiseRecovery(p)
          BY <5>2, OwnerLocations, PcLocations
          DEF RaiseRecovery, SharedPc, RecoveryPc
        <5>3. CASE Finally(p)
          BY <5>3, OwnerLocations DEF Finally
        <5>4. CASE RaiseFinally(p)
          BY <5>4, OwnerLocations DEF RaiseFinally
        <5> QED
          BY <3>2, <5>1, <5>2, <5>3, <5>4 DEF Releases
      <4> QED
        BY <1>1, <2>1, <4>1, ConstantsOK DEF LeaseInv
    <3> QED
      BY <3>1, <3>2
  <2>3. CASE UNCHANGED vars
    BY <2>3
  <2>4. CASE ForeignCleanup
    BY <2>4 DEF ForeignCleanup
  <2>5. ASSUME NEW p \in Proc,
               \/ Kill(p) \/ Construct(p) \/ RefreshStart(p)
               \/ Boot(p) \/ QueryBegin(p) \/ QueryStep(p)
        PROVE  UNCHANGED <<file, journal>>
    BY <2>5 DEF Kill, Construct, RefreshStart, Boot, QueryBegin, QueryStep,
                QueryRefused, QueryBind, QueryEnd
  <2> QED
    BY <1>1, <2>2, <2>3, <2>4, <2>5, NextCases
<1>2. TypeOK /\ LeaseInv /\ [Next]_vars
        => [(\E p \in Proc : pc[p] = "querying")
              => UNCHANGED <<file, journal>>]_vars
  BY <1>1
<1> QED
  BY <1>2, TypeCorrect, LeaseExclusive, PTL DEF Spec, QueryReadsFrozenFiles

-----------------------------------------------------------------------------
(* One generation on disk.  Two errors are excluded: one raised after the  *)
(* state was published, and one raised by the last commit.  Both roll a    *)
(* generation back whose journal says that it is to be kept, and a second  *)
(* failure while that goes on leaves a mixed one.                          *)

NoLateRaise == Raising \cap {"published", "commit"} = {}

\* Nothing is asked of a process that does not hold the lease.
LEMMA IdleProcess ==
  ASSUME NEW q \in Proc, pc'[q] \notin OwnerPc \/ pc'[q] = "stuck"
  PROVE  ProcessInv(q)'
BY OwnerLocations, PcLocations
DEF ProcessInv, UnjournalledPc, BeforeCall, AfterCall, PublishedPc, FailPc,
        Recovering, RecoveryPc, SharedPc

\* While p holds the lease nothing is asked of the others.
LEMMA OtherProcesses ==
  ASSUME LeaseInv', NEW p \in Proc, owner' \in {p, NoProc},
         NEW q \in Proc, q # p
  PROVE  ProcessInv(q)'
BY IdleProcess, ConstantsOK DEF LeaseInv

\* A step that leaves the files and the journal alone keeps JournalInv.
LEMMA QuietJournal ==
  ASSUME JournalInv, UNCHANGED <<file, orig, journal>>
  PROVE  JournalInv'
BY DEF JournalInv, Unsettled, Journalled, Uniform, UniformOrig

\* From the plan to the journal nothing on disk is replaced.
LEMMA UnjournalledInv ==
  ASSUME TypeOK, JournalInv, NEW p \in Proc, ProcessInv(p),
         \/ PlanNoop(p) \/ PlanRefresh(p) \/ StageRegistration(p)
         \/ LinkBackups(p) \/ WriteJournal(p)
  PROVE  JournalInv' /\ ProcessInv(p)'
<1> USE DEF NothingReplaced, Journalled
<1>a. tx[p] \in TxType /\ tx \in [Proc -> TxType] /\ pc \in [Proc -> Pc]
  BY DEF TypeOK
<1>1. CASE PlanNoop(p)
  <2>1. pc'[p] = "finally" /\ UNCHANGED <<file, orig, journal>>
    BY <1>1, <1>a DEF PlanNoop, Goto
  <2> QED
    BY <2>1, QuietJournal, PcLocations
    DEF ProcessInv, UnjournalledPc, BeforeCall, AfterCall, PublishedPc, FailPc,
        Recovering, RecoveryPc, SharedPc
<1>2. CASE PlanRefresh(p)
  <2>1. pc[p] = "plan" /\ pc'[p] \in {"stage", "link"}
        /\ UNCHANGED <<file, orig, journal>>
    BY <1>2, <1>a DEF PlanRefresh, Goto
  <2>2. NothingReplaced(p)'
    BY <1>2, <2>1, <1>a DEF PlanRefresh, ProcessInv, UnjournalledPc, TxType
  <2> QED
    BY <2>1, <2>2, QuietJournal, PcLocations
    DEF ProcessInv, UnjournalledPc, BeforeCall, AfterCall, PublishedPc, FailPc,
        Recovering, RecoveryPc, SharedPc
<1>3. CASE StageRegistration(p)
  <2>1. pc[p] = "stage" /\ pc'[p] = "link" /\ UNCHANGED <<file, orig, journal>>
    BY <1>3, <1>a DEF StageRegistration, Goto
  <2>2. NothingReplaced(p)'
    BY <1>3, <2>1, <1>a DEF StageRegistration, ProcessInv, UnjournalledPc, TxType
  <2> QED
    BY <2>1, <2>2, QuietJournal, PcLocations
    DEF ProcessInv, UnjournalledPc, BeforeCall, AfterCall, PublishedPc, FailPc,
        Recovering, RecoveryPc, SharedPc
<1>4. CASE LinkBackups(p)
  <2>1. pc[p] = "link" /\ pc'[p] = "journal" /\ orig' = file
        /\ UNCHANGED <<file, journal>>
    BY <1>4, <1>a DEF LinkBackups, Goto
  <2>2. NothingReplaced(p)'
    <3>1. tx'[p] = [tx[p] EXCEPT !.stateBytes = file["state"],
                                 !.manifestBytes = file["manifest"]]
      BY <1>4, <1>a DEF LinkBackups
    <3>2. /\ tx'[p].rec = tx[p].rec /\ tx'[p].called = tx[p].called
          /\ tx'[p].manifest = tx[p].manifest /\ tx'[p].sidecar = tx[p].sidecar
          /\ tx'[p].manifestBytes = file["manifest"]
      BY <3>1, <1>a DEF TxType
    <3> QED
      BY <2>1, <3>2 DEF ProcessInv, UnjournalledPc
  <2>3. JournalInv'
    BY <2>1, <2>2 DEF JournalInv, Unsettled, Uniform, ProcessInv, UnjournalledPc
  <2> QED
    BY <2>1, <2>2, <2>3, PcLocations
    DEF ProcessInv, UnjournalledPc, BeforeCall, AfterCall, PublishedPc, FailPc,
        Recovering, RecoveryPc, SharedPc
<1>5. CASE WriteJournal(p)
  <2>1. /\ pc[p] = "journal" /\ pc'[p] = "backup" /\ orig = file
        /\ ~Journalled /\ UNCHANGED <<file, orig>>
        /\ journal'.phase = "prepared" /\ journal'.existed = Existing
    BY <1>5, <1>a DEF WriteJournal, Goto, ProcessInv, UnjournalledPc
  <2>2. tx'[p].rec
    BY <1>5, <1>a DEF WriteJournal, TxType
  <2>3. JournalInv'
    BY <2>1 DEF JournalInv, Unsettled, Uniform, UniformOrig, Existing, Accept
  <2> QED
    BY <2>1, <2>2, <2>3, PcLocations
    DEF ProcessInv, UnjournalledPc, BeforeCall, AfterCall, PublishedPc, FailPc,
        Recovering, RecoveryPc, SharedPc,
        Unsettled, Accept
<1> QED
  BY <1>1, <1>2, <1>3, <1>4, <1>5

\* From the journal to the recorded state: every artifact replaced so far holds
\* the candidate, and the journal can still undo them all.
LEMMA ForwardInv ==
  ASSUME TypeOK, JournalInv, NEW p \in Proc, ProcessInv(p),
         \/ BackupProvider(p) \/ AdmitProvider(p) \/ CallProvider(p)
         \/ StageManifest(p) \/ PublishSidecar(p) \/ PublishManifest(p)
         \/ RecordState(p)
  PROVE  JournalInv' /\ ProcessInv(p)'
<1>a. tx[p] \in TxType /\ tx \in [Proc -> TxType] /\ pc \in [Proc -> Pc]
      /\ file \in [Artifact -> Nat]
  BY DEF TypeOK
<1>b. SUFFICES /\ pc'[p] \in BeforeCall \cup AfterCall
               /\ Unsettled /\ UNCHANGED <<orig, journal>>
               /\ tx'[p].rec
               /\ pc'[p] \in AfterCall =>
                    \A a \in ReplacedAt(pc'[p]) : file'[a] = tx'[p].cand
  <2>1. JournalInv'
    BY <1>b DEF JournalInv, Unsettled, Journalled, UniformOrig
  <2> QED
    BY <1>b, <2>1, PcLocations
    DEF ProcessInv, UnjournalledPc, BeforeCall, AfterCall, PublishedPc, FailPc,
        Recovering, RecoveryPc, SharedPc,
        Unsettled, Journalled, ReplacedAt
<1>1. CASE BackupProvider(p)
  <2>1. tx'[p].rec = tx[p].rec
    BY <1>1, <1>a DEF BackupProvider, TxType
  <2> QED
    BY <1>1, <1>a, <2>1
    DEF BackupProvider, Goto, ProcessInv, BeforeCall, AfterCall
<1>2. CASE AdmitProvider(p)
  <2>1. tx'[p].rec = tx[p].rec
    BY <1>2, <1>a DEF AdmitProvider, TxType
  <2> QED
    BY <1>2, <1>a, <2>1
    DEF AdmitProvider, Goto, ProcessInv, BeforeCall, AfterCall
<1>3. CASE CallProvider(p)
  <2>1. tx'[p].rec = tx[p].rec /\ tx'[p].cand = nextGen
    BY <1>3, <1>a DEF CallProvider, TxType
  <2>2. file'["provider"] = nextGen
    BY <1>3, <1>a DEF CallProvider, Replace, Artifact
  <2> QED
    BY <1>3, <1>a, <2>1, <2>2
    DEF CallProvider, Goto, ProcessInv, BeforeCall, AfterCall, ReplacedAt
<1>4. CASE StageManifest(p)
  <2>1. tx'[p].rec = tx[p].rec /\ tx'[p].cand = tx[p].cand
    BY <1>4, <1>a DEF StageManifest, TxType
  <2>2. /\ pc[p] = "stage_manifest" /\ UNCHANGED <<file, orig, journal>>
        /\ pc'[p] = IF Python THEN "pub_sidecar" ELSE "pub_manifest"
    BY <1>4, <1>a DEF StageManifest, Goto
  <2>3. pc'[p] = "pub_manifest" => "sidecar" \notin Published
    BY <2>2 DEF Published
  <2> QED
    BY <2>1, <2>2, <2>3 DEF ProcessInv, BeforeCall, AfterCall, ReplacedAt
<1>5. CASE PublishSidecar(p)
  <2>1. tx'[p].rec = tx[p].rec /\ tx'[p].cand = tx[p].cand
    <3>1. tx'[p] = [tx[p] EXCEPT !.sidecar = "published",
                                 !.held = @ \cup (Existing \cap {"sidecar"})]
      BY <1>5, <1>a DEF PublishSidecar
    <3> QED
      BY <3>1, <1>a DEF TxType
  <2>2. /\ pc[p] = "pub_sidecar" /\ pc'[p] = "adv_sidecar"
        /\ UNCHANGED <<orig, journal>>
        /\ file' = [file EXCEPT !["sidecar"] = tx[p].cand]
    BY <1>5, <1>a DEF PublishSidecar, PublishStaged, Replace, Goto
  <2>3. file["provider"] = tx[p].cand /\ Unsettled /\ tx[p].rec
    BY <2>2 DEF ProcessInv, AfterCall, ReplacedAt
  <2> QED
    BY <2>1, <2>2, <2>3, <1>a DEF BeforeCall, AfterCall, ReplacedAt, Artifact
<1>6. CASE PublishManifest(p)
  <2>1. tx'[p].rec = tx[p].rec /\ tx'[p].cand = tx[p].cand
    <3>1. tx'[p] = [tx[p] EXCEPT !.manifest = "published",
                                 !.held = @ \cup (Existing \cap {"manifest"})]
      BY <1>6, <1>a DEF PublishManifest
    <3> QED
      BY <3>1, <1>a DEF TxType
  <2>2. /\ pc[p] = "pub_manifest" /\ pc'[p] = "adv_manifest"
        /\ UNCHANGED <<orig, journal>>
        /\ file' = [file EXCEPT !["manifest"] = tx[p].cand]
    BY <1>6, <1>a DEF PublishManifest, PublishStaged, Replace, Goto
  <2>3. /\ \A a \in ReplacedAt("pub_manifest") : file[a] = tx[p].cand
        /\ Unsettled /\ tx[p].rec
    BY <2>2 DEF ProcessInv, AfterCall
  <2>4. ReplacedAt("adv_manifest") = ReplacedAt("pub_manifest") \cup {"manifest"}
        /\ ReplacedAt("adv_manifest") \subseteq Artifact
    BY DEF ReplacedAt, Artifact, Published
  <2> QED
    BY <2>1, <2>2, <2>3, <2>4, <1>a DEF BeforeCall, AfterCall, Artifact
<1>7. CASE RecordState(p)
  <2>1. /\ pc[p] = "rec_state" /\ pc'[p] = "adv_state"
        /\ UNCHANGED <<orig, journal, tx>>
        /\ file' = [file EXCEPT !["state"] = tx[p].cand]
    BY <1>7, <1>a DEF RecordState, Replace, Goto
  <2>2. /\ \A a \in ReplacedAt("rec_state") : file[a] = tx[p].cand
        /\ Unsettled /\ tx[p].rec
    BY <2>1 DEF ProcessInv, AfterCall
  <2>3. ReplacedAt("adv_state") = ReplacedAt("rec_state") \cup {"state"}
        /\ ReplacedAt("adv_state") \subseteq Artifact
    BY DEF ReplacedAt, Artifact, Published
  <2> QED
    BY <2>1, <2>2, <2>3, <1>a DEF BeforeCall, AfterCall, Artifact
<1> QED
  BY <1>1, <1>2, <1>3, <1>4, <1>5, <1>6, <1>7

\* The journal reaches an accepted phase only when every published artifact
\* holds the candidate.
LEMMA AdvanceInv ==
  ASSUME TypeOK, JournalInv, NEW p \in Proc, ProcessInv(p), Advance(p)
  PROVE  JournalInv' /\ ProcessInv(p)'
<1>a. pc \in [Proc -> Pc] /\ journal \in JournalType
  BY DEF TypeOK
<1>1. /\ pc[p] \in DOMAIN PhaseOf /\ pc'[p] = AfterAdvance[pc[p]]
      /\ UNCHANGED <<file, orig, tx>>
      /\ journal'.phase = PhaseOf[pc[p]] /\ journal'.existed = journal.existed
  BY <1>a DEF Advance, Goto, JournalType
<1>2. Journalled /\ Journalled'
  BY <1>1, PcLocations
  DEF ProcessInv, AfterCall, PublishedPc, Journalled, Unsettled, Accept, PhaseOf
<1>3. CASE pc[p] \in {"adv_indexed", "adv_validated", "adv_candidate",
                      "adv_sidecar", "adv_manifest"}
  <2>1. journal'.phase \notin Accept
    BY <1>1, <1>3 DEF PhaseOf, Accept
  <2>2. pc'[p] \in AfterCall /\ pc[p] \in AfterCall
    BY <1>1, <1>3 DEF AfterAdvance, AfterCall
  <2>3. ReplacedAt(pc'[p]) = ReplacedAt(pc[p])
    BY <1>1, <1>3 DEF AfterAdvance, ReplacedAt
  <2>4. JournalInv'
    BY <1>1, <1>2, <2>1 DEF JournalInv, Unsettled, UniformOrig
  <2> QED
    BY <1>1, <1>2, <2>1, <2>2, <2>3, <2>4, PcLocations
    DEF ProcessInv, UnjournalledPc, BeforeCall, AfterCall, PublishedPc, FailPc,
        Recovering, RecoveryPc, SharedPc,
        Unsettled
<1>4. CASE pc[p] \in {"adv_state", "adv_activated", "adv_committing"}
  <2>1. journal'.phase \in Accept
    BY <1>1, <1>4 DEF PhaseOf, Accept
  <2>2. pc'[p] \in {"activate", "adv_committing", "commit_staged"}
    BY <1>1, <1>4 DEF AfterAdvance
  <2>3. Uniform
    <3>1. CASE pc[p] = "adv_state"
      <4>1. Published \subseteq ReplacedAt("adv_state")
        BY DEF Published, Artifact, ReplacedAt
      <4> QED
        BY <3>1, <4>1 DEF ProcessInv, AfterCall, Uniform
    <3>2. CASE pc[p] \in {"adv_activated", "adv_committing"}
      BY <3>2 DEF ProcessInv, PublishedPc, JournalInv, Unsettled
    <3> QED
      BY <1>4, <3>1, <3>2
  <2>4. JournalInv'
    BY <1>1, <1>2, <2>1, <2>3 DEF JournalInv, Unsettled, UniformOrig, Uniform
  <2> QED
    BY <2>1, <2>2, <2>4, PcLocations
    DEF ProcessInv, UnjournalledPc, BeforeCall, AfterCall, PublishedPc, FailPc,
        Recovering, RecoveryPc, SharedPc
<1> QED
  BY <1>1, <1>3, <1>4, PcLocations

\* Once the phase is accepted nothing is replaced any more.
LEMMA CommitInv ==
  ASSUME TypeOK, JournalInv, NEW p \in Proc, ProcessInv(p),
         Activate(p) \/ CommitStaged(p)
  PROVE  JournalInv' /\ ProcessInv(p)'
<1>a. pc \in [Proc -> Pc] /\ tx \in [Proc -> TxType]
  BY DEF TypeOK
<1>1. journal.phase \in Accept /\ UNCHANGED <<file, orig, journal>>
      /\ pc'[p] \in {"adv_activated", "discard"}
  BY <1>a DEF Activate, CommitStaged, Goto, ProcessInv, PublishedPc
<1>2. pc'[p] = "discard" => tx'[p].why = "commit"
  <2>1. CASE Activate(p)
    BY <2>1, <1>a DEF Activate, Goto
  <2>2. CASE CommitStaged(p)
    <3>1. PICK keep : tx' = [tx EXCEPT ![p].held = keep, ![p].why = "commit"]
      BY <2>2 DEF CommitStaged
    <3> QED
      BY <3>1, <1>a DEF TxType
  <2> QED
    BY <2>1, <2>2
<1> QED
  BY <1>1, <1>2, QuietJournal, PcLocations
  DEF ProcessInv, UnjournalledPc, BeforeCall, AfterCall, PublishedPc, FailPc,
        Recovering, RecoveryPc, SharedPc,
      Journalled, Unsettled, Accept

\* Under an unsettled journal, undoing an artifact gives it the content its
\* backup holds, or removes it when there was none.
LEMMA UndoneArtifact ==
  ASSUME TypeOK, JournalInv, NEW p \in Proc, Unsettled, UndoOne(p)
  PROVE  LET a == UndoOf[pc[p]] IN
           file' = [file EXCEPT ![a] = orig[a]]
<1> DEFINE a == UndoOf[pc[p]]
<1>1. a \in Artifact /\ pc[p] \in DOMAIN UndoOf
  BY PcLocations DEF UndoOne, UndoOf, Artifact
<1>2. journal.existed = {b \in Artifact : orig[b] # 0}
  BY DEF JournalInv, Unsettled
<1>3. CASE a \in journal.existed
  BY <1>3 DEF UndoOne, RenameOver
<1>4. CASE a \notin journal.existed
  <2>1. orig[a] = 0
    BY <1>1, <1>2, <1>4
  <2> QED
    BY <1>4, <2>1 DEF UndoOne, Replace
<1> QED
  BY <1>3, <1>4

\* Recovery restores the files in order, and unlinks the journal only when they
\* are one generation.
LEMMA RecoveryInv ==
  ASSUME TypeOK, JournalInv, NEW p \in Proc, ProcessInv(p),
         \/ Recover(p) \/ UndoOne(p) \/ DiscardOne(p) \/ UnlinkJournal(p)
         \/ CleanupData(p) \/ (CleanupCache(p) /\ tx[p].why # "start")
         \/ RaiseRecovery(p) /\ tx[p].why # "start"
  PROVE  JournalInv' /\ ProcessInv(p)'
<1>a. pc \in [Proc -> Pc] /\ file \in [Artifact -> Nat]
  BY DEF TypeOK
<1>b. ASSUME Recover(p) \/ UndoOne(p) \/ DiscardOne(p) \/ UnlinkJournal(p)
      PROVE  Recovering(p)' => Untouched(p)'
  <2>1. tx[p] \in TxType /\ tx \in [Proc -> TxType]
    BY DEF TypeOK
  <2>2. \/ \E S : tx'[p] = [tx[p] EXCEPT !.named = S]
        \/ tx'[p] = [tx[p] EXCEPT !.rec = FALSE]
    BY <1>b, <2>1 DEF Recover, UndoOne, DiscardOne, UnlinkJournal
  <2>3. tx'[p].why = tx[p].why /\ (Untouched(p) => Untouched(p)')
    BY <2>1, <2>2 DEF TxType, Untouched
  <2>4. Recovering(p)' => Recovering(p)
    <3>1. tx[p].why \in {"start", "refresh", "commit", "rollback"}
      BY <2>1 DEF TxType
    <3>2. CASE Recover(p)
      BY <3>2 DEF Recover, Recovering, RecoveryPc
    <3>3. CASE UndoOne(p)
      BY <3>3, <2>3, <1>a, PcLocations
      DEF UndoOne, Goto, AfterUndo, Recovering, RecoveryPc, SharedPc
    <3>4. CASE DiscardOne(p)
      BY <3>4, <2>3 DEF DiscardOne, Recovering
    <3>5. CASE UnlinkJournal(p)
      BY <3>1, <3>5, <1>a
      DEF UnlinkJournal, Goto, Recovering, RecoveryPc, SharedPc
    <3> QED
      BY <1>b, <3>2, <3>3, <3>4, <3>5
  <2> QED
    BY <2>3, <2>4 DEF ProcessInv
<1>1. CASE Recover(p)
  <2>1. /\ UNCHANGED <<file, orig, journal>>
        /\ pc'[p] = IF ~Journalled THEN "cleanup"
                    ELSE IF journal.phase \in Accept THEN "discard"
                    ELSE "undo_state"
    BY <1>1, <1>a DEF Recover, Goto
  <2> QED
    BY <2>1, QuietJournal, <1>1, <1>b, PcLocations
    DEF ProcessInv, UnjournalledPc, BeforeCall, AfterCall, PublishedPc, FailPc,
        Journalled, Unsettled, RestoredAt
<1>2. CASE UndoOne(p)
  <2>1. /\ pc[p] \in DOMAIN UndoOf /\ pc'[p] = AfterUndo[pc[p]]
        /\ UNCHANGED <<orig, journal>>
    BY <1>2, <1>a DEF UndoOne, Goto
  <2>2. Unsettled /\ \A a \in RestoredAt(pc[p]) : file[a] = orig[a]
    BY <2>1 DEF ProcessInv
  <2>3. file' = [file EXCEPT ![UndoOf[pc[p]]] = orig[UndoOf[pc[p]]]]
    BY <1>2, <2>2, UndoneArtifact
  <2>4. UndoOf[pc[p]] \in Artifact
    BY <2>1, PcLocations DEF UndoOf, Artifact
  <2>5. JournalInv'
    BY <2>1, <2>2 DEF JournalInv, Unsettled, Journalled, UniformOrig
  <2>6. CASE pc[p] = "undo_provider"
    <3>1. pc'[p] = "discard" /\ UndoOf[pc[p]] = "provider"
      BY <2>1, <2>6 DEF AfterUndo, UndoOf
    <3>2. Artifact = RestoredAt(pc[p]) \cup {"provider"}
      BY <2>6 DEF RestoredAt, Artifact
    <3>3. \A a \in Artifact : file'[a] = orig[a]
      BY <2>2, <2>3, <3>1, <3>2, <1>a
    <3> QED
      BY <2>1, <2>2, <2>5, <3>1, <3>3, <1>2, <1>b, PcLocations
      DEF ProcessInv, UnjournalledPc, BeforeCall, AfterCall, PublishedPc, FailPc,
          Unsettled, Journalled
  <2>7. CASE pc[p] # "undo_provider"
    <3>1. pc'[p] \in DOMAIN UndoOf
      BY <2>1, <2>7, PcLocations DEF AfterUndo
    <3>2. RestoredAt(pc'[p]) \subseteq RestoredAt(pc[p]) \cup {UndoOf[pc[p]]}
          /\ RestoredAt(pc'[p]) \subseteq Artifact
      BY <2>1, <2>7, PcLocations DEF AfterUndo, UndoOf, RestoredAt, Artifact
    <3>3. \A a \in RestoredAt(pc'[p]) : file'[a] = orig[a]
      BY <2>2, <2>3, <2>4, <3>2, <1>a
    <3> QED
      BY <2>1, <2>2, <2>5, <3>1, <3>3, <1>2, <1>b, PcLocations
      DEF ProcessInv, UnjournalledPc, BeforeCall, AfterCall, PublishedPc, FailPc,
          Unsettled, Journalled
  <2> QED
    BY <2>6, <2>7
<1>3. CASE DiscardOne(p)
  <2>1. pc[p] = "discard" /\ UNCHANGED <<file, orig, journal, pc>>
    BY <1>3 DEF DiscardOne
  <2> QED
    BY <2>1, QuietJournal, <1>3, <1>b, PcLocations
    DEF ProcessInv, UnjournalledPc, BeforeCall, AfterCall, PublishedPc, FailPc,
        Journalled, Unsettled
<1>4. CASE UnlinkJournal(p)
  <2>1. /\ pc[p] = "discard" /\ UNCHANGED <<file, orig>> /\ ~Journalled'
        /\ pc'[p] \in {"finally", "fail_status", "cleanup"}
    BY <1>4, <1>a DEF UnlinkJournal, Goto, NoJournal, Journalled
  <2>2. Uniform
    BY <2>1 DEF ProcessInv, JournalInv, UniformOrig, Uniform, Unsettled,
                Published, Artifact
  <2>3. JournalInv'
    BY <2>1, <2>2 DEF JournalInv, Unsettled, Uniform
  <2> QED
    BY <2>1, <2>3, <1>4, <1>b, PcLocations
    DEF ProcessInv, UnjournalledPc, BeforeCall, AfterCall, PublishedPc, FailPc
<1>5. CASE CleanupData(p)
  <2>1. /\ pc[p] = "cleanup" /\ pc'[p] = "cleanup_cache"
        /\ UNCHANGED <<file, orig, journal, tx>>
    BY <1>5, <1>a DEF CleanupData, Goto
  <2> QED
    BY <2>1, QuietJournal, PcLocations
    DEF ProcessInv, UnjournalledPc, BeforeCall, AfterCall, PublishedPc, FailPc,
        Recovering, RecoveryPc, SharedPc,
        Untouched, Journalled
<1>6. CASE CleanupCache(p) /\ tx[p].why # "start"
  <2>1. /\ pc[p] = "cleanup_cache" /\ pc'[p] = "plan"
        /\ UNCHANGED <<file, orig, journal, tx>>
    BY <1>6, <1>a DEF CleanupCache, Goto
  <2> QED
    BY <2>1, QuietJournal, PcLocations
    DEF ProcessInv, UnjournalledPc, BeforeCall, AfterCall, PublishedPc, FailPc,
        Recovering, RecoveryPc, SharedPc, Untouched, NothingReplaced, Journalled
<1>7. CASE RaiseRecovery(p) /\ tx[p].why # "start"
  <2>1. pc'[p] = "fail_status" /\ UNCHANGED <<file, orig, journal>>
    BY <1>7, <1>a DEF RaiseRecovery, Goto
  <2> QED
    BY <2>1, QuietJournal, PcLocations
    DEF ProcessInv, UnjournalledPc, BeforeCall, AfterCall, PublishedPc, FailPc,
        Recovering, RecoveryPc, SharedPc
<1> QED
  BY <1>1, <1>2, <1>3, <1>4, <1>5, <1>6, <1>7

\* The except block only replaces files under a journal that can undo it, or it
\* puts back what is there already.
LEMMA FailureInv ==
  ASSUME TypeOK, JournalInv, NEW p \in Proc, ProcessInv(p),
         \/ FailManifest(p) \/ FailSidecar(p) \/ FailState(p) \/ FailBytes(p)
  PROVE  JournalInv' /\ ProcessInv(p)'
<1>a. /\ pc \in [Proc -> Pc] /\ file \in [Artifact -> Nat]
      /\ tx[p] \in TxType /\ tx \in [Proc -> TxType]
      /\ {"provider", "sidecar", "manifest", "state"} = Artifact
  BY DEF TypeOK, Artifact
<1>1. /\ pc[p] \in FailPc /\ pc'[p] \in FailPc
      /\ UNCHANGED <<orig, journal>>
  BY <1>a DEF FailManifest, FailSidecar, FailState, FailBytes, AfterFail, FailPc,
              Goto
<1>2. /\ tx'[p].rec = tx[p].rec /\ tx'[p].called = tx[p].called
      /\ tx'[p].manifestBytes = tx[p].manifestBytes
      /\ tx'[p].manifest \in {"none", tx[p].manifest}
      /\ tx'[p].sidecar \in {"none", tx[p].sidecar}
  <2>1. CASE FailManifest(p)
    <3>1. tx'[p] = [tx[p] EXCEPT !.manifest = "none", !.held = @ \ {"manifest"}]
      BY <2>1, <1>a DEF FailManifest
    <3> QED
      BY <3>1, <1>a DEF TxType
  <2>2. CASE FailSidecar(p)
    <3>1. tx'[p] = [tx[p] EXCEPT !.sidecar = "none", !.held = @ \ {"sidecar"}]
      BY <2>2, <1>a DEF FailSidecar
    <3> QED
      BY <3>1, <1>a DEF TxType
  <2>3. CASE FailState(p) \/ FailBytes(p)
    BY <2>3 DEF FailState, FailBytes
  <2> QED
    BY <2>1, <2>2, <2>3
<1>3. CASE tx[p].rec
  <2>1. Unsettled
    BY <1>1, <1>3 DEF ProcessInv
  <2>2. JournalInv'
    BY <1>1, <2>1 DEF JournalInv, Unsettled, Journalled, UniformOrig
  <2> QED
    BY <1>1, <1>2, <1>3, <2>1, <2>2, PcLocations
    DEF ProcessInv, UnjournalledPc, BeforeCall, AfterCall, PublishedPc, FailPc,
        Recovering, RecoveryPc, SharedPc, Unsettled, Journalled
<1>4. CASE ~tx[p].rec
  <2>1. NothingReplaced(p)
    BY <1>1, <1>4 DEF ProcessInv
  <2>2. UNCHANGED file
    <3>1. CASE FailManifest(p)
      BY <2>1, <3>1 DEF FailManifest, NothingReplaced
    <3>2. CASE FailSidecar(p)
      BY <2>1, <3>2 DEF FailSidecar, NothingReplaced
    <3>3. CASE FailState(p)
      BY <2>1, <3>3 DEF FailState, NothingReplaced
    <3>4. CASE FailBytes(p)
      BY <1>a, <2>1, <3>4 DEF FailBytes, NothingReplaced, Replace
    <3> QED
      BY <3>1, <3>2, <3>3, <3>4
  <2>3. NothingReplaced(p)'
    BY <1>1, <1>2, <2>1, <2>2 DEF NothingReplaced, Journalled
  <2> QED
    BY <1>1, <1>2, <1>4, <2>2, <2>3, QuietJournal, PcLocations
    DEF ProcessInv, UnjournalledPc, BeforeCall, AfterCall, PublishedPc, FailPc,
        Recovering, RecoveryPc, SharedPc
<1> QED
  BY <1>3, <1>4

\* From the last guarded action of the except block to the journal's rollback.
LEMMA JournalRollbackInv ==
  ASSUME TypeOK, JournalInv, NEW p \in Proc, ProcessInv(p),
         pc[p] = "fail_provider", ToJournalRollback(p), UNCHANGED <<orig, journal>>,
         tx[p].rec \/ UNCHANGED file,
         tx'[p].why = "rollback"
  PROVE  JournalInv' /\ ProcessInv(p)'
<1>1. pc'[p] = IF tx[p].rec THEN "undo_state" ELSE "fail_status"
  BY DEF TypeOK, ToJournalRollback, Goto
<1>2. tx[p].rec => Unsettled
  BY DEF ProcessInv, FailPc
<1>3. JournalInv'
  BY <1>2, QuietJournal DEF JournalInv, Unsettled, Journalled, UniformOrig
<1> QED
  BY <1>1, <1>2, <1>3, PcLocations
  DEF ProcessInv, UnjournalledPc, BeforeCall, AfterCall, PublishedPc, FailPc,
      Recovering, RecoveryPc, SharedPc, Unsettled, Journalled, RestoredAt

\* Restoring the Provider database is under the journal too.
LEMMA FailProviderInv ==
  ASSUME TypeOK, JournalInv, NEW p \in Proc, ProcessInv(p), FailProvider(p)
  PROVE  JournalInv' /\ ProcessInv(p)'
<1>a. tx[p] \in TxType /\ tx \in [Proc -> TxType]
  BY DEF TypeOK
<1>1. /\ pc[p] = "fail_provider" /\ ToJournalRollback(p)
      /\ UNCHANGED <<orig, journal>>
  BY DEF FailProvider
<1>2. tx'[p].why = "rollback"
  <2>1. \/ tx'[p] = [tx[p] EXCEPT !.why = "rollback"]
        \/ tx'[p] = [tx[p] EXCEPT !.why = "rollback", !.held = @ \ {"provider"}]
    BY <1>a DEF FailProvider
  <2> QED
    BY <2>1, <1>a DEF TxType
<1>3. tx[p].rec \/ UNCHANGED file
  BY <1>1 DEF FailProvider, ProcessInv, FailPc, NothingReplaced
<1> QED
  BY <1>1, <1>2, <1>3, JournalRollbackInv

\* An exception before the state is published leaves a journal that undoes the
\* refresh, or nothing to undo.
LEMMA RaiseInv ==
  ASSUME TypeOK, JournalInv, NoLateRaise, NEW p \in Proc, ProcessInv(p),
         FailStatus(p) \/ RaiseForward(p) \/ RaiseRollbackAction(p)
  PROVE  JournalInv' /\ ProcessInv(p)'
<1>a. pc \in [Proc -> Pc] /\ tx[p] \in TxType /\ tx \in [Proc -> TxType]
  BY DEF TypeOK
<1>1. CASE FailStatus(p)
  <2>1. pc'[p] = "finally" /\ UNCHANGED <<file, orig, journal>>
    BY <1>1, <1>a DEF FailStatus, Goto
  <2> QED
    BY <2>1, QuietJournal, PcLocations
    DEF ProcessInv, UnjournalledPc, BeforeCall, AfterCall, PublishedPc, FailPc,
        Recovering, RecoveryPc, SharedPc
<1>2. CASE RaiseForward(p)
  <2>1. /\ pc'[p] = "fail_manifest" /\ UNCHANGED <<file, orig, journal, tx>>
        /\ StageOf(p) \in Raising
        /\ \/ pc[p] \in ForwardPc \cup PublishedPc
           \/ pc[p] = "discard" /\ tx[p].why = "commit"
    BY <1>2, <1>a DEF RaiseForward, Goto
  <2>2. pc[p] \in ForwardPc
    <3>1. ASSUME pc[p] \in PublishedPc PROVE StageOf(p) = "published"
      <4>1. pc[p] \notin ForwardPc \cup {"finally", "stuck"}
        BY <3>1 DEF PublishedPc, ForwardPc
      <4> QED
        BY <3>1, <4>1 DEF StageOf
    <3>2. ASSUME pc[p] = "discard", tx[p].why = "commit"
          PROVE  StageOf(p) = "commit"
      <4>1. /\ pc[p] \notin ForwardPc \cup {"finally", "stuck"} /\ pc[p] \notin PublishedPc
            /\ pc[p] \notin FailPc \cup {"fail_status"} /\ pc[p] \notin RecoveryPc
            /\ pc[p] # "commit_staged" /\ pc[p] \in SharedPc
        BY <3>2 DEF PublishedPc, ForwardPc, FailPc, RecoveryPc, SharedPc
      <4> QED
        BY <3>2, <4>1 DEF StageOf
    <3> QED
      BY <2>1, <3>1, <3>2 DEF NoLateRaise
  <2>3. IF tx[p].rec THEN Unsettled ELSE NothingReplaced(p)
    BY <2>2 DEF ForwardPc, ProcessInv, UnjournalledPc, BeforeCall, AfterCall,
                NothingReplaced
  <2>4. IF tx'[p].rec THEN Unsettled' ELSE NothingReplaced(p)'
    BY <2>1, <2>3 DEF Unsettled, Journalled, NothingReplaced
  <2> QED
    BY <2>1, <2>4, QuietJournal, PcLocations
    DEF ProcessInv, UnjournalledPc, BeforeCall, AfterCall, PublishedPc, FailPc,
        Recovering, RecoveryPc, SharedPc
<1>3. CASE RaiseRollbackAction(p) /\ pc[p] = "fail_provider"
  <2>1. ToJournalRollback(p) /\ UNCHANGED <<file, orig, journal>>
        /\ tx' = [tx EXCEPT ![p].why = "rollback"]
    BY <1>3 DEF RaiseRollbackAction
  <2>2. tx'[p].why = "rollback"
    BY <2>1, <1>a DEF TxType
  <2> QED
    BY <1>3, <2>1, <2>2, JournalRollbackInv
<1>4. CASE RaiseRollbackAction(p) /\ pc[p] \in FailPc \ {"fail_provider"}
  <2>1. /\ pc[p] \in FailPc /\ pc'[p] \in FailPc
        /\ UNCHANGED <<file, orig, journal, tx>>
    BY <1>4, <1>a DEF RaiseRollbackAction, Goto, FailPc, AfterFail
  <2>2. IF tx'[p].rec THEN Unsettled' ELSE NothingReplaced(p)'
    BY <2>1 DEF ProcessInv, Unsettled, Journalled, NothingReplaced
  <2> QED
    BY <2>1, <2>2, QuietJournal, PcLocations
    DEF ProcessInv, UnjournalledPc, BeforeCall, AfterCall, PublishedPc, FailPc,
        Recovering, RecoveryPc, SharedPc
<1>5. CASE RaiseRollbackAction(p) /\ pc[p] = "fail_status"
  <2>1. pc'[p] = "finally" /\ UNCHANGED <<file, orig, journal>>
    BY <1>5, <1>a DEF RaiseRollbackAction, Goto, AfterFail
  <2> QED
    BY <2>1, QuietJournal, PcLocations
    DEF ProcessInv, UnjournalledPc, BeforeCall, AfterCall, PublishedPc, FailPc,
        Recovering, RecoveryPc, SharedPc
<1> QED
  BY <1>1, <1>2, <1>3, <1>4, <1>5 DEF RaiseRollbackAction

\* Every step under the lease but the last keeps the invariant.
LEMMA WorkInv ==
  ASSUME TypeOK, JournalInv, NoLateRaise, NEW p \in Proc, ProcessInv(p), Works(p)
  PROVE  JournalInv' /\ ProcessInv(p)'
BY UnjournalledInv, ForwardInv, AdvanceInv, CommitInv, RecoveryInv, FailureInv,
   FailProviderInv, RaiseInv DEF Works, RefreshStep

\* A process that a step leaves alone relies on the same files.
LEMMA SameProcess ==
  ASSUME UNCHANGED <<file, orig, journal>>, NEW q \in Proc, ProcessInv(q),
         pc'[q] = pc[q], tx'[q] = tx[q]
  PROVE  ProcessInv(q)'
BY DEF ProcessInv, NothingReplaced, Untouched, Recovering, Unsettled, Journalled

\* A process that takes the lease has no refresh behind it.
LEMMA TakeInv ==
  ASSUME TypeOK, JournalInv, NEW p \in Proc, Construct(p) \/ RefreshStart(p)
  PROVE  ProcessInv(p)' /\ UNCHANGED <<file, orig, journal>>
<1>a. pc \in [Proc -> Pc] /\ tx \in [Proc -> TxType]
  BY DEF TypeOK
<1>1. /\ UNCHANGED <<file, orig, journal>>
      /\ \/ pc'[p] = "idle"
         \/ /\ pc'[p] \in {"recover", "plan"}
            /\ pc'[p] = "plan" => ~Journalled
            /\ tx'[p] \in {NoTx, [NoTx EXCEPT !.why = "start"]}
  BY <1>a DEF Construct, RefreshStart, Goto
<1>2. tx'[p] \in {NoTx, [NoTx EXCEPT !.why = "start"]} => Untouched(p)'
  BY DEF NoTx, Untouched
<1> QED
  BY <1>1, <1>2, PcLocations
  DEF ProcessInv, UnjournalledPc, BeforeCall, AfterCall, PublishedPc, FailPc,
      Recovering, RecoveryPc, SharedPc, NothingReplaced, Untouched, Journalled

\* The invariant holds initially.
LEMMA InitGeneration == Init => GenerationInv
<1> SUFFICES ASSUME Init PROVE GenerationInv
  OBVIOUS
<1>1. JournalInv
  BY DEF Init, JournalInv, Unsettled, Journalled, NoJournal, Uniform, Published,
         Artifact
<1>2. ASSUME NEW p \in Proc PROVE ProcessInv(p)
  <2>1. pc[p] = "down"
    BY DEF Init
  <2> QED
    BY <2>1, PcLocations
    DEF ProcessInv, UnjournalledPc, BeforeCall, AfterCall, PublishedPc, FailPc,
        Recovering, RecoveryPc, SharedPc
<1> QED
  BY <1>1, <1>2, InitType, InitLease DEF GenerationInv

\* The invariant is inductive when nothing raises after the state is published.
LEMMA NextGeneration ==
  ASSUME GenerationInv, NoLateRaise, [Next]_vars
  PROVE  GenerationInv'
<1>a. TypeOK /\ LeaseInv /\ JournalInv /\ \A q \in Proc : ProcessInv(q)
  BY DEF GenerationInv
<1>b. TypeOK' /\ LeaseInv'
  BY <1>a, NextType, NextLease
<1>c. SUFFICES JournalInv' /\ \A q \in Proc : ProcessInv(q)'
  BY <1>b DEF GenerationInv
<1>1. CASE UNCHANGED vars \/ ForeignCleanup
  BY <1>1, <1>a, SameProcess, QuietJournal DEF ForeignCleanup
<1>2. ASSUME NEW p \in Proc, Works(p)
      PROVE  JournalInv' /\ \A q \in Proc : ProcessInv(q)'
  BY <1>2, <1>a, <1>b, WorkInv, WorkLease, OtherProcesses
<1>3. ASSUME NEW p \in Proc, Releases(p)
      PROVE  JournalInv' /\ \A q \in Proc : ProcessInv(q)'
  <2>1. UNCHANGED <<file, orig, journal>>
    BY <1>3 DEF Releases, CleanupCache, RaiseRecovery, Finally, RaiseFinally
  <2>2. ProcessInv(p)'
    BY <1>3, <1>a, ReleaseLease, IdleProcess, OwnerLocations
  <2>3. ASSUME NEW q \in Proc \ {p} PROVE ProcessInv(q)'
    BY <1>3, <1>a, <1>b, ReleaseLease, OtherProcesses
  <2> QED
    BY <1>a, <2>1, <2>2, <2>3, QuietJournal
<1>4. ASSUME NEW p \in Proc,
             Kill(p) \/ Boot(p) \/ QueryBegin(p) \/ QueryStep(p)
      PROVE  JournalInv' /\ \A q \in Proc : ProcessInv(q)'
  <2>1. /\ UNCHANGED <<file, orig, journal>>
        /\ pc'[p] \in {"down", "construct", "bind", "idle", "querying"}
        /\ \A q \in Proc \ {p} : pc'[q] = pc[q] /\ tx'[q] = tx[q]
    BY <1>4, <1>a DEF TypeOK, Kill, Boot, QueryBegin, QueryStep, QueryRefused,
                      QueryBind, QueryEnd, Goto
  <2> QED
    BY <1>a, <2>1, QuietJournal, SameProcess, IdleProcess, OwnerLocations
<1>5. ASSUME NEW p \in Proc, Construct(p) \/ RefreshStart(p)
      PROVE  JournalInv' /\ \A q \in Proc : ProcessInv(q)'
  <2>1. ProcessInv(p)' /\ UNCHANGED <<file, orig, journal>>
    BY <1>5, <1>a, TakeInv
  <2>2. \A q \in Proc \ {p} : pc'[q] = pc[q] /\ tx'[q] = tx[q]
    BY <1>5, <1>a DEF TypeOK, Construct, RefreshStart, Goto
  <2> QED
    BY <1>a, <2>1, <2>2, QuietJournal, SameProcess
<1> QED
  BY <1>1, <1>2, <1>3, <1>4, <1>5, NextCases

\* Unless an error is raised once the state is published, no journal on disk
\* means one generation on disk: whatever else raises, and wherever a process is
\* killed, a mixed set of files never passes for a published generation.
THEOREM OneGeneration ==
  ASSUME NoLateRaise
  PROVE  Spec => []PublishedUniform
<1>1. GenerationInv /\ [Next]_vars => GenerationInv'
  BY NextGeneration, NoLateRaise
<1>2. GenerationInv => PublishedUniform
  BY DEF GenerationInv, JournalInv, Unsettled, PublishedUniform
<1> QED
  BY InitGeneration, <1>1, <1>2, PTL DEF Spec

-----------------------------------------------------------------------------
(* What a query is bound to.                                               *)

\* The generation recovery would leave behind, by its manifest.
Durable == IF Unsettled THEN orig["manifest"] ELSE file["manifest"]

\* The part about p: a process that knows a generation knows that the project
\* is indexed, and one that is querying knows the generation on disk.
BindingInv(p) ==
  /\ view[p].idx # 0 => Durable # 0
  /\ tx[p].base # 0 => Durable # 0
  /\ pc[p] \in AfterCall => tx[p].cand # 0
  /\ pc[p] = "activate" => file["manifest"] = tx[p].cand /\ tx[p].cand # 0
  /\ pc[p] = "querying" => ~Journalled /\ view[p].idx = file["manifest"]
SnapshotInv == nextGen # 0 /\ \A p \in Proc : BindingInv(p)

\* A project that is indexed stays indexed: no step takes the durable
\* generation away.
LEMMA DurableStays ==
  ASSUME TypeOK, LeaseInv, JournalInv, NEW p \in Proc, ProcessInv(p),
         BindingInv(p), Works(p), Durable # 0
  PROVE  Durable' # 0
<1>a. pc \in [Proc -> Pc] /\ file \in [Artifact -> Nat]
  BY DEF TypeOK
<1>1. CASE UNCHANGED <<file, orig, journal>>
  BY <1>1 DEF Durable, Unsettled, Journalled
<1>2. CASE Unsettled /\ UNCHANGED <<orig, journal>>
  BY <1>2 DEF Durable, Unsettled, Journalled
<1>3. CASE LinkBackups(p)
  <2>1. ~Unsettled /\ ~Unsettled' /\ UNCHANGED file
    BY <1>3 DEF LinkBackups, ProcessInv, UnjournalledPc, NothingReplaced,
                Unsettled, Journalled
  <2> QED
    BY <2>1 DEF Durable
<1>4. CASE WriteJournal(p)
  <2>1. ~Unsettled /\ UNCHANGED <<file, orig>> /\ orig = file
    BY <1>4 DEF WriteJournal, ProcessInv, UnjournalledPc, NothingReplaced, Unsettled
  <2> QED
    BY <2>1 DEF Durable
<1>5. CASE Advance(p)
  <2>1. /\ pc[p] \in DOMAIN PhaseOf /\ UNCHANGED <<file, orig>>
        /\ journal'.phase = PhaseOf[pc[p]]
    BY <1>5 DEF TypeOK, Advance, JournalType
  <2>2. CASE pc[p] = "adv_state"
    <3>1. file["manifest"] = tx[p].cand /\ tx[p].cand # 0
      BY <2>2 DEF ProcessInv, AfterCall, ReplacedAt, BindingInv
    <3>2. ~Unsettled'
      BY <2>1, <2>2 DEF PhaseOf, Unsettled, Accept
    <3> QED
      BY <2>1, <3>1, <3>2 DEF Durable
  <2>3. CASE pc[p] \in {"adv_activated", "adv_committing"}
    <3>1. ~Unsettled /\ ~Unsettled'
      BY <2>1, <2>3 DEF PhaseOf, Unsettled, Accept, ProcessInv, PublishedPc
    <3> QED
      BY <2>1, <3>1 DEF Durable
  <2>4. CASE pc[p] \in {"adv_indexed", "adv_validated", "adv_candidate",
                        "adv_sidecar", "adv_manifest"}
    <3>1. Unsettled /\ Unsettled'
      BY <2>1, <2>4 DEF PhaseOf, Unsettled, Journalled, Accept, ProcessInv,
                        AfterCall
    <3> QED
      BY <2>1, <3>1 DEF Durable
  <2> QED
    BY <2>1, <2>2, <2>3, <2>4, PcLocations
<1>6. CASE UnlinkJournal(p)
  <2>1. ~Unsettled' /\ UNCHANGED <<file, orig>>
        /\ (Unsettled => file["manifest"] = orig["manifest"])
    BY <1>6 DEF UnlinkJournal, NoJournal, Unsettled, Journalled, ProcessInv,
                Artifact
  <2> QED
    BY <2>1 DEF Durable
<1>7. CASE FailManifest(p) \/ FailSidecar(p) \/ FailState(p) \/ FailBytes(p)
           \/ FailProvider(p)
  <2>1. pc[p] \in FailPc /\ UNCHANGED <<orig, journal>>
    BY <1>7 DEF FailManifest, FailSidecar, FailState, FailBytes, FailProvider,
                FailPc
  <2>2. CASE tx[p].rec
    BY <1>2, <2>1, <2>2 DEF ProcessInv
  <2>3. CASE ~tx[p].rec
    <3>1. NothingReplaced(p)
      BY <2>1, <2>3 DEF ProcessInv
    <3>2. file'["manifest"] = file["manifest"]
      BY <1>7, <1>a, <3>1
      DEF NothingReplaced, FailManifest, FailSidecar, FailState, FailBytes,
          FailProvider, Replace, Artifact
    <3>3. ~Unsettled /\ ~Unsettled'
      BY <2>1, <3>1 DEF NothingReplaced, Unsettled, Journalled
    <3> QED
      BY <3>2, <3>3 DEF Durable
  <2> QED
    BY <2>2, <2>3
<1>8. CASE CallProvider(p) \/ PublishSidecar(p) \/ PublishManifest(p)
           \/ RecordState(p) \/ UndoOne(p)
  <2>1. UNCHANGED <<orig, journal>>
    BY <1>8 DEF CallProvider, PublishSidecar, PublishManifest, PublishStaged,
                RecordState, UndoOne
  <2>2. Unsettled
    BY <1>8, PcLocations
    DEF CallProvider, PublishSidecar, PublishManifest, RecordState, UndoOne,
        ProcessInv, BeforeCall, AfterCall
  <2> QED
    BY <1>2, <2>1, <2>2
<1>9. CASE \/ PlanNoop(p) \/ PlanRefresh(p) \/ StageRegistration(p)
           \/ BackupProvider(p) \/ AdmitProvider(p) \/ StageManifest(p)
           \/ Activate(p) \/ CommitStaged(p) \/ Recover(p) \/ DiscardOne(p)
           \/ CleanupData(p) \/ CleanupCache(p) \/ FailStatus(p)
           \/ RaiseForward(p) \/ RaiseRollbackAction(p) \/ RaiseRecovery(p)
  <2>1. UNCHANGED <<file, orig, journal>>
    BY <1>9 DEF PlanNoop, PlanRefresh, StageRegistration, BackupProvider,
                AdmitProvider, StageManifest, Activate, CommitStaged, Recover,
                DiscardOne, CleanupData, CleanupCache, FailStatus, RaiseForward,
                RaiseRollbackAction, RaiseRecovery
  <2> QED
    BY <1>1, <2>1
<1> QED
  BY <1>3, <1>4, <1>5, <1>6, <1>7, <1>8, <1>9 DEF Works, RefreshStep

\* Where the local variables of a refresh come from: the base is the manifest it
\* planned from, the candidate a new generation, the bytes the manifest it linked.
LEMMA LocalValues ==
  ASSUME TypeOK, NEW p \in Proc, Works(p)
  PROVE  /\ \/ PlanNoop(p) \/ PlanRefresh(p)
            \/ tx'[p].base = tx[p].base
         /\ CallProvider(p) \/ tx'[p].cand = tx[p].cand
         /\ \/ LinkBackups(p) /\ tx'[p].manifestBytes = file["manifest"]
            \/ tx'[p].manifestBytes = tx[p].manifestBytes
<1>a. tx[p] \in TxType /\ tx \in [Proc -> TxType]
  BY DEF TypeOK
<1>1. CASE PlanNoop(p) \/ PlanRefresh(p)
  BY <1>1, <1>a DEF PlanNoop, PlanRefresh, TxType
<1>2. CASE StageRegistration(p) \/ AdmitProvider(p) \/ CallProvider(p)
           \/ StageManifest(p) \/ Recover(p) \/ UndoOne(p) \/ DiscardOne(p)
           \/ UnlinkJournal(p)
  BY <1>2, <1>a DEF StageRegistration, AdmitProvider, CallProvider, StageManifest,
                    Recover, UndoOne, DiscardOne, UnlinkJournal, TxType
<1>3. CASE LinkBackups(p)
  <2>1. tx'[p] = [tx[p] EXCEPT !.stateBytes = file["state"],
                               !.manifestBytes = file["manifest"]]
    BY <1>3, <1>a DEF LinkBackups
  <2> QED
    BY <1>3, <2>1, <1>a DEF TxType
<1>4. CASE WriteJournal(p)
  <2>1. tx'[p] = [tx[p] EXCEPT !.rec = TRUE, !.named = Existing]
    BY <1>4, <1>a DEF WriteJournal
  <2> QED
    BY <2>1, <1>a DEF TxType
<1>5. CASE BackupProvider(p)
  <2>1. \E S : tx'[p] = [tx[p] EXCEPT !.pbackup = TRUE, !.held = S]
               \/ tx'[p] = [tx[p] EXCEPT !.pbackup = TRUE]
    BY <1>5, <1>a DEF BackupProvider
  <2> QED
    BY <2>1, <1>a DEF TxType
<1>6. CASE PublishSidecar(p) \/ FailSidecar(p)
  <2>1. \/ tx'[p] = [tx[p] EXCEPT !.sidecar = "none", !.held = @ \ {"sidecar"}]
        \/ tx'[p] = [tx[p] EXCEPT !.sidecar = "published",
                                  !.held = @ \cup (Existing \cap {"sidecar"})]
    BY <1>6, <1>a DEF PublishSidecar, FailSidecar
  <2> QED
    BY <2>1, <1>a DEF TxType
<1>7. CASE PublishManifest(p) \/ FailManifest(p)
  <2>1. \/ tx'[p] = [tx[p] EXCEPT !.manifest = "none", !.held = @ \ {"manifest"}]
        \/ tx'[p] = [tx[p] EXCEPT !.manifest = "published",
                                  !.held = @ \cup (Existing \cap {"manifest"})]
    BY <1>7, <1>a DEF PublishManifest, FailManifest
  <2> QED
    BY <2>1, <1>a DEF TxType
<1>8. CASE CommitStaged(p)
  <2>1. \E S : tx'[p] = [tx[p] EXCEPT !.held = S, !.why = "commit"]
    BY <1>8, <1>a DEF CommitStaged
  <2> QED
    BY <2>1, <1>a DEF TxType
<1>9. CASE FailProvider(p) \/ RaiseRollbackAction(p)
  <2>1. \/ \E S : tx'[p] = [tx[p] EXCEPT !.why = "rollback", !.held = S]
        \/ tx'[p] = [tx[p] EXCEPT !.why = "rollback"]
        \/ tx' = tx
    BY <1>9, <1>a DEF FailProvider, RaiseRollbackAction
  <2> QED
    BY <2>1, <1>a DEF TxType
<1>10. CASE \/ Advance(p) \/ RecordState(p) \/ Activate(p) \/ CleanupData(p)
            \/ CleanupCache(p) \/ FailState(p) \/ FailBytes(p) \/ FailStatus(p)
            \/ RaiseForward(p) \/ (RaiseRecovery(p) /\ tx[p].why # "start")
  BY <1>10 DEF Advance, RecordState, Activate, CleanupData, CleanupCache,
               FailState, FailBytes, FailStatus, RaiseForward, RaiseRecovery
<1> QED
  BY <1>1, <1>2, <1>3, <1>4, <1>5, <1>6, <1>7, <1>8, <1>9, <1>10
  DEF Works, RefreshStep

\* The generation a process has in memory is the manifest's, the candidate's
\* once it is published, or the base it fell back to.
LEMMA ViewValues ==
  ASSUME TypeOK, NEW p \in Proc, Works(p)
  PROVE  /\ \/ view'[p].idx = view[p].idx
            \/ PlanNoop(p) /\ view'[p].idx = file["manifest"]
            \/ Activate(p) /\ view'[p].idx = tx[p].cand
            \/ FailStatus(p) /\ view'[p].idx = tx[p].base
         /\ \A q \in Proc \ {p} : view'[q] = view[q]
<1>a. view[p] \in ViewType /\ view \in [Proc -> ViewType]
  BY DEF TypeOK
<1>b. \A g : Activated(p, g).idx = g
  BY <1>a DEF Activated, ViewType
<1>1. CASE PlanNoop(p)
  BY <1>1, <1>a, <1>b DEF PlanNoop
<1>2. CASE Activate(p)
  BY <1>2, <1>a, <1>b DEF Activate
<1>3. CASE FailStatus(p)
  BY <1>3, <1>a DEF FailStatus, ViewType
<1>4. CASE CleanupCache(p)
  BY <1>4, <1>a DEF CleanupCache, ViewType
<1>5. CASE ~(PlanNoop(p) \/ Activate(p) \/ FailStatus(p) \/ CleanupCache(p))
  <2>1. UNCHANGED view
    BY <1>5 DEF Works, RefreshStep, PlanRefresh, StageRegistration, LinkBackups,
                WriteJournal, BackupProvider, AdmitProvider, CallProvider, Advance,
                StageManifest, PublishSidecar, PublishManifest, PublishStaged,
                RecordState, CommitStaged, Recover, UndoOne, DiscardOne,
                UnlinkJournal, CleanupData, FailManifest, FailSidecar, FailState,
                FailBytes, FailProvider, RaiseForward, RaiseRollbackAction,
                RaiseRecovery
  <2> QED
    BY <2>1
<1> QED
  BY <1>1, <1>2, <1>3, <1>4, <1>5

\* A process that has a candidate has just built it, or had it before.
LEMMA CandidateStays ==
  ASSUME TypeOK, NEW p \in Proc, Works(p), pc'[p] \in AfterCall \cup {"activate"}
  PROVE  CallProvider(p) \/ pc[p] \in AfterCall
<1> SUFFICES ASSUME ~CallProvider(p) PROVE pc[p] \in AfterCall
  OBVIOUS
<1>a. pc \in [Proc -> Pc]
  BY DEF TypeOK
<1>1. RefreshStep(p)
  <2>1. CASE \/ Recover(p) \/ DiscardOne(p) \/ UnlinkJournal(p) \/ CleanupData(p)
             \/ CleanupCache(p)
    BY <1>a, <2>1 DEF Recover, DiscardOne, UnlinkJournal, CleanupData,
                      CleanupCache, Goto, AfterCall
  <2>2. CASE UndoOne(p)
    BY <1>a, <2>2, PcLocations DEF UndoOne, AfterUndo, Goto, AfterCall
  <2>3. CASE \/ FailManifest(p) \/ FailSidecar(p) \/ FailState(p) \/ FailBytes(p)
             \/ FailProvider(p) \/ FailStatus(p)
    BY <1>a, <2>3 DEF FailManifest, FailSidecar, FailState, FailBytes,
                      FailProvider, FailStatus, ToJournalRollback, AfterFail, Goto,
                      AfterCall
  <2>4. CASE \/ RaiseForward(p) \/ RaiseRollbackAction(p)
             \/ (RaiseRecovery(p) /\ tx[p].why # "start")
    BY <1>a, <2>4 DEF RaiseForward, RaiseRollbackAction, RaiseRecovery,
                      ToJournalRollback, FailPc, AfterFail, Goto, AfterCall
  <2> QED
    BY <2>1, <2>2, <2>3, <2>4 DEF Works
<1>2. CASE Advance(p)
  BY <1>a, <1>2, PcLocations DEF Advance, AfterAdvance, Goto, AfterCall
<1>3. CASE ~Advance(p)
  BY <1>a, <1>1, <1>3
  DEF RefreshStep, PlanNoop, PlanRefresh, StageRegistration, LinkBackups,
      WriteJournal, BackupProvider, AdmitProvider, StageManifest, PublishSidecar,
      PublishManifest, RecordState, Activate, CommitStaged, Goto, AfterCall
<1> QED
  BY <1>2, <1>3

\* The steps under the lease keep what every process knows of the generation.
LEMMA WorkBinding ==
  ASSUME TypeOK, LeaseInv, JournalInv, SnapshotInv, NEW p \in Proc, ProcessInv(p),
         Works(p)
  PROVE  SnapshotInv'
<1>a. BindingInv(p) /\ nextGen # 0
  BY DEF SnapshotInv
<1>b. Durable # 0 => Durable' # 0
  BY <1>a, DurableStays
<1>c. LeaseInv' /\ owner = p /\ owner' = p /\ pc[p] \in OwnerPc
  BY WorkLease
<1>d. pc \in [Proc -> Pc] /\ file \in [Artifact -> Nat] /\ nextGen \in Nat
  BY DEF TypeOK
<1>e. /\ UNCHANGED nextGen \/ nextGen' = nextGen + 1
      /\ \A q \in Proc \ {p} : tx'[q] = tx[q] /\ pc'[q] = pc[q]
  <2>1. UNCHANGED nextGen \/ nextGen' = nextGen + 1
    BY DEF Works, RefreshStep, PlanNoop, PlanRefresh, StageRegistration,
           LinkBackups, WriteJournal, BackupProvider, AdmitProvider, CallProvider,
           Advance, StageManifest, PublishSidecar, PublishManifest, PublishStaged,
           RecordState, Activate, CommitStaged, Recover, UndoOne, DiscardOne,
           UnlinkJournal, CleanupData, CleanupCache, FailManifest, FailSidecar,
           FailState, FailBytes, FailProvider, FailStatus, RaiseForward,
           RaiseRollbackAction, RaiseRecovery
  <2>2. pc' = [pc EXCEPT ![p] = pc'[p]]
    BY RefreshMoves, RecoveryMoves, FailureMoves DEF Works
  <2>3. \A q \in Proc \ {p} : tx'[q] = tx[q]
    BY DEF TypeOK, Works, RefreshStep, PlanNoop, PlanRefresh, StageRegistration,
           LinkBackups, WriteJournal, BackupProvider, AdmitProvider, CallProvider,
           Advance, StageManifest, PublishSidecar, PublishManifest, PublishStaged,
           RecordState, Activate, CommitStaged, Recover, UndoOne, DiscardOne,
           UnlinkJournal, CleanupData, CleanupCache, FailManifest, FailSidecar,
           FailState, FailBytes, FailProvider, FailStatus, RaiseForward,
           RaiseRollbackAction, RaiseRecovery
  <2> QED
    BY <1>d, <2>1, <2>2, <2>3
<1>1. tx'[p].base # 0 => Durable' # 0
  <2>1. CASE PlanNoop(p) \/ PlanRefresh(p)
    <3>1. pc[p] = "plan" /\ UNCHANGED <<file, orig, journal>>
      BY <2>1 DEF PlanNoop, PlanRefresh
    <3>2. ~Unsettled
      BY <3>1 DEF ProcessInv, UnjournalledPc, NothingReplaced, Unsettled
    <3>3. tx'[p].base = file["manifest"]
      BY <2>1 DEF TypeOK, PlanNoop, PlanRefresh, TxType
    <3> QED
      BY <3>1, <3>2, <3>3 DEF Durable, Unsettled, Journalled
  <2>2. CASE tx'[p].base = tx[p].base
    BY <1>a, <1>b, <2>2 DEF BindingInv
  <2> QED
    BY <2>1, <2>2, LocalValues
<1>2. view'[p].idx # 0 => Durable' # 0
  <2>1. CASE view'[p].idx = view[p].idx
    BY <1>a, <1>b, <2>1 DEF BindingInv
  <2>2. CASE PlanNoop(p) /\ view'[p].idx = file["manifest"]
    <3>1. pc[p] = "plan" /\ UNCHANGED <<file, orig, journal>>
      BY <2>2 DEF PlanNoop
    <3>2. ~Unsettled
      BY <3>1 DEF ProcessInv, UnjournalledPc, NothingReplaced, Unsettled
    <3> QED
      BY <2>2, <3>1, <3>2 DEF Durable, Unsettled, Journalled
  <2>3. CASE Activate(p) /\ view'[p].idx = tx[p].cand
    <3>1. pc[p] = "activate" /\ UNCHANGED <<file, orig, journal>>
      BY <2>3 DEF Activate
    <3>2. ~Unsettled /\ file["manifest"] # 0
      BY <1>a, <3>1 DEF ProcessInv, PublishedPc, Unsettled, BindingInv
    <3> QED
      BY <3>1, <3>2 DEF Durable, Unsettled, Journalled
  <2>4. CASE FailStatus(p) /\ view'[p].idx = tx[p].base
    BY <1>a, <1>b, <2>4 DEF BindingInv
  <2> QED
    BY <2>1, <2>2, <2>3, <2>4, ViewValues
<1>3. pc'[p] \in AfterCall \cup {"activate"} => tx'[p].cand # 0
  <2>1. CASE CallProvider(p)
    BY <1>a, <2>1 DEF TypeOK, CallProvider, TxType
  <2>2. CASE ~CallProvider(p)
    BY <1>a, <2>2, LocalValues, CandidateStays DEF BindingInv
  <2> QED
    BY <2>1, <2>2
<1>4. pc'[p] = "activate" => file'["manifest"] = tx'[p].cand
  <2> SUFFICES ASSUME pc'[p] = "activate" PROVE file'["manifest"] = tx'[p].cand
    OBVIOUS
  <2>1. ~CallProvider(p)
    BY <1>d DEF CallProvider, Goto
  <2>2. pc[p] \in AfterCall
    BY <2>1, CandidateStays
  <2>3. CASE Advance(p)
    <3>1. pc[p] = "adv_state" /\ UNCHANGED <<file, tx>>
      BY <1>d, <2>3, PcLocations DEF Advance, AfterAdvance, Goto
    <3> QED
      BY <3>1 DEF ProcessInv, AfterCall, ReplacedAt
  <2>4. CASE ~Advance(p)
    <3>1. ~RefreshStep(p)
      BY <1>d, <2>1, <2>4
      DEF RefreshStep, PlanNoop, PlanRefresh, StageRegistration, LinkBackups,
          WriteJournal, BackupProvider, AdmitProvider, StageManifest,
          PublishSidecar, PublishManifest, RecordState, Activate, CommitStaged,
          Goto
    <3>2. CASE UndoOne(p)
      BY <2>2, <3>2, PcLocations DEF UndoOne, AfterCall
    <3>3. CASE ~UndoOne(p)
      BY <1>d, <2>2, <3>1, <3>3
      DEF Works, Recover, DiscardOne, UnlinkJournal, CleanupData, CleanupCache,
          FailManifest, FailSidecar, FailState, FailBytes, FailProvider,
          FailStatus, RaiseForward, RaiseRollbackAction, RaiseRecovery,
          AfterCall, FailPc, SharedPc, RecoveryPc, Goto
    <3> QED
      BY <3>2, <3>3
  <2> QED
    BY <2>3, <2>4
<1>5. pc'[p] # "querying"
  BY <1>c, OwnerLocations DEF LeaseInv
<1>6. BindingInv(p)'
  BY <1>1, <1>2, <1>3, <1>4, <1>5 DEF BindingInv
<1>7. ASSUME NEW q \in Proc \ {p} PROVE BindingInv(q)'
  <2>1. pc'[q] \notin {"activate", "querying"}
    <3>1. owner' # NoProc /\ readers' = {}
      BY <1>c, ConstantsOK DEF LeaseInv
    <3> QED
      BY <1>c, <3>1, OwnerLocations DEF LeaseInv
  <2>2. view'[q] = view[q]
    BY ViewValues
  <2>3. BindingInv(q)
    BY DEF SnapshotInv
  <2> QED
    BY <1>b, <1>e, <2>1, <2>2, <2>3 DEF BindingInv
<1> QED
  BY <1>a, <1>d, <1>e, <1>6, <1>7 DEF SnapshotInv

\* The steps without the lease, or the last under it, leave the files alone.
LEMMA OtherBinding ==
  ASSUME TypeOK, LeaseInv, JournalInv, SnapshotInv, NEW p \in Proc,
         \/ Releases(p) \/ Kill(p) \/ Construct(p) \/ RefreshStart(p)
         \/ Boot(p) \/ QueryBegin(p) \/ QueryStep(p)
  PROVE  SnapshotInv'
<1>a. /\ pc \in [Proc -> Pc] /\ tx \in [Proc -> TxType]
      /\ view \in [Proc -> ViewType] /\ view[p] \in ViewType
  BY DEF TypeOK
<1>b. BindingInv(p) /\ nextGen # 0
  BY DEF SnapshotInv
<1>1. /\ UNCHANGED <<file, orig, journal, nextGen>>
      /\ \A q \in Proc \ {p} : /\ pc'[q] = pc[q] /\ tx'[q] = tx[q]
                               /\ view'[q] = view[q]
  <2>1. CASE Releases(p)
    BY <1>a, <2>1 DEF Releases, CleanupCache, RaiseRecovery, Finally, RaiseFinally, Goto
  <2>2. CASE Kill(p) \/ Construct(p) \/ RefreshStart(p)
    BY <1>a, <2>2 DEF Kill, Construct, RefreshStart, Goto
  <2>3. CASE Boot(p) \/ QueryBegin(p)
    BY <1>a, <2>3 DEF Boot, QueryBegin, Goto
  <2>4. CASE QueryStep(p)
    BY <1>a, <2>4 DEF QueryStep, QueryRefused, QueryBind, QueryEnd, Goto
  <2> QED
    BY <2>1, <2>2, <2>3, <2>4
<1>2. Durable' = Durable
  BY <1>1 DEF Durable, Unsettled, Journalled
<1>3. tx'[p].base \in {0, tx[p].base}
  <2>1. NoTx.base = 0 /\ [NoTx EXCEPT !.why = "start"].base = 0
    BY DEF NoTx
  <2>2. tx'[p] \in {tx[p], NoTx, [NoTx EXCEPT !.why = "start"]}
    <3>1. CASE Releases(p)
      BY <1>a, <3>1 DEF Releases, CleanupCache, RaiseRecovery, Finally, RaiseFinally
    <3>2. CASE Kill(p) \/ Construct(p) \/ RefreshStart(p)
      BY <1>a, <3>2 DEF Kill, Construct, RefreshStart
    <3>3. CASE Boot(p) \/ QueryBegin(p) \/ QueryStep(p)
      BY <1>a, <3>3 DEF Boot, QueryBegin, QueryStep, QueryRefused, QueryBind,
                        QueryEnd
    <3> QED
      BY <3>1, <3>2, <3>3
  <2> QED
    BY <2>1, <2>2
<1>4. CASE ~QueryBind(p)
  <2>1. view'[p].idx \in {0, view[p].idx}
    <3>1. CASE \/ Kill(p) \/ Boot(p)
               \/ (RaiseRecovery(p) /\ tx[p].why = "start")
      BY <1>a, <3>1 DEF Kill, Boot, RaiseRecovery, NoView
    <3>2. CASE Construct(p)
      BY <1>a, <3>2 DEF Construct, ViewType
    <3>3. CASE CleanupCache(p)
      BY <1>a, <3>3 DEF CleanupCache, ViewType
    <3>4. CASE \/ Finally(p) \/ RaiseFinally(p) \/ RefreshStart(p)
               \/ QueryBegin(p) \/ QueryRefused(p) \/ QueryEnd(p)
      BY <3>4 DEF Finally, RaiseFinally, RefreshStart, QueryBegin, QueryRefused,
                  QueryEnd
    <3> QED
      BY <1>4, <3>1, <3>2, <3>3, <3>4 DEF Releases, QueryStep
  <2>2. pc'[p] \notin AfterCall \cup {"activate", "querying"}
    <3>1. CASE Releases(p)
      BY <1>a, <3>1 DEF Releases, CleanupCache, RaiseRecovery, Finally, RaiseFinally, Goto,
                        AfterCall
    <3>2. CASE Kill(p) \/ Construct(p) \/ RefreshStart(p)
      BY <1>a, <3>2 DEF Kill, Construct, RefreshStart, Goto, AfterCall
    <3>3. CASE Boot(p) \/ QueryBegin(p) \/ QueryRefused(p) \/ QueryEnd(p)
      BY <1>a, <3>3 DEF Boot, QueryBegin, QueryRefused, QueryEnd, Goto, AfterCall
    <3> QED
      BY <1>4, <3>1, <3>2, <3>3 DEF QueryStep
  <2>3. BindingInv(p)'
    BY <1>b, <1>2, <1>3, <2>1, <2>2 DEF BindingInv
  <2> QED
    BY <1>b, <1>1, <1>2, <2>3 DEF SnapshotInv, BindingInv, Journalled
<1>5. CASE QueryBind(p)
  <2>1. /\ pc'[p] = "querying" /\ ~Journalled /\ UNCHANGED tx
    BY <1>a, <1>5 DEF QueryBind, Goto
  <2>2. Durable = file["manifest"]
    BY <2>1 DEF Durable, Unsettled
  <2>3. view'[p].idx = file["manifest"]
    <3>1. CASE file["manifest"] \notin {0, view[p].idx}
      <4>1. view'[p] = Activated(p, file["manifest"])
        BY <1>a, <1>5, <3>1 DEF QueryBind
      <4> QED
        BY <1>a, <4>1 DEF Activated, ViewType
    <3>2. CASE file["manifest"] \in {0, view[p].idx}
      BY <1>b, <1>5, <2>2, <3>2 DEF QueryBind, BindingInv
    <3> QED
      BY <3>1, <3>2
  <2>4. BindingInv(p)'
    BY <1>b, <1>1, <1>2, <1>3, <2>1, <2>2, <2>3
    DEF BindingInv, Journalled, AfterCall
  <2> QED
    BY <1>b, <1>1, <1>2, <2>4 DEF SnapshotInv, BindingInv, Journalled
<1> QED
  BY <1>4, <1>5

\* No process knows of a generation initially.
LEMMA InitSnapshot == Init => SnapshotInv
BY DEF Init, SnapshotInv, BindingInv, NoView, NoTx, AfterCall

\* The binding is inductive, given the invariant of the files.
LEMMA NextSnapshot ==
  ASSUME GenerationInv, SnapshotInv, [Next]_vars
  PROVE  SnapshotInv'
<1>1. CASE UNCHANGED vars \/ ForeignCleanup
  BY <1>1 DEF ForeignCleanup, SnapshotInv, BindingInv, Durable, Unsettled,
              Journalled
<1> QED
  BY <1>1, NextCases, WorkBinding, OtherBinding DEF GenerationInv

\* An admitted query reads files of one generation, the one its status names,
\* for as long as it runs: a refresh, a recovery or a crash of another process
\* never makes its answers belong to two generations.
THEOREM QueriesAreBound ==
  ASSUME NoLateRaise
  PROVE  Spec => []SnapshotBound
<1>1. GenerationInv /\ SnapshotInv /\ [Next]_vars
        => (GenerationInv /\ SnapshotInv)'
  BY NextGeneration, NextSnapshot, NoLateRaise
<1>2. GenerationInv /\ SnapshotInv => SnapshotBound
  BY DEF GenerationInv, JournalInv, Unsettled, SnapshotInv, BindingInv,
         SnapshotBound
<1> QED
  BY InitGeneration, InitSnapshot, <1>1, <1>2, PTL DEF Spec

-----------------------------------------------------------------------------
(* What a step under the lease can change; the proofs about the published  *)
(* generation and about the backups need it too.                           *)

\* A step of the lease holder moves nobody else, and only builds generations.
LEMMA OthersAlone ==
  ASSUME TypeOK, NEW p \in Proc, Works(p)
  PROVE  /\ \A q \in Proc \ {p} : tx'[q] = tx[q] /\ pc'[q] = pc[q]
         /\ \/ UNCHANGED nextGen
            \/ CallProvider(p) /\ nextGen' = nextGen + 1
<1>1. pc' = [pc EXCEPT ![p] = pc'[p]]
  BY RefreshMoves, RecoveryMoves, FailureMoves DEF Works
<1>2. \A q \in Proc \ {p} : tx'[q] = tx[q]
  BY DEF TypeOK, Works, RefreshStep, PlanNoop, PlanRefresh, StageRegistration,
         LinkBackups, WriteJournal, BackupProvider, AdmitProvider, CallProvider,
         Advance, StageManifest, PublishSidecar, PublishManifest, PublishStaged,
         RecordState, Activate, CommitStaged, Recover, UndoOne, DiscardOne,
         UnlinkJournal, CleanupData, CleanupCache, FailManifest, FailSidecar,
         FailState, FailBytes, FailProvider, FailStatus, RaiseForward,
         RaiseRollbackAction, RaiseRecovery
<1>3. UNCHANGED nextGen \/ (CallProvider(p) /\ nextGen' = nextGen + 1)
  <2>1. CASE CallProvider(p)
    <3>1. nextGen' = nextGen + 1
      BY <2>1 DEF CallProvider
    <3> QED
      BY <2>1, <3>1
  <2>2. ASSUME ~CallProvider(p) PROVE UNCHANGED nextGen
    BY <2>2 DEF Works, RefreshStep, PlanNoop, PlanRefresh, StageRegistration,
         LinkBackups, WriteJournal, BackupProvider, AdmitProvider, Advance,
         StageManifest, PublishSidecar, PublishManifest, PublishStaged,
         RecordState, Activate, CommitStaged, Recover, UndoOne, DiscardOne,
         UnlinkJournal, CleanupData, CleanupCache, FailManifest, FailSidecar,
         FailState, FailBytes, FailProvider, FailStatus, RaiseForward,
         RaiseRollbackAction, RaiseRecovery
  <2> QED
    BY <2>1, <2>2
<1> QED
  BY <1>1, <1>2, <1>3 DEF TypeOK

\* The journal is written once, advanced, and unlinked; the backups are linked
\* once.
LEMMA JournalMoves ==
  ASSUME NEW p \in Proc, Works(p)
  PROVE  /\ \/ UNCHANGED journal
            \/ WriteJournal(p) \/ Advance(p) \/ UnlinkJournal(p)
         /\ UNCHANGED orig \/ LinkBackups(p)
BY DEF Works, RefreshStep, PlanNoop, PlanRefresh, StageRegistration,
       LinkBackups, BackupProvider, AdmitProvider, CallProvider, Advance,
       WriteJournal, UnlinkJournal, StageManifest, PublishSidecar,
       PublishManifest, PublishStaged, RecordState, Activate, CommitStaged,
       Recover, UndoOne, DiscardOne, CleanupData, CleanupCache, FailManifest,
       FailSidecar, FailState, FailBytes, FailProvider, FailStatus,
       RaiseForward, RaiseRollbackAction, RaiseRecovery

\* A refresh that has not written its journal came there from its plan.
LEMMA BaseIsFresh ==
  ASSUME TypeOK, NEW p \in Proc, Works(p), pc'[p] \in {"stage", "link", "journal"}
  PROVE  \/ PlanRefresh(p)
         \/ (StageRegistration(p) \/ LinkBackups(p)) /\ pc[p] \in {"stage", "link"}
<1>a. pc \in [Proc -> Pc]
  BY DEF TypeOK
<1>1. CASE Advance(p) \/ UndoOne(p)
  BY <1>1, <1>a, PcLocations
  DEF Advance, AfterAdvance, UndoOne, AfterUndo, Goto
<1>2. CASE ~(Advance(p) \/ UndoOne(p))
  BY <1>2, <1>a
  DEF Works, RefreshStep, PlanNoop, PlanRefresh, StageRegistration, LinkBackups,
      WriteJournal, BackupProvider, AdmitProvider, CallProvider, StageManifest,
      PublishSidecar, PublishManifest, RecordState, Activate, CommitStaged,
      Recover, DiscardOne, UnlinkJournal, CleanupData, CleanupCache,
      FailManifest, FailSidecar, FailState, FailBytes, FailProvider, FailStatus,
      RaiseForward, RaiseRollbackAction, RaiseRecovery, ToJournalRollback,
      AfterFail, FailPc, Goto
<1> QED
  BY <1>1, <1>2

-----------------------------------------------------------------------------
(* The order of the generations.                                           *)

\* The part of a process: its candidate is the newest generation there is, and
\* until it writes its journal the base is the published generation.
OrderOf(p) ==
  /\ tx[p].cand < nextGen
  /\ tx[p].manifestBytes < nextGen
  /\ pc[p] \in {"stage", "link", "journal"} => tx[p].base = file["manifest"]
  /\ pc[p] \in AfterCall => journal.before < tx[p].cand

\* An unsettled journal names the generation its backups hold; a settled one
\* names a generation no later than the one published under it.
JournalOrder ==
  /\ Unsettled => journal.before = orig["manifest"]
  /\ Journalled => journal.before < nextGen
  /\ Journalled /\ ~Unsettled => journal.before <= file["manifest"]

OrderInv ==
  /\ file["manifest"] < nextGen
  /\ orig["manifest"] < nextGen
  /\ JournalOrder
  /\ \A p \in Proc : OrderOf(p)

\* The manifest only changes under a journal that can undo it, and to the
\* candidate or to what was there before.
LEMMA ManifestMoves ==
  ASSUME TypeOK, NEW p \in Proc, ProcessInv(p), Works(p)
  PROVE  \/ file'["manifest"] = file["manifest"]
         \/ /\ Unsettled /\ UNCHANGED <<orig, journal>>
            /\ file'["manifest"] \in {0, orig["manifest"], tx[p].cand,
                                      tx[p].manifestBytes}
<1>a. pc \in [Proc -> Pc] /\ file \in [Artifact -> Nat]
  BY DEF TypeOK
<1>1. CASE FailManifest(p) \/ FailSidecar(p) \/ FailState(p) \/ FailBytes(p)
           \/ FailProvider(p)
  <2>1. pc[p] \in FailPc /\ UNCHANGED <<orig, journal>>
    BY <1>1 DEF FailManifest, FailSidecar, FailState, FailBytes, FailProvider,
                FailPc
  <2>2. file'["manifest"] \in {file["manifest"], 0, orig["manifest"],
                               tx[p].manifestBytes}
    BY <1>1, <1>a
    DEF FailManifest, FailSidecar, FailState, FailBytes, FailProvider,
        Unpublish, RenameOver, Replace, Artifact
  <2>3. CASE tx[p].rec
    BY <2>1, <2>2, <2>3 DEF ProcessInv
  <2>4. CASE ~tx[p].rec
    <3>1. NothingReplaced(p)
      BY <2>1, <2>4 DEF ProcessInv
    <3> QED
      BY <1>1, <1>a, <3>1
      DEF NothingReplaced, FailManifest, FailSidecar, FailState, FailBytes,
          FailProvider, Replace, Artifact
  <2> QED
    BY <2>3, <2>4
<1>2. CASE CallProvider(p) \/ PublishSidecar(p) \/ PublishManifest(p)
           \/ RecordState(p) \/ UndoOne(p)
  <2>1. UNCHANGED <<orig, journal>>
    BY <1>2 DEF CallProvider, PublishSidecar, PublishManifest, PublishStaged,
                RecordState, UndoOne
  <2>2. Unsettled
    BY <1>2, PcLocations
    DEF CallProvider, PublishSidecar, PublishManifest, RecordState, UndoOne,
        ProcessInv, BeforeCall, AfterCall
  <2>3. file'["manifest"] \in {file["manifest"], 0, orig["manifest"], tx[p].cand}
    BY <1>2, <1>a
    DEF CallProvider, PublishSidecar, PublishManifest, PublishStaged,
        RecordState, UndoOne, RenameOver, Replace, Artifact
  <2> QED
    BY <2>1, <2>2, <2>3
<1>3. CASE \/ PlanNoop(p) \/ PlanRefresh(p) \/ StageRegistration(p)
           \/ LinkBackups(p) \/ WriteJournal(p) \/ Advance(p) \/ UnlinkJournal(p)
           \/ BackupProvider(p) \/ AdmitProvider(p) \/ StageManifest(p)
           \/ Activate(p) \/ CommitStaged(p) \/ Recover(p) \/ DiscardOne(p)
           \/ CleanupData(p) \/ CleanupCache(p) \/ FailStatus(p)
           \/ RaiseForward(p) \/ RaiseRollbackAction(p) \/ RaiseRecovery(p)
  BY <1>3 DEF PlanNoop, PlanRefresh, StageRegistration, LinkBackups,
              WriteJournal, Advance, UnlinkJournal, BackupProvider,
              AdmitProvider, StageManifest, Activate, CommitStaged, Recover,
              DiscardOne, CleanupData, CleanupCache, FailStatus, RaiseForward,
              RaiseRollbackAction, RaiseRecovery
<1> QED
  BY <1>1, <1>2, <1>3 DEF Works, RefreshStep

\* No generation is later than the newest one, whatever a step adds.
LEMMA OrderOfOther ==
  ASSUME NEW q \in Proc, OrderOf(q), tx[q] \in TxType, nextGen \in Nat,
         nextGen' \in Nat, nextGen <= nextGen', tx'[q] = tx[q],
         pc'[q] = pc[q], pc[q] \notin OwnerPc
  PROVE  OrderOf(q)'
<1>1. tx[q].cand \in Nat /\ tx[q].manifestBytes \in Nat
  BY DEF TxType
<1>2. pc[q] \notin {"stage", "link", "journal"} \cup AfterCall
  BY OwnerLocations DEF AfterCall
<1> QED
  BY <1>1, <1>2 DEF OrderOf

\* The steps of the lease holder keep the order of the generations.
LEMMA WorkOrder ==
  ASSUME TypeOK, LeaseInv, OrderInv, NEW p \in Proc, ProcessInv(p), Works(p),
         TypeOK'
  PROVE  OrderInv'
<1>a. /\ pc \in [Proc -> Pc] /\ tx \in [Proc -> TxType] /\ tx[p] \in TxType
      /\ file["manifest"] \in Nat /\ orig["manifest"] \in Nat /\ nextGen \in Nat
      /\ journal.before \in Nat /\ tx[p].cand \in Nat
      /\ tx[p].manifestBytes \in Nat
  BY DEF TypeOK, Artifact, JournalType, TxType
<1>b. OrderOf(p) /\ JournalOrder
  BY DEF OrderInv
<1>c. nextGen' \in Nat /\ nextGen <= nextGen' /\ (CallProvider(p) => nextGen < nextGen')
  <2>1. CallProvider(p) => nextGen' = nextGen + 1
    BY DEF CallProvider
  <2> QED
    BY <1>a, <2>1, OthersAlone
<1>1. file'["manifest"] < nextGen'
  BY <1>a, <1>b, <1>c, ManifestMoves DEF OrderInv, OrderOf
<1>2. orig'["manifest"] < nextGen'
  <2>1. LinkBackups(p) => orig' = file
    BY DEF LinkBackups
  <2> QED
    BY <1>a, <1>c, <2>1, JournalMoves DEF OrderInv
<1>3. tx'[p].cand < nextGen' /\ tx'[p].manifestBytes < nextGen'
  <2>1. CallProvider(p) => tx'[p].cand = nextGen
    BY <1>a DEF CallProvider, TxType
  <2> QED
    BY <1>a, <1>b, <1>c, <2>1, LocalValues DEF OrderInv, OrderOf
<1>4. pc'[p] \in {"stage", "link", "journal"} => tx'[p].base = file'["manifest"]
  <2> SUFFICES ASSUME pc'[p] \in {"stage", "link", "journal"}
               PROVE  tx'[p].base = file'["manifest"]
    OBVIOUS
  <2>1. CASE PlanRefresh(p)
    BY <1>a, <2>1 DEF PlanRefresh, TxType
  <2>2. CASE (StageRegistration(p) \/ LinkBackups(p)) /\ pc[p] \in {"stage", "link"}
    <3>1. UNCHANGED file /\ ~PlanNoop(p) /\ ~PlanRefresh(p)
      BY <2>2 DEF StageRegistration, LinkBackups, PlanNoop, PlanRefresh
    <3> QED
      BY <1>b, <2>2, <3>1, LocalValues DEF OrderOf
  <2> QED
    BY <2>1, <2>2, BaseIsFresh
<1>5. pc'[p] \in AfterCall => journal'.before < tx'[p].cand
  <2> SUFFICES ASSUME pc'[p] \in AfterCall PROVE journal'.before < tx'[p].cand
    OBVIOUS
  <2>1. CASE CallProvider(p)
    <3>1. tx'[p].cand = nextGen /\ UNCHANGED journal /\ pc[p] = "call"
      BY <1>a, <2>1 DEF CallProvider, TxType
    <3>2. Journalled
      BY <3>1 DEF ProcessInv, BeforeCall, Unsettled
    <3> QED
      BY <1>b, <3>1, <3>2 DEF JournalOrder
  <2>2. CASE ~CallProvider(p)
    <3>1. pc[p] \in AfterCall /\ tx'[p].cand = tx[p].cand
      BY <2>2, CandidateStays, LocalValues
    <3>2. journal'.before = journal.before
      <4>1. ~WriteJournal(p) /\ ~UnlinkJournal(p)
        BY <3>1 DEF WriteJournal, UnlinkJournal, AfterCall
      <4>2. Advance(p) => journal'.before = journal.before
        BY DEF Advance, TypeOK, JournalType
      <4> QED
        BY <4>1, <4>2, JournalMoves
    <3> QED
      BY <1>b, <3>1, <3>2 DEF OrderOf
  <2> QED
    BY <2>1, <2>2
<1>6. JournalOrder'
  <2>1. CASE WriteJournal(p)
    <3>1. /\ pc[p] = "journal" /\ UNCHANGED <<file, orig>>
          /\ journal'.before = tx[p].base /\ journal'.phase = "prepared"
      BY <2>1 DEF WriteJournal
    <3>2. tx[p].base = file["manifest"] /\ orig["manifest"] = file["manifest"]
      BY <1>b, <3>1 DEF OrderOf, ProcessInv
    <3>3. Unsettled'
      BY <3>1 DEF Unsettled, Journalled, Accept
    <3> QED
      BY <1>2, <3>1, <3>2, <3>3 DEF JournalOrder
  <2>2. CASE UnlinkJournal(p)
    BY <2>2 DEF UnlinkJournal, JournalOrder, Unsettled, Journalled, NoJournal
  <2>3. CASE Advance(p)
    <3>1. /\ pc[p] \in DOMAIN PhaseOf /\ UNCHANGED <<file, orig>>
          /\ journal'.phase = PhaseOf[pc[p]]
          /\ journal'.before = journal.before
      BY <2>3 DEF TypeOK, Advance, JournalType
    <3>2. CASE pc[p] = "adv_state"
      <4>1. file["manifest"] = tx[p].cand /\ journal.before < tx[p].cand
        BY <1>b, <3>2 DEF ProcessInv, AfterCall, ReplacedAt, OrderOf
      <4>2. ~Unsettled' /\ Journalled /\ (Journalled)'
        BY <3>1, <3>2 DEF PhaseOf, Unsettled, Accept, Journalled, ProcessInv,
                          AfterCall
      <4> QED
        BY <1>a, <1>b, <1>c, <3>1, <4>1, <4>2 DEF JournalOrder
    <3>3. CASE pc[p] \in {"adv_activated", "adv_committing"}
      <4>1. ~Unsettled /\ ~Unsettled' /\ Journalled
        BY <3>1, <3>3 DEF PhaseOf, Unsettled, Accept, ProcessInv, PublishedPc,
                          Journalled
      <4> QED
        BY <1>a, <1>b, <1>c, <3>1, <4>1 DEF JournalOrder
    <3>4. CASE pc[p] \in {"adv_indexed", "adv_validated", "adv_candidate",
                          "adv_sidecar", "adv_manifest"}
      <4>1. Unsettled /\ Unsettled' /\ Journalled
        BY <3>1, <3>4 DEF PhaseOf, Unsettled, Journalled, Accept, ProcessInv,
                          AfterCall
      <4> QED
        BY <1>a, <1>b, <1>c, <3>1, <4>1 DEF JournalOrder
    <3> QED
      BY <3>1, <3>2, <3>3, <3>4, PcLocations
  <2>4. CASE UNCHANGED journal
    <3>1. Journalled => UNCHANGED orig
      BY JournalMoves
      DEF LinkBackups, ProcessInv, UnjournalledPc, NothingReplaced
    <3>2. Journalled /\ ~Unsettled => file'["manifest"] = file["manifest"]
      BY ManifestMoves
    <3> QED
      BY <1>a, <1>b, <1>c, <2>4, <3>1, <3>2
      DEF JournalOrder, Unsettled, Journalled
  <2> QED
    BY <2>1, <2>2, <2>3, <2>4, JournalMoves
<1>7. ASSUME NEW q \in Proc \ {p} PROVE OrderOf(q)'
  <2>1. pc[q] \notin OwnerPc
    BY WorkLease DEF LeaseInv
  <2> QED
    BY <1>a, <1>c, <2>1, OthersAlone, OrderOfOther DEF OrderInv, TypeOK
<1>8. OrderOf(p)'
  BY <1>3, <1>4, <1>5 DEF OrderOf
<1> QED
  BY <1>1, <1>2, <1>6, <1>7, <1>8 DEF OrderInv

\* The steps without the lease, or the last under it, know no new generation.
LEMMA OtherOrder ==
  ASSUME TypeOK, OrderInv, NEW p \in Proc,
         \/ Releases(p) \/ Kill(p) \/ Construct(p) \/ RefreshStart(p)
         \/ Boot(p) \/ QueryBegin(p) \/ QueryStep(p)
  PROVE  OrderInv'
<1>a. pc \in [Proc -> Pc] /\ tx \in [Proc -> TxType] /\ nextGen \in Nat
      /\ file["manifest"] \in Nat
  BY DEF TypeOK, Artifact
<1>b. file["manifest"] < nextGen /\ OrderOf(p)
  BY DEF OrderInv
<1>1. /\ UNCHANGED <<file, orig, journal, nextGen>>
      /\ \A q \in Proc \ {p} : pc'[q] = pc[q] /\ tx'[q] = tx[q]
  <2>1. CASE Releases(p)
    BY <1>a, <2>1 DEF Releases, CleanupCache, RaiseRecovery, Finally, RaiseFinally, Goto
  <2>2. CASE Kill(p) \/ Construct(p) \/ RefreshStart(p)
    BY <1>a, <2>2 DEF Kill, Construct, RefreshStart, Goto
  <2>3. CASE Boot(p) \/ QueryBegin(p) \/ QueryStep(p)
    BY <1>a, <2>3 DEF Boot, QueryBegin, QueryStep, QueryRefused, QueryBind,
                      QueryEnd, Goto
  <2> QED
    BY <2>1, <2>2, <2>3
<1>2. tx'[p].cand \in {0, tx[p].cand}
      /\ tx'[p].manifestBytes \in {0, tx[p].manifestBytes}
  <2>1. /\ NoTx.cand = 0 /\ [NoTx EXCEPT !.why = "start"].cand = 0
        /\ NoTx.manifestBytes = 0
        /\ [NoTx EXCEPT !.why = "start"].manifestBytes = 0
    BY DEF NoTx
  <2>2. tx'[p] \in {tx[p], NoTx, [NoTx EXCEPT !.why = "start"]}
    <3>1. CASE Releases(p)
      BY <1>a, <3>1 DEF Releases, CleanupCache, RaiseRecovery, Finally, RaiseFinally
    <3>2. CASE Kill(p) \/ Construct(p) \/ RefreshStart(p)
      BY <1>a, <3>2 DEF Kill, Construct, RefreshStart
    <3>3. CASE Boot(p) \/ QueryBegin(p) \/ QueryStep(p)
      BY <1>a, <3>3 DEF Boot, QueryBegin, QueryStep, QueryRefused, QueryBind,
                        QueryEnd
    <3> QED
      BY <3>1, <3>2, <3>3
  <2> QED
    BY <2>1, <2>2
<1>3. pc'[p] \notin {"stage", "link", "journal"} \cup AfterCall
  <2>1. CASE Releases(p)
    BY <1>a, <2>1 DEF Releases, CleanupCache, RaiseRecovery, Finally, RaiseFinally, Goto,
                      AfterCall
  <2>2. CASE Kill(p) \/ Construct(p) \/ RefreshStart(p)
    BY <1>a, <2>2 DEF Kill, Construct, RefreshStart, Goto, AfterCall
  <2>3. CASE Boot(p) \/ QueryBegin(p) \/ QueryStep(p)
    BY <1>a, <2>3 DEF Boot, QueryBegin, QueryStep, QueryRefused, QueryBind,
                      QueryEnd, Goto, AfterCall
  <2> QED
    BY <2>1, <2>2, <2>3
<1>4. OrderOf(p)'
  BY <1>a, <1>b, <1>1, <1>2, <1>3 DEF OrderOf
<1>5. ASSUME NEW q \in Proc \ {p} PROVE OrderOf(q)'
  BY <1>1 DEF OrderInv, OrderOf
<1>6. JournalOrder'
  BY <1>1 DEF OrderInv, JournalOrder, Unsettled, Journalled
<1> QED
  BY <1>1, <1>4, <1>5, <1>6 DEF OrderInv

\* The first generations are ordered.
LEMMA InitOrder == Init => OrderInv
<1> SUFFICES ASSUME Init PROVE OrderInv
  OBVIOUS
<1>1. file["manifest"] \in {0, 1} /\ orig["manifest"] = 0 /\ nextGen = 2
  BY DEF Init, Artifact, Published
<1>2. ~Journalled
  BY DEF Init, Journalled, NoJournal
<1>3. \A p \in Proc : OrderOf(p)
  BY DEF Init, OrderOf, NoTx, AfterCall
<1> QED
  BY <1>1, <1>2, <1>3 DEF OrderInv, JournalOrder, Unsettled

\* The order is inductive, given the invariant of the files.
LEMMA NextOrder ==
  ASSUME GenerationInv, OrderInv, [Next]_vars
  PROVE  OrderInv'
<1>1. CASE UNCHANGED vars \/ ForeignCleanup
  BY <1>1 DEF ForeignCleanup, OrderInv, OrderOf, JournalOrder, Unsettled,
              Journalled
<1>2. TypeOK'
  BY NextType DEF GenerationInv
<1> QED
  BY <1>1, <1>2, NextCases, WorkOrder, OtherOrder DEF GenerationInv

-----------------------------------------------------------------------------
(* The refinement, step by step.                                           *)

StoreInv == GenerationInv /\ SnapshotInv /\ OrderInv

\* What the mapping says of a state: a journal names the published generation,
\* and without one it is the generation of the manifest.
LEMMA MappedGeneration ==
  ASSUME GenerationInv
  PROVE  PublishedGeneration = IF Journalled THEN journal.before
                                             ELSE file["manifest"]
BY DEF GenerationInv, JournalInv, Unsettled, PublishedGeneration

\* The abstract query of a process.
BoundTo(p) == IF pc[p] = "querying" THEN view[p].idx ELSE NoProc

\* A process that is not querying is unbound, and one that is has a generation.
LEMMA Bound ==
  ASSUME TypeOK, NEW p \in Proc
  PROVE  BoundTo(p) = NoProc <=> pc[p] # "querying"
BY ConstantsOK DEF TypeOK, ViewType, BoundTo

\* Nobody queries while a process works under the exclusive lease.
LEMMA NoQueryUnderLease ==
  ASSUME TypeOK, LeaseInv, NEW p \in Proc, owner = p
  PROVE  \A q \in Proc : BoundTo(q) = NoProc
BY ConstantsOK DEF LeaseInv, BoundTo

\* A step of the lease holder prepares a refresh, settles one, or changes
\* nothing the abstract store shows.
LEMMA WorkImplements ==
  ASSUME StoreInv, StoreInv', NEW p \in Proc, Works(p)
  PROVE  Store!Prepare \/ Store!Settle \/ UNCHANGED Store!vars
<1>a. /\ TypeOK /\ LeaseInv /\ JournalInv /\ ProcessInv(p) /\ OrderInv
      /\ TypeOK' /\ LeaseInv'
  BY DEF StoreInv, GenerationInv
<1>b. /\ owner = p /\ owner' = p
  BY <1>a, WorkLease
<1>c. /\ \A q \in Proc : BoundTo(q) = NoProc
      /\ \A q \in Proc : BoundTo(q)' = NoProc
  <2>1. \A q \in Proc : BoundTo(q) = NoProc
    BY <1>a, <1>b, NoQueryUnderLease
  <2>2. \A q \in Proc : BoundTo(q)' = NoProc
    BY <1>a, <1>b, ConstantsOK DEF LeaseInv, BoundTo
  <2> QED
    BY <2>1, <2>2
<1>d. /\ Store!NoQuery
      /\ UNCHANGED [q \in Proc |-> IF pc[q] = "querying" THEN view[q].idx
                                                         ELSE NoProc]
  BY <1>c DEF BoundTo, Store!NoQuery
<1>e. /\ PublishedGeneration = IF Journalled THEN journal.before
                                             ELSE file["manifest"]
      /\ PublishedGeneration' = IF Journalled' THEN journal'.before
                                               ELSE file'["manifest"]
  BY MappedGeneration DEF StoreInv, GenerationInv, JournalInv, Unsettled,
     PublishedGeneration
<1>1. CASE WriteJournal(p)
  <2>1. /\ pc[p] = "journal" /\ journal'.before = tx[p].base
        /\ journal'.phase = "prepared"
    BY <1>1 DEF WriteJournal
  <2>2. ~Journalled /\ Journalled' /\ tx[p].base = file["manifest"]
    BY <1>a, <2>1 DEF ProcessInv, UnjournalledPc, NothingReplaced, Journalled,
                      OrderInv, OrderOf
  <2>3. UNCHANGED PublishedGeneration
    BY <1>e, <2>1, <2>2
  <2>4. Store!Prepare
    BY <1>d, <2>2, <2>3 DEF Store!Prepare
  <2> QED
    BY <2>4
<1>2. CASE UnlinkJournal(p)
  <2>1. /\ pc[p] = "discard" /\ UNCHANGED <<file, orig>> /\ ~Journalled'
    BY <1>2 DEF UnlinkJournal, NoJournal, Journalled
  <2>2. Journalled /\ (Unsettled => file["manifest"] = orig["manifest"])
    BY <1>a, <2>1 DEF ProcessInv, Artifact
  <2>3. /\ PublishedGeneration' = file["manifest"]
        /\ PublishedGeneration = journal.before
    BY <1>e, <2>1, <2>2
  <2>4. file["manifest"] \in Nat /\ journal.before \in Nat
    BY <1>a DEF TypeOK, Artifact, JournalType
  <2>5. journal.before <= file["manifest"]
    BY <1>a, <2>2, <2>4 DEF OrderInv, JournalOrder
  <2>6. Store!Settle
    BY <1>d, <2>1, <2>2, <2>3, <2>4, <2>5 DEF Store!Settle
  <2> QED
    BY <2>6
<1>3. CASE Advance(p)
  <2>1. /\ pc[p] \in DOMAIN PhaseOf /\ journal'.before = journal.before
        /\ journal'.phase = PhaseOf[pc[p]]
    BY <1>a, <1>3 DEF TypeOK, Advance, JournalType
  <2>2. Journalled'
    BY <2>1, PcLocations DEF PhaseOf, Journalled
  <2>3. Journalled
    BY <1>a, <2>1, PcLocations DEF ProcessInv, AfterCall, PublishedPc, Unsettled,
                                   Journalled, Accept
  <2> QED
    BY <1>d, <1>e, <2>1, <2>2, <2>3 DEF Store!vars
<1>4. CASE UNCHANGED journal
  <2>1. ~Journalled => file'["manifest"] = file["manifest"]
    BY <1>a, ManifestMoves DEF Unsettled
  <2>2. Journalled' = Journalled
    BY <1>4 DEF Journalled
  <2> QED
    BY <1>4, <1>d, <1>e, <2>1, <2>2 DEF Store!vars
<1> QED
  BY <1>1, <1>2, <1>3, <1>4, JournalMoves

\* The other steps leave the published generation alone; they bind a query to
\* it, release one, or are not seen.
LEMMA OtherImplements ==
  ASSUME StoreInv, StoreInv', NEW p \in Proc,
         \/ Releases(p) \/ Kill(p) \/ Construct(p) \/ RefreshStart(p)
         \/ Boot(p) \/ QueryBegin(p) \/ QueryStep(p)
  PROVE  Store!Bind(p) \/ Store!Release(p) \/ UNCHANGED Store!vars
<1>a. /\ TypeOK /\ LeaseInv /\ JournalInv /\ TypeOK' /\ JournalInv'
      /\ SnapshotInv'
  BY DEF StoreInv, GenerationInv
<1>b. pc \in [Proc -> Pc] /\ view \in [Proc -> ViewType] /\ view' \in [Proc -> ViewType]
  BY <1>a DEF TypeOK
<1>1. /\ UNCHANGED <<file, journal>>
      /\ \A q \in Proc \ {p} : pc'[q] = pc[q] /\ view'[q] = view[q]
  <2>1. CASE Releases(p)
    BY <1>b, <2>1 DEF Releases, CleanupCache, RaiseRecovery, Finally, RaiseFinally, Goto
  <2>2. CASE Kill(p) \/ Construct(p) \/ RefreshStart(p)
    BY <1>b, <2>2 DEF Kill, Construct, RefreshStart, Goto
  <2>3. CASE Boot(p) \/ QueryBegin(p) \/ QueryStep(p)
    BY <1>b, <2>3 DEF Boot, QueryBegin, QueryStep, QueryRefused, QueryBind,
                      QueryEnd, Goto
  <2> QED
    BY <2>1, <2>2, <2>3
<1>2. UNCHANGED <<PublishedGeneration, ~Journalled>>
  BY <1>1 DEF PublishedGeneration, Journalled, Uniform
<1>3. CASE QueryBind(p)
  <2>1. pc[p] = "bind" /\ pc'[p] = "querying" /\ ~Journalled
    BY <1>b, <1>3 DEF QueryBind, Goto
  <2>2. view'[p].idx = file'["manifest"]
    BY <1>a, <2>1 DEF SnapshotInv, BindingInv
  <2>3. PublishedGeneration = file["manifest"]
    BY <2>1, MappedGeneration DEF StoreInv
  <2>4. BoundTo(p) = NoProc /\ BoundTo(p)' = PublishedGeneration
    BY <1>1, <2>1, <2>2, <2>3 DEF BoundTo
  <2>5. [q \in Proc |-> IF pc'[q] = "querying" THEN view'[q].idx ELSE NoProc]
          = [[q \in Proc |-> IF pc[q] = "querying" THEN view[q].idx ELSE NoProc]
               EXCEPT ![p] = PublishedGeneration]
    BY <1>1, <2>4 DEF BoundTo
  <2> QED
    BY <1>2, <2>1, <2>4, <2>5 DEF Store!Bind, BoundTo
<1>4. CASE pc[p] = "querying" /\ pc'[p] # "querying"
  <2>1. BoundTo(p) # NoProc /\ BoundTo(p)' = NoProc
    BY <1>a, <1>4, Bound DEF BoundTo
  <2>2. [q \in Proc |-> IF pc'[q] = "querying" THEN view'[q].idx ELSE NoProc]
          = [[q \in Proc |-> IF pc[q] = "querying" THEN view[q].idx ELSE NoProc]
               EXCEPT ![p] = NoProc]
    BY <1>1, <2>1 DEF BoundTo
  <2> QED
    BY <1>2, <2>1, <2>2 DEF Store!Release, BoundTo
<1>5. CASE pc[p] # "querying" /\ ~QueryBind(p)
  <2>1. pc'[p] # "querying"
    <3>1. CASE Releases(p)
      BY <1>b, <3>1 DEF Releases, CleanupCache, RaiseRecovery, Finally, RaiseFinally, Goto
    <3>2. CASE Kill(p) \/ Construct(p) \/ RefreshStart(p)
      BY <1>b, <3>2 DEF Kill, Construct, RefreshStart, Goto
    <3>3. CASE Boot(p) \/ QueryBegin(p) \/ QueryStep(p)
      BY <1>b, <1>5, <3>3 DEF Boot, QueryBegin, QueryStep, QueryRefused,
                              QueryEnd, Goto
    <3> QED
      BY <3>1, <3>2, <3>3
  <2>2. [q \in Proc |-> IF pc'[q] = "querying" THEN view'[q].idx ELSE NoProc]
          = [q \in Proc |-> IF pc[q] = "querying" THEN view[q].idx ELSE NoProc]
    BY <1>1, <1>5, <2>1
  <2> QED
    BY <1>2, <2>2 DEF Store!vars
<1>6. ~(pc[p] = "querying" /\ pc'[p] = "querying")
  <2>1. CASE Releases(p)
    BY <1>b, <2>1 DEF Releases, CleanupCache, RaiseRecovery, Finally, RaiseFinally, Goto
  <2>2. CASE Kill(p) \/ Construct(p) \/ RefreshStart(p)
    BY <1>b, <2>2 DEF Kill, Construct, RefreshStart, Goto
  <2>3. CASE Boot(p) \/ QueryBegin(p) \/ QueryStep(p)
    BY <1>b, <2>3 DEF Boot, QueryBegin, QueryStep, QueryRefused, QueryBind,
                      QueryEnd, Goto
  <2> QED
    BY <2>1, <2>2, <2>3
<1> QED
  BY <1>3, <1>4, <1>5, <1>6

\* Initially one generation is published, or none, and no query is bound.
LEMMA InitImplements == Init => Store!Init
<1> SUFFICES ASSUME Init PROVE Store!Init
  OBVIOUS
<1>1. ~Journalled /\ Uniform /\ file["manifest"] \in {0, 1}
  BY DEF Init, Journalled, NoJournal, Uniform, Published, Artifact
<1>2. PublishedGeneration \in {0, 1}
  BY <1>1 DEF PublishedGeneration
<1>3. [p \in Proc |-> IF pc[p] = "querying" THEN view[p].idx ELSE NoProc]
        = [p \in Proc |-> NoProc]
  BY DEF Init
<1> QED
  BY <1>1, <1>2, <1>3 DEF Store!Init

\* Every step is one of the abstract store or leaves it as it is.
LEMMA NextImplements ==
  ASSUME StoreInv, StoreInv', [Next]_vars
  PROVE  [Store!Next]_(Store!vars)
<1>1. CASE UNCHANGED vars \/ ForeignCleanup
  <2>1. UNCHANGED <<file, journal, pc, view>>
    BY <1>1 DEF ForeignCleanup
  <2>2. UNCHANGED <<PublishedGeneration, ~Journalled>>
    BY <2>1 DEF PublishedGeneration, Journalled, Uniform
  <2>3. UNCHANGED [q \in Proc |-> IF pc[q] = "querying" THEN view[q].idx
                                                        ELSE NoProc]
    BY <2>1
  <2> QED
    BY <2>2, <2>3 DEF Store!vars
<1>2. ASSUME NEW p \in Proc, Works(p)
      PROVE  [Store!Next]_(Store!vars)
  BY <1>2, WorkImplements DEF Store!Next
<1>3. ASSUME NEW p \in Proc,
             \/ Releases(p) \/ Kill(p) \/ Construct(p) \/ RefreshStart(p)
             \/ Boot(p) \/ QueryBegin(p) \/ QueryStep(p)
      PROVE  [Store!Next]_(Store!vars)
  BY <1>3, OtherImplements DEF Store!Next
<1> QED
  BY <1>1, <1>2, <1>3, NextCases

\* The three parts of the invariant are inductive together.
LEMMA StoreInvariant ==
  ASSUME NoLateRaise
  PROVE  Spec => []StoreInv
<1>1. Init => StoreInv
  BY InitGeneration, InitSnapshot, InitOrder DEF StoreInv
<1>2. StoreInv /\ [Next]_vars => StoreInv'
  BY NextGeneration, NextSnapshot, NextOrder, NoLateRaise DEF StoreInv
<1> QED
  BY <1>1, <1>2, PTL DEF Spec

\* What a refresh promises, as one specification: the files and the journal are
\* a store whose generation is replaced whole, by a later one, and never while a
\* query is bound to it; a query is bound to the generation published then.
THEOREM RefreshImplementsStore ==
  ASSUME NoLateRaise
  PROVE  Spec => ImplementsStore
<1>1. StoreInv /\ StoreInv' /\ [Next]_vars => [Store!Next]_(Store!vars)
  BY NextImplements
<1> QED
  BY InitImplements, <1>1, StoreInvariant, NoLateRaise, PTL
  DEF Spec, ImplementsStore, Store!Spec

-----------------------------------------------------------------------------
(* What the registration index in memory is of.                            *)

\* No step of a refresh raises, its recovery and its rollback apart; kills are not
\* restricted.
NoRefreshRaise == Raising \cap {"forward", "published", "commit"} = {}

\* A process that knows a generation has no registrations or those of it.  An
\* except block is never entered, and a recovery that fails falls back to no
\* generation: the refresh that ran it has not planned yet.
IndexInv(p) ==
  /\ view[p].idx # 0 => view[p].svc \in {0, view[p].idx}
  /\ pc[p] \notin FailPc
  /\ pc[p] \in RecoveryPc \cup DOMAIN UndoOf \cup {"fail_status"} => tx[p].base = 0
  /\ pc[p] = "discard" => tx[p].why = "commit" \/ tx[p].base = 0
RegistrationsInv == \A p \in Proc : IndexInv(p)

\* What a generation is activated with, when the files agree.
LEMMA ActivatedTogether ==
  ASSUME TypeOK, Uniform, NEW p \in Proc
  PROVE  LET v == Activated(p, file["manifest"]) IN
         v.idx = file["manifest"] /\ v.svc \in {0, v.idx}
<1>1. view[p] \in ViewType
  BY DEF TypeOK
<1>2. Python => file["sidecar"] = file["manifest"]
  BY DEF Uniform, Published, Artifact
<1>. QED
  BY <1>1, <1>2 DEF Activated, ViewType

\* Nothing raises but a recovery.
LEMMA OnlyRecoveryRaises ==
  ASSUME TypeOK, NoRefreshRaise, NEW p \in Proc, IndexInv(p)
  PROVE  /\ ~RaiseForward(p)
         /\ RaiseRollbackAction(p) => pc[p] = "fail_status"
         /\ RaiseRecovery(p) => tx[p].base = 0
<1>1. ~RaiseForward(p)
  BY PcLocations DEF RaiseForward, NoRefreshRaise, StageOf, SharedPc, ForwardPc, PublishedPc,
     RecoveryPc, FailPc
<1>2. RaiseRecovery(p) => tx[p].base = 0
  <2>1. SUFFICES ASSUME RaiseRecovery(p) PROVE tx[p].base = 0
    OBVIOUS
  <2>2. CASE pc[p] = "discard"
    <3>1. tx[p].why # "commit"
      BY <2>1, <2>2, PcLocations DEF RaiseRecovery, StageOf, SharedPc, ForwardPc, PublishedPc,
         RecoveryPc, FailPc
    <3>. QED
      BY <2>2, <3>1 DEF IndexInv
  <2>3. CASE pc[p] # "discard"
    BY <2>1, <2>3 DEF RaiseRecovery, SharedPc, IndexInv
  <2>. QED
    BY <2>2, <2>3
<1>. QED
  BY <1>1, <1>2 DEF RaiseRollbackAction, IndexInv

\* The steps of a refresh or a recovery move through these places.
LEMMA IndexPlaces ==
  ASSUME TypeOK, NoRefreshRaise, NEW p \in Proc, IndexInv(p), Works(p)
  PROVE  /\ pc'[p] \notin FailPc
         /\ pc'[p] \in RecoveryPc \cup DOMAIN UndoOf \cup {"fail_status"} => tx'[p].base = 0
         /\ pc'[p] = "discard" => tx'[p].why = "commit" \/ tx'[p].base = 0
<1>a. pc \in [Proc -> Pc] /\ tx \in [Proc -> TxType] /\ tx[p] \in TxType
  BY DEF TypeOK
<1>1. CASE Advance(p)
  BY <1>1, <1>a, PcLocations DEF Advance, AfterAdvance, Goto, FailPc, RecoveryPc
<1>2. CASE CommitStaged(p)
  <2>1. pc'[p] = "discard"
    BY <1>2, <1>a DEF CommitStaged, Goto
  <2>2. \E S : tx'[p] = [tx[p] EXCEPT !.held = S, !.why = "commit"]
    BY <1>2, <1>a DEF CommitStaged
  <2>. QED
    BY <2>1, <2>2, <1>a, PcLocations DEF TxType, FailPc, RecoveryPc
<1>3. CASE RefreshStep(p) /\ ~Advance(p) /\ ~CommitStaged(p)
  <2>1. pc'[p] \in Pc \ (FailPc \cup RecoveryPc \cup DOMAIN UndoOf \cup {"fail_status", "discard"})
    BY <1>3, <1>a, PcLocations
    DEF RefreshStep, PlanNoop, PlanRefresh, StageRegistration, LinkBackups,
        WriteJournal, BackupProvider, AdmitProvider, CallProvider, StageManifest, PublishSidecar,
        PublishManifest, RecordState, Activate, Goto, FailPc, RecoveryPc
  <2>. QED
    BY <2>1
<1>4. CASE Recover(p) \/ UndoOne(p)
  <2>1. tx[p].base = 0
    BY <1>4 DEF Recover, UndoOne, IndexInv, RecoveryPc
  <2>2. tx'[p].base = 0
    BY <1>4, <1>a, <2>1 DEF Recover, UndoOne, TxType
  <2>3. pc'[p] \in {"cleanup", "discard"} \cup DOMAIN UndoOf
    BY <1>4, <1>a, PcLocations DEF Recover, UndoOne, AfterUndo, Goto
  <2>. QED
    BY <2>2, <2>3, PcLocations DEF FailPc
<1>5. CASE DiscardOne(p)
  <2>1. pc'[p] = "discard" /\ tx'[p].why = tx[p].why /\ tx'[p].base = tx[p].base
    BY <1>5, <1>a DEF DiscardOne, TxType
  <2>. QED
    BY <1>5, <2>1, PcLocations DEF DiscardOne, IndexInv, FailPc, RecoveryPc
<1>6. CASE UnlinkJournal(p)
  <2>1. tx'[p].base = tx[p].base
    BY <1>6, <1>a DEF UnlinkJournal, TxType
  <2>2. pc'[p] = CASE tx[p].why = "commit" -> "finally"
                   [] tx[p].why = "rollback" -> "fail_status"
                   [] OTHER -> "cleanup"
    BY <1>6, <1>a DEF UnlinkJournal, Goto
  <2>3. tx[p].why = "commit" \/ tx[p].base = 0
    BY <1>6 DEF UnlinkJournal, IndexInv
  <2>. QED
    BY <2>1, <2>2, <2>3, PcLocations DEF FailPc, RecoveryPc
<1>7. CASE CleanupData(p) \/ CleanupCache(p)
  <2>1. tx[p].base = 0 /\ UNCHANGED tx
    BY <1>7 DEF CleanupData, CleanupCache, IndexInv, RecoveryPc
  <2>2. pc'[p] \in {"cleanup_cache", "idle", "plan"}
    BY <1>7, <1>a DEF CleanupData, CleanupCache, Goto
  <2>. QED
    BY <2>1, <2>2, PcLocations DEF FailPc
<1>8. CASE FailManifest(p) \/ FailSidecar(p) \/ FailState(p) \/ FailBytes(p) \/ FailProvider(p)
  BY <1>8 DEF FailManifest, FailSidecar, FailState, FailBytes, FailProvider, IndexInv, FailPc
<1>9. CASE FailStatus(p) \/ RaiseRollbackAction(p)
  <2>1. pc[p] = "fail_status"
    BY <1>9, OnlyRecoveryRaises DEF FailStatus
  <2>2. pc'[p] = "finally"
    BY <1>9, <1>a, <2>1 DEF FailStatus, RaiseRollbackAction, Goto, AfterFail
  <2>. QED
    BY <2>2, PcLocations DEF FailPc, RecoveryPc
<1>10. CASE RaiseForward(p) \/ (RaiseRecovery(p) /\ tx[p].why # "start")
  <2>1. RaiseRecovery(p) /\ tx[p].base = 0 /\ UNCHANGED tx /\ pc'[p] = "fail_status"
    BY <1>10, <1>a, OnlyRecoveryRaises DEF RaiseRecovery, Goto
  <2>. QED
    BY <2>1 DEF FailPc
<1>. QED
  BY <1>1, <1>2, <1>3, <1>4, <1>5, <1>6, <1>7, <1>8, <1>9, <1>10 DEF Works

\* The steps under the lease activate the files as they are, or nothing.
LEMMA WorkIndex ==
  ASSUME GenerationInv, SnapshotInv, RegistrationsInv, NoRefreshRaise, NEW p \in Proc, Works(p)
  PROVE  RegistrationsInv'
<1>a. TypeOK /\ JournalInv /\ ProcessInv(p) /\ BindingInv(p) /\ IndexInv(p)
  BY DEF GenerationInv, SnapshotInv, RegistrationsInv
<1>b. view \in [Proc -> ViewType] /\ view[p] \in ViewType
  BY <1>a DEF TypeOK
<1>1. view'[p].idx # 0 => view'[p].svc \in {0, view'[p].idx}
  <2>1. CASE PlanNoop(p)
    <3>1. Uniform
      BY <1>a, <2>1 DEF PlanNoop, ProcessInv, UnjournalledPc, NothingReplaced, JournalInv,
         Unsettled
    <3>2. view'[p] \in {view[p], Activated(p, file["manifest"])}
      BY <1>b, <2>1 DEF PlanNoop
    <3>. QED
      BY <1>a, <3>1, <3>2, ActivatedTogether DEF IndexInv
  <2>2. CASE Activate(p)
    <3>1. Uniform /\ file["manifest"] = tx[p].cand
      BY <1>a, <2>2 DEF Activate, ProcessInv, PublishedPc, JournalInv, Unsettled, BindingInv
    <3>2. view'[p] = Activated(p, file["manifest"])
      BY <1>b, <2>2, <3>1 DEF Activate
    <3>. QED
      BY <1>a, <3>1, <3>2, ActivatedTogether
  <2>3. CASE FailStatus(p)
    <3>1. tx[p].base = 0
      BY <1>a, <2>3 DEF FailStatus, IndexInv
    <3>. QED
      BY <1>b, <2>3, <3>1 DEF FailStatus, ViewType
  <2>4. CASE CleanupCache(p)
    <3>1. view'[p].idx = view[p].idx /\ view'[p].svc = view[p].svc
      BY <1>b, <2>4 DEF CleanupCache, ViewType
    <3>. QED
      BY <1>a, <3>1 DEF IndexInv
  <2>5. CASE ~(PlanNoop(p) \/ Activate(p) \/ FailStatus(p) \/ CleanupCache(p))
    <3>1. UNCHANGED view
      BY <2>5 DEF Works, RefreshStep, PlanRefresh, StageRegistration, LinkBackups,
         WriteJournal, BackupProvider, AdmitProvider, CallProvider, Advance,
         StageManifest, PublishSidecar, PublishManifest, PublishStaged,
         RecordState, CommitStaged, Recover, UndoOne, DiscardOne,
         UnlinkJournal, CleanupData, FailManifest, FailSidecar, FailState,
         FailBytes, FailProvider, RaiseForward, RaiseRollbackAction,
         RaiseRecovery
    <3>. QED
      BY <1>a, <3>1 DEF IndexInv
  <2>. QED
    BY <2>1, <2>2, <2>3, <2>4, <2>5
<1>2. IndexInv(p)'
  BY <1>1, <1>a, IndexPlaces DEF IndexInv
<1>3. ASSUME NEW q \in Proc \ {p} PROVE IndexInv(q)'
  BY <1>a, OthersAlone, ViewValues DEF RegistrationsInv, IndexInv
<1>. QED
  BY <1>2, <1>3 DEF RegistrationsInv

\* The other steps begin with nothing, or bind a query to the files as they are.
LEMMA OtherIndex ==
  ASSUME GenerationInv, RegistrationsInv, NEW p \in Proc,
         \/ Releases(p) \/ Kill(p) \/ Construct(p) \/ RefreshStart(p)
         \/ Boot(p) \/ QueryBegin(p) \/ QueryStep(p)
  PROVE  RegistrationsInv'
<1>a. /\ pc \in [Proc -> Pc] /\ tx \in [Proc -> TxType]
      /\ view \in [Proc -> ViewType] /\ view[p] \in ViewType
  BY DEF GenerationInv, TypeOK
<1>b. TypeOK /\ JournalInv /\ IndexInv(p)
  BY DEF GenerationInv, RegistrationsInv
<1>1. \A q \in Proc \ {p} : pc'[q] = pc[q] /\ tx'[q] = tx[q] /\ view'[q] = view[q]
  BY <1>a DEF Releases, CleanupCache, RaiseRecovery, Finally, RaiseFinally, Kill, Construct, RefreshStart,
     Boot, QueryBegin, QueryStep, QueryRefused, QueryBind, QueryEnd, Goto
<1>2. /\ pc'[p] \notin FailPc \cup DOMAIN UndoOf \cup {"fail_status", "discard"}
      /\ pc'[p] \in RecoveryPc => tx'[p].base = 0
  <2>1. CASE Construct(p) \/ RefreshStart(p)
    <3>1. NoTx.base = 0 /\ [NoTx EXCEPT !.why = "start"].base = 0
      BY DEF NoTx
    <3>2. /\ pc'[p] \in {"recover", "plan", "idle"}
          /\ pc'[p] # "idle" => tx'[p] \in {NoTx, [NoTx EXCEPT !.why = "start"]}
      BY <1>a, <2>1 DEF Construct, RefreshStart, Goto
    <3>. QED
      BY <3>1, <3>2, PcLocations DEF FailPc, RecoveryPc
  <2>2. CASE ~(Construct(p) \/ RefreshStart(p))
    <3>1. pc'[p] \in {"idle", "down", "construct", "bind", "querying", "stuck"}
      BY <1>a, <2>2 DEF Releases, CleanupCache, RaiseRecovery, Finally, RaiseFinally, Kill, Boot, QueryBegin,
         QueryStep, QueryRefused, QueryBind, QueryEnd, Goto
    <3>. QED
      BY <3>1, PcLocations DEF FailPc, RecoveryPc
  <2>. QED
    BY <2>1, <2>2
<1>3. view'[p].idx # 0 => view'[p].svc \in {0, view'[p].idx}
  <2>1. CASE QueryBind(p)
    <3>1. Uniform
      BY <1>b, <2>1 DEF QueryBind, JournalInv, Unsettled
    <3>2. view'[p] \in {view[p], Activated(p, file["manifest"])}
      BY <1>a, <2>1 DEF QueryBind
    <3>. QED
      BY <1>b, <3>1, <3>2, ActivatedTogether DEF IndexInv
  <2>2. CASE Kill(p) \/ Boot(p) \/ (RaiseRecovery(p) /\ tx[p].why = "start")
    <3>1. view'[p].idx = 0
      BY <1>a, <2>2 DEF Kill, Boot, RaiseRecovery, NoView
    <3>. QED
      BY <3>1
  <2>3. CASE Construct(p) \/ CleanupCache(p)
    <3>1. view'[p].idx = view[p].idx /\ view'[p].svc = view[p].svc
      BY <1>a, <2>3 DEF Construct, CleanupCache, ViewType
    <3>. QED
      BY <1>b, <3>1 DEF IndexInv
  <2>4. CASE \/ Finally(p) \/ RaiseFinally(p) \/ RefreshStart(p) \/ QueryBegin(p)
             \/ QueryRefused(p) \/ QueryEnd(p)
    <3>1. UNCHANGED view
      BY <2>4 DEF Finally, RaiseFinally, RefreshStart, QueryBegin, QueryRefused, QueryEnd
    <3>. QED
      BY <1>b, <3>1 DEF IndexInv
  <2>. QED
    BY <2>1, <2>2, <2>3, <2>4 DEF Releases, QueryStep
<1>4. IndexInv(p)'
  BY <1>2, <1>3 DEF IndexInv
<1>5. ASSUME NEW q \in Proc \ {p} PROVE IndexInv(q)'
  BY <1>1 DEF RegistrationsInv, IndexInv
<1>. QED
  BY <1>4, <1>5 DEF RegistrationsInv

\* Nobody knows a generation at first.
LEMMA InitIndex == Init => RegistrationsInv
BY PcLocations DEF Init, RegistrationsInv, IndexInv, NoView, FailPc, RecoveryPc

\* While no step of a refresh raises, the registrations a query answers from are those
\* of the generation its status names, or none: also after a kill at any moment and a
\* recovery that fails.  The except block of a refresh is what breaks this
\* (_replace_failure_status adopts the generation and not its registrations).
THEOREM RegistrationsAreBound ==
  ASSUME NoRefreshRaise
  PROVE  Spec => []RegistrationBound
<1> DEFINE Bindings == GenerationInv /\ SnapshotInv /\ RegistrationsInv
<1>1. Init => Bindings
  BY InitGeneration, InitSnapshot, InitIndex
<1>2. Bindings /\ [Next]_vars => Bindings'
  <2>1. NoLateRaise
    BY NoRefreshRaise DEF NoRefreshRaise, NoLateRaise
  <2>2. SUFFICES ASSUME Bindings, [Next]_vars PROVE RegistrationsInv'
    BY <2>1, NextGeneration, NextSnapshot
  <2>3. CASE UNCHANGED vars \/ ForeignCleanup
    BY <2>2, <2>3 DEF ForeignCleanup, RegistrationsInv, IndexInv
  <2>. QED
    BY <2>2, <2>3, NextCases, WorkIndex, OtherIndex, NoRefreshRaise
<1>3. Bindings => RegistrationBound
  BY DEF RegistrationsInv, IndexInv, RegistrationBound
<1>. QED
  BY <1>1, <1>2, <1>3, PTL DEF Spec

-----------------------------------------------------------------------------
(* The staged objects of a live refresh.                                   *)

\* A cleanup runs only where its own process has nothing staged, and where it
\* has the lease nobody else has anything staged either.
StagedOf(p) ==
  /\ (pc[p] \notin OwnerPc \/ Recovering(p)) =>
       (tx[p].held = {} /\ tx[p].sidecar = "none")
  /\ "provider" \in tx[p].held => <<"backup", "provider">> \in staging
  /\ tx[p].sidecar = "staged" => <<"candidate", "sidecar">> \in staging
StagedInv == \A p \in Proc : StagedOf(p)

\* The steps that change what a refresh holds.
Stages(p) ==
  \/ StageRegistration(p) \/ BackupProvider(p) \/ PublishSidecar(p)
  \/ PublishManifest(p) \/ CommitStaged(p) \/ FailManifest(p) \/ FailSidecar(p)
  \/ FailProvider(p)

\* No other step does.
LEMMA HeldValues ==
  ASSUME TypeOK, NEW p \in Proc, Works(p), ~Stages(p)
  PROVE  tx'[p].held = tx[p].held /\ tx'[p].sidecar = tx[p].sidecar
<1>a. tx[p] \in TxType /\ tx \in [Proc -> TxType]
  BY DEF TypeOK
<1>1. CASE PlanNoop(p) \/ PlanRefresh(p) \/ AdmitProvider(p) \/ CallProvider(p)
           \/ StageManifest(p) \/ Recover(p) \/ UndoOne(p) \/ DiscardOne(p)
           \/ UnlinkJournal(p)
  BY <1>1, <1>a DEF PlanNoop, PlanRefresh, AdmitProvider, CallProvider,
                    StageManifest, Recover, UndoOne, DiscardOne, UnlinkJournal,
                    TxType
<1>2. CASE LinkBackups(p)
  <2>1. tx'[p] = [tx[p] EXCEPT !.stateBytes = file["state"],
                               !.manifestBytes = file["manifest"]]
    BY <1>2, <1>a DEF LinkBackups
  <2> QED
    BY <2>1, <1>a DEF TxType
<1>3. CASE WriteJournal(p)
  <2>1. tx'[p] = [tx[p] EXCEPT !.rec = TRUE, !.named = Existing]
    BY <1>3, <1>a DEF WriteJournal
  <2> QED
    BY <2>1, <1>a DEF TxType
<1>4. CASE RaiseRollbackAction(p)
  <2>1. tx'[p] = [tx[p] EXCEPT !.why = "rollback"] \/ tx' = tx
    BY <1>4, <1>a DEF RaiseRollbackAction
  <2> QED
    BY <2>1, <1>a DEF TxType
<1>5. CASE \/ Advance(p) \/ RecordState(p) \/ Activate(p) \/ CleanupData(p)
           \/ CleanupCache(p) \/ FailState(p) \/ FailBytes(p) \/ FailStatus(p)
           \/ RaiseForward(p) \/ (RaiseRecovery(p) /\ tx[p].why # "start")
  BY <1>5 DEF Advance, RecordState, Activate, CleanupData, CleanupCache,
              FailState, FailBytes, FailStatus, RaiseForward, RaiseRecovery
<1> QED
  BY <1>1, <1>2, <1>3, <1>4, <1>5 DEF Works, RefreshStep, Stages

\* Nothing returns to recovery but recovery itself.
LEMMA RecoveringStays ==
  ASSUME TypeOK, NEW p \in Proc, Works(p), Recovering(p)'
  PROVE  Recovering(p) /\ ~Stages(p)
<1>a. pc \in [Proc -> Pc] /\ tx \in [Proc -> TxType] /\ tx[p] \in TxType
  BY DEF TypeOK
<1>b. pc'[p] \in RecoveryPc \cup SharedPc
  BY DEF Recovering
<1>1. CASE RefreshStep(p)
  <2>1. CASE CommitStaged(p)
    <3>1. pc'[p] = "discard"
      BY <1>a, <2>1 DEF CommitStaged, Goto
    <3>2. tx'[p].why = "commit"
      <4>1. \E S : tx'[p] = [tx[p] EXCEPT !.held = S, !.why = "commit"]
        BY <1>a, <2>1 DEF CommitStaged
      <4> QED
        BY <1>a, <4>1 DEF TxType
    <3> QED
      BY <3>1, <3>2 DEF Recovering, RecoveryPc
  <2>2. CASE Advance(p)
    BY <1>a, <1>b, <2>2, PcLocations
    DEF Advance, AfterAdvance, Goto, RecoveryPc, SharedPc
  <2>3. CASE ~(CommitStaged(p) \/ Advance(p))
    BY <1>1, <1>a, <1>b, <2>3, PcLocations
    DEF RefreshStep, PlanNoop, PlanRefresh, StageRegistration, LinkBackups,
        WriteJournal, BackupProvider, AdmitProvider, CallProvider, StageManifest,
        PublishSidecar, PublishManifest, RecordState, Activate, Goto, RecoveryPc,
        SharedPc
  <2> QED
    BY <2>1, <2>2, <2>3
<1>2. CASE \/ FailManifest(p) \/ FailSidecar(p) \/ FailState(p) \/ FailBytes(p)
           \/ FailStatus(p) \/ RaiseForward(p)
  BY <1>2, <1>a, <1>b, PcLocations
  DEF FailManifest, FailSidecar, FailState, FailBytes, FailStatus, RaiseForward,
      AfterFail, Goto, RecoveryPc, SharedPc
<1>3. CASE FailProvider(p) \/ RaiseRollbackAction(p)
  <2>1. CASE pc[p] = "fail_provider"
    <3>1. \/ \E S : tx'[p] = [tx[p] EXCEPT !.why = "rollback", !.held = S]
          \/ tx'[p] = [tx[p] EXCEPT !.why = "rollback"]
      BY <1>3, <1>a, <2>1 DEF FailProvider, RaiseRollbackAction
    <3>2. tx'[p].why = "rollback"
      BY <1>a, <3>1 DEF TxType
    <3>3. pc'[p] \in {"undo_state", "fail_status"}
      BY <1>3, <1>a, <2>1 DEF FailProvider, RaiseRollbackAction,
                              ToJournalRollback, Goto
    <3> QED
      BY <3>2, <3>3, PcLocations DEF Recovering, RecoveryPc, SharedPc
  <2>2. CASE pc[p] # "fail_provider"
    BY <1>3, <1>a, <1>b, <2>2, PcLocations
    DEF FailProvider, RaiseRollbackAction, AfterFail, FailPc, Goto, RecoveryPc,
        SharedPc
  <2> QED
    BY <2>1, <2>2
<1>4. CASE \/ Recover(p) \/ UndoOne(p) \/ DiscardOne(p) \/ UnlinkJournal(p)
           \/ CleanupData(p) \/ (CleanupCache(p) /\ tx[p].why # "start")
           \/ (RaiseRecovery(p) /\ tx[p].why # "start")
  <2>1. tx'[p].why = tx[p].why
    BY <1>4, <1>a DEF Recover, UndoOne, DiscardOne, UnlinkJournal, CleanupData,
                      CleanupCache, RaiseRecovery, TxType
  <2>2. pc[p] \in RecoveryPc \cup SharedPc
    BY <1>4, PcLocations
    DEF Recover, UndoOne, DiscardOne, UnlinkJournal, CleanupData, CleanupCache,
        RaiseRecovery, RecoveryPc, SharedPc
  <2>3. ~Stages(p)
    BY <2>2, PcLocations
    DEF Stages, StageRegistration, BackupProvider, PublishSidecar,
        PublishManifest, CommitStaged, FailManifest, FailSidecar, FailProvider,
        RecoveryPc, SharedPc
  <2>4. CASE UnlinkJournal(p)
    <3>1. pc[p] = "discard" /\ (tx[p].why \in {"start", "refresh"})
      BY <1>a, <1>b, <2>4, PcLocations
      DEF UnlinkJournal, Goto, TxType, RecoveryPc, SharedPc
    <3> QED
      BY <2>3, <3>1 DEF Recovering, SharedPc
  <2>5. CASE UndoOne(p) \/ DiscardOne(p)
    <3>1. pc[p] \in SharedPc /\ pc'[p] \in SharedPc
      BY <1>a, <2>5, PcLocations
      DEF UndoOne, DiscardOne, AfterUndo, Goto, SharedPc
    <3> QED
      BY <2>1, <2>3, <3>1, PcLocations DEF Recovering, RecoveryPc, SharedPc
  <2>6. CASE Recover(p) \/ CleanupData(p) \/ CleanupCache(p)
    BY <2>3, <2>6 DEF Recover, CleanupData, CleanupCache, Recovering, RecoveryPc
  <2>7. CASE RaiseRecovery(p) /\ tx[p].why # "start"
    BY <1>a, <1>b, <2>7, PcLocations DEF RaiseRecovery, Goto, RecoveryPc, SharedPc
  <2> QED
    BY <1>4, <2>4, <2>5, <2>6, <2>7
<1> QED
  BY <1>1, <1>2, <1>3, <1>4 DEF Works

\* Forgetting the names of backups of the journal forgets no other file.
LEMMA ForgetKeeps ==
  ASSUME NEW e \in staging, NEW K, e[1] \notin K
  PROVE  e \in Forget(K)
BY DEF Forget

\* What a step of the lease holder takes from the staging directories.
LEMMA StagedKept ==
  ASSUME TypeOK, NEW p \in Proc, Works(p), ~Stages(p),
         pc[p] \notin {"cleanup", "cleanup_cache"},
         NEW e \in staging,
         e \in {<<"backup", "provider">>, <<"candidate", "sidecar">>}
  PROVE  e \in staging'
<1>a. e[1] \in {"backup", "candidate"} /\ e # <<"candidate", "manifest">>
      /\ e # <<"backup", "manifest">>
  OBVIOUS
<1>1. CASE LinkBackups(p) \/ StageManifest(p)
  BY <1>1 DEF LinkBackups, StageManifest
<1>2. CASE UndoOne(p) \/ DiscardOne(p)
  BY <1>2, <1>a DEF UndoOne, RenameOver, Replace, DiscardOne
<1>3. CASE UnlinkJournal(p)
  BY <1>3, <1>a, ForgetKeeps DEF UnlinkJournal
<1>4. CASE RaiseForward(p)
  BY <1>4, <1>a, ForgetKeeps DEF RaiseForward
<1>5. CASE CleanupData(p) \/ CleanupCache(p)
  BY <1>5 DEF CleanupData, CleanupCache
<1>6. CASE \/ PlanNoop(p) \/ PlanRefresh(p) \/ WriteJournal(p)
           \/ AdmitProvider(p) \/ CallProvider(p) \/ Advance(p)
           \/ RecordState(p) \/ Activate(p) \/ Recover(p) \/ FailState(p)
           \/ FailBytes(p) \/ FailStatus(p) \/ RaiseRollbackAction(p)
           \/ RaiseRecovery(p)
  BY <1>6 DEF PlanNoop, PlanRefresh, WriteJournal, AdmitProvider, CallProvider,
              Advance, RecordState, Activate, Recover, FailState, FailBytes,
              FailStatus, RaiseRollbackAction, RaiseRecovery
<1> QED
  BY <1>1, <1>2, <1>3, <1>4, <1>5, <1>6 DEF Works, RefreshStep, Stages

\* The steps that stage or unstage leave what the refresh still holds.
LEMMA StagesKeep ==
  ASSUME TypeOK, NEW p \in Proc, StagedOf(p), Works(p), Stages(p)
  PROVE  /\ "provider" \in tx'[p].held => <<"backup", "provider">> \in staging'
         /\ tx'[p].sidecar = "staged" => <<"candidate", "sidecar">> \in staging'
<1>a. tx[p] \in TxType /\ tx \in [Proc -> TxType]
  BY DEF TypeOK
<1>1. CASE StageRegistration(p)
  BY <1>1, <1>a DEF StageRegistration, StagedOf, TxType
<1>2. CASE BackupProvider(p)
  <2>1. CASE file["provider"] = 0
    BY <1>2, <2>1, <1>a DEF BackupProvider, StagedOf, TxType
  <2>2. CASE file["provider"] # 0
    <3>1. tx'[p] = [tx[p] EXCEPT !.pbackup = TRUE, !.held = @ \cup {"provider"}]
          /\ staging' = staging \cup {<<"backup", "provider">>}
      BY <1>2, <2>2, <1>a DEF BackupProvider
    <3> QED
      BY <3>1, <1>a DEF StagedOf, TxType
  <2> QED
    BY <2>1, <2>2
<1>3. CASE PublishSidecar(p)
  <2>1. /\ tx'[p] = [tx[p] EXCEPT !.sidecar = "published",
                                  !.held = @ \cup (Existing \cap {"sidecar"})]
        /\ \A e \in staging : e # <<"candidate", "sidecar">> => e \in staging'
    BY <1>3, <1>a DEF PublishSidecar, PublishStaged
  <2>2. tx'[p].sidecar = "published"
        /\ ("provider" \in tx'[p].held => "provider" \in tx[p].held)
    BY <2>1, <1>a DEF TxType
  <2> QED
    BY <2>1, <2>2 DEF StagedOf
<1>4. CASE PublishManifest(p)
  <2>1. /\ tx'[p] = [tx[p] EXCEPT !.manifest = "published",
                                  !.held = @ \cup (Existing \cap {"manifest"})]
        /\ \A e \in staging : e # <<"candidate", "manifest">> => e \in staging'
    BY <1>4, <1>a DEF PublishManifest, PublishStaged
  <2>2. tx'[p].sidecar = tx[p].sidecar
        /\ ("provider" \in tx'[p].held => "provider" \in tx[p].held)
    BY <2>1, <1>a DEF TxType
  <2> QED
    BY <2>1, <2>2 DEF StagedOf
<1>5. CASE CommitStaged(p)
  <2>1. PICK keep \in SUBSET tx[p].held :
          /\ staging' = staging \ {<<"backup", a>> : a \in tx[p].held \ keep}
          /\ tx'[p] = [tx[p] EXCEPT !.held = keep, !.why = "commit"]
    BY <1>5, <1>a DEF CommitStaged
  <2>2. tx'[p].held = keep /\ tx'[p].sidecar = tx[p].sidecar
    BY <2>1, <1>a DEF TxType
  <2>3. \A a : <<"backup", a>> \in staging /\ a \in keep
                 => <<"backup", a>> \in staging'
    BY <2>1
  <2>4. <<"candidate", "sidecar">> \in staging
          => <<"candidate", "sidecar">> \in staging'
    BY <2>1
  <2> QED
    BY <2>2, <2>3, <2>4 DEF StagedOf
<1>6. CASE FailManifest(p)
  <2>1. tx'[p] = [tx[p] EXCEPT !.manifest = "none", !.held = @ \ {"manifest"}]
    BY <1>6, <1>a DEF FailManifest
  <2>2. tx'[p].sidecar = tx[p].sidecar
        /\ ("provider" \in tx'[p].held => "provider" \in tx[p].held)
    BY <2>1, <1>a DEF TxType
  <2>3. \A e \in staging : e \notin {<<"candidate", "manifest">>,
                                     <<"backup", "manifest">>} => e \in staging'
    BY <1>6 DEF FailManifest, Unpublish, RenameOver, Replace
  <2> QED
    BY <2>2, <2>3 DEF StagedOf
<1>7. CASE FailSidecar(p)
  <2>1. tx'[p] = [tx[p] EXCEPT !.sidecar = "none", !.held = @ \ {"sidecar"}]
    BY <1>7, <1>a DEF FailSidecar
  <2>2. tx'[p].sidecar = "none"
        /\ ("provider" \in tx'[p].held => "provider" \in tx[p].held)
    BY <2>1, <1>a DEF TxType
  <2>3. \A e \in staging : e \notin {<<"candidate", "sidecar">>,
                                     <<"backup", "sidecar">>} => e \in staging'
    BY <1>7 DEF FailSidecar, Unpublish, RenameOver, Replace
  <2> QED
    BY <2>2, <2>3 DEF StagedOf
<1>8. CASE FailProvider(p)
  <2>1. \/ /\ tx'[p] = [tx[p] EXCEPT !.why = "rollback", !.held = @ \ {"provider"}]
           /\ \A e \in staging : e # <<"backup", "provider">> => e \in staging'
        \/ /\ tx'[p] = [tx[p] EXCEPT !.why = "rollback"]
           /\ UNCHANGED staging
    BY <1>8, <1>a DEF FailProvider, Replace
  <2>2. CASE UNCHANGED staging /\ tx'[p] = [tx[p] EXCEPT !.why = "rollback"]
    BY <2>2, <1>a DEF StagedOf, TxType
  <2>3. CASE /\ tx'[p] = [tx[p] EXCEPT !.why = "rollback", !.held = @ \ {"provider"}]
             /\ \A e \in staging : e # <<"backup", "provider">> => e \in staging'
    <3>1. tx'[p].sidecar = tx[p].sidecar /\ "provider" \notin tx'[p].held
      BY <2>3, <1>a DEF TxType
    <3> QED
      BY <2>3, <3>1 DEF StagedOf
  <2> QED
    BY <2>1, <2>2, <2>3
<1> QED
  BY <1>1, <1>2, <1>3, <1>4, <1>5, <1>6, <1>7, <1>8 DEF Stages

\* The steps of the lease holder keep what its own refresh has staged; nobody
\* else has anything staged.
LEMMA WorkStaged ==
  ASSUME TypeOK, LeaseInv, StagedInv, NEW p \in Proc, Works(p)
  PROVE  StagedInv'
<1>a. LeaseInv' /\ owner = p /\ owner' = p /\ StagedOf(p)
  BY WorkLease DEF StagedInv
<1>1. Recovering(p)' => (tx'[p].held = {} /\ tx'[p].sidecar = "none")
  <2> SUFFICES ASSUME Recovering(p)'
               PROVE  tx'[p].held = {} /\ tx'[p].sidecar = "none"
    OBVIOUS
  <2>1. Recovering(p) /\ ~Stages(p)
    BY RecoveringStays
  <2> QED
    BY <1>a, <2>1, HeldValues DEF StagedOf
<1>2. /\ "provider" \in tx'[p].held => <<"backup", "provider">> \in staging'
      /\ tx'[p].sidecar = "staged" => <<"candidate", "sidecar">> \in staging'
  <2>1. CASE Stages(p)
    BY <1>a, <2>1, StagesKeep
  <2>2. CASE ~Stages(p)
    <3>1. tx'[p].held = tx[p].held /\ tx'[p].sidecar = tx[p].sidecar
      BY <2>2, HeldValues
    <3>2. CASE pc[p] \in {"cleanup", "cleanup_cache"}
      BY <1>a, <3>1, <3>2 DEF StagedOf, Recovering, RecoveryPc
    <3>3. CASE pc[p] \notin {"cleanup", "cleanup_cache"}
      BY <1>a, <2>2, <3>1, <3>3, StagedKept DEF StagedOf
    <3> QED
      BY <3>2, <3>3
  <2> QED
    BY <2>1, <2>2
<1>3. StagedOf(p)'
  BY <1>a, <1>1, <1>2 DEF StagedOf, LeaseInv
<1>4. ASSUME NEW q \in Proc \ {p} PROVE StagedOf(q)'
  <2>1. pc[q] \notin OwnerPc /\ StagedOf(q)
    BY <1>a DEF LeaseInv, StagedInv
  <2>2. tx'[q].held = {} /\ tx'[q].sidecar = "none"
    BY <2>1, OthersAlone DEF StagedOf
  <2> QED
    BY <2>2 DEF StagedOf
<1> QED
  BY <1>3, <1>4 DEF StagedInv

\* The steps without the lease stage nothing, and the last under it, like a
\* kill, forgets what its process had staged.
LEMMA OtherStaged ==
  ASSUME TypeOK, LeaseInv, StagedInv, NEW p \in Proc,
         \/ Releases(p) \/ Kill(p) \/ Construct(p) \/ RefreshStart(p)
         \/ Boot(p) \/ QueryBegin(p) \/ QueryStep(p)
  PROVE  StagedInv'
<1>a. /\ pc \in [Proc -> Pc] /\ tx \in [Proc -> TxType]
  BY DEF TypeOK
<1>1. \A q \in Proc \ {p} : pc'[q] = pc[q] /\ tx'[q] = tx[q]
  <2>1. CASE Releases(p)
    BY <1>a, <2>1 DEF Releases, CleanupCache, RaiseRecovery, Finally, RaiseFinally, Goto
  <2>2. CASE Kill(p) \/ Construct(p) \/ RefreshStart(p)
    BY <1>a, <2>2 DEF Kill, Construct, RefreshStart, Goto
  <2>3. CASE Boot(p) \/ QueryBegin(p) \/ QueryStep(p)
    BY <1>a, <2>3 DEF Boot, QueryBegin, QueryStep, QueryRefused, QueryBind,
                      QueryEnd, Goto
  <2> QED
    BY <2>1, <2>2, <2>3
<1>2. tx'[p].held = {} /\ tx'[p].sidecar = "none"
  <2>1. /\ NoTx.held = {} /\ [NoTx EXCEPT !.why = "start"].held = {}
        /\ NoTx.sidecar = "none" /\ [NoTx EXCEPT !.why = "start"].sidecar = "none"
    BY DEF NoTx
  <2>2. CASE Kill(p) \/ Construct(p) \/ RefreshStart(p) \/ Finally(p)
             \/ RaiseFinally(p) \/ (RaiseRecovery(p) /\ tx[p].why = "start")
    <3>1. tx'[p] \in {tx[p], NoTx, [NoTx EXCEPT !.why = "start"]}
          /\ (tx'[p] = tx[p] => pc[p] = "construct" \/ tx[p] = NoTx)
      BY <1>a, <2>2 DEF Kill, Construct, RefreshStart, Finally, RaiseFinally,
                        RaiseRecovery
    <3> QED
      BY <2>1, <3>1, OwnerLocations DEF StagedInv, StagedOf
  <2>3. CASE Boot(p) \/ QueryBegin(p) \/ QueryStep(p)
             \/ (CleanupCache(p) /\ tx[p].why = "start")
    <3>1. /\ UNCHANGED tx
          /\ pc[p] \in {"down", "idle", "bind", "querying", "cleanup_cache"}
      BY <2>3 DEF Boot, QueryBegin, QueryStep, QueryRefused, QueryBind, QueryEnd,
                  CleanupCache
    <3>2. pc[p] \notin OwnerPc \/ Recovering(p)
      BY <3>1, OwnerLocations DEF Recovering, RecoveryPc
    <3> QED
      BY <3>1, <3>2 DEF StagedInv, StagedOf
  <2> QED
    BY <2>2, <2>3 DEF Releases
<1>3. StagedOf(p)'
  BY <1>2 DEF StagedOf
<1>4. ASSUME NEW q \in Proc \ {p} PROVE StagedOf(q)'
  <2>1. StagedOf(q)
    BY DEF StagedInv
  <2>2. CASE Releases(p) \/ (Kill(p) /\ owner = p)
    <3>1. owner = p
      BY <2>2, OwnerLocations, PcLocations
      DEF Releases, CleanupCache, RaiseRecovery, Finally, RaiseFinally, SharedPc, RecoveryPc,
          LeaseInv
    <3>2. pc[q] \notin OwnerPc
      BY <3>1 DEF LeaseInv
    <3> QED
      BY <1>1, <2>1, <3>2 DEF StagedOf
  <2>3. CASE (Kill(p) /\ owner # p) \/ Construct(p) \/ RefreshStart(p)
             \/ Boot(p) \/ QueryBegin(p) \/ QueryStep(p)
    <3>1. UNCHANGED staging
      BY <2>3 DEF Kill, Construct, RefreshStart, Boot, QueryBegin, QueryStep,
                  QueryRefused, QueryBind, QueryEnd
    <3> QED
      BY <1>1, <2>1, <3>1 DEF StagedOf, Recovering
  <2> QED
    BY <2>2, <2>3
<1> QED
  BY <1>3, <1>4 DEF StagedInv

\* Nothing is staged initially.
LEMMA InitStaged == Init => StagedInv
BY DEF Init, StagedInv, StagedOf, NoTx

\* While no other project cleans the cache directory, a live refresh keeps the
\* backup of the Provider database and the sidecar it staged, whatever raises and
\* whoever is killed: only its own steps take them away, although every start and
\* every recovery removes staged files by their prefix.
THEOREM LiveStaging ==
  ASSUME ~SharedCache
  PROVE  Spec => []LiveStagingSurvives
<1>1. TypeOK /\ LeaseInv /\ StagedInv /\ [Next]_vars => StagedInv'
  <2> SUFFICES ASSUME TypeOK, LeaseInv, StagedInv, [Next]_vars PROVE StagedInv'
    OBVIOUS
  <2>1. CASE UNCHANGED vars
    BY <2>1 DEF StagedInv, StagedOf, Recovering
  <2>2. ~ForeignCleanup
    BY ~SharedCache DEF ForeignCleanup
  <2> QED
    BY <2>1, <2>2, NextCases, WorkStaged, OtherStaged
<1>2. StagedInv => LiveStagingSurvives
  BY DEF StagedInv, StagedOf, LiveStagingSurvives
<1> QED
  BY InitStaged, <1>1, <1>2, TypeCorrect, LeaseExclusive, PTL DEF Spec

-----------------------------------------------------------------------------
(* The backups of an interrupted refresh.                                  *)

\* Where the rollback or the recovery itself is cut short, the backups it has
\* put back already are gone; those two stages neither raise nor are killed.
UndisturbedUndo ==
  /\ Raising \cap {"published", "commit", "rollback", "recovery"} = {}
  /\ Killed \cap {"rollback", "recovery"} = {}

BackupsKept == \A a \in journal.existed : <<"recovery", a>> \in staging
BackupOf(p) ==
  /\ pc[p] = "journal" =>
       \A a \in Artifact : orig[a] # 0 => <<"recovery", a>> \in staging
  /\ pc[p] \in BeforeCall \cup AfterCall \cup FailPc /\ tx[p].rec =>
       tx[p].named = journal.existed
  /\ pc[p] \in DOMAIN UndoOf =>
       \A a \in journal.existed \ RestoredAt(pc[p]) :
         a \in tx[p].named /\ <<"recovery", a>> \in staging
  /\ pc[p] = "discard" /\ tx[p].why = "commit" => ~Unsettled
  /\ pc[p] \in RecoveryPc \cup DOMAIN UndoOf => tx[p].why # "commit"

\* Unless somebody is undoing a refresh right now, its backups are all there.
BackupInv ==
  /\ Unsettled /\ (\A p \in Proc : pc[p] \notin SharedPc) => BackupsKept
  /\ \A p \in Proc : BackupOf(p)

\* Where the names of a journal object and the reason of a rollback come from.
LEMMA NamedValues ==
  ASSUME TypeOK, NEW p \in Proc, Works(p)
  PROVE  /\ \/ Recover(p) \/ UndoOne(p) \/ DiscardOne(p) \/ WriteJournal(p)
            \/ tx'[p].named = tx[p].named
         /\ \/ WriteJournal(p) \/ UnlinkJournal(p)
            \/ tx'[p].rec = tx[p].rec
         /\ \/ CommitStaged(p) /\ tx'[p].why = "commit"
            \/ tx'[p].why \in {tx[p].why, "rollback"}
<1>a. tx[p] \in TxType /\ tx \in [Proc -> TxType]
  BY DEF TypeOK
<1>1. CASE PlanNoop(p) \/ PlanRefresh(p) \/ StageRegistration(p)
           \/ AdmitProvider(p) \/ CallProvider(p) \/ StageManifest(p)
  BY <1>1, <1>a DEF PlanNoop, PlanRefresh, StageRegistration, AdmitProvider,
                    CallProvider, StageManifest, TxType
<1>2. CASE Recover(p) \/ UndoOne(p) \/ DiscardOne(p) \/ UnlinkJournal(p)
  <2>1. tx'[p].why = tx[p].why
    BY <1>2, <1>a DEF Recover, UndoOne, DiscardOne, UnlinkJournal, TxType
  <2>2. UnlinkJournal(p) \/ tx'[p].rec = tx[p].rec
    BY <1>2, <1>a DEF Recover, UndoOne, DiscardOne, TxType
  <2>3. UnlinkJournal(p) => tx'[p].named = tx[p].named
    BY <1>a DEF UnlinkJournal, TxType
  <2> QED
    BY <1>2, <2>1, <2>2, <2>3
<1>3. CASE LinkBackups(p)
  <2>1. tx'[p] = [tx[p] EXCEPT !.stateBytes = file["state"],
                               !.manifestBytes = file["manifest"]]
    BY <1>3, <1>a DEF LinkBackups
  <2> QED
    BY <2>1, <1>a DEF TxType
<1>4. CASE WriteJournal(p)
  <2>1. tx'[p] = [tx[p] EXCEPT !.rec = TRUE, !.named = Existing]
    BY <1>4, <1>a DEF WriteJournal
  <2>2. tx'[p].why = tx[p].why
    BY <2>1, <1>a DEF TxType
  <2> QED
    BY <1>4, <2>2
<1>5. CASE BackupProvider(p)
  <2>1. \E S : tx'[p] = [tx[p] EXCEPT !.pbackup = TRUE, !.held = S]
               \/ tx'[p] = [tx[p] EXCEPT !.pbackup = TRUE]
    BY <1>5, <1>a DEF BackupProvider
  <2> QED
    BY <2>1, <1>a DEF TxType
<1>6. CASE PublishSidecar(p) \/ FailSidecar(p)
  <2>1. \/ tx'[p] = [tx[p] EXCEPT !.sidecar = "none", !.held = @ \ {"sidecar"}]
        \/ tx'[p] = [tx[p] EXCEPT !.sidecar = "published",
                                  !.held = @ \cup (Existing \cap {"sidecar"})]
    BY <1>6, <1>a DEF PublishSidecar, FailSidecar
  <2> QED
    BY <2>1, <1>a DEF TxType
<1>7. CASE PublishManifest(p) \/ FailManifest(p)
  <2>1. \/ tx'[p] = [tx[p] EXCEPT !.manifest = "none", !.held = @ \ {"manifest"}]
        \/ tx'[p] = [tx[p] EXCEPT !.manifest = "published",
                                  !.held = @ \cup (Existing \cap {"manifest"})]
    BY <1>7, <1>a DEF PublishManifest, FailManifest
  <2> QED
    BY <2>1, <1>a DEF TxType
<1>8. CASE CommitStaged(p)
  <2>1. \E S : tx'[p] = [tx[p] EXCEPT !.held = S, !.why = "commit"]
    BY <1>8, <1>a DEF CommitStaged
  <2>2. /\ tx'[p].named = tx[p].named /\ tx'[p].rec = tx[p].rec
        /\ tx'[p].why = "commit"
    BY <2>1, <1>a DEF TxType
  <2> QED
    BY <1>8, <2>2
<1>9. CASE FailProvider(p) \/ RaiseRollbackAction(p)
  <2>1. \/ \E S : tx'[p] = [tx[p] EXCEPT !.why = "rollback", !.held = S]
        \/ tx'[p] = [tx[p] EXCEPT !.why = "rollback"]
        \/ tx' = tx
    BY <1>9, <1>a DEF FailProvider, RaiseRollbackAction
  <2> QED
    BY <2>1, <1>a DEF TxType
<1>10. CASE \/ Advance(p) \/ RecordState(p) \/ Activate(p) \/ CleanupData(p)
            \/ CleanupCache(p) \/ FailState(p) \/ FailBytes(p) \/ FailStatus(p)
            \/ RaiseForward(p) \/ (RaiseRecovery(p) /\ tx[p].why # "start")
  BY <1>10 DEF Advance, RecordState, Activate, CleanupData, CleanupCache,
               FailState, FailBytes, FailStatus, RaiseForward, RaiseRecovery
<1> QED
  BY <1>1, <1>2, <1>3, <1>4, <1>5, <1>6, <1>7, <1>8, <1>9, <1>10
  DEF Works, RefreshStep

\* A backup the journal names is only taken by what undoes, discards or cleans.
LEMMA RecoveryLinksKept ==
  ASSUME TypeOK, NEW p \in Proc, Works(p),
         ~(UndoOne(p) \/ DiscardOne(p) \/ UnlinkJournal(p)),
         ~(CleanupData(p) \/ CleanupCache(p)),
         pc[p] # "journal" \/ ~RaiseForward(p),
         NEW a, <<"recovery", a>> \in staging
  PROVE  <<"recovery", a>> \in staging'
<1>1. CASE StageRegistration(p) \/ LinkBackups(p) \/ BackupProvider(p)
           \/ StageManifest(p) \/ PublishSidecar(p) \/ PublishManifest(p)
  BY <1>1 DEF StageRegistration, LinkBackups, BackupProvider, StageManifest,
              PublishSidecar, PublishManifest, PublishStaged
<1>2. CASE CommitStaged(p)
  BY <1>2 DEF CommitStaged
<1>3. CASE FailManifest(p) \/ FailSidecar(p)
  BY <1>3 DEF FailManifest, FailSidecar, Unpublish, RenameOver, Replace
<1>4. CASE FailProvider(p)
  BY <1>4 DEF FailProvider
<1>5. CASE RaiseForward(p)
  BY <1>5 DEF RaiseForward
<1>6. CASE \/ PlanNoop(p) \/ PlanRefresh(p) \/ WriteJournal(p)
           \/ AdmitProvider(p) \/ CallProvider(p) \/ Advance(p)
           \/ RecordState(p) \/ Activate(p) \/ Recover(p) \/ FailState(p)
           \/ FailBytes(p) \/ FailStatus(p) \/ RaiseRollbackAction(p)
           \/ RaiseRecovery(p)
  BY <1>6 DEF PlanNoop, PlanRefresh, WriteJournal, AdmitProvider, CallProvider,
              Advance, RecordState, Activate, Recover, FailState, FailBytes,
              FailStatus, RaiseRollbackAction, RaiseRecovery
<1> QED
  BY <1>1, <1>2, <1>3, <1>4, <1>5, <1>6 DEF Works, RefreshStep

\* An undo that finds its backups does not raise.
LEMMA UndoSucceeds ==
  ASSUME TypeOK, NEW p \in Proc, BackupOf(p), UndisturbedUndo
  PROVE  ~RaiseRecovery(p)
<1> SUFFICES ASSUME RaiseRecovery(p) PROVE FALSE
  OBVIOUS
<1>1. pc[p] \in DOMAIN UndoOf /\ UndoOf[pc[p]] \in journal.existed
      /\ ~Restorable(p, UndoOf[pc[p]])
  BY DEF RaiseRecovery, UndisturbedUndo
<1>2. UndoOf[pc[p]] \notin RestoredAt(pc[p])
  BY <1>1, PcLocations DEF UndoOf, RestoredAt
<1> QED
  BY <1>1, <1>2 DEF BackupOf, Restorable

\* An exception reaches the except block from a stage that may raise.
LEMMA RaisedFrom ==
  ASSUME NEW p \in Proc, RaiseForward(p), UndisturbedUndo
  PROVE  pc[p] \in ForwardPc
<1>1. pc[p] \in PublishedPc => StageOf(p) = "published"
  BY DEF PublishedPc, ForwardPc, StageOf
<1>2. pc[p] = "discard" /\ tx[p].why = "commit" => StageOf(p) = "commit"
  BY PcLocations DEF PublishedPc, ForwardPc, FailPc, RecoveryPc, SharedPc, StageOf
<1> QED
  BY <1>1, <1>2 DEF RaiseForward, UndisturbedUndo

\* Where a step under the lease can come from, by where it goes.
LEMMA Arrivals ==
  ASSUME TypeOK, NEW p \in Proc, Works(p), ~RaiseRecovery(p)
  PROVE  /\ pc'[p] \in DOMAIN UndoOf =>
              \/ Recover(p) \/ UndoOne(p)
              \/ FailProvider(p) \/ (RaiseRollbackAction(p) /\ pc[p] = "fail_provider")
         /\ pc'[p] = "discard" =>
              CommitStaged(p) \/ Recover(p) \/ UndoOne(p) \/ DiscardOne(p)
         /\ pc'[p] \in RecoveryPc =>
              Recover(p) \/ UnlinkJournal(p) \/ CleanupData(p)
<1>a. pc \in [Proc -> Pc]
  BY DEF TypeOK
<1>1. CASE Advance(p)
  BY <1>1, <1>a, PcLocations DEF Advance, AfterAdvance, Goto, RecoveryPc
<1>2. CASE \/ PlanNoop(p) \/ PlanRefresh(p) \/ StageRegistration(p)
           \/ LinkBackups(p) \/ WriteJournal(p) \/ BackupProvider(p)
           \/ AdmitProvider(p) \/ CallProvider(p) \/ StageManifest(p)
           \/ PublishSidecar(p) \/ PublishManifest(p) \/ RecordState(p)
           \/ Activate(p) \/ CleanupCache(p) \/ FailManifest(p)
           \/ FailSidecar(p) \/ FailState(p) \/ FailBytes(p) \/ FailStatus(p)
           \/ RaiseForward(p)
  BY <1>2, <1>a, PcLocations
  DEF PlanNoop, PlanRefresh, StageRegistration, LinkBackups, WriteJournal,
      BackupProvider, AdmitProvider, CallProvider, StageManifest, PublishSidecar,
      PublishManifest, RecordState, Activate, CleanupCache, FailManifest,
      FailSidecar, FailState, FailBytes, FailStatus, RaiseForward, AfterFail,
      Works, RecoveryPc, Goto
<1>3. CASE RaiseRollbackAction(p) /\ pc[p] # "fail_provider"
  BY <1>3, <1>a, PcLocations
  DEF RaiseRollbackAction, FailPc, AfterFail, RecoveryPc, Goto
<1>4. CASE FailProvider(p) \/ (RaiseRollbackAction(p) /\ pc[p] = "fail_provider")
  <2>1. pc'[p] \in {"undo_state", "fail_status"}
    BY <1>4, <1>a DEF FailProvider, RaiseRollbackAction, ToJournalRollback, Goto
  <2> QED
    BY <1>4, <2>1 DEF RecoveryPc
<1>5. CASE CommitStaged(p) \/ DiscardOne(p)
  <2>1. pc'[p] = "discard"
    BY <1>5, <1>a DEF CommitStaged, DiscardOne, Goto
  <2> QED
    BY <1>5, <2>1, PcLocations DEF RecoveryPc
<1>6. CASE UnlinkJournal(p) \/ CleanupData(p)
  <2>1. pc'[p] \in {"finally", "fail_status", "cleanup", "cleanup_cache"}
    BY <1>6, <1>a DEF UnlinkJournal, CleanupData, Goto
  <2> QED
    BY <1>6, <2>1, PcLocations
<1>7. CASE UndoOne(p)
  <2>1. pc'[p] \in {"undo_manifest", "undo_sidecar", "undo_provider", "discard"}
    BY <1>7, <1>a, PcLocations DEF UndoOne, AfterUndo, Goto
  <2> QED
    BY <1>7, <2>1 DEF RecoveryPc
<1>8. CASE Recover(p)
  BY <1>8
<1> QED
  BY <1>1, <1>2, <1>3, <1>4, <1>5, <1>6, <1>7, <1>8 DEF Works, RefreshStep

\* A refresh that may have to be undone came from one that had nothing to undo
\* yet, or that knew the names already.
LEMMA NamesKnown ==
  ASSUME TypeOK, NEW p \in Proc, Works(p), ~RaiseRecovery(p), UndisturbedUndo,
         pc'[p] \in BeforeCall \cup AfterCall \cup FailPc, ~WriteJournal(p)
  PROVE  /\ pc[p] \in BeforeCall \cup AfterCall \cup FailPc \cup UnjournalledPc
         /\ UNCHANGED journal \/ Advance(p)
         /\ tx'[p].named = tx[p].named /\ tx'[p].rec = tx[p].rec
<1>a. pc \in [Proc -> Pc]
  BY DEF TypeOK
<1>1. ~(Recover(p) \/ UndoOne(p) \/ DiscardOne(p) \/ UnlinkJournal(p))
  <2>1. ~(Recover(p) \/ DiscardOne(p) \/ UnlinkJournal(p))
    BY <1>a DEF Recover, DiscardOne, UnlinkJournal, Goto, BeforeCall, AfterCall,
                FailPc
  <2>2. ~UndoOne(p)
    BY <1>a, PcLocations DEF UndoOne, AfterUndo, Goto, BeforeCall, AfterCall,
                             FailPc
  <2> QED
    BY <2>1, <2>2
<1>2. pc[p] \in BeforeCall \cup AfterCall \cup FailPc \cup UnjournalledPc
  <2>1. CASE Advance(p)
    BY <1>a, <2>1, PcLocations
    DEF Advance, AfterAdvance, Goto, BeforeCall, AfterCall, FailPc
  <2>2. CASE RaiseForward(p)
    BY <2>2, RaisedFrom DEF ForwardPc, BeforeCall, AfterCall, FailPc,
                            UnjournalledPc
  <2>3. CASE \/ PlanNoop(p) \/ PlanRefresh(p) \/ StageRegistration(p)
             \/ LinkBackups(p) \/ BackupProvider(p) \/ AdmitProvider(p)
             \/ CallProvider(p) \/ StageManifest(p) \/ PublishSidecar(p)
             \/ PublishManifest(p) \/ RecordState(p)
    BY <2>3 DEF PlanNoop, PlanRefresh, StageRegistration, LinkBackups,
                BackupProvider, AdmitProvider, CallProvider, StageManifest,
                PublishSidecar, PublishManifest, RecordState, BeforeCall,
                AfterCall, UnjournalledPc
  <2>4. CASE \/ FailManifest(p) \/ FailSidecar(p) \/ FailState(p) \/ FailBytes(p)
             \/ FailProvider(p)
    BY <2>4 DEF FailManifest, FailSidecar, FailState, FailBytes, FailProvider,
                FailPc
  <2>5. CASE RaiseRollbackAction(p) /\ pc[p] # "fail_status"
    BY <2>5 DEF RaiseRollbackAction
  <2>6. CASE \/ Activate(p) \/ CommitStaged(p) \/ CleanupData(p)
             \/ CleanupCache(p) \/ FailStatus(p)
             \/ (RaiseRollbackAction(p) /\ pc[p] = "fail_status")
    BY <1>a, <2>6
    DEF Works, Activate, CommitStaged, CleanupData, CleanupCache, FailStatus,
        RaiseRollbackAction, AfterFail, Goto, BeforeCall, AfterCall, FailPc,
        UnjournalledPc
  <2> QED
    BY <1>1, <2>1, <2>2, <2>3, <2>4, <2>5, <2>6 DEF Works, RefreshStep
<1> QED
  BY <1>1, <1>2, JournalMoves, NamedValues

\* What the journal of a refresh under way names is still there after a step.
LEMMA WorkKeepsBackups ==
  ASSUME TypeOK, JournalInv', BackupInv, LeaseInv, NEW p \in Proc,
         ProcessInv(p), Works(p), UndisturbedUndo,
         Unsettled', pc'[p] \notin SharedPc
  PROVE  BackupsKept'
<1>a. /\ pc \in [Proc -> Pc] /\ BackupOf(p) /\ ~RaiseRecovery(p)
      /\ orig \in [Artifact -> Nat] /\ Journalled'
  BY UndoSucceeds DEF TypeOK, BackupInv, Unsettled
<1>1. CASE WriteJournal(p)
  <2>1. pc[p] = "journal" /\ UNCHANGED <<staging, orig>>
    BY <1>1 DEF WriteJournal
  <2>2. journal'.existed = {a \in Artifact : orig[a] # 0}
    BY <1>a, <2>1 DEF JournalInv
  <2> QED
    BY <1>a, <2>1, <2>2 DEF BackupOf, BackupsKept
<1>2. CASE ~WriteJournal(p)
  <2>1. ~UnlinkJournal(p)
    BY <1>a DEF UnlinkJournal, NoJournal, Journalled
  <2>2. ~(UndoOne(p) \/ DiscardOne(p))
    BY <1>a, PcLocations DEF UndoOne, DiscardOne, AfterUndo, Goto, SharedPc
  <2>3. Unsettled /\ journal'.existed = journal.existed
    <3>1. CASE Advance(p)
      <4>1. /\ pc[p] \in DOMAIN PhaseOf /\ journal'.phase = PhaseOf[pc[p]]
            /\ journal'.existed = journal.existed
        BY <3>1 DEF TypeOK, Advance, JournalType
      <4>2. pc[p] \notin {"adv_activated", "adv_committing"}
        BY <4>1 DEF PhaseOf, Unsettled, Accept
      <4> QED
        BY <4>1, <4>2, PcLocations DEF ProcessInv, AfterCall
    <3>2. CASE UNCHANGED journal
      BY <3>2 DEF Unsettled, Journalled
    <3> QED
      BY <1>2, <2>1, <3>1, <3>2, JournalMoves
  <2>4. pc[p] \notin SharedPc
    <3>1. pc[p] \in DOMAIN UndoOf => RaiseRecovery(p) \/ UndoOne(p)
      BY PcLocations
      DEF Works, RefreshStep, PlanNoop, PlanRefresh, StageRegistration,
          LinkBackups, WriteJournal, BackupProvider, AdmitProvider, CallProvider,
          Advance, StageManifest, PublishSidecar, PublishManifest, RecordState,
          Activate, CommitStaged, Recover, DiscardOne, UnlinkJournal,
          CleanupData, CleanupCache, FailManifest, FailSidecar, FailState,
          FailBytes, FailProvider, FailStatus, RaiseForward,
          RaiseRollbackAction, FailPc, ForwardPc, PublishedPc
    <3>2. pc[p] = "discard" =>
            \/ RaiseRecovery(p) \/ RaiseForward(p) \/ DiscardOne(p)
            \/ UnlinkJournal(p)
      BY PcLocations
      DEF Works, RefreshStep, PlanNoop, PlanRefresh, StageRegistration,
          LinkBackups, WriteJournal, BackupProvider, AdmitProvider, CallProvider,
          Advance, StageManifest, PublishSidecar, PublishManifest, RecordState,
          Activate, CommitStaged, Recover, UndoOne, CleanupData, CleanupCache,
          FailManifest, FailSidecar, FailState, FailBytes, FailProvider,
          FailStatus, RaiseRollbackAction, FailPc
    <3>3. pc[p] = "discard" => ~RaiseForward(p)
      BY RaisedFrom DEF ForwardPc
    <3> QED
      BY <1>a, <2>1, <2>2, <3>1, <3>2, <3>3 DEF SharedPc
  <2>5. \A q \in Proc : pc[q] \notin SharedPc
    <3>1. \A q \in Proc \ {p} : pc[q] \notin OwnerPc
      BY WorkLease DEF LeaseInv
    <3> QED
      BY <2>4, <3>1 DEF OwnerPc
  <2>6. BackupsKept
    BY <2>3, <2>5 DEF BackupInv
  <2>7. ~(CleanupData(p) \/ CleanupCache(p)) /\ pc[p] # "journal"
    BY <2>3 DEF CleanupData, CleanupCache, ProcessInv, UnjournalledPc,
                NothingReplaced, Unsettled
  <2> QED
    BY <2>1, <2>2, <2>3, <2>6, <2>7, RecoveryLinksKept DEF BackupsKept
<1> QED
  BY <1>1, <1>2

\* The lease holder knows the names of the backups its rollback will need.
LEMMA WorkBackupOf ==
  ASSUME TypeOK, BackupInv, LeaseInv, JournalInv', NEW p \in Proc,
         ProcessInv(p), ProcessInv(p)', Works(p), UndisturbedUndo
  PROVE  BackupOf(p)'
<1>a. /\ pc \in [Proc -> Pc] /\ BackupOf(p) /\ ~RaiseRecovery(p)
      /\ tx \in [Proc -> TxType] /\ tx[p] \in TxType
  BY UndoSucceeds DEF TypeOK, BackupInv
<1>b. ASSUME pc[p] \notin SharedPc, Unsettled PROVE BackupsKept
  <2>1. \A q \in Proc \ {p} : pc[q] \notin OwnerPc
    BY WorkLease DEF LeaseInv
  <2> QED
    BY <1>b, <2>1 DEF BackupInv, OwnerPc
<1>1. pc'[p] = "journal" =>
        \A a \in Artifact : orig'[a] # 0 => <<"recovery", a>> \in staging'
  <2> SUFFICES ASSUME pc'[p] = "journal"
               PROVE  \A a \in Artifact : orig'[a] # 0 =>
                        <<"recovery", a>> \in staging'
    OBVIOUS
  <2>1. LinkBackups(p)
    BY <1>a, BaseIsFresh DEF PlanRefresh, StageRegistration, Goto
  <2> QED
    BY <2>1 DEF LinkBackups, Existing
<1>2. pc'[p] \in BeforeCall \cup AfterCall \cup FailPc /\ tx'[p].rec =>
        tx'[p].named = journal'.existed
  <2> SUFFICES ASSUME pc'[p] \in BeforeCall \cup AfterCall \cup FailPc, tx'[p].rec
               PROVE  tx'[p].named = journal'.existed
    OBVIOUS
  <2>1. CASE WriteJournal(p)
    <3>1. /\ tx'[p] = [tx[p] EXCEPT !.rec = TRUE, !.named = Existing]
          /\ journal'.existed = Existing
      BY <1>a, <2>1 DEF WriteJournal
    <3> QED
      BY <1>a, <3>1 DEF TxType
  <2>2. CASE ~WriteJournal(p)
    <3>1. /\ pc[p] \in BeforeCall \cup AfterCall \cup FailPc \cup UnjournalledPc
          /\ tx'[p].named = tx[p].named /\ tx[p].rec
      BY <1>a, <2>2, NamesKnown
    <3>2. journal'.existed = journal.existed
      <4>1. Advance(p) => journal'.existed = journal.existed
        BY DEF Advance, TypeOK, JournalType
      <4> QED
        BY <1>a, <2>2, <4>1, NamesKnown
    <3>3. pc[p] \notin UnjournalledPc
      BY <3>1 DEF ProcessInv, NothingReplaced
    <3> QED
      BY <1>a, <3>1, <3>2, <3>3 DEF BackupOf
  <2> QED
    BY <2>1, <2>2
<1>3. pc'[p] \in DOMAIN UndoOf =>
        \A a \in journal'.existed \ RestoredAt(pc'[p]) :
          a \in tx'[p].named /\ <<"recovery", a>> \in staging'
  <2> SUFFICES ASSUME pc'[p] \in DOMAIN UndoOf,
                      NEW a \in journal'.existed \ RestoredAt(pc'[p])
               PROVE  a \in tx'[p].named /\ <<"recovery", a>> \in staging'
    OBVIOUS
  <2>1. CASE Recover(p)
    <3>1. /\ pc[p] = "recover" /\ UNCHANGED <<journal, staging>> /\ Unsettled
          /\ tx'[p].named = journal.existed
      BY <1>a, <2>1 DEF Recover, Goto, Unsettled, TxType, UndoOf
    <3>2. BackupsKept
      BY <1>b, <3>1, PcLocations DEF SharedPc
    <3> QED
      BY <3>1, <3>2 DEF BackupsKept
  <2>2. CASE UndoOne(p)
    <3>1. /\ pc[p] \in DOMAIN UndoOf /\ pc'[p] = AfterUndo[pc[p]]
          /\ UNCHANGED journal
          /\ tx'[p].named = tx[p].named \ {UndoOf[pc[p]]}
      BY <1>a, <2>2 DEF UndoOne, Goto, TxType
    <3>2. /\ RestoredAt(pc[p]) \subseteq RestoredAt(pc'[p])
          /\ UndoOf[pc[p]] \in RestoredAt(pc'[p])
      BY <3>1, PcLocations DEF UndoOf, AfterUndo, RestoredAt
    <3>3. a \in tx[p].named /\ <<"recovery", a>> \in staging /\ a # UndoOf[pc[p]]
      BY <1>a, <3>1, <3>2 DEF BackupOf
    <3>4. <<"recovery", a>> \in staging'
      BY <2>2, <3>3 DEF UndoOne, RenameOver, Replace
    <3> QED
      BY <3>1, <3>3, <3>4
  <2>3. CASE FailProvider(p) \/ (RaiseRollbackAction(p) /\ pc[p] = "fail_provider")
    <3>1. /\ pc[p] = "fail_provider" /\ UNCHANGED journal /\ tx[p].rec
      BY <1>a, <2>3, PcLocations DEF FailProvider, RaiseRollbackAction,
                                     ToJournalRollback, Goto
    <3>2. Unsettled /\ tx[p].named = journal.existed
      BY <1>a, <3>1 DEF ProcessInv, BackupOf, FailPc
    <3>3. BackupsKept
      BY <1>b, <3>1, <3>2, PcLocations DEF SharedPc
    <3>4. ~(Recover(p) \/ UndoOne(p) \/ DiscardOne(p) \/ WriteJournal(p)
             \/ UnlinkJournal(p) \/ CleanupData(p) \/ CleanupCache(p))
      BY <3>1, PcLocations DEF Recover, UndoOne, DiscardOne, WriteJournal,
                               UnlinkJournal, CleanupData, CleanupCache
    <3>5. tx'[p].named = tx[p].named
      BY <3>4, NamedValues
    <3>6. <<"recovery", a>> \in staging'
      BY <3>1, <3>3, <3>4, RecoveryLinksKept DEF BackupsKept
    <3> QED
      BY <3>1, <3>2, <3>5, <3>6
  <2> QED
    BY <1>a, <2>1, <2>2, <2>3, Arrivals
<1>4. pc'[p] = "discard" /\ tx'[p].why = "commit" => ~Unsettled'
  <2> SUFFICES ASSUME pc'[p] = "discard", tx'[p].why = "commit"
               PROVE  ~Unsettled'
    OBVIOUS
  <2>1. CASE CommitStaged(p)
    BY <2>1 DEF CommitStaged, ProcessInv, Unsettled
  <2>2. CASE Recover(p) \/ UndoOne(p)
    <3>1. pc[p] \in RecoveryPc \cup DOMAIN UndoOf /\ tx'[p].why = tx[p].why
      BY <1>a, <2>2 DEF Recover, UndoOne, RecoveryPc, TxType
    <3> QED
      BY <1>a, <3>1 DEF BackupOf
  <2>3. CASE DiscardOne(p)
    <3>1. pc[p] = "discard" /\ tx'[p].why = tx[p].why /\ UNCHANGED journal
      BY <1>a, <2>3 DEF DiscardOne, TxType
    <3> QED
      BY <1>a, <3>1 DEF BackupOf, Unsettled, Journalled
  <2> QED
    BY <1>a, <2>1, <2>2, <2>3, Arrivals
<1>5. pc'[p] \in RecoveryPc \cup DOMAIN UndoOf => tx'[p].why # "commit"
  <2> SUFFICES ASSUME pc'[p] \in RecoveryPc \cup DOMAIN UndoOf
               PROVE  tx'[p].why # "commit"
    OBVIOUS
  <2>1. CASE Recover(p) \/ UndoOne(p) \/ CleanupData(p)
    <3>1. pc[p] \in RecoveryPc \cup DOMAIN UndoOf /\ tx'[p].why = tx[p].why
      BY <1>a, <2>1 DEF Recover, UndoOne, CleanupData, RecoveryPc, TxType
    <3> QED
      BY <1>a, <3>1 DEF BackupOf
  <2>2. CASE UnlinkJournal(p)
    <3>1. tx'[p].why = tx[p].why
      BY <1>a, <2>2 DEF UnlinkJournal, TxType
    <3>2. tx[p].why # "commit"
      BY <1>a, <2>2, PcLocations DEF UnlinkJournal, Goto, RecoveryPc
    <3> QED
      BY <3>1, <3>2
  <2>3. CASE FailProvider(p) \/ (RaiseRollbackAction(p) /\ pc[p] = "fail_provider")
    <3>1. \/ \E S : tx'[p] = [tx[p] EXCEPT !.why = "rollback", !.held = S]
          \/ tx'[p] = [tx[p] EXCEPT !.why = "rollback"]
      BY <1>a, <2>3 DEF FailProvider, RaiseRollbackAction
    <3> QED
      BY <1>a, <3>1 DEF TxType
  <2> QED
    BY <1>a, <2>1, <2>2, <2>3, Arrivals
<1> QED
  BY <1>1, <1>2, <1>3, <1>4, <1>5 DEF BackupOf

\* Nothing is asked of a process that does not hold the lease.
LEMMA IdleBackup ==
  ASSUME NEW q \in Proc, pc'[q] \notin OwnerPc \/ pc'[q] = "stuck"
  PROVE  BackupOf(q)'
BY OwnerLocations, PcLocations
DEF BackupOf, BeforeCall, AfterCall, FailPc, RecoveryPc

\* The steps under the lease keep the backups a journal names.
LEMMA WorkBackup ==
  ASSUME TypeOK, LeaseInv, JournalInv', BackupInv, NEW p \in Proc,
         ProcessInv(p), ProcessInv(p)', Works(p), UndisturbedUndo
  PROVE  BackupInv'
<1>a. LeaseInv' /\ owner' = p
  BY WorkLease
<1>1. Unsettled' /\ pc'[p] \notin SharedPc => BackupsKept'
  BY WorkKeepsBackups
<1>2. BackupOf(p)'
  BY WorkBackupOf
<1>3. \A q \in Proc \ {p} : BackupOf(q)'
  BY <1>a, IdleBackup DEF LeaseInv
<1> QED
  BY <1>1, <1>2, <1>3 DEF BackupInv

\* A process is not killed while it undoes an interrupted refresh.
LEMMA KilledAside ==
  ASSUME NEW p \in Proc, BackupOf(p), Kill(p), UndisturbedUndo, Unsettled
  PROVE  pc[p] \notin SharedPc
<1> SUFFICES ASSUME pc[p] \in SharedPc PROVE FALSE
  OBVIOUS
<1>1. StageOf(p) = IF tx[p].why \in {"commit", "rollback"} THEN tx[p].why
                                                           ELSE "recovery"
  BY PcLocations
  DEF StageOf, SharedPc, ForwardPc, PublishedPc, FailPc, RecoveryPc
<1>2. tx[p].why = "commit"
  BY <1>1 DEF Kill, UndisturbedUndo
<1> QED
  BY <1>2 DEF BackupOf, SharedPc

\* So do the steps without the lease, the last ones under it, and kills.
LEMMA OtherBackup ==
  ASSUME TypeOK, LeaseInv, BackupInv, NEW p \in Proc, ProcessInv(p),
         UndisturbedUndo,
         \/ Releases(p) \/ Kill(p) \/ Construct(p) \/ RefreshStart(p)
         \/ Boot(p) \/ QueryBegin(p) \/ QueryStep(p)
  PROVE  BackupInv'
<1>a. /\ pc \in [Proc -> Pc] /\ tx \in [Proc -> TxType] /\ BackupOf(p)
      /\ ~RaiseRecovery(p)
  BY UndoSucceeds DEF TypeOK, BackupInv
<1>1. /\ UNCHANGED <<file, orig, journal>>
      /\ \A q \in Proc \ {p} : pc'[q] = pc[q] /\ tx'[q] = tx[q]
  <2>1. CASE Releases(p)
    BY <1>a, <2>1 DEF Releases, CleanupCache, Finally, RaiseFinally, Goto
  <2>2. CASE Kill(p) \/ Construct(p) \/ RefreshStart(p)
    BY <1>a, <2>2 DEF Kill, Construct, RefreshStart, Goto
  <2>3. CASE Boot(p) \/ QueryBegin(p) \/ QueryStep(p)
    BY <1>a, <2>3 DEF Boot, QueryBegin, QueryStep, QueryRefused, QueryBind,
                      QueryEnd, Goto
  <2> QED
    BY <2>1, <2>2, <2>3
<1>2. Unsettled => pc[p] \notin SharedPc
  <2>1. CASE Kill(p)
    BY <1>a, <2>1, KilledAside
  <2>2. CASE ~Kill(p)
    BY <1>a, <2>2, OwnerLocations, PcLocations
    DEF Releases, CleanupCache, Finally, RaiseFinally, Construct, RefreshStart, Boot,
        QueryBegin, QueryStep, QueryRefused, QueryBind, QueryEnd, SharedPc
  <2> QED
    BY <2>1, <2>2
<1>3. ASSUME Journalled, NEW a, <<"recovery", a>> \in staging
      PROVE  <<"recovery", a>> \in staging'
  <2>1. CASE CleanupCache(p) \/ Finally(p)
    BY <1>a, <1>3, <2>1 DEF CleanupCache, Finally, ProcessInv
  <2>4. CASE RaiseFinally(p)
    BY <1>3, <2>4 DEF RaiseFinally, Forget
  <2>2. CASE Kill(p)
    BY <1>3, <2>2, ForgetKeeps DEF Kill
  <2>3. CASE Construct(p) \/ RefreshStart(p) \/ Boot(p) \/ QueryBegin(p)
             \/ QueryStep(p)
    BY <1>3, <2>3 DEF Construct, RefreshStart, Boot, QueryBegin, QueryStep,
                      QueryRefused, QueryBind, QueryEnd
  <2> QED
    BY <1>a, <2>1, <2>2, <2>3, <2>4 DEF Releases
<1>4. Unsettled' /\ (\A q \in Proc : pc'[q] \notin SharedPc) => BackupsKept'
  BY <1>1, <1>2, <1>3 DEF BackupInv, BackupsKept, Unsettled, Journalled
<1>5. BackupOf(p)'
  <2>1. CASE Construct(p) \/ RefreshStart(p)
    <3>1. pc'[p] \in {"recover", "idle", "plan"}
      BY <1>a, <2>1 DEF Construct, RefreshStart, Goto
    <3>2. pc'[p] = "recover" => tx'[p].why \in {"start", "refresh"}
      BY <1>a, <2>1 DEF Construct, RefreshStart, Goto, NoTx
    <3> QED
      BY <3>1, <3>2, PcLocations
      DEF BackupOf, BeforeCall, AfterCall, FailPc, RecoveryPc
  <2>2. CASE Releases(p) \/ Kill(p) \/ Boot(p) \/ QueryBegin(p) \/ QueryStep(p)
    <3>1. pc'[p] \notin OwnerPc \/ pc'[p] = "stuck"
      BY <1>a, <2>2, OwnerLocations
      DEF Releases, CleanupCache, Finally, RaiseFinally, Kill, Boot, QueryBegin, QueryStep,
          QueryRefused, QueryBind, QueryEnd, Goto
    <3> QED
      BY <3>1, IdleBackup
  <2> QED
    BY <2>1, <2>2
<1>6. ASSUME NEW q \in Proc \ {p} PROVE BackupOf(q)'
  <2>1. CASE pc[q] \notin OwnerPc
    BY <1>1, <2>1, IdleBackup
  <2>2. CASE pc[q] \in OwnerPc
    <3>1. owner # p
      BY <2>2 DEF LeaseInv
    <3>2. UNCHANGED staging
      <4>1. ~Releases(p)
        BY <1>a, <3>1, OwnerLocations
        DEF Releases, CleanupCache, Finally, RaiseFinally, LeaseInv
      <4> QED
        BY <3>1, <4>1 DEF Kill, Construct, RefreshStart, Boot, QueryBegin,
                          QueryStep, QueryRefused, QueryBind, QueryEnd
    <3> QED
      BY <1>1, <3>2 DEF BackupInv, BackupOf, Unsettled, Journalled
  <2> QED
    BY <2>1, <2>2
<1> QED
  BY <1>4, <1>5, <1>6 DEF BackupInv

\* There is nothing to undo initially.
LEMMA InitBackup == Init => BackupInv
<1>1. Init => ~Unsettled
  BY DEF Init, NoJournal, Unsettled, Journalled
<1>2. ASSUME Init, NEW p \in Proc PROVE BackupOf(p)
  BY <1>2, PcLocations
  DEF Init, BackupOf, BeforeCall, AfterCall, FailPc, RecoveryPc
<1> QED
  BY <1>1, <1>2 DEF BackupInv

\* A refresh interrupted anywhere before its state is published, by an error or
\* by a kill, leaves every backup its journal names: the next process finds what
\* it needs to undo it.  A rollback or a recovery must not be cut short itself.
THEOREM InterruptedIsRecoverable ==
  ASSUME ~SharedCache, UndisturbedUndo
  PROVE  Spec => []RecoverableAtRest
<1>0. NoLateRaise
  BY UndisturbedUndo DEF UndisturbedUndo, NoLateRaise
<1>1. GenerationInv /\ BackupInv /\ [Next]_vars => (GenerationInv /\ BackupInv)'
  <2> SUFFICES ASSUME GenerationInv, BackupInv, [Next]_vars
               PROVE  (GenerationInv /\ BackupInv)'
    OBVIOUS
  <2>1. GenerationInv'
    BY <1>0, NextGeneration
  <2>2. CASE UNCHANGED vars
    BY <2>1, <2>2 DEF BackupInv, BackupOf, BackupsKept, Unsettled, Journalled
  <2>3. ~ForeignCleanup
    BY ~SharedCache DEF ForeignCleanup
  <2>4. ASSUME NEW p \in Proc, Works(p) PROVE BackupInv'
    BY <2>1, <2>4, WorkBackup, UndisturbedUndo DEF GenerationInv
  <2>5. ASSUME NEW p \in Proc,
               \/ Releases(p) \/ Kill(p) \/ Construct(p) \/ RefreshStart(p)
               \/ Boot(p) \/ QueryBegin(p) \/ QueryStep(p)
        PROVE  BackupInv'
    BY <2>5, OtherBackup, UndisturbedUndo DEF GenerationInv
  <2> QED
    BY <2>1, <2>2, <2>3, <2>4, <2>5, NextCases
<1>2. GenerationInv /\ BackupInv => RecoverableAtRest
  BY ConstantsOK
  DEF GenerationInv, LeaseInv, OwnerPc, BackupInv, BackupsKept, Unsettled,
      RecoverableAtRest
<1> QED
  BY InitGeneration, InitBackup, <1>1, <1>2, PTL DEF Spec
=============================================================================
