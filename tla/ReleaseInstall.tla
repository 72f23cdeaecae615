---------------------------- MODULE ReleaseInstall ----------------------------
(***************************************************************************)
(* Installing a stable release beside the others (release_installation.py):*)
(* fetch what the release consists of, download its assets into a stage    *)
(* directory, check them, publish the Provider into the machine's store    *)
(* and the stage as the installation.  Several commands install at once,   *)
(* downloads are damaged, the assets of a release are uploaded again, and  *)
(* an installer is killed.                                                 *)
(*                                                                         *)
(* The content of an asset is the edition it was uploaded with; all        *)
(* versions bring the same version of the Provider.                        *)
(***************************************************************************)
EXTENDS Integers, Sequences, FiniteSets

CONSTANTS
    Installers, Versions,
    HasDigests,         \* BOOLEAN: the API names a digest for each asset
    MaxUploads, MaxDamaged, MaxKills    \* bounds of the exploration

ASSUME ConstantsOK ==
    HasDigests \in BOOLEAN /\ {MaxUploads, MaxDamaged, MaxKills} \subseteq Nat

VARIABLES
    edition,    \* the edition of the assets that can be downloaded
    store,      \* the Provider in the machine's store, 0 for none
    dest,       \* [version -> [wheel, prov]]: the published installations
    pc, version, release,       \* each installer: its step, version, fetched edition
    asset,      \* [installer -> [wheel, sums, prov, provSums]]: its downloads
    stage, provStage,           \* BOOLEAN: its stage directories exist
    result,     \* [installer -> [is, new, wheel, prov]]
    damaged, kills

vars == <<edition, store, dest, pc, version, release, asset, stage, provStage, result,
          damaged, kills>>

None == 0
Wrong == -1      \* of the right size, with other bytes
NoAssets == [wheel |-> None, sums |-> None, prov |-> None, provSums |-> None]
NoInstallation == [wheel |-> None, prov |-> None]
NoResult == [is |-> "none", new |-> FALSE, wheel |-> None, prov |-> None]

Init ==
    /\ edition = 1 /\ store = 0 /\ dest = [v \in Versions |-> NoInstallation]
    /\ pc = [i \in Installers |-> "fetch"] /\ version \in [Installers -> Versions]
    /\ release = [i \in Installers |-> 0] /\ asset = [i \in Installers |-> NoAssets]
    /\ stage = [i \in Installers |-> FALSE] /\ provStage = [i \in Installers |-> FALSE]
    /\ result = [i \in Installers |-> NoResult]
    /\ damaged = 0 /\ kills = 0

Exists(v) == dest[v] # NoInstallation
Goes(i, step) == pc' = [pc EXCEPT ![i] = step]
machine == <<edition, store, dest>>
own == <<version, release>>

----------------------------------------------------------------------------
(* fetch_stable_release: the names, sizes and digests of one moment. *)
Fetch(i) ==
    /\ pc[i] = "fetch" /\ Goes(i, "look")
    /\ release' = [release EXCEPT ![i] = edition]
    /\ UNCHANGED <<machine, version, asset, stage, provStage, result, damaged, kills>>

(* _installation_from_receipt: an installation counts if its receipt names *)
(* the Provider that is in the store.                                      *)
Receipt(i, new) ==
    LET d == dest'[version[i]] IN
    result' = [result EXCEPT ![i] =
        IF d.prov = store THEN [is |-> "installed", new |-> new, wheel |-> d.wheel, prov |-> d.prov]
        ELSE [NoResult EXCEPT !.is = "failed"]]

Look(i) ==
    /\ pc[i] = "look"
    /\ IF Exists(version[i])
       THEN dest' = dest /\ Receipt(i, FALSE) /\ Goes(i, "done") /\ UNCHANGED stage
       ELSE stage' = [stage EXCEPT ![i] = TRUE] /\ Goes(i, "download") /\ UNCHANGED <<dest, result>>
    /\ UNCHANGED <<edition, store, own, asset, provStage, damaged, kills>>

(* Any exception leaves through the handler that removes the stage. *)
Fails(i) ==
    /\ result' = [result EXCEPT ![i] = [NoResult EXCEPT !.is = "failed"]]
    /\ Goes(i, "cleanup")

(* download_asset: the next asset, as it is served now; one that is not what *)
(* the API said is removed and refused.                                      *)
Order == <<"wheel", "sums", "prov", "provSums">>
Downloaded(i) == Cardinality({a \in DOMAIN NoAssets : asset[i][a] # None})

Refused(i, content) == HasDigests /\ content # release[i]

Download(i) ==
    /\ pc[i] = "download" /\ Downloaded(i) < Len(Order)
    /\ \E content \in {edition} \cup (IF damaged < MaxDamaged THEN {Wrong} ELSE {}) :
           /\ damaged' = damaged + (IF content = Wrong THEN 1 ELSE 0)
           /\ IF Refused(i, content)
              THEN Fails(i) /\ UNCHANGED asset
              ELSE /\ asset' = [asset EXCEPT ![i][Order[Downloaded(i) + 1]] = content]
                   /\ UNCHANGED <<pc, result>>
    /\ UNCHANGED <<machine, own, stage, provStage, kills>>

(* Variant: the checksum manifests are not compared. *)
VerifiedUnread(i) == TRUE

(* verify_downloaded_release: wheel and archive are those the checksum      *)
(* manifests downloaded with them name (the two of the archive as one).      *)
Verified(i) ==
    /\ asset[i].wheel > 0 /\ asset[i].wheel = asset[i].sums
    /\ asset[i].prov > 0 /\ asset[i].prov = asset[i].provSums

Verify(i) ==
    /\ pc[i] = "download" /\ Downloaded(i) = Len(Order)
    /\ IF Verified(i) THEN Goes(i, "build") /\ UNCHANGED result ELSE Fails(i)
    /\ UNCHANGED <<machine, own, asset, stage, provStage, damaged, kills>>

(* The Provider is extracted and run, the wheel installed into a fresh      *)
(* environment and run; any of it may fail.                                 *)
Build(i) ==
    /\ pc[i] = "build"
    /\ \/ Goes(i, "provider") /\ UNCHANGED result
       \/ Fails(i)
    /\ UNCHANGED <<machine, own, asset, stage, provStage, damaged, kills>>

----------------------------------------------------------------------------
(* _publish_shared_provider: what is in the store must be the same bundle. *)
Agrees(i) == store = asset[i].prov

FindProvider(i) ==
    /\ pc[i] = "provider"
    /\ IF store = 0
       THEN provStage' = [provStage EXCEPT ![i] = TRUE] /\ Goes(i, "copied") /\ UNCHANGED result
       ELSE /\ UNCHANGED provStage
            /\ IF Agrees(i) THEN Goes(i, "publish") /\ UNCHANGED result ELSE Fails(i)
    /\ UNCHANGED <<machine, own, asset, stage, damaged, kills>>

(* Variant: the copy replaces what another installer put there. *)
PublishProviderOver(i) ==
    /\ pc[i] = "copied"
    /\ store' = asset[i].prov /\ provStage' = [provStage EXCEPT ![i] = FALSE]
    /\ Goes(i, "publish") /\ UNCHANGED result
    /\ UNCHANGED <<edition, dest, own, asset, stage, damaged, kills>>

(* The copy is renamed into place; a directory that is there by now wins. *)
PublishProvider(i) ==
    /\ pc[i] = "copied"
    /\ IF store = 0
       THEN store' = asset[i].prov /\ Goes(i, "publish") /\ UNCHANGED result
       ELSE /\ UNCHANGED store
            /\ IF Agrees(i) THEN Goes(i, "publish") /\ UNCHANGED result ELSE Fails(i)
    /\ provStage' = [provStage EXCEPT ![i] = FALSE]
    /\ UNCHANGED <<edition, dest, own, asset, stage, damaged, kills>>

(* The receipt is written and the stage renamed; again the first one wins. *)
Publish(i) ==
    /\ pc[i] = "publish" /\ Goes(i, "cleanup")
    /\ IF Exists(version[i])
       THEN dest' = dest /\ Receipt(i, FALSE) /\ UNCHANGED stage
       ELSE /\ dest' = [dest EXCEPT ![version[i]] = [wheel |-> asset[i].wheel, prov |-> asset[i].prov]]
            /\ stage' = [stage EXCEPT ![i] = FALSE] /\ Receipt(i, TRUE)
    /\ UNCHANGED <<edition, store, own, asset, provStage, damaged, kills>>

Cleanup(i) ==
    /\ pc[i] = "cleanup" /\ Goes(i, "done")
    /\ stage' = [stage EXCEPT ![i] = FALSE]
    /\ UNCHANGED <<machine, own, asset, provStage, result, damaged, kills>>

Kill(i) ==
    /\ pc[i] \notin {"done", "dead"} /\ kills < MaxKills /\ kills' = kills + 1
    /\ Goes(i, "dead")
    /\ UNCHANGED <<machine, own, asset, stage, provStage, result, damaged>>

(* The assets of the release are uploaded again. *)
Upload ==
    /\ edition <= MaxUploads /\ edition' = edition + 1
    /\ UNCHANGED <<store, dest, pc, own, asset, stage, provStage, result, damaged, kills>>

----------------------------------------------------------------------------
Step(i) ==
    \/ Fetch(i) \/ Look(i) \/ Download(i) \/ Verify(i) \/ Build(i) \/ FindProvider(i)
    \/ PublishProvider(i) \/ Publish(i) \/ Cleanup(i)

Next == Upload \/ \E i \in Installers : Step(i) \/ Kill(i)

(* Each installer goes on; its downloads and subprocesses end. *)
Spec == Init /\ [][Next]_vars /\ \A i \in Installers : WF_vars(Step(i))

----------------------------------------------------------------------------
Content == -1..(MaxUploads + 1)

TypeOK ==
    /\ edition \in 1..(MaxUploads + 1) /\ store \in Content
    /\ dest \in [Versions -> [wheel : Content, prov : Content]]
    /\ version \in [Installers -> Versions] /\ release \in [Installers -> 0..(MaxUploads + 1)]
    /\ asset \in [Installers -> [DOMAIN NoAssets -> Content]]
    /\ stage \in [Installers -> BOOLEAN] /\ provStage \in [Installers -> BOOLEAN]
    /\ pc \in [Installers -> {"fetch", "look", "download", "build", "provider",
                              "copied", "publish", "cleanup", "done", "dead"}]
    /\ result \in [Installers -> [is : {"none", "installed", "failed"}, new : BOOLEAN,
                                  wheel : Content, prov : Content]]
    /\ damaged \in 0..MaxDamaged /\ kills \in 0..MaxKills

(* Every installation that can be found is whole: its wheel and Provider    *)
(* are undamaged, and the Provider its receipt names is the one in the      *)
(* store, whatever other versions were installed meanwhile.                 *)
PublishedWhole ==
    \A v \in Versions : Exists(v) => dest[v].wheel > 0 /\ dest[v].prov > 0 /\ store = dest[v].prov

(* Wheel and Provider of an installation belong to the same upload of the   *)
(* release, though they are downloaded one after the other.                 *)
OneUpload == \A v \in Versions : Exists(v) => dest[v].wheel = dest[v].prov

(* Of several commands installing a version one reports it as new, and all  *)
(* that report it describe what is there.                                   *)
OneWinner ==
    /\ \A i, j \in Installers : i # j /\ version[i] = version[j] => ~(result[i].new /\ result[j].new)
    /\ \A i \in Installers : result[i].is = "installed" =>
           [wheel |-> result[i].wheel, prov |-> result[i].prov] = dest[version[i]]

(* An installer that ended leaves no stage directory behind. *)
NoResidue == \A i \in Installers : pc[i] = "done" => ~stage[i] /\ ~provStage[i]

(* A published installation and the shared Provider never change: running   *)
(* sessions execute them.                                                   *)
Keeps ==
    /\ \A v \in Versions : Exists(v) => dest'[v] = dest[v]
    /\ store # 0 => store' = store

NeverReplaced == [][Keeps]_vars

(* Every installer ends, unless it is killed. *)
Ended(i) == pc[i] \in {"done", "dead"}

InstallsEnd == \A i \in Installers : <>Ended(i)
=============================================================================
