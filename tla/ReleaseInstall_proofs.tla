------------------------ MODULE ReleaseInstall_proofs -------------------------
(***************************************************************************)
(* Theorems about what brings an installation and a project up to date:    *)
(* first ReleaseInstall, for any installers, versions, uploads, damaged    *)
(* downloads and kills, then ProviderMigration and SessionUpdate, for any  *)
(* edits, interrupts, kills and attempts: as the instances Migration and   *)
(* Session over variables of their own.                                    *)
(***************************************************************************)
EXTENDS ReleaseInstall, FiniteSetTheorems, TLAPS

Steps == {"fetch", "look", "download", "build", "provider", "copied", "publish", "cleanup",
          "done", "dead"}
Assets == {"wheel", "sums", "prov", "provSums"}
Results == [is : {"none", "installed", "failed"}, new : BOOLEAN,
            wheel : Content, prov : Content]

\* The steps of an installer whose downloads have been verified.
Checked == {"build", "provider", "copied", "publish"}

\* What an installation says of itself.
Describes(r, v) == Exists(v) /\ r.wheel = dest[v].wheel /\ r.prov = dest[v].prov

\* A step of i is nobody else's.
OnlyOf(i) ==
  \A j \in Installers \ {i} :
    /\ pc'[j] = pc[j] /\ asset'[j] = asset[j] /\ stage'[j] = stage[j]
    /\ provStage'[j] = provStage[j] /\ result'[j] = result[j] /\ release'[j] = release[j]

-----------------------------------------------------------------------------
(* The invariant: what an installer knows where it is.  What it publishes  *)
(* has been verified, the store holds what it is about to name, and a      *)
(* result describes what is there.                                         *)
InstallerInv(i) ==
  /\ pc[i] \in {"fetch", "look"} => asset[i] = NoAssets
  /\ pc[i] \in Checked => Verified(i)
  /\ pc[i] = "publish" => store = asset[i].prov
  /\ pc[i] \notin {"cleanup", "done", "dead"} => result[i] = NoResult
  /\ result[i].is = "installed" => Describes(result[i], version[i])
  /\ result[i].new => result[i].is = "installed"
  /\ pc[i] \in {"fetch", "look", "done"} => ~stage[i]
  /\ pc[i] \notin {"copied", "dead"} => ~provStage[i]

NewOnce == \A i, j \in Installers :
             i # j /\ version[i] = version[j] => ~(result[i].new /\ result[j].new)

InstallInv ==
  TypeOK /\ PublishedWhole /\ (\A i \in Installers : InstallerInv(i)) /\ NewOnce

\* Where the API names digests, what is kept is what was fetched.
UploadInv(i) ==
  /\ pc[i] = "download" => \A a \in Assets : asset[i][a] \in {None, release[i]}
  /\ pc[i] \in Checked => asset[i].wheel = release[i] /\ asset[i].prov = release[i]

-----------------------------------------------------------------------------
LEMMA Typed ==
  /\ None \in Content /\ Wrong \in Content /\ 0..(MaxUploads + 1) \subseteq Content
  /\ NoAssets \in [DOMAIN NoAssets -> Content] /\ DOMAIN NoAssets = Assets
  /\ NoResult \in Results /\ NoInstallation \in [wheel : Content, prov : Content]
<1>1. None \in Content /\ Wrong \in Content /\ 0..(MaxUploads + 1) \subseteq Content
  BY ConstantsOK DEF None, Wrong, Content
<1> QED
  BY <1>1 DEF NoAssets, Assets, NoResult, Results, NoInstallation

\* The next asset has a name.
LEMMA NextAsset ==
  ASSUME NEW i \in Installers, Downloaded(i) < Len(Order)
  PROVE  Order[Downloaded(i) + 1] \in DOMAIN NoAssets
<1>1. IsFiniteSet(Assets)
  <2>1. IsFiniteSet({}) BY FS_EmptySet
  <2>2. IsFiniteSet({} \cup {"wheel"}) BY <2>1, FS_AddElement
  <2>3. IsFiniteSet(({} \cup {"wheel"}) \cup {"sums"}) BY <2>2, FS_AddElement
  <2>4. IsFiniteSet((({} \cup {"wheel"}) \cup {"sums"}) \cup {"prov"})
    BY <2>3, FS_AddElement
  <2>5. IsFiniteSet(((({} \cup {"wheel"}) \cup {"sums"}) \cup {"prov"}) \cup {"provSums"})
    BY <2>4, FS_AddElement
  <2>6. Assets = ((({} \cup {"wheel"}) \cup {"sums"}) \cup {"prov"}) \cup {"provSums"}
    BY DEF Assets
  <2> QED
    BY <2>5, <2>6
<1>2. {a \in DOMAIN NoAssets : asset[i][a] # None} \subseteq Assets
  BY Typed
<1>3. Downloaded(i) \in Nat
  BY <1>1, <1>2, FS_Subset, FS_CardinalityType DEF Downloaded
<1>4. Len(Order) = 4
  BY DEF Order
<1>5. Order[1] \in Assets /\ Order[2] \in Assets /\ Order[3] \in Assets /\ Order[4] \in Assets
  BY DEF Order, Assets
<1>6. Downloaded(i) + 1 \in {1, 2, 3, 4}
  BY <1>3, <1>4
<1> QED
  BY <1>5, <1>6, Typed

\* What a receipt makes of a result.
LEMMA ReceiptIs ==
  ASSUME NEW i \in Installers, NEW new \in BOOLEAN, Receipt(i, new),
         dest'[version[i]] \in [wheel : Content, prov : Content], TypeOK
  PROVE  /\ result' \in [Installers -> Results]
         /\ \A j \in Installers \ {i} : result'[j] = result[j]
         /\ dest'[version[i]].prov = store =>
              result'[i] = [is |-> "installed", new |-> new,
                            wheel |-> dest'[version[i]].wheel, prov |-> dest'[version[i]].prov]
         /\ dest'[version[i]].prov # store =>
              result'[i] = [NoResult EXCEPT !.is = "failed"]
<1> DEFINE d == dest'[version[i]]
           r == IF d.prov = store
                THEN [is |-> "installed", new |-> new, wheel |-> d.wheel, prov |-> d.prov]
                ELSE [NoResult EXCEPT !.is = "failed"]
<1>1. result' = [result EXCEPT ![i] = r]
  BY DEF Receipt
<1>2. r \in Results
  BY Typed DEF Results, NoResult
<1>3. result \in [Installers -> Results]
  BY DEF TypeOK, Results
<1>4. result'[i] = r
  BY <1>1, <1>3
<1> HIDE DEF r
<1>5. result' \in [Installers -> Results] /\ \A j \in Installers \ {i} : result'[j] = result[j]
  BY <1>1, <1>2, <1>3
<1> QED
  BY <1>4, <1>5 DEF r

\* The result of a failure.
LEMMA FailIs ==
  ASSUME NEW i \in Installers, Fails(i), TypeOK
  PROVE  /\ result' \in [Installers -> Results] /\ pc' \in [Installers -> Steps]
         /\ \A j \in Installers \ {i} : result'[j] = result[j] /\ pc'[j] = pc[j]
         /\ result'[i].is = "failed" /\ ~result'[i].new /\ pc'[i] = "cleanup"
<1> DEFINE r == [NoResult EXCEPT !.is = "failed"]
<1>1. result' = [result EXCEPT ![i] = r] /\ pc' = [pc EXCEPT ![i] = "cleanup"]
  BY DEF Fails, Goes
<1>2. r \in Results /\ r.is = "failed" /\ ~r.new
  BY Typed DEF Results, NoResult
<1>3. result \in [Installers -> Results] /\ pc \in [Installers -> Steps]
  BY DEF TypeOK, Results, Steps
<1> HIDE DEF r
<1> QED
  BY <1>1, <1>2, <1>3 DEF Steps

LEMMA GoesIs ==
  ASSUME NEW i \in Installers, NEW l \in Steps, Goes(i, l), TypeOK
  PROVE  /\ pc' \in [Installers -> Steps] /\ pc'[i] = l
         /\ \A j \in Installers \ {i} : pc'[j] = pc[j]
BY DEF Goes, TypeOK, Steps

\* What makes a step that publishes nothing keep the invariant.
LEMMA Keeping ==
  ASSUME InstallInv, TypeOK', NEW i \in Installers, OnlyOf(i),
         UNCHANGED <<store, dest, version>>,
         result'[i] = result[i] \/ ~result'[i].new,
         InstallerInv(i)'
  PROVE  InstallInv'
<1> USE DEF InstallInv, OnlyOf
<1>1. ASSUME NEW j \in Installers PROVE InstallerInv(j)'
  <2>1. CASE j = i
    BY <2>1
  <2>2. CASE j # i
    <3>1. InstallerInv(j)
      OBVIOUS
    <3> QED
      BY <2>2, <3>1 DEF InstallerInv, Verified, Describes, Exists, Checked
  <2> QED
    BY <2>1, <2>2
<1>2. PublishedWhole'
  BY DEF PublishedWhole, Exists
<1>3. NewOnce'
  BY DEF NewOnce
<1> QED
  BY <1>1, <1>2, <1>3

\* A failure on the way to a publication, with the stages as they are.
LEMMA FailKeeps ==
  ASSUME InstallInv, NEW i \in Installers, Fails(i), pc[i] # "dead",
         UNCHANGED <<edition, store, dest, version, release, asset, stage, kills>>,
         damaged' \in 0..MaxDamaged, provStage' \in [Installers -> BOOLEAN],
         ~provStage'[i], \A j \in Installers \ {i} : provStage'[j] = provStage[j]
  PROVE  InstallInv'
<1>1. /\ result' \in [Installers -> Results] /\ pc' \in [Installers -> Steps]
      /\ \A j \in Installers \ {i} : result'[j] = result[j] /\ pc'[j] = pc[j]
      /\ result'[i].is = "failed" /\ ~result'[i].new /\ pc'[i] = "cleanup"
  BY FailIs DEF InstallInv
<1>2. TypeOK'
  BY <1>1 DEF InstallInv, TypeOK, Results, Steps, Content
<1>3. InstallerInv(i)'
  BY <1>1 DEF InstallerInv, Checked
<1> QED
  BY <1>1, <1>2, <1>3, Keeping DEF OnlyOf

\* An installer that goes on, its downloads verified.
LEMMA GoesKeeps ==
  ASSUME InstallInv, NEW i \in Installers, NEW l \in {"build", "provider", "publish"},
         Goes(i, l), pc[i] \in {"download"} \cup Checked,
         UNCHANGED <<edition, store, dest, version, release, asset, stage, result,
                     damaged, kills>>,
         provStage' \in [Installers -> BOOLEAN],
         ~provStage'[i], \A j \in Installers \ {i} : provStage'[j] = provStage[j],
         Verified(i), l = "publish" => store = asset[i].prov
  PROVE  InstallInv'
<1>1. pc' \in [Installers -> Steps] /\ pc'[i] = l
      /\ \A j \in Installers \ {i} : pc'[j] = pc[j]
  BY GoesIs DEF InstallInv, Steps
<1>2. TypeOK'
  BY <1>1 DEF InstallInv, TypeOK, Steps, Content
<1>3. InstallerInv(i)
  BY DEF InstallInv
<1>4. InstallerInv(i)'
  BY <1>1, <1>3 DEF InstallerInv, Checked, Verified, Describes, Exists
<1> QED
  BY <1>1, <1>2, <1>4, Keeping DEF OnlyOf

-----------------------------------------------------------------------------
(* The steps.                                                              *)
LEMMA InitInstall == Init => InstallInv
<1> SUFFICES ASSUME Init PROVE InstallInv
  OBVIOUS
<1>1. TypeOK
  BY ConstantsOK, Typed DEF Init, TypeOK, Results, Content
<1>2. ASSUME NEW i \in Installers PROVE InstallerInv(i)
  BY <1>2 DEF Init, InstallerInv, NoResult, Checked
<1>3. PublishedWhole
  BY DEF Init, PublishedWhole, Exists
<1>4. NewOnce
  BY DEF Init, NewOnce, NoResult
<1> QED
  BY <1>1, <1>2, <1>3, <1>4 DEF InstallInv

LEMMA FetchKeeps ==
  ASSUME InstallInv, NEW i \in Installers, Fetch(i) PROVE InstallInv'
<1>1. /\ UNCHANGED <<edition, store, dest, version, asset, stage, provStage, result, damaged, kills>>
      /\ pc[i] = "fetch" /\ Goes(i, "look") /\ release' = [release EXCEPT ![i] = edition]
  BY DEF Fetch, machine
<1>2. pc' \in [Installers -> Steps] /\ pc'[i] = "look"
      /\ \A j \in Installers \ {i} : pc'[j] = pc[j]
  BY <1>1, GoesIs DEF InstallInv, Steps
<1>3. edition \in 0..(MaxUploads + 1)
  BY ConstantsOK DEF InstallInv, TypeOK
<1>4. TypeOK'
  BY <1>1, <1>2, <1>3 DEF InstallInv, TypeOK, Steps, Content
<1>5. InstallerInv(i)
  BY DEF InstallInv
<1>6. InstallerInv(i)'
  BY <1>1, <1>2, <1>5 DEF InstallerInv, Checked, Describes, Exists
<1>7. OnlyOf(i)
  BY <1>1, <1>2 DEF OnlyOf, InstallInv, TypeOK
<1> QED
  BY <1>1, <1>4, <1>6, <1>7, Keeping

\* A receipt that is there names the Provider in the store.
LEMMA LookKeeps ==
  ASSUME InstallInv, NEW i \in Installers, Look(i) PROVE InstallInv'
<1>1. UNCHANGED <<edition, store, version, release, asset, provStage, damaged, kills>>
      /\ pc[i] = "look"
  BY DEF Look, own
<1>2. InstallerInv(i) /\ version[i] \in Versions
  BY DEF InstallInv, TypeOK
<1>3. CASE Exists(version[i])
  <2>1. dest' = dest /\ Receipt(i, FALSE) /\ Goes(i, "done") /\ UNCHANGED stage
    BY <1>3 DEF Look
  <2>2. pc' \in [Installers -> Steps] /\ pc'[i] = "done"
        /\ \A j \in Installers \ {i} : pc'[j] = pc[j]
    BY <2>1, GoesIs DEF InstallInv, Steps
  <2>3. dest'[version[i]] \in [wheel : Content, prov : Content]
        /\ dest'[version[i]].prov = store
    BY <1>2, <1>3, <2>1 DEF InstallInv, TypeOK, PublishedWhole
  <2>4. /\ result' \in [Installers -> Results]
        /\ \A j \in Installers \ {i} : result'[j] = result[j]
        /\ result'[i] = [is |-> "installed", new |-> FALSE,
                         wheel |-> dest[version[i]].wheel, prov |-> dest[version[i]].prov]
    BY <2>1, <2>3, ReceiptIs DEF InstallInv
  <2>5. TypeOK'
    BY <1>1, <2>1, <2>2, <2>4 DEF InstallInv, TypeOK, Steps, Results, Content
  <2>6. InstallerInv(i)'
    BY <1>1, <1>2, <1>3, <2>1, <2>2, <2>4 DEF InstallerInv, Checked, Describes, Exists
  <2>7. OnlyOf(i) /\ ~result'[i].new
    BY <1>1, <2>1, <2>2, <2>4 DEF OnlyOf
  <2> QED
    BY <1>1, <2>1, <2>5, <2>6, <2>7, Keeping
<1>4. CASE ~Exists(version[i])
  <2>1. stage' = [stage EXCEPT ![i] = TRUE] /\ Goes(i, "download") /\ UNCHANGED <<dest, result>>
    BY <1>4 DEF Look
  <2>2. pc' \in [Installers -> Steps] /\ pc'[i] = "download"
        /\ \A j \in Installers \ {i} : pc'[j] = pc[j]
    BY <2>1, GoesIs DEF InstallInv, Steps
  <2>3. TypeOK'
    BY <1>1, <2>1, <2>2 DEF InstallInv, TypeOK, Steps, Content
  <2>4. InstallerInv(i)'
    BY <1>1, <1>2, <2>1, <2>2 DEF InstallerInv, Checked, Describes, Exists
  <2>5. OnlyOf(i)
    BY <1>1, <2>1, <2>2 DEF OnlyOf, InstallInv, TypeOK
  <2> QED
    BY <1>1, <2>1, <2>3, <2>4, <2>5, Keeping
<1> QED
  BY <1>3, <1>4

LEMMA DownloadKeeps ==
  ASSUME InstallInv, NEW i \in Installers, Download(i) PROVE InstallInv'
<1>1. UNCHANGED <<edition, store, dest, version, release, stage, provStage, kills>>
      /\ pc[i] = "download" /\ Downloaded(i) < Len(Order)
  BY DEF Download, machine, own
<1>2. InstallerInv(i) /\ provStage \in [Installers -> BOOLEAN]
  BY DEF InstallInv, TypeOK
<1>3. PICK content \in {edition} \cup (IF damaged < MaxDamaged THEN {Wrong} ELSE {}) :
           /\ damaged' = damaged + (IF content = Wrong THEN 1 ELSE 0)
           /\ IF Refused(i, content)
              THEN Fails(i) /\ UNCHANGED asset
              ELSE /\ asset' = [asset EXCEPT ![i][Order[Downloaded(i) + 1]] = content]
                   /\ UNCHANGED <<pc, result>>
  BY DEF Download
<1>4. edition # Wrong /\ edition \in Content
  BY ConstantsOK DEF InstallInv, TypeOK, Wrong, Content
<1>5. content \in Content /\ damaged' \in 0..MaxDamaged
  BY <1>3, <1>4, Typed, ConstantsOK DEF InstallInv, TypeOK
<1>6. CASE Refused(i, content)
  BY <1>1, <1>2, <1>3, <1>5, <1>6, FailKeeps DEF InstallerInv
<1>7. CASE ~Refused(i, content)
  <2> DEFINE a == Order[Downloaded(i) + 1]
  <2>1. a \in DOMAIN NoAssets
    BY <1>1, NextAsset
  <2> HIDE DEF a
  <2>2. asset' = [asset EXCEPT ![i][a] = content] /\ UNCHANGED <<pc, result>>
    BY <1>3, <1>7 DEF a
  <2>3. asset' \in [Installers -> [DOMAIN NoAssets -> Content]]
    BY <1>5, <2>1, <2>2 DEF InstallInv, TypeOK
  <2>4. TypeOK'
    BY <1>1, <1>5, <2>2, <2>3 DEF InstallInv, TypeOK, Content
  <2>5. InstallerInv(i)'
    BY <1>1, <1>2, <2>2 DEF InstallerInv, Checked, Describes, Exists
  <2>6. OnlyOf(i)
    BY <1>1, <2>2 DEF OnlyOf, InstallInv, TypeOK
  <2> QED
    BY <1>1, <2>2, <2>4, <2>5, <2>6, Keeping
<1> QED
  BY <1>6, <1>7

LEMMA VerifyKeeps ==
  ASSUME InstallInv, NEW i \in Installers, Verify(i) \/ Build(i) PROVE InstallInv'
<1>1. UNCHANGED <<edition, store, dest, version, release, asset, stage, provStage, damaged, kills>>
      /\ pc[i] \in {"download", "build"}
  BY DEF Verify, Build, machine, own
<1>2. InstallerInv(i) /\ provStage \in [Installers -> BOOLEAN] /\ damaged \in 0..MaxDamaged
  BY DEF InstallInv, TypeOK
<1>3. ~provStage[i]
  BY <1>1, <1>2 DEF InstallerInv
<1>4. CASE Fails(i)
  BY <1>1, <1>2, <1>3, <1>4, FailKeeps
<1>5. CASE Verify(i) /\ ~Fails(i)
  <2>1. Goes(i, "build") /\ UNCHANGED result /\ Verified(i)
    BY <1>5 DEF Verify
  <2> QED
    BY <1>1, <1>2, <1>3, <2>1, GoesKeeps DEF Checked
<1>6. CASE Build(i) /\ ~Fails(i)
  <2>1. Goes(i, "provider") /\ UNCHANGED result /\ pc[i] = "build"
    BY <1>6 DEF Build
  <2>2. Verified(i)
    BY <1>2, <2>1 DEF InstallerInv, Checked
  <2> QED
    BY <1>1, <1>2, <1>3, <2>1, <2>2, GoesKeeps DEF Checked
<1> QED
  BY <1>4, <1>5, <1>6

LEMMA FindKeeps ==
  ASSUME InstallInv, NEW i \in Installers, FindProvider(i) PROVE InstallInv'
<1>1. UNCHANGED <<edition, store, dest, version, release, asset, stage, damaged, kills>>
      /\ pc[i] = "provider"
  BY DEF FindProvider, machine, own
<1>2. InstallerInv(i) /\ provStage \in [Installers -> BOOLEAN] /\ damaged \in 0..MaxDamaged
  BY DEF InstallInv, TypeOK
<1>3. ~provStage[i] /\ Verified(i)
  BY <1>1, <1>2 DEF InstallerInv, Checked
<1>4. CASE store = 0
  <2>1. provStage' = [provStage EXCEPT ![i] = TRUE] /\ Goes(i, "copied") /\ UNCHANGED result
    BY <1>4 DEF FindProvider
  <2>2. pc' \in [Installers -> Steps] /\ pc'[i] = "copied"
        /\ \A j \in Installers \ {i} : pc'[j] = pc[j]
    BY <2>1, GoesIs DEF InstallInv, Steps
  <2>3. TypeOK'
    BY <1>1, <2>1, <2>2 DEF InstallInv, TypeOK, Steps, Content
  <2>4. InstallerInv(i)'
    BY <1>1, <1>2, <1>3, <2>1, <2>2 DEF InstallerInv, Checked, Verified, Describes, Exists
  <2>5. OnlyOf(i)
    BY <1>1, <2>1, <2>2 DEF OnlyOf, InstallInv, TypeOK
  <2> QED
    BY <1>1, <2>1, <2>3, <2>4, <2>5, Keeping
<1>5. CASE store # 0 /\ Agrees(i)
  <2>1. UNCHANGED <<provStage, result>> /\ Goes(i, "publish") /\ store = asset[i].prov
    BY <1>5 DEF FindProvider, Agrees
  <2> QED
    BY <1>1, <1>2, <1>3, <2>1, GoesKeeps DEF Checked
<1>6. CASE store # 0 /\ ~Agrees(i)
  <2>1. UNCHANGED provStage /\ Fails(i)
    BY <1>6 DEF FindProvider
  <2> QED
    BY <1>1, <1>2, <1>3, <2>1, FailKeeps
<1> QED
  BY <1>4, <1>5, <1>6

\* Without a Provider in the store nothing is installed, and nobody is about
\* to publish.
LEMMA EmptyStore ==
  ASSUME InstallInv, store = 0
  PROVE  /\ \A v \in Versions : ~Exists(v)
         /\ \A j \in Installers : pc[j] # "publish" /\ result[j].is # "installed"
<1>1. ASSUME NEW v \in Versions PROVE ~Exists(v)
  <2>1. dest[v].prov \in Int
    BY DEF InstallInv, TypeOK, Content
  <2> QED
    BY <2>1 DEF InstallInv, PublishedWhole
<1>2. ASSUME NEW j \in Installers PROVE pc[j] # "publish" /\ result[j].is # "installed"
  <2>1. InstallerInv(j) /\ version[j] \in Versions
    BY DEF InstallInv, TypeOK
  <2> QED
    BY <1>1, <2>1 DEF InstallerInv, Checked, Verified, Describes
<1> QED
  BY <1>1, <1>2

LEMMA StoreKeeps ==
  ASSUME InstallInv, NEW i \in Installers, PublishProvider(i) PROVE InstallInv'
<1>1. UNCHANGED <<edition, dest, version, release, asset, stage, damaged, kills>>
      /\ pc[i] = "copied" /\ provStage' = [provStage EXCEPT ![i] = FALSE]
  BY DEF PublishProvider, own
<1>2. InstallerInv(i) /\ damaged \in 0..MaxDamaged
  BY DEF InstallInv, TypeOK
<1>3. provStage' \in [Installers -> BOOLEAN] /\ ~provStage'[i]
      /\ \A j \in Installers \ {i} : provStage'[j] = provStage[j]
  BY <1>1 DEF InstallInv, TypeOK
<1>4. Verified(i)
  BY <1>1, <1>2 DEF InstallerInv, Checked
<1>5. CASE store = 0
  <2>1. store' = asset[i].prov /\ Goes(i, "publish") /\ UNCHANGED result
    BY <1>5 DEF PublishProvider
  <2>2. pc' \in [Installers -> Steps] /\ pc'[i] = "publish"
        /\ \A j \in Installers \ {i} : pc'[j] = pc[j]
    BY <2>1, GoesIs DEF InstallInv, Steps
  <2>3. asset[i].prov \in Content
    BY Typed DEF InstallInv, TypeOK, Assets
  <2>4. TypeOK'
    BY <1>1, <1>3, <2>1, <2>2, <2>3 DEF InstallInv, TypeOK, Steps, Content
  <2>5. ASSUME NEW j \in Installers PROVE InstallerInv(j)'
    <3>1. InstallerInv(j) /\ pc[j] # "publish" /\ result[j].is # "installed"
      BY <1>5, EmptyStore DEF InstallInv
    <3>2. CASE j = i
      BY <1>1, <1>3, <1>4, <2>1, <2>2, <3>1, <3>2 DEF InstallerInv, Checked, Verified
    <3>3. CASE j # i
      BY <1>1, <1>3, <2>1, <2>2, <3>1, <3>3 DEF InstallerInv, Checked, Verified
    <3> QED
      BY <3>2, <3>3
  <2>6. PublishedWhole'
    BY <1>1, <1>5, EmptyStore DEF PublishedWhole, Exists
  <2>7. NewOnce'
    BY <1>1, <2>1 DEF InstallInv, NewOnce
  <2> QED
    BY <2>4, <2>5, <2>6, <2>7 DEF InstallInv
<1>6. CASE store # 0 /\ Agrees(i)
  <2>1. UNCHANGED <<store, result>> /\ Goes(i, "publish") /\ store = asset[i].prov
    BY <1>6 DEF PublishProvider, Agrees
  <2> QED
    BY <1>1, <1>3, <1>4, <2>1, GoesKeeps DEF Checked
<1>7. CASE store # 0 /\ ~Agrees(i)
  <2>1. UNCHANGED store /\ Fails(i)
    BY <1>7 DEF PublishProvider
  <2> QED
    BY <1>1, <1>2, <1>3, <2>1, FailKeeps
<1> QED
  BY <1>5, <1>6, <1>7

\* The first to publish a version reports it as new; nobody has reported it.
LEMMA PublishKeeps ==
  ASSUME InstallInv, NEW i \in Installers, Publish(i) PROVE InstallInv'
<1>1. UNCHANGED <<edition, store, version, release, asset, provStage, damaged, kills>>
      /\ pc[i] = "publish" /\ Goes(i, "cleanup")
  BY DEF Publish, own
<1>2. InstallerInv(i) /\ version[i] \in Versions /\ asset[i] \in [DOMAIN NoAssets -> Content]
  BY DEF InstallInv, TypeOK
<1>3. Verified(i) /\ store = asset[i].prov /\ ~provStage[i]
  BY <1>1, <1>2 DEF InstallerInv, Checked
<1>4. pc' \in [Installers -> Steps] /\ pc'[i] = "cleanup"
      /\ \A j \in Installers \ {i} : pc'[j] = pc[j]
  BY <1>1, GoesIs DEF InstallInv, Steps
<1>5. CASE Exists(version[i])
  <2>1. dest' = dest /\ Receipt(i, FALSE) /\ UNCHANGED stage
    BY <1>5 DEF Publish
  <2>2. dest'[version[i]] \in [wheel : Content, prov : Content]
        /\ dest'[version[i]].prov = store
    BY <1>2, <1>5, <2>1 DEF InstallInv, TypeOK, PublishedWhole
  <2>3. /\ result' \in [Installers -> Results]
        /\ \A j \in Installers \ {i} : result'[j] = result[j]
        /\ result'[i] = [is |-> "installed", new |-> FALSE,
                         wheel |-> dest[version[i]].wheel, prov |-> dest[version[i]].prov]
    BY <2>1, <2>2, ReceiptIs DEF InstallInv
  <2>4. TypeOK'
    BY <1>1, <1>4, <2>1, <2>3 DEF InstallInv, TypeOK, Steps, Results, Content
  <2>5. InstallerInv(i)'
    BY <1>1, <1>3, <1>4, <1>5, <2>1, <2>3 DEF InstallerInv, Checked, Describes, Exists
  <2>6. OnlyOf(i) /\ ~result'[i].new
    BY <1>1, <1>4, <2>1, <2>3 DEF OnlyOf
  <2> QED
    BY <1>1, <2>1, <2>4, <2>5, <2>6, Keeping
<1>6. CASE ~Exists(version[i])
  <2> DEFINE d == [wheel |-> asset[i].wheel, prov |-> asset[i].prov]
  <2>1. dest' = [dest EXCEPT ![version[i]] = d] /\ Receipt(i, TRUE)
        /\ stage' = [stage EXCEPT ![i] = FALSE]
    BY <1>6 DEF Publish
  <2>2. d \in [wheel : Content, prov : Content] /\ d # NoInstallation
    BY <1>2, <1>3, Typed DEF Assets, Verified, NoInstallation, None
  <2>3. d.prov = store /\ d.wheel > 0 /\ d.prov > 0
    BY <1>3 DEF Verified
  <2> HIDE DEF d
  <2>4. /\ dest' \in [Versions -> [wheel : Content, prov : Content]] /\ dest'[version[i]] = d
        /\ \A v \in Versions \ {version[i]} : dest'[v] = dest[v]
    BY <1>2, <2>1, <2>2 DEF InstallInv, TypeOK
  <2>5. /\ result' \in [Installers -> Results]
        /\ \A j \in Installers \ {i} : result'[j] = result[j]
        /\ result'[i] = [is |-> "installed", new |-> TRUE, wheel |-> d.wheel, prov |-> d.prov]
    BY <2>1, <2>2, <2>3, <2>4, ReceiptIs DEF InstallInv
  <2>6. TypeOK'
    BY <1>1, <1>4, <2>1, <2>4, <2>5 DEF InstallInv, TypeOK, Steps, Results, Content
  <2>7. Exists(version[i])'
    BY <1>1, <2>2, <2>4 DEF Exists
  <2>8. ASSUME NEW j \in Installers \ {i}
        PROVE  InstallerInv(j)' /\ (version[j] = version[i] => ~result'[j].new)
    <3>1. InstallerInv(j) /\ version[j] \in Versions
      BY DEF InstallInv, TypeOK
    <3>2. version[j] = version[i] => result[j].is # "installed" /\ ~result[j].new
      BY <1>6, <3>1 DEF InstallerInv, Describes
    <3>3. stage'[j] = stage[j]
      BY <2>1 DEF InstallInv, TypeOK
    <3> QED
      BY <1>1, <1>4, <2>4, <2>5, <3>1, <3>2, <3>3
         DEF InstallerInv, Checked, Verified, Describes, Exists
  <2>9. InstallerInv(i)'
    BY <1>1, <1>3, <1>4, <2>4, <2>5, <2>7 DEF InstallerInv, Checked, Describes
  <2>10. PublishedWhole'
    BY <1>1, <2>3, <2>4 DEF InstallInv, PublishedWhole, Exists
  <2>11. NewOnce'
    BY <1>1, <2>5, <2>8 DEF InstallInv, NewOnce
  <2> QED
    BY <2>6, <2>8, <2>9, <2>10, <2>11 DEF InstallInv
<1> QED
  BY <1>5, <1>6

LEMMA EndKeeps ==
  ASSUME InstallInv, NEW i \in Installers, Cleanup(i) \/ Kill(i) PROVE InstallInv'
<1>1. UNCHANGED <<edition, store, dest, version, release, asset, provStage, result, damaged>>
  BY DEF Cleanup, Kill, machine, own
<1>2. InstallerInv(i)
  BY DEF InstallInv
<1>3. CASE Cleanup(i)
  <2>1. pc[i] = "cleanup" /\ Goes(i, "done") /\ stage' = [stage EXCEPT ![i] = FALSE]
        /\ UNCHANGED kills
    BY <1>3 DEF Cleanup
  <2>2. pc' \in [Installers -> Steps] /\ pc'[i] = "done"
        /\ \A j \in Installers \ {i} : pc'[j] = pc[j]
    BY <2>1, GoesIs DEF InstallInv, Steps
  <2>3. TypeOK'
    BY <1>1, <2>1, <2>2 DEF InstallInv, TypeOK, Steps, Content
  <2>4. stage'[i] = FALSE /\ \A j \in Installers \ {i} : stage'[j] = stage[j]
    BY <2>1 DEF InstallInv, TypeOK
  <2>5. InstallerInv(i)'
    BY <1>1, <1>2, <2>1, <2>2, <2>4 DEF InstallerInv, Checked, Describes, Exists
  <2>6. OnlyOf(i)
    BY <1>1, <2>2, <2>4 DEF OnlyOf
  <2> QED
    BY <1>1, <2>3, <2>5, <2>6, Keeping
<1>4. CASE Kill(i)
  <2>1. Goes(i, "dead") /\ UNCHANGED stage /\ kills < MaxKills /\ kills' = kills + 1
    BY <1>4 DEF Kill
  <2>2. pc' \in [Installers -> Steps] /\ pc'[i] = "dead"
        /\ \A j \in Installers \ {i} : pc'[j] = pc[j]
    BY <2>1, GoesIs DEF InstallInv, Steps
  <2>3. kills' \in 0..MaxKills
    BY <2>1, ConstantsOK DEF InstallInv, TypeOK
  <2>4. TypeOK'
    BY <1>1, <2>1, <2>2, <2>3 DEF InstallInv, TypeOK, Steps, Content
  <2>5. InstallerInv(i)'
    BY <1>1, <1>2, <2>1, <2>2 DEF InstallerInv, Checked, Describes, Exists
  <2>6. OnlyOf(i)
    BY <1>1, <2>1, <2>2 DEF OnlyOf
  <2> QED
    BY <1>1, <2>4, <2>5, <2>6, Keeping
<1> QED
  BY <1>3, <1>4

LEMMA IdleKeeps == InstallInv /\ (Upload \/ UNCHANGED vars) => InstallInv'
<1> SUFFICES ASSUME InstallInv, Upload \/ UNCHANGED vars PROVE InstallInv'
  OBVIOUS
<1>1. UNCHANGED <<store, dest, pc, version, release, asset, stage, provStage, result, damaged, kills>>
  BY DEF Upload, own, vars
<1>2. edition' \in 1..(MaxUploads + 1)
  BY ConstantsOK DEF Upload, vars, InstallInv, TypeOK
<1>3. TypeOK'
  BY <1>1, <1>2 DEF InstallInv, TypeOK, Content
<1>4. \A i \in Installers : InstallerInv(i)'
  BY <1>1 DEF InstallInv, InstallerInv, Checked, Verified, Describes, Exists
<1>5. PublishedWhole' /\ NewOnce'
  BY <1>1 DEF InstallInv, PublishedWhole, NewOnce, Exists
<1> QED
  BY <1>3, <1>4, <1>5 DEF InstallInv

LEMMA NextInstall == InstallInv /\ [Next]_vars => InstallInv'
BY IdleKeeps, FetchKeeps, LookKeeps, DownloadKeeps, VerifyKeeps, FindKeeps, StoreKeeps,
   PublishKeeps, EndKeeps DEF Next, Step

LEMMA Installs == Spec => []InstallInv
BY InitInstall, NextInstall, PTL DEF Spec

-----------------------------------------------------------------------------
(* Where the API names digests.                                            *)
LEMMA DownloadUpload ==
  ASSUME HasDigests, TypeOK, NEW i \in Installers, NEW j \in Installers,
         UploadInv(j), Download(i)
  PROVE  UploadInv(j)'
<1>1. UNCHANGED <<version, release>> /\ pc[i] = "download" /\ Downloaded(i) < Len(Order)
  BY DEF Download, own
<1>2. PICK content \in {edition} \cup (IF damaged < MaxDamaged THEN {Wrong} ELSE {}) :
           IF Refused(i, content)
           THEN Fails(i) /\ UNCHANGED asset
           ELSE /\ asset' = [asset EXCEPT ![i][Order[Downloaded(i) + 1]] = content]
                /\ UNCHANGED <<pc, result>>
  BY DEF Download
<1>3. CASE Refused(i, content)
  <2>1. pc'[i] = "cleanup" /\ asset' = asset /\ \A k \in Installers \ {i} : pc'[k] = pc[k]
    BY <1>2, <1>3, FailIs
  <2> QED
    BY <1>1, <2>1 DEF UploadInv, Checked
<1>4. CASE ~Refused(i, content)
  <2> DEFINE a == Order[Downloaded(i) + 1]
  <2>1. a \in DOMAIN NoAssets
    BY <1>1, NextAsset
  <2> HIDE DEF a
  <2>2. asset' = [asset EXCEPT ![i][a] = content] /\ UNCHANGED pc
    BY <1>2, <1>4 DEF a
  <2>3. content = release[i]
    BY <1>4 DEF Refused
  <2>4. /\ \A b \in Assets : asset'[i][b] = IF b = a THEN content ELSE asset[i][b]
        /\ \A k \in Installers \ {i} : asset'[k] = asset[k]
    BY <2>1, <2>2, Typed DEF TypeOK
  <2> QED
    BY <1>1, <2>2, <2>3, <2>4 DEF UploadInv, Checked
<1> QED
  BY <1>3, <1>4

LEMMA StepUpload ==
  ASSUME HasDigests, InstallInv, NEW i \in Installers, NEW j \in Installers,
         UploadInv(j), Step(i) \/ Kill(i)
  PROVE  UploadInv(j)'
<1> USE DEF InstallInv
<1>1. CASE Fetch(i)
  <2>1. asset' = asset /\ Goes(i, "look") /\ release' = [release EXCEPT ![i] = edition]
    BY <1>1 DEF Fetch
  <2> QED
    BY <2>1, GoesIs DEF TypeOK, UploadInv, Checked, Steps
<1>2. CASE Look(i)
  <2>1. UNCHANGED <<asset, release>> /\ pc[i] = "look"
    BY <1>2 DEF Look, own
  <2>2. PICK l \in {"done", "download"} : Goes(i, l)
    BY <1>2 DEF Look
  <2>3. pc'[i] = l /\ \A k \in Installers \ {i} : pc'[k] = pc[k]
    BY <2>2, GoesIs DEF Steps
  <2>4. asset[i] = NoAssets
    BY <2>1 DEF InstallerInv
  <2>5. \A a \in Assets : NoAssets[a] = None
    BY DEF NoAssets, Assets
  <2> QED
    BY <2>1, <2>3, <2>4, <2>5 DEF UploadInv, Checked
<1>3. CASE Download(i)
  BY <1>3, DownloadUpload
<1>4. CASE Verify(i)
  <2>1. UNCHANGED <<asset, release>> /\ pc[i] = "download"
    BY <1>4 DEF Verify, own
  <2>2. CASE Fails(i)
    BY <2>1, <2>2, FailIs DEF UploadInv, Checked
  <2>3. CASE Verified(i) /\ Goes(i, "build")
    <3>1. pc'[i] = "build" /\ \A k \in Installers \ {i} : pc'[k] = pc[k]
      BY <2>3, GoesIs DEF Steps
    <3> QED
      BY <2>1, <2>3, <3>1 DEF UploadInv, Checked, Verified, Assets, None
  <2> QED
    BY <1>4, <2>2, <2>3 DEF Verify
<1>5. CASE Build(i) \/ FindProvider(i) \/ PublishProvider(i)
  <2>1. UNCHANGED <<asset, release>> /\ pc[i] \in Checked
    BY <1>5 DEF Build, FindProvider, PublishProvider, own, Checked
  <2>2. CASE Fails(i)
    BY <2>1, <2>2, FailIs DEF UploadInv, Checked
  <2>3. CASE \E l \in {"provider", "copied", "publish"} : Goes(i, l)
    <3>1. PICK l \in {"provider", "copied", "publish"} : Goes(i, l)
      BY <2>3
    <3>2. pc'[i] = l /\ \A k \in Installers \ {i} : pc'[k] = pc[k]
      BY <3>1, GoesIs DEF Steps
    <3> QED
      BY <2>1, <3>2 DEF UploadInv, Checked
  <2> QED
    BY <1>5, <2>2, <2>3 DEF Build, FindProvider, PublishProvider
<1>6. CASE Publish(i) \/ Cleanup(i) \/ Kill(i)
  <2>1. UNCHANGED <<asset, release>>
    BY <1>6 DEF Publish, Cleanup, Kill, own
  <2>2. PICK l \in {"cleanup", "done", "dead"} : Goes(i, l)
    BY <1>6 DEF Publish, Cleanup, Kill
  <2>3. pc'[i] = l /\ \A k \in Installers \ {i} : pc'[k] = pc[k]
    BY <2>2, GoesIs DEF Steps
  <2> QED
    BY <2>1, <2>3 DEF UploadInv, Checked
<1> QED
  BY <1>1, <1>2, <1>3, <1>4, <1>5, <1>6 DEF Step

LEMMA NextUpload ==
  ASSUME HasDigests, InstallInv, \A i \in Installers : UploadInv(i), OneUpload, [Next]_vars
  PROVE  (\A i \in Installers : UploadInv(i))' /\ OneUpload'
<1>1. CASE Upload \/ UNCHANGED vars
  BY <1>1 DEF Upload, own, vars, UploadInv, OneUpload, Exists
<1>2. ASSUME NEW i \in Installers, Step(i) \/ Kill(i)
      PROVE  (\A j \in Installers : UploadInv(j))' /\ OneUpload'
  <2>1. \A j \in Installers : UploadInv(j)'
    BY <1>2, StepUpload
  <2>2. CASE Publish(i) /\ ~Exists(version[i])
    <3>1. dest' = [dest EXCEPT ![version[i]] = [wheel |-> asset[i].wheel, prov |-> asset[i].prov]]
          /\ pc[i] = "publish"
      BY <2>2 DEF Publish
    <3>2. asset[i].wheel = asset[i].prov
      BY <3>1 DEF UploadInv, Checked
    <3> QED
      BY <2>1, <3>1, <3>2 DEF InstallInv, TypeOK, OneUpload, Exists
  <2>3. CASE ~(Publish(i) /\ ~Exists(version[i]))
    <3>1. dest' = dest
      BY <1>2, <2>3 DEF Step, Fetch, Look, Download, Verify, Build, FindProvider,
                        PublishProvider, Publish, Cleanup, Kill, machine
    <3> QED
      BY <2>1, <3>1 DEF OneUpload, Exists
  <2> QED
    BY <2>2, <2>3
<1> QED
  BY <1>1, <1>2 DEF Next

-----------------------------------------------------------------------------
\* In every behaviour each variable keeps its type: a published installation
\* names uploaded or damaged bytes, an installer is at one of its steps.
THEOREM TypeCorrect == Spec => []TypeOK
BY Installs, PTL DEF InstallInv

\* What can be found is whole, whoever installs at once, whatever is uploaded
\* again, damaged or killed: wheel and Provider were verified, and the machine's
\* store holds the Provider the receipt names (_publish_shared_provider,
\* install_stable_release).
THEOREM InstalledWhole == Spec => []PublishedWhole
BY Installs, PTL DEF InstallInv

\* No step replaces a published installation or the Provider in the store, which
\* sessions of other commands are running.
THEOREM InstalledStays == Spec => NeverReplaced
<1>1. InstallInv /\ [Next]_vars => [Keeps]_vars
  <2> SUFFICES ASSUME InstallInv, [Next]_vars PROVE Keeps
    OBVIOUS
  <2>1. CASE UNCHANGED <<dest, store>>
    BY <2>1 DEF Keeps
  <2>2. ASSUME NEW i \in Installers, Publish(i) PROVE Keeps
    BY <2>2 DEF Publish, Keeps, Exists, InstallInv, TypeOK
  <2>3. ASSUME NEW i \in Installers, PublishProvider(i) PROVE Keeps
    BY <2>3 DEF PublishProvider, Keeps
  <2> QED
    BY <2>1, <2>2, <2>3 DEF Next, Step, vars, Upload, Fetch, Look, Download, Verify, Build,
                            FindProvider, Cleanup, Kill, machine
<1> QED
  BY Installs, <1>1, PTL DEF Spec, NeverReplaced

\* Of several commands that install a version at most one reports it as new, and
\* each that reports it describes the installation that is there
\* (_installation_from_receipt).
THEOREM ReportsTrue == Spec => []OneWinner
<1>1. InstallInv => OneWinner
  <2> SUFFICES ASSUME InstallInv PROVE OneWinner
    OBVIOUS
  <2>1. ASSUME NEW i \in Installers, result[i].is = "installed"
        PROVE  [wheel |-> result[i].wheel, prov |-> result[i].prov] = dest[version[i]]
    <3>1. InstallerInv(i) /\ dest[version[i]] \in [wheel : Content, prov : Content]
      BY DEF InstallInv, TypeOK
    <3> QED
      BY <2>1, <3>1 DEF InstallerInv, Describes
  <2> QED
    BY <2>1 DEF OneWinner, InstallInv, NewOnce
<1> QED
  BY Installs, <1>1, PTL

\* An installer that ended, well or not, leaves no stage directory behind.
THEOREM NothingLeft == Spec => []NoResidue
<1>1. InstallInv => NoResidue
  BY DEF InstallInv, InstallerInv, NoResidue
<1> QED
  BY Installs, <1>1, PTL

\* Where the API names a digest for each asset, wheel and Provider of an
\* installation belong to one upload of the release (download_asset).
THEOREM OneUploadEach ==
  ASSUME HasDigests
  PROVE  Spec => []OneUpload
<1> DEFINE Inv == (\A i \in Installers : UploadInv(i)) /\ OneUpload
<1>1. Init => Inv
  BY DEF Init, UploadInv, Checked, OneUpload, Exists
<1>2. InstallInv /\ Inv /\ [Next]_vars => Inv'
  BY NextUpload, HasDigests
<1>3. Inv => OneUpload
  OBVIOUS
<1> HIDE DEF Inv
<1> QED
  BY Installs, <1>1, <1>2, <1>3, PTL DEF Spec

-----------------------------------------------------------------------------
(* ProviderMigration: an instance of it over variables of its own, but for *)
(* the step and the kills, which are nobody else's here.                   *)
CONSTANTS InterruptAt, SharedIndexed, MaxEdits, MaxInterrupts, MaxRuns
VARIABLES source, db, legacyDb, python, cfg, life, man, regs, ist, before, did, backup,
          edits, interrupts, runs
Migration == INSTANCE ProviderMigration

\* The bounds of the exploration are numbers.
MigrationBounds ==
  MaxEdits \in Nat /\ MaxInterrupts \in Nat /\ MaxKills \in Nat /\ MaxRuns \in Nat

\* The interrupts the theorems consider: none of commit, which removes the backups that
\* rollback needs, and none of rollback itself.
BeforeCommit ==
  {"snapshot", "index", "verify", "pubRegs", "pubMan", "pubLife", "pubCfg", "record"}

Ids == {"legacy", "shared"}
Numbers == 0..(MaxEdits + 1)
Dones == [man : BOOLEAN, regs : BOOLEAN, cfg : BOOLEAN, life : BOOLEAN]
Backups == [man : Migration!Identity, regs : Migration!Identity, cfg : Migration!Identity]
Databases == [is : {"missing", "partial", "healthy"}, source : Numbers]

\* The steps from each on.
FromPubMan == {"pubMan", "pubLife", "pubCfg", "record", "commitRegs", "commitMan"}
FromPubLife == FromPubMan \ {"pubMan"}
FromPubCfg == FromPubLife \ {"pubLife"}
Recording == {"record", "commitRegs", "commitMan"}
Publishing == FromPubMan \cup {"pubRegs"}

SourceTyped ==
  /\ source \in Numbers /\ edits \in 0..MaxEdits /\ source = edits + 1
  /\ db \in Databases /\ before \in Numbers
IdentitiesTyped ==
  /\ cfg \in Ids /\ man \in Ids /\ life \in Migration!Identity /\ regs \in Migration!Identity
  /\ python \in BOOLEAN /\ (python <=> regs # "none")
  /\ ist.id \in Ids
UndoTyped == did \in Dones /\ backup \in Backups
             /\ pc \in {"idle"} \cup Migration!Working \cup Migration!Undoing

\* What rollback would put back was there.
Undoable ==
  /\ did.man => backup.man # "none"
  /\ did.regs => backup.regs # "none"
  /\ did.cfg => backup.cfg # "none"

\* How far the publication is, whatever was left by earlier attempts.
ProgressInv ==
  /\ pc = "pubRegs" \/ did.regs => python
  /\ pc \in Publishing => db.is = "healthy"
  /\ pc \in FromPubMan => regs # "legacy"
  /\ pc \in FromPubLife => man = "shared"
  /\ pc \in FromPubCfg => life # "legacy"
  /\ pc \in Recording => cfg = "shared"
  /\ pc \in {"commitRegs", "commitMan"} => ist.id = "shared"
  /\ pc \in {"index", "verify"} \cup (Publishing \ Recording) => backup.cfg # "none"
  /\ pc \notin {"idle", "commitMan"} => Undoable
  /\ pc = "idle" => Undoable \/ (cfg = "shared" /\ life # "legacy" /\ db.is = "healthy")

MigrationTyped == SourceTyped /\ IdentitiesTyped /\ UndoTyped /\ ProgressInv

\* Without interrupts nothing is undone, as nothing was done when the comparison of
\* the sources fails.
NamesInv ==
  /\ Migration!ConfigNamesPublished
  /\ cfg = "shared" => pc \in Recording \cup {"idle"}
  /\ pc \in {"index", "verify"} \cup Migration!Undoing =>
       ~did.man /\ ~did.regs /\ ~did.cfg /\ ~did.life

\* Rollback would bring the legacy files back; what it need not bring back is legacy.
Restorable ==
  /\ IF did.man THEN backup.man = "legacy" ELSE man = "legacy"
  /\ IF did.regs THEN backup.regs = "legacy" ELSE regs # "shared"
  /\ IF did.cfg THEN backup.cfg = "legacy" ELSE cfg = "legacy"
  /\ ~did.life => life # "shared"
  /\ ist.id = "legacy"
IdentityInv ==
  /\ pc \notin {"idle", "commitRegs", "commitMan"} => Restorable
  /\ pc = "idle" => (Migration!Legacy /\ Restorable) \/ (Migration!Shared /\ db.is = "healthy")
  /\ pc = "snapshot" => Migration!Legacy
  /\ pc \in {"index", "verify", "pubRegs", "pubMan", "pubLife", "pubCfg"} =>
       ~did.cfg /\ backup.cfg = "legacy"
  /\ pc \in {"index", "verify", "pubRegs", "pubMan", "pubLife"} => ~did.life
  /\ pc \in {"index", "verify", "pubRegs", "pubMan"} => ~did.man
  /\ pc \in {"index", "verify", "pubRegs"} => ~did.regs
  /\ pc \in {"undoRegs", "undoCfg", "undoLife"} => man = "legacy"
  /\ pc \in {"undoCfg", "undoLife"} => regs # "shared"
  /\ pc = "undoLife" => cfg = "legacy"

\* Of the only attempt, the database is what is recorded of it.
FreshInv ==
  /\ runs \in {0, 1}
  /\ runs = 0 => pc = "idle"
  /\ runs = 0 => db.is = "missing"
  /\ pc = "snapshot" => Migration!Plan = "index"
  /\ runs = 0 \/ pc \in {"snapshot", "index", "verify"} => cfg = "legacy" /\ ist.id = "legacy"
  /\ pc = "index" => before <= source
  /\ pc = "verify" => before <= db.source /\ db.source <= source
  /\ pc \in Publishing => db.source = before
  /\ ist.id = "shared" => ist.source = db.source

\* The source and what is recorded of it stay numbers, whatever the step.
LEMMA SourceKept ==
  ASSUME MigrationBounds, SourceTyped, [Migration!Next]_Migration!vars
  PROVE  SourceTyped'
<1>1. CASE Migration!Edit
  <2>1. edits' \in 0..MaxEdits /\ source' \in Numbers /\ source' = edits' + 1
    BY <1>1 DEF Migration!Edit, SourceTyped, Numbers, MigrationBounds
  <2>. QED
    BY <1>1, <2>1 DEF Migration!Edit, SourceTyped
<1>2. CASE ~Migration!Edit
  <2>1. UNCHANGED <<source, edits>>
    BY <1>2 DEF Migration!Next, Migration!Steps, Migration!Start, Migration!Snapshot,
       Migration!Index, Migration!Verify, Migration!PublishRegs, Migration!PublishMan,
       Migration!PublishLife, Migration!PublishCfg, Migration!Record, Migration!CommitRegs,
       Migration!CommitMan, Migration!UndoMan, Migration!UndoRegs, Migration!UndoCfg,
       Migration!UndoLife, Migration!Interrupt, Migration!Kill, Migration!vars
  <2>2. before' \in {before, source}
    BY <1>2 DEF Migration!Next, Migration!Steps, Migration!Start, Migration!Snapshot,
       Migration!Index, Migration!Verify, Migration!PublishRegs, Migration!PublishMan,
       Migration!PublishLife, Migration!PublishCfg, Migration!Record, Migration!CommitRegs,
       Migration!CommitMan, Migration!UndoMan, Migration!UndoRegs, Migration!UndoCfg,
       Migration!UndoLife, Migration!Interrupt, Migration!Kill, Migration!vars
  <2>3. db' \in {db, [is |-> "healthy", source |-> source], [is |-> "partial", source |-> 0]}
    BY <1>2 DEF Migration!Next, Migration!Steps, Migration!Start, Migration!Snapshot,
       Migration!Index, Migration!Verify, Migration!PublishRegs, Migration!PublishMan,
       Migration!PublishLife, Migration!PublishCfg, Migration!Record, Migration!CommitRegs,
       Migration!CommitMan, Migration!UndoMan, Migration!UndoRegs, Migration!UndoCfg,
       Migration!UndoLife, Migration!Interrupt, Migration!Kill, Migration!vars
  <2>4. /\ [is |-> "healthy", source |-> source] \in Databases
        /\ [is |-> "partial", source |-> 0] \in Databases
    BY DEF SourceTyped, Databases, Numbers, MigrationBounds
  <2>. QED
    BY <2>1, <2>2, <2>3, <2>4 DEF SourceTyped
<1>. QED
  BY <1>1, <1>2

\* What publication and rollback copy has a type.
LEMMA Known ==
  ASSUME MigrationTyped
  PROVE  /\ cfg \in Ids /\ man \in Ids /\ life \in Migration!Identity
         /\ regs \in Migration!Identity /\ python \in BOOLEAN
         /\ ist.id \in Ids /\ (python <=> regs # "none")
         /\ did.man \in BOOLEAN /\ did.regs \in BOOLEAN /\ did.cfg \in BOOLEAN
         /\ did.life \in BOOLEAN
         /\ backup.man \in Migration!Identity /\ backup.regs \in Migration!Identity
         /\ backup.cfg \in Migration!Identity
         /\ did \in Dones /\ backup \in Backups
BY DEF MigrationTyped, IdentitiesTyped, UndoTyped, Dones, Backups

\* A snapshot is taken of a config that is there, and forgets the earlier attempt.
LEMMA SnapshotDoes ==
  ASSUME MigrationTyped, Migration!Snapshot
  PROVE  /\ pc = "snapshot" /\ pc' \in {"index", "verify"}
         /\ did' = Migration!Nothing /\ did' \in Dones
         /\ ~did'.man /\ ~did'.regs /\ ~did'.cfg /\ ~did'.life
         /\ backup' \in Backups /\ backup'.cfg = cfg
         /\ before' = source
         /\ UNCHANGED <<source, db, python, cfg, life, man, regs, ist, runs>>
<1>1. did' = Migration!Nothing /\ backup' = [Migration!NoBackup EXCEPT !.cfg = cfg]
  BY DEF Migration!Snapshot
<1>2. did' \in Dones /\ ~did'.man /\ ~did'.regs /\ ~did'.cfg /\ ~did'.life
  BY <1>1 DEF Migration!Nothing, Dones
<1>3. backup' \in Backups /\ backup'.cfg = cfg
  BY <1>1, Known DEF Migration!NoBackup, Backups, Migration!Identity, Ids
<1>. QED
  BY <1>1, <1>2, <1>3 DEF Migration!Snapshot, Migration!fixed, Migration!files

\* The sidecar of a project that has one is published, its backup kept.
LEMMA PublishRegsDoes ==
  ASSUME MigrationTyped, Migration!PublishRegs
  PROVE  /\ pc = "pubRegs" /\ pc' = "pubMan" /\ regs' = "shared"
         /\ did' \in Dones /\ backup' \in Backups
         /\ did'.regs /\ did'.man = did.man /\ did'.cfg = did.cfg /\ did'.life = did.life
         /\ backup'.regs = regs /\ backup'.man = backup.man /\ backup'.cfg = backup.cfg
         /\ UNCHANGED <<source, db, before, python, cfg, life, man, ist, runs>>
BY Known DEF Migration!PublishRegs, Dones, Backups, Migration!fixed

\* The manifest is published, its backup kept.
LEMMA PublishManDoes ==
  ASSUME MigrationTyped, Migration!PublishMan
  PROVE  /\ pc = "pubMan" /\ pc' = "pubLife" /\ man' = "shared"
         /\ did' \in Dones /\ backup' \in Backups
         /\ did'.man /\ did'.regs = did.regs
         /\ did'.cfg = did.cfg /\ did'.life = did.life
         /\ backup'.man = man /\ backup'.regs = backup.regs /\ backup'.cfg = backup.cfg
         /\ UNCHANGED <<source, db, before, python, cfg, life, regs, ist, runs>>
<1>1. man \in Migration!Identity
  BY Known DEF Ids, Migration!Identity
<1>. QED
  BY <1>1, Known DEF Migration!PublishMan, Dones, Backups, Migration!fixed

\* The lifecycle state is migrated when it is the legacy one.
LEMMA PublishLifeDoes ==
  ASSUME MigrationTyped, Migration!PublishLife
  PROVE  /\ pc = "pubLife" /\ pc' = "pubCfg"
         /\ life' = (IF life = "legacy" THEN "shared" ELSE life)
         /\ did' \in Dones
         /\ (did'.life <=> life = "legacy") /\ did'.man = did.man /\ did'.regs = did.regs
         /\ did'.cfg = did.cfg
         /\ UNCHANGED <<source, db, before, python, cfg, man, regs, ist, backup, runs>>
BY Known DEF Migration!PublishLife, Dones, Migration!fixed

\* The config is published, its backup kept.
LEMMA PublishCfgDoes ==
  ASSUME MigrationTyped, Migration!PublishCfg
  PROVE  /\ pc = "pubCfg" /\ pc' = "record" /\ cfg' = "shared"
         /\ did' \in Dones
         /\ did'.cfg /\ did'.man = did.man /\ did'.regs = did.regs /\ did'.life = did.life
         /\ UNCHANGED <<source, db, before, python, life, man, regs, ist, backup, runs>>
BY Known DEF Migration!PublishCfg, Dones, Migration!fixed

\* Committing removes backups, and changes nothing that is used.
LEMMA CommitDoes ==
  ASSUME MigrationTyped, Migration!CommitRegs \/ Migration!CommitMan
  PROVE  /\ pc \in {"commitRegs", "commitMan"}
         /\ pc' = (IF pc = "commitRegs" THEN "commitMan" ELSE "idle")
         /\ backup' \in Backups
         /\ UNCHANGED <<source, db, before, python, cfg, life, man, regs, ist, did, runs>>
<1>1. backup' \in Backups
  BY Known DEF Migration!CommitRegs, Migration!CommitMan, Backups, Migration!Identity
<1>. QED
  BY <1>1 DEF Migration!CommitRegs, Migration!CommitMan, Migration!fixed, Migration!files

\* Every step leaves everything its type, and publication as far as it was.
LEMMA MigrationTypesKept ==
  ASSUME MigrationBounds, InterruptAt \subseteq BeforeCommit, MigrationTyped,
         [Migration!Next]_Migration!vars
  PROVE  MigrationTyped'
<1>a. SourceTyped'
  BY SourceKept DEF MigrationTyped
<1>b. ASSUME UNCHANGED <<python, cfg, life, man, regs, ist>>
      PROVE  IdentitiesTyped'
  BY <1>b DEF MigrationTyped, IdentitiesTyped
<1>c. ASSUME UNCHANGED <<did, backup>>, 
             pc' \in {"idle"} \cup Migration!Working \cup Migration!Undoing
      PROVE  UndoTyped' /\ (Undoable => Undoable')
  BY <1>c DEF MigrationTyped, UndoTyped, Undoable
<1>1. CASE Migration!Start
  <2>1. /\ pc = "idle" /\ pc' = "snapshot"
        /\ UNCHANGED <<db, python, cfg, life, man, regs, ist, did, backup>>
    BY <1>1 DEF Migration!Start, Migration!fixed, Migration!files
  <2>2. Undoable
    <3>1. CASE cfg = "shared" /\ life # "legacy" /\ db.is = "healthy"
      <4>1. Migration!LifecycleAction(cfg) = "none"
        BY <3>1, Known DEF Migration!LifecycleAction, Migration!Identity
      <4>. QED
        BY <1>1, <3>1, <4>1 DEF Migration!Start, Migration!Plan
    <3>. QED
      BY <2>1, <3>1 DEF MigrationTyped, ProgressInv
  <2>. QED
    BY <1>a, <1>b, <1>c, <2>1, <2>2 DEF MigrationTyped, ProgressInv, Migration!Working,
       Publishing, FromPubMan, FromPubLife, FromPubCfg, Recording
<1>2. CASE Migration!Snapshot
  <2>1. cfg # "none"
    BY Known DEF Ids
  <2>2. IdentitiesTyped' /\ UndoTyped'
    BY <1>2, <1>b, SnapshotDoes DEF UndoTyped, Migration!Working
  <2>3. Undoable'
    BY <1>2, SnapshotDoes DEF Undoable
  <2>. QED
    BY <1>2, <1>a, <2>1, <2>2, <2>3, SnapshotDoes DEF MigrationTyped, ProgressInv,
       Publishing, FromPubMan, FromPubLife, FromPubCfg, Recording
<1>3. CASE Migration!Index
  <2>1. /\ pc = "index" /\ pc' = "verify"
        /\ UNCHANGED <<python, cfg, life, man, regs, ist, did, backup>>
    BY <1>3 DEF Migration!Index, Migration!fixed, Migration!files
  <2>. QED
    BY <1>a, <1>b, <1>c, <2>1 DEF MigrationTyped, ProgressInv, Migration!Working,
       Publishing, FromPubMan, FromPubLife, FromPubCfg, Recording
<1>4. CASE Migration!Verify
  <2>1. /\ pc = "verify" /\ UNCHANGED <<db, python, cfg, life, man, regs, ist, did, backup>>
        /\ \/ pc' = "undoMan"
           \/ db.is = "healthy" /\ pc' = (IF python THEN "pubRegs" ELSE "pubMan")
    BY <1>4 DEF Migration!Verify, Migration!fixed, Migration!files
  <2>2. ~python => regs # "legacy"
    BY Known
  <2>3. UndoTyped' /\ (Undoable => Undoable')
    BY <1>c, <2>1 DEF Migration!Working, Migration!Undoing
  <2>. QED
    BY <1>a, <1>b, <2>1, <2>2, <2>3 DEF MigrationTyped, ProgressInv, Publishing,
       FromPubMan, FromPubLife, FromPubCfg, Recording
<1>5. CASE Migration!PublishRegs
  <2>1. python /\ Undoable /\ backup.cfg # "none" /\ db.is = "healthy"
    BY <1>5, PublishRegsDoes DEF MigrationTyped, ProgressInv, Publishing, FromPubMan,
       Recording
  <2>2. IdentitiesTyped' /\ UndoTyped'
    BY <1>5, <2>1, Known, PublishRegsDoes DEF IdentitiesTyped, UndoTyped,
       Migration!Working, Ids, Migration!Identity
  <2>3. Undoable'
    BY <1>5, <2>1, Known, PublishRegsDoes DEF Undoable
  <2>. QED
    BY <1>5, <1>a, <2>1, <2>2, <2>3, PublishRegsDoes DEF MigrationTyped, ProgressInv,
       Publishing, FromPubMan, FromPubLife, FromPubCfg, Recording
<1>6. CASE Migration!PublishMan
  <2>1. Undoable /\ backup.cfg # "none" /\ db.is = "healthy" /\ regs # "legacy"
    BY <1>6, PublishManDoes DEF MigrationTyped, ProgressInv, Publishing, FromPubMan,
       Recording
  <2>2. IdentitiesTyped' /\ UndoTyped'
    BY <1>6, Known, PublishManDoes DEF IdentitiesTyped, UndoTyped, Migration!Working, Ids
  <2>3. Undoable'
    BY <1>6, <2>1, Known, PublishManDoes DEF Undoable, Ids
  <2>. QED
    BY <1>6, <1>a, <2>1, <2>2, <2>3, PublishManDoes DEF MigrationTyped, ProgressInv,
       Publishing, FromPubMan, FromPubLife, FromPubCfg, Recording
<1>7. CASE Migration!PublishLife
  <2>1. Undoable /\ backup.cfg # "none" /\ db.is = "healthy" /\ regs # "legacy" /\ man = "shared"
    BY <1>7, PublishLifeDoes DEF MigrationTyped, ProgressInv, Publishing, FromPubMan,
       FromPubLife, Recording
  <2>2. IdentitiesTyped' /\ UndoTyped'
    BY <1>7, Known, PublishLifeDoes DEF IdentitiesTyped, UndoTyped, Migration!Working,
       Migration!Identity
  <2>3. Undoable'
    BY <1>7, <2>1, PublishLifeDoes DEF Undoable
  <2>. QED
    BY <1>7, <1>a, <2>1, <2>2, <2>3, PublishLifeDoes DEF MigrationTyped, ProgressInv,
       Publishing, FromPubMan, FromPubLife, FromPubCfg, Recording
<1>8. CASE Migration!PublishCfg
  <2>1. /\ Undoable /\ backup.cfg # "none" /\ db.is = "healthy" /\ regs # "legacy"
        /\ man = "shared" /\ life # "legacy"
    BY <1>8, PublishCfgDoes DEF MigrationTyped, ProgressInv, Publishing, FromPubMan,
       FromPubLife, FromPubCfg, Recording
  <2>2. IdentitiesTyped' /\ UndoTyped'
    BY <1>8, Known, PublishCfgDoes DEF IdentitiesTyped, UndoTyped, Migration!Working, Ids
  <2>3. Undoable'
    BY <1>8, <2>1, PublishCfgDoes DEF Undoable
  <2>. QED
    BY <1>8, <1>a, <2>1, <2>2, <2>3, PublishCfgDoes DEF MigrationTyped, ProgressInv,
       Publishing, FromPubMan, FromPubLife, FromPubCfg, Recording
<1>9. CASE Migration!Record
  <2>1. /\ pc = "record" /\ pc' \in {"commitRegs", "commitMan"} /\ ist'.id = "shared"
        /\ UNCHANGED <<db, python, cfg, life, man, regs, did, backup>>
    BY <1>9 DEF Migration!Record, Migration!fixed
  <2>2. IdentitiesTyped'
    BY <2>1 DEF MigrationTyped, IdentitiesTyped, Ids
  <2>3. UndoTyped' /\ (Undoable => Undoable')
    BY <1>c, <2>1 DEF Migration!Working
  <2>. QED
    BY <1>a, <2>1, <2>2, <2>3 DEF MigrationTyped, ProgressInv, Publishing, FromPubMan,
       FromPubLife, FromPubCfg, Recording
<1>10. CASE Migration!CommitRegs \/ Migration!CommitMan
  <2>1. /\ db.is = "healthy" /\ regs # "legacy" /\ man = "shared" /\ life # "legacy"
        /\ cfg = "shared" /\ ist.id = "shared"
    BY <1>10, CommitDoes DEF MigrationTyped, ProgressInv, Publishing, FromPubMan,
       FromPubLife, FromPubCfg, Recording
  <2>2. IdentitiesTyped' /\ UndoTyped'
    BY <1>10, <1>b, CommitDoes DEF MigrationTyped, UndoTyped, Migration!Working
  <2>. QED
    BY <1>10, <1>a, <2>1, <2>2, CommitDoes DEF MigrationTyped, ProgressInv, Publishing,
       FromPubMan, FromPubLife, FromPubCfg, Recording
<1>11. CASE Migration!UndoMan \/ Migration!UndoRegs \/ Migration!UndoCfg \/ Migration!UndoLife
  <2>1. /\ pc \in Migration!Undoing /\ pc' \in Migration!Undoing \cup {"idle"}
        /\ UNCHANGED <<db, python, ist, did, backup>>
    BY <1>11 DEF Migration!UndoMan, Migration!UndoRegs, Migration!UndoCfg,
       Migration!UndoLife, Migration!Undoing, Migration!fixed
  <2>2. Undoable
    BY <2>1 DEF MigrationTyped, ProgressInv, Migration!Undoing
  <2>3. IdentitiesTyped'
    <3>1. man' \in Ids /\ cfg' \in Ids
      <4>1. man' \in {man} \cup (IF did.man THEN {backup.man} ELSE {})
        BY <1>11 DEF Migration!UndoMan, Migration!UndoRegs, Migration!UndoCfg,
           Migration!UndoLife
      <4>2. cfg' \in {cfg} \cup (IF did.cfg THEN {backup.cfg} ELSE {})
        BY <1>11 DEF Migration!UndoMan, Migration!UndoRegs, Migration!UndoCfg,
           Migration!UndoLife
      <4>. QED
        BY <2>2, <4>1, <4>2, Known DEF Undoable, Ids, Migration!Identity
    <3>2. life' \in {life, "legacy"}
      BY <1>11 DEF Migration!UndoMan, Migration!UndoRegs, Migration!UndoCfg,
         Migration!UndoLife
    <3>3. regs' \in Migration!Identity /\ (python <=> regs' # "none")
      <4>1. regs' \in {regs} \cup (IF did.regs THEN {backup.regs} ELSE {})
        BY <1>11 DEF Migration!UndoMan, Migration!UndoRegs, Migration!UndoCfg,
           Migration!UndoLife
      <4>2. did.regs => python
        BY DEF MigrationTyped, ProgressInv
      <4>. QED
        BY <2>2, <4>1, <4>2, Known DEF Undoable
    <3>. QED
      BY <2>1, <3>1, <3>2, <3>3, Known DEF IdentitiesTyped, Migration!Identity
  <2>4. UndoTyped' /\ Undoable'
    BY <1>c, <2>1, <2>2
  <2>. QED
    BY <1>a, <2>1, <2>3, <2>4 DEF MigrationTyped, ProgressInv, Migration!Undoing,
       Publishing, FromPubMan, FromPubLife, FromPubCfg, Recording
<1>12. CASE Migration!Interrupt
  <2>1. /\ pc \in BeforeCommit /\ pc' = "undoMan"
        /\ UNCHANGED <<python, cfg, life, man, regs, ist, did, backup>>
    BY <1>12 DEF Migration!Interrupt, Migration!fixed, Migration!files
  <2>2. Undoable
    BY <2>1 DEF MigrationTyped, ProgressInv, BeforeCommit
  <2>3. UndoTyped' /\ Undoable'
    BY <1>c, <2>1, <2>2 DEF Migration!Undoing
  <2>. QED
    BY <1>a, <1>b, <2>1, <2>3 DEF MigrationTyped, ProgressInv, Publishing, FromPubMan,
       FromPubLife, FromPubCfg, Recording
<1>13. CASE Migration!Kill
  <2>1. /\ pc # "idle" /\ pc' = "idle"
        /\ UNCHANGED <<python, cfg, life, man, regs, ist, did, backup>>
        /\ pc = "index" \/ db' = db
    BY <1>13 DEF Migration!Kill, Migration!fixed, Migration!files
  <2>2. UndoTyped' /\ (Undoable => Undoable')
    BY <1>c, <2>1
  <2>3. pc = "commitMan" => cfg = "shared" /\ life # "legacy" /\ db.is = "healthy"
    BY DEF MigrationTyped, ProgressInv, Publishing, FromPubMan, FromPubLife, FromPubCfg,
       Recording
  <2>4. pc # "commitMan" => Undoable
    BY <2>1 DEF MigrationTyped, ProgressInv
  <2>. QED
    BY <1>a, <1>b, <2>1, <2>2, <2>3, <2>4 DEF MigrationTyped, ProgressInv, Publishing,
       FromPubMan, FromPubLife, FromPubCfg, Recording
<1>14. CASE Migration!Edit \/ UNCHANGED Migration!vars
  <2>1. UNCHANGED <<pc, db, python, cfg, life, man, regs, ist, did, backup>>
    BY <1>14 DEF Migration!Edit, Migration!fixed, Migration!files, Migration!vars
  <2>2. UndoTyped' /\ (Undoable => Undoable')
    BY <2>1 DEF MigrationTyped, UndoTyped, Undoable
  <2>. QED
    BY <1>a, <1>b, <2>1, <2>2 DEF MigrationTyped, ProgressInv
<1>. QED
  BY <1>1, <1>2, <1>3, <1>4, <1>5, <1>6, <1>7, <1>8, <1>9, <1>10, <1>11, <1>12, <1>13,
     <1>14 DEF Migration!Next, Migration!Steps

\* A command that has nothing left to do does not start.
LEMMA NoStart ==
  ASSUME MigrationTyped, cfg = "shared", life # "legacy", db.is = "healthy"
  PROVE  ~Migration!Start
<1>1. Migration!LifecycleAction(cfg) = "none"
  BY Known DEF Migration!LifecycleAction, Migration!Identity
<1>. QED
  BY <1>1 DEF Migration!Start, Migration!Plan

\* Without interrupts, no step makes the config name what is not there.
LEMMA NamesKept ==
  ASSUME InterruptAt = {}, MigrationTyped, NamesInv, [Migration!Next]_Migration!vars
  PROVE  NamesInv'
<1>1. CASE Migration!Start
  <2>1. cfg = "legacy"
    BY <1>1, NoStart, Known DEF NamesInv, Migration!ConfigNamesPublished, Ids
  <2>2. cfg' = cfg /\ pc' = "snapshot"
    BY <1>1 DEF Migration!Start, Migration!files
  <2>. QED
    BY <2>1, <2>2 DEF NamesInv, Migration!ConfigNamesPublished, Migration!Undoing
<1>2. CASE Migration!Snapshot
  BY <1>2, SnapshotDoes DEF NamesInv, Migration!ConfigNamesPublished, Recording
<1>3. CASE Migration!Index \/ Migration!Verify
  <2>1. pc \in {"index", "verify"} /\ UNCHANGED <<cfg, did>>
        /\ pc' \in {"verify", "undoMan", "pubRegs", "pubMan"}
    BY <1>3 DEF Migration!Index, Migration!Verify, Migration!files
  <2>2. cfg # "shared"
    BY <2>1 DEF NamesInv, Recording
  <2>. QED
    BY <2>1, <2>2 DEF NamesInv, Migration!ConfigNamesPublished
<1>4. CASE Migration!PublishRegs \/ Migration!PublishMan \/ Migration!PublishLife
  <2>1. /\ pc \in {"pubRegs", "pubMan", "pubLife"} /\ pc' \in {"pubMan", "pubLife", "pubCfg"}
        /\ cfg' = cfg
    BY <1>4 DEF Migration!PublishRegs, Migration!PublishMan, Migration!PublishLife
  <2>2. cfg # "shared"
    BY <2>1 DEF NamesInv, Recording
  <2>. QED
    BY <2>1, <2>2 DEF NamesInv, Migration!ConfigNamesPublished, Migration!Undoing
<1>5. CASE Migration!PublishCfg
  <2>1. db.is = "healthy" /\ regs # "legacy" /\ man = "shared" /\ life # "legacy"
    BY <1>5, PublishCfgDoes DEF MigrationTyped, ProgressInv, Publishing, FromPubMan,
       FromPubLife, FromPubCfg
  <2>. QED
    BY <1>5, <2>1, PublishCfgDoes DEF NamesInv, Migration!ConfigNamesPublished,
       Migration!Undoing, Recording
<1>6. CASE Migration!Record
  <2>1. /\ pc = "record" /\ pc' \in {"commitRegs", "commitMan"}
        /\ UNCHANGED <<db, cfg, life, man, regs>>
    BY <1>6 DEF Migration!Record
  <2>. QED
    BY <2>1 DEF NamesInv, Migration!ConfigNamesPublished, Migration!Undoing, Recording
<1>7. CASE Migration!CommitRegs \/ Migration!CommitMan
  BY <1>7, CommitDoes DEF NamesInv, Migration!ConfigNamesPublished, Migration!Undoing,
     Recording
<1>8. CASE Migration!UndoMan \/ Migration!UndoRegs \/ Migration!UndoCfg \/ Migration!UndoLife
  <2>1. pc \in Migration!Undoing /\ pc' \in Migration!Undoing \cup {"idle"} /\ did' = did
    BY <1>8 DEF Migration!UndoMan, Migration!UndoRegs, Migration!UndoCfg,
       Migration!UndoLife, Migration!Undoing
  <2>2. ~did.man /\ ~did.regs /\ ~did.cfg /\ ~did.life /\ cfg # "shared"
    BY <2>1 DEF NamesInv, Migration!Undoing, Recording
  <2>3. cfg' = cfg
    BY <1>8, <2>2 DEF Migration!UndoMan, Migration!UndoRegs, Migration!UndoCfg,
       Migration!UndoLife
  <2>. QED
    BY <2>1, <2>2, <2>3 DEF NamesInv, Migration!ConfigNamesPublished
<1>9. ~Migration!Interrupt
  BY DEF Migration!Interrupt
<1>10. CASE Migration!Kill
  <2>1. pc' = "idle" /\ UNCHANGED <<cfg, life, man, regs>> /\ (pc = "index" \/ db' = db)
    BY <1>10 DEF Migration!Kill, Migration!files
  <2>2. pc = "index" => cfg # "shared"
    BY DEF NamesInv, Recording
  <2>. QED
    BY <2>1, <2>2 DEF NamesInv, Migration!ConfigNamesPublished, Migration!Undoing
<1>11. CASE Migration!Edit \/ UNCHANGED Migration!vars
  BY <1>11 DEF Migration!Edit, Migration!files, Migration!vars, NamesInv,
     Migration!ConfigNamesPublished
<1>. QED
  BY <1>1, <1>2, <1>3, <1>4, <1>5, <1>6, <1>7, <1>8, <1>9, <1>10, <1>11 DEF Migration!Next,
     Migration!Steps

\* Without kills, every step leaves what rollback needs to bring one identity back.
LEMMA IdentityKept ==
  ASSUME InterruptAt \subseteq BeforeCommit, MaxKills = 0, kills = 0, MigrationTyped,
         IdentityInv, [Migration!Next]_Migration!vars
  PROVE  IdentityInv' /\ kills' = 0
<1>a. kills' = 0
  BY DEF Migration!Next, Migration!Steps, Migration!Start, Migration!Snapshot,
     Migration!Index, Migration!Verify, Migration!PublishRegs, Migration!PublishMan,
     Migration!PublishLife, Migration!PublishCfg, Migration!Record, Migration!CommitRegs,
     Migration!CommitMan, Migration!UndoMan, Migration!UndoRegs, Migration!UndoCfg,
     Migration!UndoLife, Migration!Interrupt, Migration!Kill, Migration!Edit,
     Migration!counters, Migration!vars
<1>b. ASSUME UNCHANGED <<did, backup, cfg, life, man, regs, ist>>
      PROVE  (Restorable => Restorable') /\ (Migration!Legacy => Migration!Legacy')
             /\ (Migration!Shared => Migration!Shared')
  BY <1>b DEF Restorable, Migration!Legacy, Migration!Shared
<1>1. CASE Migration!Start
  <2>1. pc = "idle" /\ pc' = "snapshot" /\ UNCHANGED <<did, backup, cfg, life, man, regs, ist>>
    BY <1>1 DEF Migration!Start, Migration!files
  <2>2. Migration!Legacy /\ Restorable
    BY <1>1, <2>1, NoStart DEF IdentityInv, Migration!Shared
  <2>. QED
    BY <1>a, <1>b, <2>1, <2>2 DEF IdentityInv
<1>2. CASE Migration!Snapshot
  <2>1. Migration!Legacy
    BY <1>2, SnapshotDoes DEF IdentityInv
  <2>2. Restorable' /\ backup'.cfg = "legacy"
    BY <1>2, <2>1, SnapshotDoes DEF Migration!Legacy, Restorable
  <2>. QED
    BY <1>2, <1>a, <2>2, SnapshotDoes DEF IdentityInv
<1>3. CASE Migration!Index \/ Migration!Verify
  <2>1. pc \in {"index", "verify"} /\ UNCHANGED <<did, backup, cfg, life, man, regs, ist>>
        /\ pc' \in {"verify", "undoMan", "pubRegs", "pubMan"}
    BY <1>3 DEF Migration!Index, Migration!Verify, Migration!files
  <2>2. Restorable
    BY <2>1 DEF IdentityInv
  <2>. QED
    BY <1>a, <1>b, <2>1, <2>2 DEF IdentityInv
<1>4. CASE Migration!PublishRegs
  <2>1. regs = "legacy"
    BY <1>4, Known, PublishRegsDoes DEF MigrationTyped, ProgressInv, IdentityInv,
       Restorable, Migration!Identity
  <2>2. Restorable'
    BY <1>4, <2>1, PublishRegsDoes DEF IdentityInv, Restorable
  <2>. QED
    BY <1>4, <1>a, <2>2, PublishRegsDoes DEF IdentityInv
<1>5. CASE Migration!PublishMan
  <2>1. man = "legacy"
    BY <1>5, PublishManDoes DEF IdentityInv, Restorable
  <2>2. Restorable'
    BY <1>5, <2>1, PublishManDoes DEF IdentityInv, Restorable
  <2>. QED
    BY <1>5, <1>a, <2>2, PublishManDoes DEF IdentityInv
<1>6. CASE Migration!PublishLife
  <2>1. Restorable'
    BY <1>6, PublishLifeDoes DEF IdentityInv, Restorable
  <2>. QED
    BY <1>6, <1>a, <2>1, PublishLifeDoes DEF IdentityInv
<1>7. CASE Migration!PublishCfg
  <2>1. Restorable'
    BY <1>7, PublishCfgDoes DEF IdentityInv, Restorable
  <2>. QED
    BY <1>7, <1>a, <2>1, PublishCfgDoes DEF IdentityInv
<1>8. CASE Migration!Record
  <2>1. pc = "record" /\ pc' \in {"commitRegs", "commitMan"}
    BY <1>8 DEF Migration!Record
  <2>. QED
    BY <1>a, <2>1 DEF IdentityInv
<1>9. CASE Migration!CommitRegs \/ Migration!CommitMan
  <2>1. Migration!Shared /\ db.is = "healthy"
    BY <1>9, CommitDoes DEF MigrationTyped, ProgressInv, Publishing, FromPubMan,
       FromPubLife, FromPubCfg, Recording, Migration!Shared
  <2>2. Migration!Shared' /\ db'.is = "healthy" /\ pc' \in {"commitMan", "idle"}
    BY <1>9, <2>1, CommitDoes DEF Migration!Shared
  <2>. QED
    BY <1>a, <2>2 DEF IdentityInv
<1>10. CASE Migration!UndoMan
  <2>1. pc = "undoMan" /\ pc' = "undoRegs" /\ UNCHANGED <<did, backup, cfg, life, regs, ist>>
        /\ man' = IF did.man THEN backup.man ELSE man
    BY <1>10 DEF Migration!UndoMan
  <2>2. man' = "legacy" /\ Restorable'
    BY <2>1 DEF IdentityInv, Restorable
  <2>. QED
    BY <1>a, <2>1, <2>2 DEF IdentityInv
<1>11. CASE Migration!UndoRegs
  <2>1. pc = "undoRegs" /\ pc' = "undoCfg" /\ UNCHANGED <<did, backup, cfg, life, man, ist>>
        /\ regs' = IF did.regs THEN backup.regs ELSE regs
    BY <1>11 DEF Migration!UndoRegs
  <2>2. regs' # "shared" /\ Restorable'
    BY <2>1 DEF IdentityInv, Restorable
  <2>. QED
    BY <1>a, <2>1, <2>2 DEF IdentityInv
<1>12. CASE Migration!UndoCfg
  <2>1. pc = "undoCfg" /\ pc' = "undoLife" /\ UNCHANGED <<did, backup, life, man, regs, ist>>
        /\ cfg' = IF did.cfg THEN backup.cfg ELSE cfg
    BY <1>12 DEF Migration!UndoCfg
  <2>2. cfg' = "legacy" /\ Restorable'
    BY <2>1 DEF IdentityInv, Restorable
  <2>. QED
    BY <1>a, <2>1, <2>2 DEF IdentityInv
<1>13. CASE Migration!UndoLife
  <2>1. pc = "undoLife" /\ pc' = "idle" /\ UNCHANGED <<did, backup, cfg, man, regs, ist>>
        /\ life' = IF did.life THEN "legacy" ELSE life
    BY <1>13 DEF Migration!UndoLife
  <2>2. life' # "shared" /\ Restorable' /\ Migration!Legacy'
    BY <2>1 DEF IdentityInv, Restorable, Migration!Legacy
  <2>. QED
    BY <1>a, <2>1, <2>2 DEF IdentityInv
<1>14. CASE Migration!Interrupt
  <2>1. /\ pc \in BeforeCommit /\ pc' = "undoMan"
        /\ UNCHANGED <<did, backup, cfg, life, man, regs, ist>>
    BY <1>14 DEF Migration!Interrupt, Migration!files
  <2>2. Restorable
    BY <2>1 DEF IdentityInv, BeforeCommit
  <2>. QED
    BY <1>a, <1>b, <2>1, <2>2 DEF IdentityInv
<1>15. ~Migration!Kill
  BY DEF Migration!Kill
<1>16. CASE Migration!Edit \/ UNCHANGED Migration!vars
  <2>1. UNCHANGED <<pc, db, did, backup, cfg, life, man, regs, ist>>
    BY <1>16 DEF Migration!Edit, Migration!files, Migration!vars
  <2>. QED
    BY <1>a, <1>b, <2>1 DEF IdentityInv
<1>. QED
  BY <1>1, <1>2, <1>3, <1>4, <1>5, <1>6, <1>7, <1>8, <1>9, <1>10, <1>11, <1>12, <1>13,
     <1>14, <1>15, <1>16 DEF Migration!Next, Migration!Steps

\* In the one attempt, every step leaves the database what is recorded of it.
LEMMA FreshKept ==
  ASSUME MigrationBounds, MaxRuns = 1, InterruptAt \subseteq BeforeCommit, MigrationTyped,
         FreshInv, [Migration!Next]_Migration!vars
  PROVE  FreshInv'
<1>a. source \in Int /\ db.source \in Int /\ before \in Int
  BY DEF MigrationTyped, SourceTyped, Databases, Numbers, MigrationBounds
<1>1. CASE Migration!Start
  <2>1. /\ pc = "idle" /\ runs < MaxRuns /\ runs' = runs + 1 /\ pc' = "snapshot"
        /\ UNCHANGED <<source, db, legacyDb, cfg, life, ist, before>>
        /\ Migration!Plan \notin {"blocked", "already_active"}
    BY <1>1 DEF Migration!Start, Migration!fixed, Migration!files
  <2>2. runs = 0 /\ runs' = 1
    BY <2>1 DEF FreshInv
  <2>3. db.is = "missing" /\ cfg = "legacy" /\ ist.id = "legacy"
    BY <2>2 DEF FreshInv
  <2>4. Migration!Plan = "index"
    BY <2>1, <2>3 DEF Migration!Plan
  <2>5. Migration!Plan' = Migration!Plan
    BY <2>1 DEF Migration!Plan, Migration!LifecycleAction
  <2>. QED
    BY <2>1, <2>2, <2>3, <2>4, <2>5 DEF FreshInv, Publishing, FromPubMan
<1>b. ASSUME runs' = runs, pc # "idle"
      PROVE  runs' = 1
  BY <1>b DEF FreshInv
<1>2. CASE Migration!Snapshot
  <2>1. /\ pc = "snapshot" /\ pc' = "index" /\ before' = source
        /\ UNCHANGED <<source, db, cfg, ist, runs>>
    BY <1>2 DEF Migration!Snapshot, Migration!files, FreshInv
  <2>. QED
    BY <1>a, <1>b, <2>1 DEF FreshInv, Publishing, FromPubMan
<1>3. CASE Migration!Index
  <2>1. /\ pc = "index" /\ pc' = "verify" /\ db'.source = source
        /\ UNCHANGED <<source, before, cfg, ist, runs>>
    BY <1>3 DEF Migration!Index, Migration!files
  <2>. QED
    BY <1>a, <1>b, <2>1 DEF FreshInv, Publishing, FromPubMan
<1>4. CASE Migration!Verify
  <2>1. /\ pc = "verify" /\ UNCHANGED <<source, db, before, cfg, ist, runs>>
        /\ pc' \in {"undoMan", "pubRegs", "pubMan"}
        /\ pc' # "undoMan" => before = source
    BY <1>4 DEF Migration!Verify, Migration!files
  <2>. QED
    BY <1>a, <1>b, <2>1 DEF FreshInv, Publishing, FromPubMan
<1>5. CASE \/ Migration!PublishRegs \/ Migration!PublishMan \/ Migration!PublishLife
           \/ Migration!PublishCfg
  <2>1. /\ pc \in Publishing /\ pc' \in Publishing /\ UNCHANGED <<source, db, before, ist, runs>>
    BY <1>5 DEF Migration!PublishRegs, Migration!PublishMan, Migration!PublishLife,
       Migration!PublishCfg, Publishing, FromPubMan
  <2>2. pc # "idle" /\ pc' \notin {"idle", "snapshot", "index", "verify"}
    BY <2>1 DEF Publishing, FromPubMan
  <2>. QED
    BY <1>b, <2>1, <2>2 DEF FreshInv
<1>6. CASE Migration!Record
  <2>1. /\ pc = "record" /\ pc' \in {"commitRegs", "commitMan"} /\ ist'.source = before
        /\ UNCHANGED <<source, db, before, runs>>
    BY <1>6 DEF Migration!Record
  <2>. QED
    BY <1>b, <2>1 DEF FreshInv, Publishing, FromPubMan
<1>7. CASE Migration!CommitRegs \/ Migration!CommitMan
  BY <1>7, <1>b, CommitDoes DEF FreshInv, Publishing, FromPubMan
<1>8. CASE Migration!UndoMan \/ Migration!UndoRegs \/ Migration!UndoCfg \/ Migration!UndoLife
  <2>1. /\ pc \in Migration!Undoing /\ pc' \in Migration!Undoing \cup {"idle"}
        /\ UNCHANGED <<source, db, ist, runs>>
    BY <1>8 DEF Migration!UndoMan, Migration!UndoRegs, Migration!UndoCfg,
       Migration!UndoLife, Migration!Undoing
  <2>2. pc # "idle" /\ pc' \notin {"snapshot", "index", "verify"} \cup Publishing
    BY <2>1 DEF Migration!Undoing, Publishing, FromPubMan
  <2>. QED
    BY <1>b, <2>1, <2>2 DEF FreshInv
<1>9. CASE Migration!Interrupt \/ Migration!Kill
  <2>1. /\ pc # "idle" /\ pc' \in {"idle", "undoMan"} /\ UNCHANGED <<source, ist, cfg, runs>>
        /\ pc = "index" \/ db' = db
    BY <1>9 DEF Migration!Interrupt, Migration!Kill, Migration!files, BeforeCommit
  <2>2. runs' = 1
    BY <1>b, <2>1
  <2>3. pc = "index" => ist.id = "legacy"
    BY DEF FreshInv
  <2>4. pc' \notin {"snapshot", "index", "verify"} \cup Publishing
    BY <2>1 DEF Publishing, FromPubMan
  <2>. QED
    BY <2>1, <2>2, <2>3, <2>4 DEF FreshInv
<1>10. CASE Migration!Edit
  <2>1. source' = source + 1 /\ UNCHANGED <<pc, runs, db, legacyDb, cfg, life, ist, before>>
    BY <1>10 DEF Migration!Edit, Migration!fixed, Migration!files
  <2>2. Migration!Plan' = Migration!Plan
    BY <2>1 DEF Migration!Plan, Migration!LifecycleAction
  <2>. QED
    BY <1>a, <2>1, <2>2 DEF FreshInv
<1>11. CASE UNCHANGED Migration!vars
  <2>1. UNCHANGED <<source, pc, runs, db, legacyDb, cfg, life, ist, before>>
    BY <1>11 DEF Migration!vars
  <2>2. Migration!Plan' = Migration!Plan
    BY <2>1 DEF Migration!Plan, Migration!LifecycleAction
  <2>. QED
    BY <2>1, <2>2 DEF FreshInv
<1>. QED
  BY <1>1, <1>2, <1>3, <1>4, <1>5, <1>6, <1>7, <1>8, <1>9, <1>10, <1>11 DEF Migration!Next,
     Migration!Steps

\* A legacy project is whole, and nothing is to undo.
LEMMA MigrationAtStart ==
  ASSUME MigrationBounds, Migration!Init
  PROVE  /\ MigrationTyped /\ NamesInv /\ IdentityInv /\ kills = 0
         /\ ~SharedIndexed => FreshInv
<1>a. 0 \in Numbers /\ 1 \in Numbers /\ 0 \in 0..MaxEdits
  BY DEF MigrationBounds, Numbers
<1>b. ~did.man /\ ~did.regs /\ ~did.cfg /\ ~did.life /\ did \in Dones
  BY DEF Migration!Init, Migration!Nothing, Dones
<1>1. SourceTyped
  <2>1. db \in Databases
    BY <1>a DEF Migration!Init, Databases
  <2>. QED
    BY <1>a, <2>1 DEF Migration!Init, SourceTyped
<1>2. IdentitiesTyped
  BY DEF Migration!Init, IdentitiesTyped, Ids, Migration!Identity
<1>3. UndoTyped
  BY <1>b DEF Migration!Init, Migration!NoBackup, UndoTyped, Backups, Migration!Identity
<1>4. ProgressInv
  BY <1>b DEF Migration!Init, ProgressInv, Undoable, Publishing, FromPubMan, FromPubLife,
     FromPubCfg, Recording
<1>5. NamesInv
  BY DEF Migration!Init, NamesInv, Migration!ConfigNamesPublished, Migration!Undoing
<1>6. Migration!Legacy /\ Restorable /\ pc = "idle"
  BY <1>b DEF Migration!Init, Migration!Legacy, Restorable
<1>7. IdentityInv
  BY <1>6 DEF IdentityInv
<1>8. ~SharedIndexed => FreshInv
  BY DEF Migration!Init, FreshInv, Publishing, FromPubMan
<1>9. kills = 0
  BY DEF Migration!Init
<1>. QED
  BY <1>1, <1>2, <1>3, <1>4, <1>5, <1>7, <1>8, <1>9 DEF MigrationTyped

\* Every variable of a migration has its type, however often it is killed, interrupted
\* and edited under, but for interrupts of commit and rollback themselves.
THEOREM MigrationTypes ==
  ASSUME MigrationBounds, InterruptAt \subseteq BeforeCommit
  PROVE  Migration!Spec => []Migration!TypeOK
<1>1. ASSUME MigrationTyped PROVE Migration!TypeOK
  <2>1. db.is \in {"missing", "partial", "healthy"} /\ db.source \in 0..(MaxEdits + 1)
    BY <1>1 DEF MigrationTyped, SourceTyped, Databases, Numbers
  <2>2. /\ {cfg, life, man, regs, ist.id} \subseteq Migration!Identity /\ cfg # "none"
        /\ man # "none"
    BY <1>1, Known DEF Ids, Migration!Identity
  <2>. QED
    BY <1>1, <2>1, <2>2, Known DEF MigrationTyped, UndoTyped, Migration!TypeOK
<1>. QED
  BY <1>1, MigrationAtStart, MigrationTypesKept, PTL DEF Migration!Spec

\* A config that names the shared project names a database, a manifest and a sidecar that
\* are there, however often the command is killed and run again: it is the last file to be
\* published, and the first that a later attempt looks at (migrate_provider).  Interrupts,
\* which roll back and do so one file after the other, are left out.
THEOREM ConfigNames ==
  ASSUME MigrationBounds, InterruptAt = {}
  PROVE  Migration!Spec => []Migration!ConfigNamesPublished
<1>1. NamesInv => Migration!ConfigNamesPublished
  BY DEF NamesInv
<1>2. InterruptAt \subseteq BeforeCommit
  OBVIOUS
<1>. QED
  BY <1>1, <1>2, MigrationAtStart, MigrationTypesKept, NamesKept, PTL DEF Migration!Spec

\* Interrupted at any step before commit, however often, the command ends with every file
\* under one identity, and can be run again: what the rollback needs is in the backups, and
\* what it does not restore was not changed (the except and finally blocks of
\* migrate_provider).  A kill leaves the rollback out.
THEOREM MigratesWhole ==
  ASSUME MigrationBounds, InterruptAt \subseteq BeforeCommit, MaxKills = 0
  PROVE  Migration!Spec => [](Migration!OneIdentity /\ Migration!NotStranded)
<1> DEFINE Inv == MigrationTyped /\ IdentityInv /\ kills = 0
<1>1. Migration!Init => Inv
  BY MigrationAtStart
<1>2. Inv /\ [Migration!Next]_Migration!vars => Inv'
  BY MigrationTypesKept, IdentityKept
<1>3. ASSUME Inv PROVE Migration!OneIdentity /\ Migration!NotStranded
  <2>1. Migration!OneIdentity
    BY <1>3 DEF IdentityInv, Migration!OneIdentity
  <2>2. ASSUME pc = "idle", db.is = "healthy" PROVE Migration!Plan # "blocked"
    <3>1. CASE Migration!Legacy
      <4>1. Migration!LifecycleAction(cfg) = "none" /\ cfg = "legacy"
        BY <1>3, <3>1, Known DEF Migration!LifecycleAction, Migration!Legacy,
           Migration!Identity
      <4>. QED
        BY <2>2, <4>1 DEF Migration!Plan
    <3>2. CASE Migration!Shared
      <4>1. Migration!LifecycleAction(cfg) = "none" /\ cfg = "shared"
        BY <1>3, <3>2, Known DEF Migration!LifecycleAction, Migration!Shared,
           Migration!Identity
      <4>. QED
        BY <2>2, <4>1 DEF Migration!Plan
    <3>. QED
      BY <1>3, <2>2, <3>1, <3>2 DEF IdentityInv
  <2>. QED
    BY <2>1, <2>2 DEF Migration!NotStranded
<1>. QED
  BY <1>1, <1>2, <1>3, PTL DEF Migration!Spec

\* When there was no shared database before and the command runs once, what the index
\* state calls fresh is what the database was built from, however often files are edited
\* meanwhile: the state records the snapshot that verification compared.
THEOREM MigrationIsFresh ==
  ASSUME MigrationBounds, InterruptAt \subseteq BeforeCommit, ~SharedIndexed, MaxRuns = 1
  PROVE  Migration!Spec => []Migration!FreshMeansIndexed
<1>1. FreshInv => Migration!FreshMeansIndexed
  BY DEF FreshInv, Migration!FreshMeansIndexed
<1>. QED
  BY <1>1, MigrationAtStart, MigrationTypesKept, FreshKept, PTL DEF Migration!Spec

-----------------------------------------------------------------------------
(* SessionUpdate: an instance of it, which has some variables of the same  *)
(* names.                                                                  *)
CONSTANTS Layouts, Timeouts, Reverts, MaxFailures, MaxSessions
VARIABLES layout, busy, torn, parent, child, exit, old, report, failures, sessions
Session == INSTANCE SessionUpdate

\* The bounds of the exploration are numbers.
SessionBounds == MaxEdits \in Nat /\ MaxFailures \in Nat

Statuses == {"none", "current", "updated", "failed", "timeout"}
Reports == [status : Statuses, preserved : BOOLEAN]
Indexes == [regs : Session!States, ist : Session!States]
Exits == {"none", "current", "updated", "failed", "interrupted", "terminated", "killed"}
Children == {"none", "look", "index", "verify", "regs", "record", "commit", "begun", "publishing",
             "exited"}
Parents == {"idle", "wait", "terminating"}

\* The types; with the number of edits there is a state of the working tree for
\* each of them.
FilesTyped ==
  /\ source \in Session!States /\ db \in Session!States /\ regs \in Session!States
  /\ ist \in Session!States
  /\ before \in Session!States /\ backup \in Session!States /\ edits \in 0..MaxEdits
  /\ torn \in BOOLEAN
PlacesTyped ==
  /\ layout \in Layouts /\ busy \in BOOLEAN
  /\ parent \in Parents /\ child \in Children /\ (parent = "idle" <=> child = "none")
  /\ exit \in Exits /\ report \in Reports
SessionTyped == FilesTyped /\ PlacesTyped

\* Without a time limit nobody is asked to terminate and nothing is cut off.  Up to
\* its last write the child leaves the index files as the session found them, and what
\* it says afterwards is so.
AsFound == regs = old.regs /\ ist = old.ist
AsNew == regs = before /\ ist = before
ReportInv ==
  /\ parent \in {"idle", "wait"} /\ ~torn
  /\ child \in {"look", "index", "verify", "regs", "begun", "publishing"} => AsFound
  /\ child = "record" => backup = old.regs /\ ist = old.ist /\ regs = before
  /\ child = "commit" => AsNew
  /\ child = "exited" =>
       /\ exit \in {"current", "updated", "failed"}
       /\ exit = "failed" => AsFound
       /\ exit = "updated" => AsNew
  /\ Session!ReportTrue

\* Without reverts a state is newer than another if its number is greater: the
\* database is not older than what the index state says, nor newer than the source.
AgeInv ==
  /\ source = edits + 1
  /\ ist <= db /\ db <= source /\ before <= source
  /\ child \in {"verify", "regs", "record"} => before <= db

\* Every step leaves the files states of the working tree.
LEMMA FilesKept ==
  ASSUME SessionBounds, FilesTyped, [Session!Next]_Session!vars
  PROVE  FilesTyped'
<1>1. CASE Session!Edit
  <2>1. edits' \in 0..MaxEdits /\ source' \in Session!States
    BY <1>1 DEF Session!Edit, FilesTyped, Session!States, SessionBounds
  <2>. QED
    BY <1>1, <2>1 DEF Session!Edit, Session!index, FilesTyped
<1>2. CASE \/ Session!Begin \/ Session!Timeout \/ Session!TimedOut \/ Session!Completed
           \/ Session!Commit \/ Session!Verify \/ Session!Refresh \/ Session!RefreshFails
           \/ Session!Release \/ UNCHANGED Session!vars
  BY <1>2 DEF Session!Begin, Session!Timeout, Session!TimedOut, Session!Completed,
     Session!Commit, Session!Verify, Session!Refresh, Session!RefreshFails,
     Session!Release, Session!vars, Session!world, Session!index, FilesTyped
<1>3. CASE Session!KillChild \/ Session!Terminated
  <2>1. /\ torn' \in BOOLEAN /\ db' \in {db, source}
        /\ UNCHANGED <<source, edits, regs, ist, before, backup>>
    BY <1>3 DEF Session!KillChild, Session!Terminated, Session!world, FilesTyped
  <2>. QED
    BY <2>1 DEF FilesTyped
<1>4. CASE \/ Session!LookAgain \/ Session!Index \/ Session!PublishRegs \/ Session!Record
           \/ Session!Fail
  <2>1. /\ before' \in {before, source} /\ regs' \in {regs, source, before, backup}
        /\ db' \in {db, source} /\ ist' \in {ist, before} /\ backup' \in {backup, regs}
        /\ UNCHANGED <<source, edits, torn>>
    BY <1>4 DEF Session!LookAgain, Session!Index, Session!PublishRegs, Session!Record,
       Session!Fail, Session!world
  <2>. QED
    BY <2>1 DEF FilesTyped
<1>5. CASE Session!Refreshed
  BY <1>5 DEF Session!Refreshed, Session!world, FilesTyped
<1>. QED
  BY <1>1, <1>2, <1>3, <1>4, <1>5 DEF Session!Next, Session!Steps

\* Every step leaves parent and child somewhere, a child only where its parent waits.
LEMMA PlacesKept ==
  ASSUME PlacesTyped, [Session!Next]_Session!vars
  PROVE  PlacesTyped'
<1>a. ASSUME NEW status \in Statuses, NEW preserved \in BOOLEAN, Session!Tells(status, preserved)
      PROVE  report' \in Reports /\ parent' = "idle"
  BY <1>a DEF Session!Tells, Reports
<1>b. {"current", "failed", "timeout", "updated"} \subseteq Statuses
  BY DEF Statuses
<1>1. CASE Session!Begin
  <2>1. UNCHANGED <<layout, busy>> /\ exit' = "none" /\ parent = "idle" /\ child = "none"
    BY <1>1 DEF Session!Begin, Session!world
  <2>2. \/ parent' = "idle" /\ report' \in Reports /\ child' = child
        \/ parent' = "wait" /\ child' = "look" /\ report' = report
    BY <1>1, <1>a, <1>b DEF Session!Begin
  <2>. QED
    BY <2>1, <2>2 DEF PlacesTyped, Parents, Children, Exits
<1>2. CASE Session!TimedOut \/ Session!Completed
  <2>1. UNCHANGED <<layout, busy, exit>> /\ child' = "none"
    BY <1>2 DEF Session!TimedOut, Session!Completed, Session!world
  <2>2. \E status \in Statuses, preserved \in BOOLEAN : Session!Tells(status, preserved)
    BY <1>2, <1>b DEF Session!TimedOut, Session!Completed
  <2>. QED
    BY <2>1, <2>2, <1>a DEF PlacesTyped, Parents, Children
<1>3. CASE Session!Timeout \/ Session!KillChild
  BY <1>3 DEF Session!Timeout, Session!KillChild, Session!world, PlacesTyped, Parents,
     Children, Exits
<1>4. CASE Session!Edit \/ Session!Release \/ UNCHANGED Session!vars
  BY <1>4 DEF Session!Edit, Session!Release, Session!vars, PlacesTyped
<1>5. CASE \/ Session!LookAgain \/ Session!Index \/ Session!Verify \/ Session!PublishRegs
           \/ Session!Record \/ Session!Commit \/ Session!Refresh \/ Session!RefreshFails
           \/ Session!Refreshed \/ Session!Terminated \/ Session!Fail
  <2>1. UNCHANGED <<layout, busy, parent, report>>
    BY <1>5 DEF Session!LookAgain, Session!Index, Session!Verify, Session!PublishRegs,
       Session!Record, Session!Commit, Session!Refresh, Session!RefreshFails,
       Session!Refreshed, Session!Terminated, Session!Fail, Session!world
  <2>2. child # "none" /\ child' \in Children \ {"none"}
    BY <1>5 DEF Session!LookAgain, Session!Index, Session!Verify, Session!PublishRegs,
       Session!Record, Session!Commit, Session!Refresh, Session!RefreshFails,
       Session!Refreshed, Session!Terminated, Session!Fail, Session!Ends, Children
  <2>3. exit' \in Exits \cup {exit}
    BY <1>5 DEF Session!LookAgain, Session!Index, Session!Verify, Session!PublishRegs,
       Session!Record, Session!Commit, Session!Refresh, Session!RefreshFails,
       Session!Refreshed, Session!Terminated, Session!Fail, Session!Ends, Exits
  <2>. QED
    BY <2>1, <2>2, <2>3 DEF PlacesTyped
<1>. QED
  BY <1>1, <1>2, <1>3, <1>4, <1>5 DEF Session!Next, Session!Steps

\* Both together.
LEMMA SessionTypesKept ==
  ASSUME SessionBounds, SessionTyped, [Session!Next]_Session!vars
  PROVE  SessionTyped'
BY FilesKept, PlacesKept DEF SessionTyped

\* Up to its last write the child leaves the index as it was found, and what it says
\* when it ends is so.
LEMMA ReportsKept ==
  ASSUME ~Timeouts, SessionTyped, ReportInv, [Session!Next]_Session!vars
  PROVE  ReportInv'
<1>a. ASSUME NEW status, NEW preserved, Session!Tells(status, preserved)
      PROVE  report'.status = status /\ report'.preserved = preserved /\ parent' = "idle"
  BY <1>a DEF Session!Tells
<1>1. CASE Session!Begin
  <2>1. old'.regs = regs /\ old'.ist = ist /\ UNCHANGED <<regs, ist, torn, before, backup>>
    BY <1>1 DEF Session!Begin, Session!index
  <2>2. \/ /\ parent' = "idle" /\ child' = "none"
           /\ report'.status \in {"current", "failed"}
        \/ parent' = "wait" /\ child' = "look" /\ report' = report
    BY <1>1, <1>a DEF Session!Begin
  <2>. QED
    BY <2>1, <2>2 DEF ReportInv, Session!ReportTrue, AsFound, AsNew
<1>2. CASE Session!Completed
  <2>1. child' = "none" /\ UNCHANGED <<regs, ist, torn, before, backup, old>> /\ child = "exited"
    BY <1>2 DEF Session!Completed, Session!index
  <2>2. /\ parent' = "idle"
        /\ report'.preserved => exit = "failed"
        /\ report'.status = "updated" => exit = "updated"
    <3>1. CASE exit \in {"current", "updated"}
      BY <1>2, <3>1, <1>a DEF Session!Completed
    <3>2. CASE exit \notin {"current", "updated"}
      <4>1. Session!Tells("failed", TRUE) /\ exit = "failed"
        BY <1>2, <2>1, <3>2 DEF Session!Completed, ReportInv
      <4>. QED
        BY <4>1, <1>a
    <3>. QED
      BY <3>1, <3>2
  <2>. QED
    BY <2>1, <2>2 DEF ReportInv, Session!ReportTrue, AsFound, AsNew
<1>3. ~(Session!Timeout \/ Session!TimedOut \/ Session!KillChild \/ Session!Terminated)
  BY DEF Session!Timeout, Session!TimedOut, Session!KillChild, Session!Terminated, ReportInv
<1>4. CASE Session!Edit \/ Session!Release \/ UNCHANGED Session!vars
  BY <1>4 DEF Session!Edit, Session!Release, Session!vars, Session!index, ReportInv,
     Session!ReportTrue, AsFound, AsNew
<1>5. CASE \/ Session!LookAgain \/ Session!Index \/ Session!Verify \/ Session!PublishRegs
           \/ Session!Record \/ Session!Commit \/ Session!Refresh \/ Session!RefreshFails
           \/ Session!Refreshed \/ Session!Fail
  <2>1. parent' = parent /\ old' = old /\ child # "none" /\ parent # "idle"
    BY <1>5 DEF Session!LookAgain, Session!Index, Session!Verify, Session!PublishRegs,
       Session!Record, Session!Commit, Session!Refresh, Session!RefreshFails,
       Session!Refreshed, Session!Fail, SessionTyped, PlacesTyped
  <2>2. ~torn'
    BY <1>5 DEF Session!LookAgain, Session!Index, Session!Verify, Session!PublishRegs,
       Session!Record, Session!Commit, Session!Refresh, Session!RefreshFails,
       Session!Refreshed, Session!Fail, Session!index, ReportInv
  <2>3. CASE Session!LookAgain
    BY <2>1, <2>2, <2>3 DEF Session!LookAgain, Session!Ends, ReportInv, Session!ReportTrue,
       AsFound, AsNew
  <2>4. CASE Session!Index \/ Session!Refresh \/ Session!Commit
    BY <2>1, <2>2, <2>4 DEF Session!Index, Session!Refresh, Session!Commit, Session!Ends,
       Session!index, ReportInv, Session!ReportTrue, AsFound, AsNew
  <2>5. CASE Session!Verify \/ Session!RefreshFails
    BY <2>1, <2>2, <2>5 DEF Session!Verify, Session!RefreshFails, Session!Ends,
       Session!index, ReportInv, Session!ReportTrue, AsFound, AsNew
  <2>6. CASE Session!PublishRegs \/ Session!Record \/ Session!Refreshed
    BY <2>1, <2>2, <2>6 DEF Session!PublishRegs, Session!Record, Session!Refreshed,
       ReportInv, Session!ReportTrue, AsFound, AsNew
  <2>7. CASE Session!Fail
    BY <2>1, <2>2, <2>7 DEF Session!Fail, Session!Ends, ReportInv, Session!ReportTrue,
       AsFound, AsNew
  <2>. QED
    BY <1>5, <2>3, <2>4, <2>5, <2>6, <2>7
<1>. QED
  BY <1>1, <1>2, <1>3, <1>4, <1>5 DEF Session!Next, Session!Steps

\* Without reverts, neither database nor index state overtakes what it was made from.
LEMMA AgeKept ==
  ASSUME SessionBounds, ~Reverts, SessionTyped, AgeInv, [Session!Next]_Session!vars
  PROVE  AgeInv'
<1>a. /\ source \in Int /\ db \in Int /\ ist \in Int /\ before \in Int /\ edits \in Int
  BY DEF SessionTyped, FilesTyped, Session!States, SessionBounds
<1>1. CASE Session!Edit
  <2>1. source' = edits + 2 /\ edits' = edits + 1 /\ UNCHANGED <<ist, db, before, child>>
    BY <1>1 DEF Session!Edit, Session!index
  <2>. QED
    BY <1>a, <2>1 DEF AgeInv
<1>2. CASE \/ Session!Begin \/ Session!Timeout \/ Session!TimedOut \/ Session!Completed
           \/ Session!KillChild \/ Session!Commit \/ Session!RefreshFails \/ Session!Refresh
           \/ Session!Release \/ UNCHANGED Session!vars
  <2>1. UNCHANGED <<source, edits, ist, db, before>>
    BY <1>2 DEF Session!Begin, Session!Timeout, Session!TimedOut, Session!Completed,
       Session!KillChild, Session!Commit, Session!RefreshFails, Session!Refresh,
       Session!Release, Session!vars, Session!world, Session!index
  <2>2. child' \in {"verify", "regs", "record"} => child' = child
    BY <1>2 DEF Session!Begin, Session!Timeout, Session!TimedOut, Session!Completed,
       Session!KillChild, Session!Commit, Session!RefreshFails, Session!Refresh,
       Session!Release, Session!vars, Session!Ends
  <2>. QED
    BY <2>1, <2>2 DEF AgeInv
<1>3. CASE Session!LookAgain \/ Session!Fail
  <2>1. before' \in {before, source} /\ UNCHANGED <<source, edits, ist, db>>
    BY <1>3 DEF Session!LookAgain, Session!Fail, Session!world
  <2>2. child' \notin {"verify", "regs", "record"}
    BY <1>3 DEF Session!LookAgain, Session!Fail, Session!Ends
  <2>. QED
    BY <1>a, <2>1, <2>2 DEF AgeInv
<1>4. CASE Session!Index
  BY <1>4, <1>a DEF Session!Index, Session!world, AgeInv
<1>5. CASE Session!Verify
  <2>1. UNCHANGED <<source, edits, ist, db, before>> /\ child = "verify"
    BY <1>5 DEF Session!Verify, Session!world, Session!index
  <2>. QED
    BY <2>1 DEF AgeInv
<1>6. CASE Session!PublishRegs \/ Session!Record
  <2>1. /\ UNCHANGED <<source, edits, db, before>> /\ child \in {"regs", "record"}
        /\ ist' \in {ist, before}
    BY <1>6 DEF Session!PublishRegs, Session!Record, Session!world
  <2>. QED
    BY <2>1 DEF AgeInv
<1>7. CASE Session!Refreshed
  BY <1>7, <1>a DEF Session!Refreshed, Session!world, AgeInv
<1>8. CASE Session!Terminated
  <2>1. UNCHANGED <<source, edits, ist, before>> /\ child' = "exited" /\ db' \in {db, source}
    BY <1>8 DEF Session!Terminated, Session!Ends, Session!world
  <2>. QED
    BY <1>a, <2>1 DEF AgeInv
<1>. QED
  BY <1>1, <1>2, <1>3, <1>4, <1>5, <1>6, <1>7, <1>8 DEF Session!Next, Session!Steps

\* Before the first session everything holds.
LEMMA SessionAtStart ==
  ASSUME SessionBounds, Session!Init
  PROVE  SessionTyped /\ ReportInv /\ AgeInv
<1>1. FilesTyped
  <2>1. 1 \in Session!States /\ 0 \in Session!States /\ 0 \in 0..MaxEdits
    BY DEF SessionBounds, Session!States
  <2>. QED
    BY <2>1 DEF Session!Init, FilesTyped
<1>2. PlacesTyped
  <2>1. report \in Reports
    BY DEF Session!Init, Session!NoReport, Reports, Statuses
  <2>2. parent \in Parents /\ child \in Children /\ exit \in Exits
        /\ (parent = "idle" <=> child = "none")
    BY DEF Session!Init, Parents, Children, Exits
  <2>. QED
    BY <2>1, <2>2 DEF Session!Init, PlacesTyped
<1>3. ReportInv
  BY DEF Session!Init, Session!NoReport, ReportInv, Session!ReportTrue, AsFound, AsNew
<1>4. AgeInv
  BY DEF Session!Init, AgeInv
<1>. QED
  BY <1>1, <1>2, <1>3, <1>4 DEF SessionTyped

\* Every variable of a session start has its type, whatever fails, is terminated, killed
\* or edited meanwhile.
THEOREM SessionTypes ==
  ASSUME SessionBounds
  PROVE  Session!Spec => []Session!TypeOK
<1>1. SessionTyped => Session!TypeOK
  BY DEF SessionTyped, FilesTyped, PlacesTyped, Reports, Statuses, Exits, Children,
     Parents, Session!TypeOK
<1>. QED
  BY <1>1, SessionAtStart, SessionTypesKept, PTL DEF Session!Spec

\* What the session says of its update is so, when the child is given the time it takes:
\* an index "preserved" is the one the session found, an "updated" one is what the child
\* read.  Failures, kills and edits may come at any moment (update_at_session_start); a child
\* that is cut off by its deadline is where MCUpdates finds it wrong.
THEOREM SessionReportsTrue ==
  ASSUME SessionBounds, ~Timeouts
  PROVE  Session!Spec => []Session!ReportTrue
<1>1. ReportInv => Session!ReportTrue
  BY DEF ReportInv
<1>. QED
  BY <1>1, SessionAtStart, SessionTypesKept, ReportsKept, PTL DEF Session!Spec

\* An index that the session takes for fresh was built from the source there is, if no edit
\* is undone: what the index state names is never newer than the database.  Timeouts, kills and
\* failures may come at any moment.
THEOREM SessionIsFresh ==
  ASSUME SessionBounds, ~Reverts
  PROVE  Session!Spec => []Session!FreshMeansIndexed
<1>1. ASSUME SessionTyped, AgeInv PROVE Session!FreshMeansIndexed
  BY <1>1 DEF SessionTyped, FilesTyped, Session!States, SessionBounds, AgeInv,
     Session!FreshMeansIndexed
<1>. QED
  BY <1>1, SessionAtStart, SessionTypesKept, AgeKept, PTL DEF Session!Spec
=============================================================================
