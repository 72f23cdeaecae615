-------------------------- MODULE Providers_proofs --------------------------
(***************************************************************************)
(* Theorems about the components beneath the language providers: first     *)
(* RustRefresh, for any processes, generations, edits, kills and           *)
(* exceptions, then ProviderTransport, for any sessions, calls and         *)
(* children, and the sessions of the Rust and the Python provider, for any *)
(* edits, crashes and queries: as the instances Transport, Analyzer and    *)
(* Serena, which do not interact and have some names in common.            *)
(***************************************************************************)
EXTENDS RustRefresh, SequenceTheorems, TLAPS

\* A journal that recovery would roll back.
Open == journal.phase \notin {"none"} \cup AcceptedPhases

\* The steps of a refresh before it has a journal, and from its plan on.
Preparing == {"scan", "compare", "last_look", "link", "begin"}
AfterShard == Publishing \ {"shard"}
AfterManifest == {"advance_manifest", "pointer", "advance_pointer", "state", "advance_state"}
AfterPointer == {"advance_pointer", "state", "advance_state"}

-----------------------------------------------------------------------------
(* What the files are at every moment.  Without an open journal they are   *)
(* the accepted generation; with one each is the accepted one or the one   *)
(* being published, and can be brought back.                               *)
Undoable ==
  /\ accepted < journal.after /\ journal.after <= Len(made)
  /\ journal.existed = IF accepted = 0 THEN {} ELSE Artifacts
  /\ ~journal.shard
  /\ \A a \in Artifacts :
       /\ disk[a] \in {accepted, journal.after}
       /\ accepted > 0 => backup[a] = accepted \/ (backup[a] = NoLink /\ disk[a] = accepted)
  /\ disk["pointer"] = journal.after => journal.after \in shards

DiskInv ==
  /\ journal.phase = "none" => journal = NoJournal
  /\ accepted <= Len(made) /\ (accepted > 0 => accepted \in shards)
  /\ ~Open => \A a \in Artifacts : disk[a] = accepted
  /\ Open => Undoable

\* What a process knows where it is.
ProcInv(p) ==
  /\ run[p].pc \in {"plan", "failed"} \cup Preparing => journal = NoJournal
  /\ run[p].pc \in Preparing \cup Publishing =>
       /\ run[p].after = Len(made) /\ accepted < run[p].after /\ run[p].before = accepted
       /\ run[p].result = "none"
  /\ run[p].pc \in Preparing \cup {"shard"} => run[p].after \notin shards
  /\ run[p].pc = "begin" => \A a \in Artifacts : backup[a] = IF disk[a] = 0 THEN NoLink ELSE disk[a]
  /\ run[p].pc \in Publishing =>
       /\ Open /\ journal.after = run[p].after
       /\ accepted > 0 => \A a \in Artifacts : backup[a] = accepted
  /\ run[p].pc \in AfterShard => run[p].after \in shards
  /\ run[p].pc \in AfterManifest => disk["manifest"] = run[p].after
  /\ run[p].pc \in AfterPointer => disk["pointer"] = run[p].after
  /\ run[p].pc = "advance_state" => disk["state"] = run[p].after
  /\ run[p].pc = "committing" => journal.phase \in AcceptedPhases /\ run[p].result = "refreshed"
  /\ run[p].pc = "undo" => Open /\ run[p].result = "none" /\ \A a \in run[p].undone : disk[a] = accepted
  /\ run[p].pc \in {"discard", "unlink"} =>
       /\ journal.phase # "none"
       /\ Open => run[p].result = "none" /\ \A a \in Artifacts : disk[a] = accepted
       /\ ~Open /\ run[p].after > 0 => run[p].result = "refreshed"
  /\ run[p].pc \notin {"undo", "discard", "unlink", "leave", "stuck"} => run[p].undone = {}
  /\ run[p].pc \in {"idle", "recover", "plan"} => run[p].after = 0 /\ run[p].result = "none"
  /\ run[p].pc \in {"undo", "discard", "unlink", "failed"} /\ run[p].result = "none" /\ run[p].after > 0
       => run[p].before = accepted
  /\ run[p].result = "refreshed" =>
       /\ run[p].pc \in {"committing", "discard", "unlink", "leave"}
       /\ ~Open /\ run[p].after = accepted /\ accepted > 0
  /\ run[p].result = "failed" => run[p].pc \in {"leave", "stuck"}
  /\ run[p].result = "failed" /\ run[p].whole /\ run[p].after > 0 => ~Open /\ run[p].before = accepted

\* The lease is held by who is at work.
LeaseInv == lease # Free => run[lease].pc # "idle"

RustInv == TypeOK /\ LeaseInv /\ DiskInv /\ \A p \in Procs : ProcInv(p)

\* The sources a candidate was read from.
FactsInv ==
  /\ \A g \in shards : made[g].read = made[g].bound
  /\ \A p \in Procs :
       LET r == run[p] IN
       /\ r.pc = "scan" => r.prov <= source
       /\ r.pc = "compare" => r.prov <= made[r.after].read /\ made[r.after].read <= source
       /\ r.pc \in {"last_look", "link", "begin", "shard"} =>
            made[r.after].read = made[r.after].bound

-----------------------------------------------------------------------------
RunType == [pc : Steps, kind : {"none", "refresh", "recover"},
            before : Generations, after : Generations, prov : Sources, read : Sources,
            undone : SUBSET Artifacts, result : {"none", "refreshed", "failed"},
            whole : BOOLEAN]

LEMMA PublishingIs ==
  Publishing = {"shard", "manifest", "pointer", "state", "advance_shard", "advance_manifest",
                "advance_pointer", "advance_state"}
BY DEF Publishing, Published, Advance

LEMMA StepsAre ==
  Steps = {"idle", "recover", "plan", "scan", "compare", "last_look", "link", "begin",
           "committing", "undo", "discard", "unlink", "failed", "leave", "stuck",
           "shard", "manifest", "pointer", "state", "advance_shard", "advance_manifest",
           "advance_pointer", "advance_state"}
BY PublishingIs DEF Steps

LEMMA BoundsAreNat ==
  /\ MaxGenerations \in Nat /\ MaxEdits \in Nat /\ MaxKills \in Nat /\ MaxFaults \in Nat
  /\ Reverts \in BOOLEAN /\ KilledUndoing \in BOOLEAN /\ Free \notin Procs
  /\ Idle \in RunType /\ Idle.pc = "idle"
  /\ NoJournal \in [phase : {"none", "prepared", "committing"} \cup {PhaseOf[f] : f \in Published},
                    after : Generations, existed : SUBSET Artifacts, shard : BOOLEAN]
<1>1. MaxGenerations \in Nat /\ MaxEdits \in Nat
  BY ConstantsOK
<1> QED
  BY <1>1, ConstantsOK, StepsAre DEF Idle, RunType, NoJournal, Generations, Sources

\* A process at work holds the lease, the others are idle.
LEMMA Alone ==
  ASSUME RustInv, NEW p \in Procs, run[p].pc # "idle"
  PROVE  lease = p /\ run[p] \in RunType /\ \A q \in Procs \ {p} : run[q].pc = "idle"
BY DEF RustInv, TypeOK, RunType

\* What a step makes of the runs.
LEMMA RunIs ==
  ASSUME TypeOK, NEW p \in Procs, NEW r \in RunType, run' = [run EXCEPT ![p] = r]
  PROVE  /\ run' \in [Procs -> RunType] /\ run'[p] = r
         /\ \A q \in Procs \ {p} : run'[q] = run[q]
BY DEF TypeOK, RunType

LEMMA ToIs ==
  ASSUME TypeOK, NEW p \in Procs, NEW l \in Steps, To(p, l)
  PROVE  /\ run' \in [Procs -> RunType] /\ run'[p] = [run[p] EXCEPT !.pc = l]
         /\ \A q \in Procs \ {p} : run'[q] = run[q]
<1> DEFINE r == [run[p] EXCEPT !.pc = l]
<1>1. run[p] \in RunType
  BY DEF TypeOK, RunType
<1>2. r \in RunType
  BY <1>1 DEF RunType
<1>3. run' = [run EXCEPT ![p] = r]
  BY DEF To
<1> QED
  BY <1>2, <1>3, RunIs

\* Of the others a step asks nothing: they are idle.
LEMMA Together ==
  ASSUME RustInv, NEW p \in Procs, run[p].pc # "idle" \/ lease = Free,
         \A q \in Procs \ {p} : run'[q] = run[q],
         TypeOK', LeaseInv', DiskInv', ProcInv(p)'
  PROVE  RustInv'
<1>1. ASSUME NEW q \in Procs \ {p} PROVE ProcInv(q)'
  <2>1. run[q].pc = "idle" /\ ProcInv(q)
    BY BoundsAreNat, Alone DEF RustInv, TypeOK
  <2>2. run[q].undone = {} /\ run[q].after = 0 /\ run[q].result = "none"
    BY <2>1 DEF ProcInv
  <2> QED
    BY <2>1, <2>2, PublishingIs
       DEF ProcInv, Preparing, AfterShard, AfterManifest, AfterPointer
<1> QED
  BY <1>1 DEF RustInv

\* The types after a step that leaves the repository and the counters alone.
LEMMA TypesOf ==
  ASSUME RustInv, NEW p \in Procs, run[p].pc # "idle",
         run' \in [Procs -> RunType], \A q \in Procs \ {p} : run'[q] = run[q],
         UNCHANGED <<source, edits, kills, lease>> 
  PROVE  /\ source' \in Sources /\ edits' \in 0..MaxEdits /\ kills' \in 0..MaxKills
         /\ lease' \in Procs \cup {Free} 
         /\ \A q \in Procs : run'[q].pc = "idle" \/ lease' = q
         /\ run'[p].pc # "idle" => LeaseInv'
BY Alone DEF RustInv, TypeOK, LeaseInv

-----------------------------------------------------------------------------
(* The steps.                                                              *)
LEMMA InitRust == Init => RustInv
<1> SUFFICES ASSUME Init PROVE RustInv
  OBVIOUS
<1>1. TypeOK
  <2>1. made = <<>> /\ made \in Seq([bound : Sources, read : Sources]) /\ Len(made) = 0
    BY DEF Init
  <2>2. run \in [Procs -> RunType]
    BY BoundsAreNat DEF Init
  <2>3. journal \in [phase : {"none", "prepared", "committing"} \cup {PhaseOf[f] : f \in Published},
                     after : Generations, existed : SUBSET Artifacts, shard : BOOLEAN]
    BY BoundsAreNat DEF Init
  <2>4. \A p \in Procs : run[p].pc = "idle"
    BY BoundsAreNat DEF Init
  <2> QED
    BY <2>1, <2>2, <2>3, <2>4, BoundsAreNat
       DEF Init, TypeOK, RunType, Generations, Sources, NoLink
<1>2. DiskInv
  BY DEF Init, DiskInv, NoJournal, Open
<1>3. ASSUME NEW p \in Procs PROVE ProcInv(p)
  BY PublishingIs DEF Init, ProcInv, Idle, Preparing, AfterShard, AfterManifest, AfterPointer
<1>4. LeaseInv
  BY DEF Init, LeaseInv
<1> QED
  BY <1>1, <1>2, <1>3, <1>4 DEF RustInv

LEMMA EnterKeeps ==
  ASSUME RustInv, NEW p \in Procs, NEW kind \in {"refresh", "recover"}, Enter(p, kind)
  PROVE  RustInv'
<1> DEFINE r == [Idle EXCEPT !.pc = "recover", !.kind = kind]
<1>1. /\ lease = Free /\ lease' = p /\ run' = [run EXCEPT ![p] = r]
      /\ UNCHANGED <<source, edits, disk, shards, backup, journal, made, accepted, kills, faults>>
  BY DEF Enter, files, world
<1>2. r \in RunType /\ r.pc = "recover" /\ r.after = 0 /\ r.undone = {} /\ r.result = "none"
  BY BoundsAreNat, StepsAre DEF RunType, Idle
<1> HIDE DEF r
<1>3. run' \in [Procs -> RunType] /\ run'[p] = r /\ \A q \in Procs \ {p} : run'[q] = run[q]
  BY <1>1, <1>2, RunIs DEF RustInv
<1>4. \A q \in Procs \ {p} : run[q].pc = "idle"
  BY <1>1, BoundsAreNat DEF RustInv, TypeOK
<1>5. TypeOK'
  BY <1>1, <1>3, <1>4 DEF RustInv, TypeOK, RunType
<1>6. LeaseInv' /\ DiskInv'
  BY <1>1, <1>2, <1>3 DEF RustInv, LeaseInv, DiskInv, Open, Undoable
<1>7. ProcInv(p)'
  BY <1>2, <1>3, PublishingIs DEF ProcInv, Preparing, AfterShard, AfterManifest, AfterPointer
<1> QED
  BY <1>1, <1>3, <1>5, <1>6, <1>7, Together

\* A step that leaves files, journal and repository as they are, or only links.
LEMMA CalmKeeps ==
  ASSUME RustInv, NEW p \in Procs, run[p].pc # "idle",
         NEW r \in RunType, run' = [run EXCEPT ![p] = r], r.pc # "idle",
         UNCHANGED <<disk, shards, journal, accepted, source, edits, kills, lease>>,
         made' \in Seq([bound : Sources, read : Sources]), Len(made') = Len(made),
         faults' \in 0..MaxFaults,
         backup' \in [Artifacts -> Generations \cup {NoLink}],
         \/ backup' = backup
         \/ ~Open
         \/ backup' = Swept /\ \A a \in Artifacts : disk[a] = accepted
  PROVE  run'[p] = r /\ (ProcInv(p)' => RustInv')
<1>1. run' \in [Procs -> RunType] /\ run'[p] = r /\ \A q \in Procs \ {p} : run'[q] = run[q]
  BY RunIs DEF RustInv
<1>2. LeaseInv' /\ TypeOK'
  BY <1>1, TypesOf DEF RustInv, TypeOK, RunType
<1>3. DiskInv'
  <2>1. DiskInv /\ (Open' <=> Open)
    BY DEF RustInv, Open
  <2>2. Open => Undoable'
    BY <2>1 DEF DiskInv, Undoable, Swept
  <2> QED
    BY <2>1, <2>2 DEF DiskInv
<1> QED
  BY <1>1, <1>2, <1>3, Together

LEMMA RecoverNothingKeeps ==
  ASSUME RustInv, NEW p \in Procs, RecoverNothing(p)
  PROVE  RustInv'
<1> DEFINE r == [run[p] EXCEPT !.pc = Recovered(p)]
<1>1. /\ run[p].pc = "recover" /\ journal = NoJournal /\ backup' = Swept
      /\ run' = [run EXCEPT ![p] = r]
      /\ UNCHANGED <<source, edits, disk, shards, journal, made, lease, accepted, kills, faults>>
  BY DEF RecoverNothing, At, To, world
<1>2. run[p] \in RunType /\ r \in RunType /\ r.pc \in {"leave", "plan"} /\ r = [run[p] EXCEPT !.pc = r.pc]
  BY StepsAre DEF RustInv, TypeOK, RunType, Recovered
<1> HIDE DEF r
<1>3. ~Open /\ backup' \in [Artifacts -> Generations \cup {NoLink}]
  BY <1>1 DEF Open, NoJournal, Swept
<1>5. run'[p] = r /\ (ProcInv(p)' => RustInv')
  BY <1>1, <1>2, <1>3, CalmKeeps DEF RustInv, TypeOK
<1>6. ProcInv(p)'
  <2>1. ProcInv(p)
    BY DEF RustInv
  <2>2. r.after = 0 /\ r.result = "none" /\ r.undone = {}
    BY <1>1, <1>2, <2>1 DEF ProcInv, RunType
  <2> QED
    BY <1>1, <1>2, <1>5, <2>2, PublishingIs
       DEF ProcInv, Preparing, AfterShard, AfterManifest, AfterPointer
<1> QED
  BY <1>5, <1>6

LEMMA RecoverJournalKeeps ==
  ASSUME RustInv, NEW p \in Procs, RecoverJournal(p)
  PROVE  RustInv'
<1> DEFINE l == IF journal.phase \in AcceptedPhases THEN "discard" ELSE "undo"
           r == [run[p] EXCEPT !.pc = l]
<1>1. /\ run[p].pc = "recover" /\ journal # NoJournal
      /\ run' = [run EXCEPT ![p] = r]
      /\ UNCHANGED <<source, edits, disk, shards, backup, journal, made, lease, accepted, kills, faults>>
  BY DEF RecoverJournal, At, To, world, files
<1>2. run[p] \in RunType /\ r \in RunType /\ r.pc = l /\ r = [run[p] EXCEPT !.pc = l]
  BY StepsAre DEF RustInv, TypeOK, RunType
<1>3. l \in {"discard", "undo"} /\ (l = "discard" <=> journal.phase \in AcceptedPhases)
  OBVIOUS
<1> HIDE DEF l, r
<1>5. run'[p] = r /\ (ProcInv(p)' => RustInv')
  BY <1>1, <1>2, <1>3, CalmKeeps DEF RustInv, TypeOK
<1>6. ProcInv(p)'
  <2>1. ProcInv(p) /\ journal.phase # "none"
    BY <1>1 DEF RustInv, DiskInv
  <2>2. r.after = 0 /\ r.result = "none" /\ r.undone = {}
    BY <1>1, <1>2, <2>1 DEF ProcInv, RunType
  <2>3. l = "discard" => ~Open /\ ~Open'
    BY <1>1, <1>3 DEF Open
  <2>4. l = "undo" => Open /\ Open'
    BY <1>1, <1>3, <2>1 DEF Open
  <2> QED
    BY <1>1, <1>2, <1>3, <1>5, <2>1, <2>2, <2>3, <2>4, PublishingIs
       DEF ProcInv, Preparing, AfterShard, AfterManifest, AfterPointer
<1> QED
  BY <1>5, <1>6

LEMMA FailedKeeps ==
  ASSUME RustInv, NEW p \in Procs, Failed(p)
  PROVE  RustInv'
<1> DEFINE r == [run[p] EXCEPT !.pc = "leave", !.result = "failed"]
<1>1. /\ run[p].pc = "failed"
      /\ run' = [run EXCEPT ![p] = r]
      /\ UNCHANGED <<source, edits, disk, shards, backup, journal, made, lease, accepted, kills, faults>>
  BY DEF Failed, At, To, world, files
<1>2. /\ run[p] \in RunType /\ r \in RunType /\ r.pc = "leave" /\ r.result = "failed"
      /\ r.after = run[p].after /\ r.before = run[p].before
  <2>1. run[p] \in RunType /\ "leave" \in Steps
    BY StepsAre DEF RustInv, TypeOK, RunType
  <2> QED
    BY <2>1 DEF RunType
<1> HIDE DEF r
<1>5. run'[p] = r /\ (ProcInv(p)' => RustInv')
  BY <1>1, <1>2, CalmKeeps DEF RustInv, TypeOK
<1>6. ProcInv(p)'
  <2>1. ProcInv(p) /\ ~Open'
    BY <1>1 DEF RustInv, ProcInv, Open, NoJournal
  <2>2. run[p].result = "none"
    BY <1>1, <1>2, <2>1 DEF ProcInv, RunType
  <2> QED
    BY <1>1, <1>2, <1>5, <2>1, <2>2, PublishingIs
       DEF ProcInv, Preparing, AfterShard, AfterManifest, AfterPointer
<1> QED
  BY <1>5, <1>6

LEMMA LinkKeeps ==
  ASSUME RustInv, NEW p \in Procs, Link(p)
  PROVE  RustInv'
<1> DEFINE r == [run[p] EXCEPT !.pc = "begin"]
<1>1. /\ run[p].pc = "link"
      /\ backup' = [a \in Artifacts |-> IF disk[a] = 0 THEN NoLink ELSE disk[a]]
      /\ run' = [run EXCEPT ![p] = r]
      /\ UNCHANGED <<source, edits, disk, shards, journal, made, lease, accepted, kills, faults>>
  BY DEF Link, At, To, world
<1>2. run[p] \in RunType /\ r \in RunType /\ r = [run[p] EXCEPT !.pc = "begin"]
  BY StepsAre DEF RustInv, TypeOK, RunType
<1> HIDE DEF r
<1>3. ProcInv(p) /\ journal = NoJournal /\ ~Open
  BY <1>1 DEF RustInv, ProcInv, Open, NoJournal, Preparing
<1>4. backup' \in [Artifacts -> Generations \cup {NoLink}]
  BY <1>1 DEF RustInv, TypeOK
<1>5. /\ r.pc = "begin" /\ run[p].pc # "idle" /\ faults' \in 0..MaxFaults
      /\ made' \in Seq([bound : Sources, read : Sources]) /\ Len(made') = Len(made)
  BY <1>1, <1>2 DEF RustInv, TypeOK, RunType
<1>6. run'[p] = r /\ r.pc = "begin" /\ (ProcInv(p)' => RustInv')
  BY <1>1, <1>2, <1>3, <1>4, <1>5, CalmKeeps
<1>7. ProcInv(p)'
  BY <1>1, <1>2, <1>3, <1>6, PublishingIs
     DEF ProcInv, Preparing, AfterShard, AfterManifest, AfterPointer, RunType
<1> QED
  BY <1>6, <1>7

LEMMA PlanKeeps ==
  ASSUME RustInv, NEW p \in Procs, Plan(p)
  PROVE  RustInv'
<1> DEFINE r == [run[p] EXCEPT !.pc = "scan", !.before = disk["manifest"],
                               !.after = Len(made) + 1, !.prov = source]
<1>1. /\ run[p].pc = "plan" /\ Len(made) < MaxGenerations
      /\ run' = [run EXCEPT ![p] = r]
      /\ made' = Append(made, [bound |-> source, read |-> source])
      /\ UNCHANGED <<source, edits, disk, shards, backup, journal, lease, accepted, kills, faults>>
  BY DEF Plan, At, To, world, files
<1>2. /\ ProcInv(p) /\ journal = NoJournal /\ ~Open
      /\ run[p].after = 0 /\ run[p].result = "none" /\ run[p].undone = {}
  BY <1>1 DEF RustInv, ProcInv, Open, NoJournal
<1>3. /\ \A a \in Artifacts : disk[a] = accepted
      /\ disk["manifest"] = accepted /\ accepted <= Len(made)
  BY <1>2 DEF RustInv, DiskInv, Artifacts
<1>4. /\ made \in Seq([bound : Sources, read : Sources]) /\ Len(made) \in Nat
      /\ Len(made) + 1 \in Generations /\ disk["manifest"] \in Generations /\ source \in Sources
  <2>1. made \in Seq([bound : Sources, read : Sources]) /\ source \in Sources
    BY DEF RustInv, TypeOK
  <2>2. disk["manifest"] \in Generations
    BY DEF RustInv, TypeOK, Artifacts
  <2>3. Len(made) \in Nat
    BY <2>1
  <2> QED
    BY <1>1, <2>1, <2>2, <2>3, BoundsAreNat DEF Generations
<1>5. /\ run[p] \in RunType /\ r \in RunType
      /\ r.pc = "scan" /\ r.before = accepted /\ r.after = Len(made) + 1
      /\ r.undone = {} /\ r.result = "none"
  <2>1. run[p] \in RunType /\ "scan" \in Steps
    BY StepsAre DEF RustInv, TypeOK, RunType
  <2> QED
    BY <2>1, <1>2, <1>3, <1>4 DEF RunType
<1> HIDE DEF r
<1>7. /\ made' \in Seq([bound : Sources, read : Sources]) /\ Len(made') = Len(made) + 1
  BY <1>1, <1>4
<1>8. run' \in [Procs -> RunType] /\ run'[p] = r /\ \A q \in Procs \ {p} : run'[q] = run[q]
  BY <1>1, <1>5, RunIs DEF RustInv
<1>9. LeaseInv' /\ TypeOK'
  <2>1. shards' \subseteq 1..Len(made') /\ Len(made') <= MaxGenerations
    BY <1>1, <1>4, <1>7, BoundsAreNat DEF RustInv, TypeOK
  <2> QED
    BY <1>1, <1>5, <1>7, <1>8, <2>1, TypesOf DEF RustInv, TypeOK, RunType
<1>10. DiskInv'
  BY <1>1, <1>2, <1>3, <1>4, <1>7 DEF RustInv, DiskInv, Open, TypeOK, Generations
<1>11. ProcInv(p)'
  <2>1. Len(made) + 1 \notin shards /\ accepted < Len(made) + 1
    BY <1>3, <1>4 DEF RustInv, TypeOK, Generations
  <2> QED
    BY <1>1, <1>2, <1>5, <1>7, <1>8, <2>1, PublishingIs
       DEF ProcInv, Preparing, AfterShard, AfterManifest, AfterPointer
<1> QED
  BY <1>1, <1>8, <1>9, <1>10, <1>11, Together

\* From the plan on to the journal, a step of the candidate.
LEMMA CandidateKeeps ==
  ASSUME RustInv, NEW p \in Procs, run[p].pc \in {"scan", "compare", "last_look"},
         NEW r \in RunType, run' = [run EXCEPT ![p] = r],
         r.pc \in {"compare", "last_look", "link", "failed"},
         r.before = run[p].before, r.after = run[p].after,
         r.undone = run[p].undone, r.result = run[p].result,
         UNCHANGED <<files, accepted, world, lease>>,
         made' \in Seq([bound : Sources, read : Sources]), Len(made') = Len(made)
  PROVE  run'[p] = r /\ RustInv'
<1>1. UNCHANGED <<disk, shards, journal, accepted, source, edits, kills, lease, backup>>
      /\ faults' \in 0..MaxFaults /\ backup' \in [Artifacts -> Generations \cup {NoLink}]
  BY DEF files, world, RustInv, TypeOK
<1>2. run'[p] = r /\ (ProcInv(p)' => RustInv')
  BY <1>1, CalmKeeps
<1>3. ProcInv(p)'
  <2>1. ProcInv(p) /\ journal = NoJournal /\ ~Open
    BY DEF RustInv, ProcInv, Open, NoJournal, Preparing
  <2> QED
    BY <1>1, <1>2, <2>1, PublishingIs
       DEF ProcInv, Preparing, AfterShard, AfterManifest, AfterPointer
<1> QED
  BY <1>2, <1>3

LEMMA ScanKeeps ==
  ASSUME RustInv, NEW p \in Procs, Scan(p)
  PROVE  RustInv'
<1> DEFINE r == [run[p] EXCEPT !.pc = "compare", !.read = source]
<1>1. /\ run[p].pc = "scan" /\ run' = [run EXCEPT ![p] = r]
      /\ made' = [made EXCEPT ![run[p].after].read = source]
      /\ UNCHANGED <<files, accepted, world, lease>>
  BY DEF Scan, At, To
<1>2. run[p] \in RunType /\ "compare" \in Steps /\ source \in Sources
  BY StepsAre DEF RustInv, TypeOK, RunType
<1>3. /\ r \in RunType /\ r.pc = "compare" /\ r.before = run[p].before
      /\ r.after = run[p].after /\ r.undone = run[p].undone /\ r.result = run[p].result
  BY <1>2 DEF RunType
<1> HIDE DEF r
<1>4. made' \in Seq([bound : Sources, read : Sources]) /\ Len(made') = Len(made)
  <2>1. run[p].after \in 1..Len(made) /\ made \in Seq([bound : Sources, read : Sources])
    BY <1>1, BoundsAreNat DEF RustInv, TypeOK, ProcInv, Preparing, Generations
  <2>2. made[run[p].after] \in [bound : Sources, read : Sources]
    BY <2>1, ElementOfSeq
  <2>3. [made[run[p].after] EXCEPT !.read = source] \in [bound : Sources, read : Sources]
    BY <2>2, <1>2
  <2> QED
    BY <1>1, <2>1, <2>3, ExceptSeq
<1> QED
  BY <1>1, <1>3, <1>4, CandidateKeeps

LEMMA CompareKeeps ==
  ASSUME RustInv, NEW p \in Procs, Compare(p)
  PROVE  RustInv'
<1> DEFINE l == IF source = run[p].prov THEN "last_look" ELSE "failed"
           r == [run[p] EXCEPT !.pc = l]
<1>1. /\ run[p].pc = "compare" /\ run' = [run EXCEPT ![p] = r]
      /\ made' = [made EXCEPT ![run[p].after].bound = source]
      /\ UNCHANGED <<files, accepted, world, lease>>
  BY DEF Compare, At, To
<1>2. run[p] \in RunType /\ l \in Steps /\ source \in Sources /\ l \in {"last_look", "failed"}
  BY StepsAre DEF RustInv, TypeOK, RunType
<1> HIDE DEF l
<1>3. /\ r \in RunType /\ r.pc = l /\ r.before = run[p].before
      /\ r.after = run[p].after /\ r.undone = run[p].undone /\ r.result = run[p].result
  BY <1>2 DEF RunType
<1> HIDE DEF r
<1>4. made' \in Seq([bound : Sources, read : Sources]) /\ Len(made') = Len(made)
  <2>1. run[p].after \in 1..Len(made) /\ made \in Seq([bound : Sources, read : Sources])
    BY <1>1, BoundsAreNat DEF RustInv, TypeOK, ProcInv, Preparing, Generations
  <2>2. made[run[p].after] \in [bound : Sources, read : Sources]
    BY <2>1, ElementOfSeq
  <2>3. [made[run[p].after] EXCEPT !.bound = source] \in [bound : Sources, read : Sources]
    BY <2>2, <1>2
  <2> QED
    BY <1>1, <2>1, <2>3, ExceptSeq
<1> QED
  BY <1>1, <1>2, <1>3, <1>4, CandidateKeeps

LEMMA LastLookKeeps ==
  ASSUME RustInv, NEW p \in Procs, LastLook(p)
  PROVE  RustInv'
<1> DEFINE l == IF source = made[run[p].after].bound THEN "link" ELSE "failed"
           r == [run[p] EXCEPT !.pc = l]
<1>1. /\ run[p].pc = "last_look" /\ run' = [run EXCEPT ![p] = r] /\ made' = made
      /\ UNCHANGED <<files, accepted, world, lease>>
  BY DEF LastLook, At, To
<1>2. run[p] \in RunType /\ l \in Steps /\ l \in {"link", "failed"}
  BY StepsAre DEF RustInv, TypeOK, RunType
<1> HIDE DEF l
<1>3. /\ r \in RunType /\ r.pc = l /\ r.before = run[p].before
      /\ r.after = run[p].after /\ r.undone = run[p].undone /\ r.result = run[p].result
  BY <1>2 DEF RunType
<1> HIDE DEF r
<1> QED
  BY <1>1, <1>2, <1>3, CandidateKeeps DEF RustInv, TypeOK

LEMMA DiscardKeeps ==
  ASSUME RustInv, NEW p \in Procs, Discard(p)
  PROVE  RustInv'
<1> DEFINE r == [run[p] EXCEPT !.pc = "unlink"]
<1>1. /\ run[p].pc = "discard" /\ backup' = Swept
      /\ run' = [run EXCEPT ![p] = r]
      /\ UNCHANGED <<source, edits, disk, shards, journal, made, lease, accepted, kills, faults>>
  BY DEF Discard, At, To, world
<1>2. run[p] \in RunType /\ "unlink" \in Steps
  BY StepsAre DEF RustInv, TypeOK, RunType
<1>3. r \in RunType /\ r = [run[p] EXCEPT !.pc = "unlink"] /\ r.pc = "unlink"
  BY <1>2 DEF RunType
<1> HIDE DEF r
<1>4. ProcInv(p) /\ \A a \in Artifacts : disk[a] = accepted
  BY <1>1 DEF RustInv, DiskInv, ProcInv
<1>5. /\ backup' \in [Artifacts -> Generations \cup {NoLink}] /\ faults' \in 0..MaxFaults
      /\ made' \in Seq([bound : Sources, read : Sources]) /\ Len(made') = Len(made)
      /\ run[p].pc # "idle" /\ r.pc # "idle"
  BY <1>1, <1>3 DEF Swept, RustInv, TypeOK
<1>6. run'[p] = r /\ (ProcInv(p)' => RustInv')
  BY <1>1, <1>3, <1>4, <1>5, CalmKeeps
<1>7. Open' <=> Open
  BY <1>1 DEF Open
<1>8. ProcInv(p)'
  BY <1>1, <1>2, <1>3, <1>4, <1>6, <1>7, PublishingIs
     DEF ProcInv, Preparing, AfterShard, AfterManifest, AfterPointer, RunType
<1> QED
  BY <1>6, <1>8

\* Leaving and being killed: the process is idle and the files stay as they are.
LEMMA GoneKeeps ==
  ASSUME RustInv, NEW p \in Procs, run[p].pc # "idle",
         lease' = Free, run' = [run EXCEPT ![p] = Idle], kills' \in 0..MaxKills,
         UNCHANGED <<source, edits, files, made, accepted, faults>>
  PROVE  RustInv'
<1>1. run' \in [Procs -> RunType] /\ run'[p] = Idle /\ \A q \in Procs \ {p} : run'[q] = run[q]
  BY RunIs, BoundsAreNat DEF RustInv
<1>2. \A q \in Procs : run'[q].pc = "idle"
  BY <1>1, Alone, BoundsAreNat
<1>3. TypeOK' /\ LeaseInv'
  BY <1>1, <1>2 DEF RustInv, TypeOK, RunType, LeaseInv, files
<1>4. DiskInv'
  BY DEF RustInv, DiskInv, Open, Undoable, files
<1>5. ProcInv(p)'
  BY <1>1, PublishingIs DEF ProcInv, Idle, Preparing, AfterShard, AfterManifest, AfterPointer
<1> QED
  BY <1>1, <1>3, <1>4, <1>5, Together

LEMMA LeaveKeeps ==
  ASSUME RustInv, NEW p \in Procs, Leave(p)
  PROVE  RustInv'
BY GoneKeeps DEF Leave, At, world, RustInv, TypeOK

LEMMA LeaveRaisesKeeps ==
  ASSUME RustInv, NEW p \in Procs, LeaveRaises(p)
  PROVE  RustInv'
<1> DEFINE r == [run[p] EXCEPT !.pc = "stuck"]
<1>1. /\ run[p].pc = "leave" /\ run[p].result = "failed" /\ run' = [run EXCEPT ![p] = r]
      /\ UNCHANGED <<source, edits, disk, shards, backup, journal, made, lease, accepted, kills, faults>>
  BY DEF LeaveRaises, At, To, files, world
<1>2. run[p] \in RunType /\ "stuck" \in Steps
  BY StepsAre DEF RustInv, TypeOK, RunType
<1>3. r \in RunType /\ r = [run[p] EXCEPT !.pc = "stuck"] /\ r.pc = "stuck"
  BY <1>2 DEF RunType
<1> HIDE DEF r
<1>4. ProcInv(p)
  BY DEF RustInv
<1>5. /\ backup' \in [Artifacts -> Generations \cup {NoLink}] /\ faults' \in 0..MaxFaults
      /\ made' \in Seq([bound : Sources, read : Sources]) /\ Len(made') = Len(made)
      /\ run[p].pc # "idle" /\ r.pc # "idle"
  BY <1>1, <1>3 DEF RustInv, TypeOK
<1>6. run'[p] = r /\ (ProcInv(p)' => RustInv')
  BY <1>1, <1>3, <1>4, <1>5, CalmKeeps
<1>7. Open' <=> Open
  BY <1>1 DEF Open
<1>8. ProcInv(p)'
  BY <1>1, <1>2, <1>3, <1>4, <1>6, <1>7, PublishingIs
     DEF ProcInv, Preparing, AfterShard, AfterManifest, AfterPointer, RunType
<1> QED
  BY <1>6, <1>8

LEMMA KillKeeps ==
  ASSUME RustInv, NEW p \in Procs, Kill(p)
  PROVE  RustInv'
<1>1. run[p].pc # "idle" /\ lease = p
  BY Alone DEF Kill, At
<1>2. kills' \in 0..MaxKills
  BY BoundsAreNat DEF Kill, RustInv, TypeOK
<1> QED
  BY <1>1, <1>2, GoneKeeps DEF Kill

\* Of the repository the publication knows nothing.
LEMMA EditKeeps ==
  ASSUME RustInv, Edit
  PROVE  RustInv'
<1>1. edits' \in 0..MaxEdits /\ source' \in Sources
  BY BoundsAreNat DEF Edit, RustInv, TypeOK
<1>2. UNCHANGED <<disk, shards, backup, journal, made, lease, run, accepted, kills, faults>>
  BY DEF Edit, files
<1>3. TypeOK' /\ LeaseInv'
  BY <1>1, <1>2 DEF RustInv, TypeOK, LeaseInv
<1>4. DiskInv'
  BY <1>2 DEF RustInv, DiskInv, Open, Undoable
<1>5. ASSUME NEW p \in Procs PROVE ProcInv(p)'
  BY <1>2 DEF RustInv, ProcInv, Open
<1> QED
  BY <1>3, <1>4, <1>5 DEF RustInv

LEMMA StutterKeeps ==
  ASSUME RustInv, UNCHANGED vars
  PROVE  RustInv'
<1>1. TypeOK' /\ LeaseInv'
  BY DEF RustInv, TypeOK, LeaseInv, vars
<1>2. DiskInv'
  BY DEF RustInv, DiskInv, Open, Undoable, vars
<1>3. ASSUME NEW p \in Procs PROVE ProcInv(p)'
  BY DEF RustInv, ProcInv, Open, vars
<1> QED
  BY <1>1, <1>2, <1>3 DEF RustInv

LEMMA RaiseKeeps ==
  ASSUME RustInv, NEW p \in Procs, Raise(p)
  PROVE  RustInv'
<1>1. /\ faults' \in 0..MaxFaults /\ made \in Seq([bound : Sources, read : Sources])
      /\ UNCHANGED <<disk, shards, journal, accepted, source, edits, kills, lease, made>>
  BY BoundsAreNat DEF Raise, RustInv, TypeOK
<1>2. run[p] \in RunType /\ {"failed", "undo", "discard", "leave"} \subseteq Steps
  BY StepsAre DEF RustInv, TypeOK, RunType
<1>3. ProcInv(p) /\ (Open' <=> Open)
  BY <1>1 DEF RustInv, Open
<1>4. ASSUME run[p].pc \in {"plan"} \cup Preparing, backup' = Swept, To(p, "failed")
      PROVE  RustInv'
  <2> DEFINE r == [run[p] EXCEPT !.pc = "failed"]
  <2>1. r \in RunType /\ r = [run[p] EXCEPT !.pc = "failed"] /\ run' = [run EXCEPT ![p] = r]
    BY <1>2, <1>4 DEF RunType, To
  <2> HIDE DEF r
  <2>2. /\ r.pc = "failed" /\ r.after = run[p].after /\ r.before = run[p].before
        /\ r.result = run[p].result /\ r.undone = run[p].undone
    BY <1>2, <2>1 DEF RunType
  <2>3. journal = NoJournal /\ ~Open /\ run[p].result = "none" /\ run[p].undone = {}
    BY <1>3, <1>4 DEF ProcInv, Preparing, Open, NoJournal
  <2>4. run[p].after > 0 => run[p].before = accepted
    BY <1>3, <1>4 DEF ProcInv, Preparing
  <2>5. run[p].pc # "idle" /\ backup' \in [Artifacts -> Generations \cup {NoLink}]
    BY <1>4 DEF Preparing, Swept
  <2>6. run'[p] = r /\ (ProcInv(p)' => RustInv')
    BY <1>1, <2>1, <2>2, <2>3, <2>5, CalmKeeps
  <2>7. ProcInv(p)'
    BY <1>1, <1>3, <2>2, <2>3, <2>4, <2>6, PublishingIs
       DEF ProcInv, Preparing, AfterShard, AfterManifest, AfterPointer
  <2> QED
    BY <2>6, <2>7
<1>5. ASSUME run[p].pc \in Publishing, backup' = backup, To(p, "undo")
      PROVE  RustInv'
  <2> DEFINE r == [run[p] EXCEPT !.pc = "undo"]
  <2>1. r \in RunType /\ r = [run[p] EXCEPT !.pc = "undo"] /\ run' = [run EXCEPT ![p] = r]
    BY <1>2, <1>5 DEF RunType, To
  <2> HIDE DEF r
  <2>2. /\ r.pc = "undo" /\ r.after = run[p].after /\ r.before = run[p].before
        /\ r.result = run[p].result /\ r.undone = run[p].undone
    BY <1>2, <2>1 DEF RunType
  <2>3. Open /\ run[p].result = "none" /\ run[p].undone = {} /\ run[p].before = accepted
    BY <1>3, <1>5, PublishingIs DEF ProcInv
  <2>5. run[p].pc # "idle"
    BY <1>5, PublishingIs
  <2>6. run'[p] = r /\ (ProcInv(p)' => RustInv')
    BY <1>1, <1>5, <2>1, <2>2, <2>5, CalmKeeps DEF RustInv, TypeOK
  <2>7. ProcInv(p)'
    BY <1>1, <1>3, <2>2, <2>3, <2>6, PublishingIs
       DEF ProcInv, Preparing, AfterShard, AfterManifest, AfterPointer
  <2> QED
    BY <2>6, <2>7
<1>6. ASSUME run[p].pc = "committing", backup' = backup, To(p, "discard")
      PROVE  RustInv'
  <2> DEFINE r == [run[p] EXCEPT !.pc = "discard"]
  <2>1. r \in RunType /\ r = [run[p] EXCEPT !.pc = "discard"] /\ run' = [run EXCEPT ![p] = r]
    BY <1>2, <1>6 DEF RunType, To
  <2> HIDE DEF r
  <2>2. /\ r.pc = "discard" /\ r.after = run[p].after /\ r.before = run[p].before
        /\ r.result = run[p].result /\ r.undone = run[p].undone
    BY <1>2, <2>1 DEF RunType
  <2>3. /\ ~Open /\ journal.phase # "none" /\ run[p].result = "refreshed"
        /\ run[p].after = accepted /\ accepted > 0 /\ run[p].undone = {}
    BY <1>3, <1>6 DEF ProcInv, Open, AcceptedPhases
  <2>6. run'[p] = r /\ (ProcInv(p)' => RustInv')
    BY <1>1, <1>6, <2>1, <2>2, CalmKeeps DEF RustInv, TypeOK
  <2>7. ProcInv(p)'
    BY <1>1, <1>3, <2>2, <2>3, <2>6, PublishingIs
       DEF ProcInv, Preparing, AfterShard, AfterManifest, AfterPointer
  <2> QED
    BY <2>6, <2>7
<1>7. ASSUME Ending(p), journal.phase \in AcceptedPhases, backup' = backup,
             run' = [run EXCEPT ![p].pc = "leave",
                                ![p].result = IF run[p].after = 0 THEN "failed" ELSE @]
      PROVE  RustInv'
  <2> DEFINE x == IF run[p].after = 0 THEN "failed" ELSE run[p].result
             r == [run[p] EXCEPT !.pc = "leave", !.result = x]
  <2>1. /\ r \in RunType /\ run' = [run EXCEPT ![p] = r]
        /\ r.pc = "leave" /\ r.after = run[p].after /\ r.before = run[p].before
        /\ r.result = x /\ r.undone = run[p].undone
    BY <1>2, <1>7 DEF RunType
  <2> HIDE DEF r
  <2>2. ~Open /\ (run[p].result = "refreshed" => run[p].after = accepted /\ accepted > 0)
    BY <1>3, <1>7 DEF ProcInv, Open, Ending
  <2>3. run[p].after > 0 => run[p].result = "refreshed"
    BY <1>3, <1>7, <2>2 DEF ProcInv, Ending
  <2>4. run[p].result # "failed" /\ run[p].after \in Nat /\ run[p].pc # "idle"
    BY <1>2, <1>3, <1>7 DEF ProcInv, Ending, RunType, Generations
  <2>6. run'[p] = r /\ (ProcInv(p)' => RustInv')
    BY <1>1, <1>7, <2>1, <2>4, CalmKeeps DEF RustInv, TypeOK
  <2>7. ProcInv(p)'
    BY <1>1, <1>3, <2>1, <2>2, <2>3, <2>4, <2>6, PublishingIs
       DEF ProcInv, Preparing, AfterShard, AfterManifest, AfterPointer
  <2> QED
    BY <2>6, <2>7
<1>8. ASSUME Undoing(p), backup' = backup, Report(p)
      PROVE  RustInv'
  <2> DEFINE r == [run[p] EXCEPT !.pc = "leave", !.result = "failed", !.whole = (run[p].after = 0)]
  <2>1. /\ r \in RunType /\ run' = [run EXCEPT ![p] = r]
        /\ r.pc = "leave" /\ r.after = run[p].after
        /\ r.result = "failed" /\ (r.whole <=> r.after = 0)
    BY <1>2, <1>8 DEF RunType, Report
  <2> HIDE DEF r
  <2>4. run[p].pc # "idle" /\ r.after \in Nat
    BY <1>2, <1>8, <2>1 DEF Undoing, Ending, At, RunType, Generations
  <2>6. run'[p] = r /\ (ProcInv(p)' => RustInv')
    BY <1>1, <1>8, <2>1, <2>4, CalmKeeps DEF RustInv, TypeOK
  <2>7. ProcInv(p)'
    BY <1>1, <2>1, <2>4, <2>6, PublishingIs
       DEF ProcInv, Preparing, AfterShard, AfterManifest, AfterPointer
  <2> QED
    BY <2>6, <2>7
<1> QED
  BY <1>4, <1>5, <1>6, <1>7, <1>8 DEF Raise, Preparing

\* Which file a rollback moves back next.
LEMMA NextUndoIs ==
  ASSUME NEW p \in Procs
  PROVE  /\ NextUndo(p) \in 1..4
         /\ NextUndo(p) <= 3 => UndoOrder[NextUndo(p)] \in Artifacts
         /\ NextUndo(p) = 4 => Artifacts \subseteq run[p].undone
<1> DEFINE u == run[p].undone
           Stops(i) == /\ \A j \in 1..(i - 1) : UndoOrder[j] \in u
                       /\ i <= 3 => UndoOrder[i] \notin u
<1>1. UndoOrder[1] = "state" /\ UndoOrder[2] = "pointer" /\ UndoOrder[3] = "manifest"
  BY DEF UndoOrder
<1>2. \E i \in 1..4 : Stops(i)
  <2>1. CASE UndoOrder[1] \notin u
    <3>1. Stops(1)
      BY <2>1
    <3> QED
      BY <3>1
  <2>2. CASE UndoOrder[1] \in u /\ UndoOrder[2] \notin u
    <3>1. Stops(2)
      <4>1. \A j \in 1..(2 - 1) : j = 1
        OBVIOUS
      <4> QED
        BY <2>2, <4>1
    <3> QED
      BY <3>1
  <2>3. CASE UndoOrder[1] \in u /\ UndoOrder[2] \in u /\ UndoOrder[3] \notin u
    <3>1. Stops(3)
      <4>1. \A j \in 1..(3 - 1) : j = 1 \/ j = 2
        OBVIOUS
      <4> QED
        BY <2>3, <4>1
    <3> QED
      BY <3>1
  <2>4. CASE UndoOrder[1] \in u /\ UndoOrder[2] \in u /\ UndoOrder[3] \in u
    <3>1. Stops(4)
      <4>1. \A j \in 1..(4 - 1) : j = 1 \/ j = 2 \/ j = 3
        OBVIOUS
      <4> QED
        BY <2>4, <4>1
    <3> QED
      BY <3>1
  <2> QED
    BY <2>1, <2>2, <2>3, <2>4
<1>3. NextUndo(p) = CHOOSE i \in 1..4 : Stops(i)
  BY DEF NextUndo
<1> HIDE DEF Stops
<1>4. NextUndo(p) \in 1..4 /\ Stops(NextUndo(p))
  BY <1>2, <1>3
<1>5. NextUndo(p) \in {1, 2, 3, 4}
  BY <1>4
<1>6. ASSUME NextUndo(p) = 4 PROVE Artifacts \subseteq run[p].undone
  <2>1. \A j \in 1..(4 - 1) : UndoOrder[j] \in u
    BY <1>4, <1>6 DEF Stops
  <2>2. UndoOrder[1] \in u /\ UndoOrder[2] \in u /\ UndoOrder[3] \in u
    BY <2>1
  <2> QED
    BY <1>1, <2>2 DEF Artifacts
<1> QED
  BY <1>1, <1>4, <1>5, <1>6 DEF Artifacts

LEMMA UndoRaisesKeeps ==
  ASSUME RustInv, NEW p \in Procs, NEW a \in Artifacts, UndoRaises(p, a)
  PROVE  RustInv'
<1> DEFINE r == [run[p] EXCEPT !.pc = "leave", !.result = "failed", !.whole = (run[p].after = 0)]
<1>1. /\ run[p].pc = "undo" /\ run' = [run EXCEPT ![p] = r]
      /\ UNCHANGED <<source, edits, disk, shards, backup, journal, made, lease, accepted, kills, faults>>
  BY DEF UndoRaises, Report, At, files, world
<1>2. /\ r \in RunType /\ r.pc = "leave" /\ r.after = run[p].after
      /\ r.result = "failed" /\ (r.whole <=> r.after = 0) /\ r.after \in Nat
  <2>1. run[p] \in RunType /\ "leave" \in Steps
    BY StepsAre DEF RustInv, TypeOK, RunType
  <2>2. run[p].after \in Nat
    BY <2>1 DEF RunType, Generations
  <2> QED
    BY <2>1, <2>2 DEF RunType
<1> HIDE DEF r
<1>3. run'[p] = r /\ (ProcInv(p)' => RustInv')
  BY <1>1, <1>2, CalmKeeps DEF RustInv, TypeOK
<1>4. ProcInv(p)'
  BY <1>2, <1>3, PublishingIs DEF ProcInv, Preparing, AfterShard, AfterManifest, AfterPointer
<1> QED
  BY <1>3, <1>4

LEMMA UndoKeeps ==
  ASSUME RustInv, NEW p \in Procs, NEW a \in Artifacts, Undo(p, a)
  PROVE  RustInv'
<1> DEFINE r == [run[p] EXCEPT !.undone = run[p].undone \cup {a}]
           b == IF a \in journal.existed THEN backup[a] ELSE 0
<1>1. /\ run[p].pc = "undo" /\ run' = [run EXCEPT ![p] = r]
      /\ a \in journal.existed => backup[a] # NoLink
      /\ disk' = [disk EXCEPT ![a] = b] /\ backup' = [backup EXCEPT ![a] = NoLink]
      /\ UNCHANGED <<source, edits, shards, journal, made, lease, accepted, kills, faults>>
  BY DEF Undo, At, world
<1>2. /\ r \in RunType /\ r.pc = "undo" /\ r.after = run[p].after /\ r.before = run[p].before
      /\ r.result = run[p].result /\ r.undone = run[p].undone \cup {a}
  <2>1. run[p] \in RunType
    BY DEF RustInv, TypeOK, RunType
  <2> QED
    BY <2>1, <1>1 DEF RunType
<1>3. ProcInv(p) /\ Open /\ Open' /\ Undoable
  BY <1>1 DEF RustInv, DiskInv, ProcInv, Open
<1>4. b = accepted
  BY <1>1, <1>3 DEF Undoable, RustInv, TypeOK, Generations
<1> HIDE DEF r, b
<1>5. /\ disk' \in [Artifacts -> Generations] /\ disk'[a] = accepted
      /\ backup' \in [Artifacts -> Generations \cup {NoLink}] /\ backup'[a] = NoLink
      /\ \A c \in Artifacts \ {a} : disk'[c] = disk[c] /\ backup'[c] = backup[c]
  BY <1>1, <1>4 DEF RustInv, TypeOK
<1>6. run' \in [Procs -> RunType] /\ run'[p] = r /\ \A q \in Procs \ {p} : run'[q] = run[q]
  BY <1>1, <1>2, RunIs DEF RustInv
<1>7. LeaseInv' /\ TypeOK'
  BY <1>1, <1>2, <1>5, <1>6, TypesOf DEF RustInv, TypeOK, RunType
<1>8. DiskInv'
  <2>1. /\ accepted' = accepted /\ journal' = journal /\ made' = made /\ shards' = shards
        /\ accepted \in Nat /\ journal.after \in Nat
    BY <1>1 DEF RustInv, TypeOK, Generations
  <2>2. \A c \in Artifacts :
          /\ disk'[c] \in {accepted, journal.after}
          /\ accepted > 0 => backup'[c] = accepted \/ (backup'[c] = NoLink /\ disk'[c] = accepted)
    BY <1>3, <1>5 DEF Undoable
  <2>3. disk'["pointer"] = journal.after => journal.after \in shards
    BY <1>3, <1>5, <2>1 DEF Undoable, Artifacts
  <2>4. Undoable'
    BY <1>3, <2>1, <2>2, <2>3 DEF Undoable
  <2> QED
    BY <1>3, <2>1, <2>4 DEF RustInv, DiskInv
<1>9. ProcInv(p)'
  <2>1. \A c \in r.undone : disk'[c] = accepted
    BY <1>1, <1>2, <1>3, <1>5 DEF ProcInv, RustInv, TypeOK, RunType
  <2> QED
    BY <1>1, <1>2, <1>3, <1>6, <2>1, PublishingIs
       DEF ProcInv, Preparing, AfterShard, AfterManifest, AfterPointer
<1> QED
  BY <1>1, <1>6, <1>7, <1>8, <1>9, Together

LEMMA UndoShardKeeps ==
  ASSUME RustInv, NEW p \in Procs, UndoShard(p)
  PROVE  RustInv'
<1> DEFINE r == [run[p] EXCEPT !.pc = "discard"]
<1>1. /\ run[p].pc = "undo" /\ NextUndo(p) = 4 /\ run' = [run EXCEPT ![p] = r]
      /\ shards' = IF journal.shard THEN shards ELSE shards \ {journal.after}
      /\ UNCHANGED <<source, edits, disk, backup, journal, made, lease, accepted, kills, faults>>
  BY DEF UndoShard, At, To, world
<1>2. /\ r \in RunType /\ r.pc = "discard" /\ r.after = run[p].after /\ r.before = run[p].before
      /\ r.result = run[p].result /\ r.undone = run[p].undone
  <2>1. run[p] \in RunType /\ "discard" \in Steps
    BY StepsAre DEF RustInv, TypeOK, RunType
  <2> QED
    BY <2>1 DEF RunType
<1> HIDE DEF r
<1>3. ProcInv(p) /\ Open /\ Open' /\ Undoable
  BY <1>1 DEF RustInv, DiskInv, ProcInv, Open
<1>4. \A a \in Artifacts : disk[a] = accepted
  BY <1>1, <1>3, NextUndoIs DEF ProcInv
<1>5. /\ shards' \subseteq shards /\ (accepted > 0 => accepted \in shards')
      /\ accepted \in Nat /\ journal.after \in Nat
  BY <1>1, <1>3 DEF RustInv, TypeOK, DiskInv, Undoable, Generations
<1>6. run' \in [Procs -> RunType] /\ run'[p] = r /\ \A q \in Procs \ {p} : run'[q] = run[q]
  BY <1>1, <1>2, RunIs DEF RustInv
<1>7. LeaseInv' /\ TypeOK'
  BY <1>1, <1>2, <1>5, <1>6, TypesOf DEF RustInv, TypeOK, RunType
<1>8. DiskInv'
  <2>1. disk["pointer"] # journal.after
    BY <1>3, <1>4, <1>5 DEF Undoable, Artifacts
  <2>2. Undoable'
    BY <1>1, <1>3, <2>1 DEF Undoable
  <2> QED
    BY <1>1, <1>3, <1>5, <2>2 DEF RustInv, DiskInv
<1>9. ProcInv(p)'
  BY <1>1, <1>2, <1>3, <1>4, <1>6, PublishingIs
     DEF ProcInv, Preparing, AfterShard, AfterManifest, AfterPointer, Open
<1> QED
  BY <1>1, <1>6, <1>7, <1>8, <1>9, Together

LEMMA UnlinkKeeps ==
  ASSUME RustInv, NEW p \in Procs, Unlink(p)
  PROVE  RustInv'
<1> DEFINE l == IF run[p].after = 0 THEN Recovered(p) ELSE "leave"
           x == IF run[p].after > 0 /\ run[p].result = "none" THEN "failed" ELSE run[p].result
           r == [run[p] EXCEPT !.pc = l, !.undone = {}, !.result = x]
<1>1. /\ run[p].pc = "unlink" /\ run' = [run EXCEPT ![p] = r] /\ journal' = NoJournal
      /\ UNCHANGED <<source, edits, disk, shards, backup, made, lease, accepted, kills, faults>>
  BY DEF Unlink, At, world
<1>2. run[p] \in RunType /\ l \in Steps /\ l \in {"plan", "leave"} /\ (l = "plan" => run[p].after = 0)
  BY StepsAre DEF RustInv, TypeOK, RunType, Recovered
<1>3. /\ r \in RunType /\ r.pc = l /\ r.after = run[p].after /\ r.before = run[p].before
      /\ r.result = x /\ r.undone = {} /\ run[p].after \in Nat
      /\ x \in {"none", "refreshed", "failed"}
  <2>1. x \in {"none", "refreshed", "failed"}
    BY <1>2 DEF RunType
  <2>2. run[p].after \in Nat
    BY <1>2 DEF RunType, Generations
  <2> HIDE DEF x, l
  <2> QED
    BY <1>2, <2>1, <2>2 DEF RunType
<1>4. /\ run[p].after = 0 => x = run[p].result
      /\ run[p].after > 0 /\ run[p].result = "none" => x = "failed"
      /\ run[p].after > 0 /\ run[p].result # "none" => x = run[p].result
  BY <1>3
<1> HIDE DEF r, l, x
<1>5. /\ ProcInv(p) /\ ~Open' /\ journal'.phase = "none"
      /\ \A a \in Artifacts : disk[a] = accepted
  BY <1>1 DEF RustInv, DiskInv, ProcInv, Open, NoJournal
<1>6. run' \in [Procs -> RunType] /\ run'[p] = r /\ \A q \in Procs \ {p} : run'[q] = run[q]
  BY <1>1, <1>3, RunIs DEF RustInv
<1>7. LeaseInv' /\ TypeOK'
  <2>1. run[p].pc # "idle" /\ r.pc # "idle"
    BY <1>1, <1>2, <1>3
  <2>2. LeaseInv'
    BY <1>1, <1>6, <2>1, TypesOf
  <2> QED
    BY <1>1, <1>6, <2>1, <2>2, TypesOf, BoundsAreNat DEF RustInv, TypeOK, RunType
<1>8. DiskInv'
  BY <1>1, <1>5 DEF RustInv, DiskInv
<1>9. ProcInv(p)'
  <2>1. run[p].result # "failed"
    BY <1>1, <1>5 DEF ProcInv
  <2>2. run[p].result = "refreshed" => run[p].after = accepted /\ accepted > 0
    BY <1>5 DEF ProcInv
  <2>3. run[p].result = "none" /\ run[p].after > 0 => run[p].before = accepted
    BY <1>1, <1>5 DEF ProcInv
  <2>4. run[p].after = 0 => run[p].result = "none"
    BY <1>3, <2>1, <2>2, <1>2 DEF RunType
  <2> QED
    BY <1>1, <1>2, <1>3, <1>4, <1>5, <1>6, <2>1, <2>2, <2>3, <2>4, PublishingIs
       DEF ProcInv, Preparing, AfterShard, AfterManifest, AfterPointer
<1> QED
  BY <1>1, <1>6, <1>7, <1>8, <1>9, Together

LEMMA BeginJournalKeeps ==
  ASSUME RustInv, NEW p \in Procs, BeginJournal(p)
  PROVE  RustInv'
<1> DEFINE r == [run[p] EXCEPT !.pc = "shard"]
           e == {a \in Artifacts : disk[a] # 0}
           j == [phase |-> "prepared", after |-> run[p].after, existed |-> e,
                 shard |-> run[p].after \in shards]
<1>1. /\ run[p].pc = "begin" /\ run' = [run EXCEPT ![p] = r] /\ journal' = j
      /\ UNCHANGED <<source, edits, disk, shards, backup, made, lease, accepted, kills, faults>>
  BY DEF BeginJournal, At, To, world
<1>2. /\ r \in RunType /\ r.pc = "shard" /\ r.after = run[p].after /\ r.before = run[p].before
      /\ r.result = run[p].result /\ r.undone = run[p].undone /\ run[p].after \in Generations
  <2>1. run[p] \in RunType /\ "shard" \in Steps
    BY StepsAre DEF RustInv, TypeOK, RunType
  <2> QED
    BY <2>1 DEF RunType
<1> HIDE DEF r
<1>3. /\ ProcInv(p) /\ ~Open
      /\ run[p].after = Len(made) /\ accepted < run[p].after /\ run[p].after \notin shards
      /\ \A a \in Artifacts : backup[a] = IF disk[a] = 0 THEN NoLink ELSE disk[a]
  BY <1>1 DEF RustInv, ProcInv, Open, NoJournal, Preparing
<1>4. /\ \A a \in Artifacts : disk[a] = accepted
      /\ accepted <= Len(made) /\ (accepted > 0 => accepted \in shards) /\ accepted \in Nat
  BY <1>3 DEF RustInv, DiskInv, TypeOK, Generations
<1>5. e = IF accepted = 0 THEN {} ELSE Artifacts
  BY <1>4
<1> HIDE DEF e
<1>6. /\ j.phase = "prepared" /\ j.after = run[p].after /\ j.existed = e /\ ~j.shard
      /\ j \in [phase : {"none", "prepared", "committing"} \cup {PhaseOf[f] : f \in Published},
                after : Generations, existed : SUBSET Artifacts, shard : BOOLEAN]
  <2>1. e \in SUBSET Artifacts
    BY <1>5
  <2>2. (run[p].after \in shards) = FALSE
    BY <1>3
  <2>3. j = [phase |-> "prepared", after |-> run[p].after, existed |-> e, shard |-> FALSE]
    BY <2>2
  <2> HIDE DEF j
  <2> QED
    BY <1>2, <2>1, <2>3
<1> HIDE DEF j
<1>7. run' \in [Procs -> RunType] /\ run'[p] = r /\ \A q \in Procs \ {p} : run'[q] = run[q]
  BY <1>1, <1>2, RunIs DEF RustInv
<1>8. LeaseInv' /\ TypeOK'
  BY <1>1, <1>2, <1>6, <1>7, TypesOf DEF RustInv, TypeOK, RunType
<1>9. Open'
  BY <1>1, <1>6 DEF Open, AcceptedPhases
<1>10. DiskInv'
  <2>1. \A a \in Artifacts : accepted > 0 => backup[a] = accepted
    BY <1>3, <1>4
  <2>2. disk["pointer"] # j.after
    BY <1>2, <1>3, <1>4, <1>6 DEF Artifacts, Generations
  <2>3. Undoable'
    BY <1>1, <1>3, <1>4, <1>5, <1>6, <2>1, <2>2 DEF Undoable
  <2> QED
    BY <1>1, <1>4, <1>6, <1>9, <2>3 DEF DiskInv
<1>11. ProcInv(p)'
  <2>1. /\ run[p].before = accepted /\ run[p].result = "none" /\ run[p].undone = {}
    BY <1>1, <1>3 DEF ProcInv, Preparing
  <2>2. \A a \in Artifacts : accepted > 0 => backup[a] = accepted
    BY <1>3, <1>4
  <2> QED
    BY <1>1, <1>2, <1>3, <1>6, <1>7, <1>9, <2>1, <2>2, PublishingIs
       DEF ProcInv, Preparing, AfterShard, AfterManifest, AfterPointer
<1> QED
  BY <1>1, <1>7, <1>8, <1>10, <1>11, Together

LEMMA ReplaceKeeps ==
  ASSUME RustInv, NEW p \in Procs, NEW f \in Published, Replace(p, f)
  PROVE  RustInv'
<1> DEFINE r == [run[p] EXCEPT !.pc = Advance[f]]
           g == run[p].after
<1>1. /\ run[p].pc = f /\ f \in Publishing
      /\ UNCHANGED <<source, edits, backup, journal, made, lease, accepted, kills, faults>>
  BY PublishingIs DEF Replace, At, world, Published
<1>2. /\ f = "shard" => shards' = shards \cup {g} /\ disk' = disk
      /\ f # "shard" => disk' = [disk EXCEPT ![f] = g] /\ shards' = shards
  BY DEF Replace
<1>3. /\ ProcInv(p) /\ Open /\ Open' /\ Undoable /\ journal.after = g
      /\ g = Len(made) /\ accepted < g /\ run[p].before = accepted
      /\ run[p].result = "none" /\ run[p].undone = {}
      /\ f # "shard" => g \in shards
  BY <1>1, PublishingIs DEF RustInv, DiskInv, ProcInv, Open, AfterShard
<1>4. run' = [run EXCEPT ![p] = r]
  BY <1>3 DEF Replace, To, PointerLoads
<1>5. /\ r \in RunType /\ r.pc = Advance[f] /\ r.after = g /\ r.before = accepted
      /\ r.result = "none" /\ r.undone = {} /\ g \in Generations
  <2>1. run[p] \in RunType /\ Advance[f] \in Steps
    BY StepsAre DEF RustInv, TypeOK, RunType, Published, Advance
  <2> QED
    BY <1>3, <2>1 DEF RunType
<1> HIDE DEF r, g
<1>6. /\ disk' \in [Artifacts -> Generations] /\ shards' \subseteq 1..Len(made)
      /\ shards \subseteq shards' /\ g \in shards'
      /\ \A a \in Artifacts : disk'[a] = IF a = f THEN g ELSE disk[a]
      /\ accepted \in Nat /\ g \in Nat
  <2>1. /\ accepted \in Nat /\ g \in Nat /\ g \in 1..Len(made)
        /\ disk \in [Artifacts -> Generations] /\ shards \subseteq 1..Len(made)
    BY <1>3, <1>5 DEF RustInv, TypeOK, Generations
  <2>2. CASE f = "shard"
    BY <1>2, <2>1, <2>2 DEF Artifacts
  <2>3. CASE f # "shard"
    <3>1. f \in Artifacts
      BY <2>3 DEF Published, Artifacts
    <3> QED
      BY <1>2, <1>3, <1>5, <2>1, <2>3, <3>1
  <2> QED
    BY <2>2, <2>3
<1>7. run' \in [Procs -> RunType] /\ run'[p] = r /\ \A q \in Procs \ {p} : run'[q] = run[q]
  BY <1>4, <1>5, RunIs DEF RustInv
<1>8. r.pc \in Publishing
  BY <1>5, PublishingIs DEF Advance, Published
<1>9. LeaseInv' /\ TypeOK'
  BY <1>1, <1>6, <1>7, <1>8, TypesOf, PublishingIs DEF RustInv, TypeOK, RunType
<1>10. DiskInv'
  <2>1. \A a \in Artifacts :
          /\ disk'[a] \in {accepted, journal.after}
          /\ accepted > 0 => backup[a] = accepted \/ (backup[a] = NoLink /\ disk'[a] = accepted)
    <3>1. ASSUME accepted > 0, NEW a \in Artifacts PROVE backup[a] = accepted
      BY <1>1, <1>3, <3>1 DEF ProcInv
    <3> QED
      BY <1>3, <1>6, <3>1 DEF Undoable
  <2>2. Undoable'
    BY <1>1, <1>3, <1>6, <2>1 DEF Undoable
  <2> QED
    BY <1>1, <1>3, <1>6, <2>2 DEF RustInv, DiskInv
<1>11. ProcInv(p)'
  <2>1. f \in {"shard", "manifest", "pointer", "state"}
    BY DEF Published
  <2>2. /\ f = "shard" => r.pc = "advance_shard"
        /\ f = "manifest" => r.pc = "advance_manifest"
        /\ f = "pointer" => r.pc = "advance_pointer"
        /\ f = "state" => r.pc = "advance_state"
    BY <1>5, <2>1 DEF Advance
  <2>3. r.pc \in AfterManifest => disk'["manifest"] = g
    BY <1>1, <1>3, <1>6, <2>1, <2>2 DEF ProcInv, AfterManifest, Artifacts, g
  <2>4. r.pc \in AfterPointer => disk'["pointer"] = g
    BY <1>1, <1>3, <1>6, <2>1, <2>2 DEF ProcInv, AfterPointer, Artifacts, g
  <2>5. r.pc = "advance_state" => disk'["state"] = g
    BY <1>6, <2>1, <2>2 DEF Artifacts
  <2> QED
    BY <1>1, <1>3, <1>5, <1>6, <1>7, <1>8, <2>1, <2>2, <2>3, <2>4, <2>5, PublishingIs
       DEF ProcInv, Preparing, AfterShard
<1> QED
  BY <1>1, <1>7, <1>9, <1>10, <1>11, PublishingIs, Together

LEMMA ReachKeeps ==
  ASSUME RustInv, NEW p \in Procs, NEW f \in Published, Reach(p, f)
  PROVE  RustInv'
<1> DEFINE x == IF f = "state" THEN "refreshed" ELSE run[p].result
           r == [run[p] EXCEPT !.pc = After[f], !.result = x]
           j == [journal EXCEPT !.phase = PhaseOf[f]]
           g == run[p].after
<1>1. /\ run[p].pc = Advance[f] /\ run[p].pc \in Publishing
      /\ journal' = j /\ run' = [run EXCEPT ![p] = r]
      /\ accepted' = IF f = "state" THEN g ELSE accepted
      /\ UNCHANGED <<source, edits, disk, shards, backup, made, lease, kills, faults>>
  <2>1. Advance[f] \in Publishing
    BY DEF Publishing
  <2> QED
    BY <2>1 DEF Reach, At, world
<1>2. f \in {"shard", "manifest", "pointer", "state"}
  BY DEF Published
<1>3. /\ ProcInv(p) /\ Open /\ Undoable /\ journal.after = g
      /\ g = Len(made) /\ accepted < g /\ run[p].before = accepted
      /\ run[p].result = "none" /\ run[p].undone = {}
      /\ g \in shards
  BY <1>1, <1>2, PublishingIs DEF RustInv, DiskInv, ProcInv, Open, AfterShard, Advance
<1>4. /\ r \in RunType /\ r.pc = After[f] /\ r.after = g /\ r.before = accepted
      /\ r.result = x /\ r.undone = {} /\ g \in Generations
  <2>1. run[p] \in RunType /\ After[f] \in Steps /\ x \in {"none", "refreshed", "failed"}
    BY <1>2, <1>3, StepsAre DEF RustInv, TypeOK, RunType, After
  <2> HIDE DEF x
  <2> QED
    BY <1>3, <2>1 DEF RunType
<1>5. x = IF f = "state" THEN "refreshed" ELSE "none"
  BY <1>3
<1>6. /\ j.phase = PhaseOf[f] /\ j.after = g /\ j.existed = journal.existed /\ j.shard = journal.shard
      /\ j \in [phase : {"none", "prepared", "committing"} \cup {PhaseOf[h] : h \in Published},
                after : Generations, existed : SUBSET Artifacts, shard : BOOLEAN]
  BY <1>3 DEF RustInv, TypeOK
<1>7. /\ f = "shard" => r.pc = "manifest" /\ j.phase = "shard_published"
      /\ f = "manifest" => r.pc = "pointer" /\ j.phase = "manifest_published"
      /\ f = "pointer" => r.pc = "state" /\ j.phase = "pointer_published"
      /\ f = "state" => r.pc = "committing" /\ j.phase = "state_published"
  BY <1>2, <1>4, <1>6 DEF After, PhaseOf
<1> HIDE DEF r, j, g, x
<1>8. run' \in [Procs -> RunType] /\ run'[p] = r /\ \A q \in Procs \ {p} : run'[q] = run[q]
  BY <1>1, <1>4, RunIs DEF RustInv
<1>9. LeaseInv' /\ TypeOK'
  <2>1. accepted' \in Generations
    BY <1>1, <1>4 DEF RustInv, TypeOK
  <2> QED
    BY <1>1, <1>2, <1>6, <1>7, <1>8, <2>1, TypesOf, PublishingIs DEF RustInv, TypeOK, RunType
<1>10. accepted \in Nat /\ g \in Nat
  BY <1>4 DEF RustInv, TypeOK, Generations
<1>11. CASE f # "state"
  <2>1. Open' /\ accepted' = accepted
    BY <1>1, <1>2, <1>7, <1>11 DEF Open, AcceptedPhases
  <2>2. Undoable'
    BY <1>1, <1>3, <1>6, <2>1 DEF Undoable
  <2>3. DiskInv'
    BY <1>1, <1>2, <1>7, <1>11, <2>1, <2>2 DEF RustInv, DiskInv
  <2>4. /\ r.pc = "pointer" => disk["manifest"] = g
        /\ r.pc = "state" => disk["manifest"] = g /\ disk["pointer"] = g
    BY <1>1, <1>2, <1>3, <1>7 DEF ProcInv, AfterManifest, AfterPointer, Advance, g
  <2>5. r.pc \in {"manifest", "pointer", "state"}
    BY <1>2, <1>7, <1>11
  <2>6. ProcInv(p)'
    BY <1>1, <1>3, <1>4, <1>5, <1>6, <1>8, <1>11, <2>1, <2>4, <2>5, PublishingIs
       DEF ProcInv, Preparing, AfterShard, AfterManifest, AfterPointer
  <2> QED
    BY <1>1, <1>8, <1>9, <2>3, <2>6, PublishingIs, Together
<1>12. CASE f = "state"
  <2>1. ~Open' /\ accepted' = g /\ j.phase \in AcceptedPhases
    BY <1>1, <1>7, <1>12 DEF Open, AcceptedPhases
  <2>2. \A a \in Artifacts : disk[a] = g
    BY <1>1, <1>3, <1>12 DEF ProcInv, AfterManifest, AfterPointer, Advance, g, Artifacts
  <2>3. DiskInv'
    BY <1>1, <1>3, <1>7, <1>10, <1>12, <2>1, <2>2 DEF DiskInv
  <2>6. ProcInv(p)'
    BY <1>1, <1>3, <1>4, <1>5, <1>7, <1>8, <1>10, <1>12, <2>1, PublishingIs
       DEF ProcInv, Preparing, AfterShard, AfterManifest, AfterPointer
  <2> QED
    BY <1>1, <1>8, <1>9, <2>3, <2>6, PublishingIs, Together
<1> QED
  BY <1>11, <1>12

LEMMA CommittingKeeps ==
  ASSUME RustInv, NEW p \in Procs, Committing(p)
  PROVE  RustInv'
<1> DEFINE r == [run[p] EXCEPT !.pc = "discard"]
           j == [journal EXCEPT !.phase = "committing"]
<1>1. /\ run[p].pc = "committing" /\ journal' = j /\ run' = [run EXCEPT ![p] = r]
      /\ UNCHANGED <<source, edits, disk, shards, backup, made, lease, accepted, kills, faults>>
  BY DEF Committing, At, To, world
<1>2. /\ r \in RunType /\ r.pc = "discard" /\ r.after = run[p].after /\ r.before = run[p].before
      /\ r.result = run[p].result /\ r.undone = run[p].undone
  <2>1. run[p] \in RunType /\ "discard" \in Steps
    BY StepsAre DEF RustInv, TypeOK, RunType
  <2> QED
    BY <2>1 DEF RunType
<1>3. /\ j.phase = "committing"
      /\ j \in [phase : {"none", "prepared", "committing"} \cup {PhaseOf[h] : h \in Published},
                after : Generations, existed : SUBSET Artifacts, shard : BOOLEAN]
  BY DEF RustInv, TypeOK
<1> HIDE DEF r, j
<1>4. /\ ProcInv(p) /\ ~Open /\ ~Open' /\ run[p].undone = {} /\ run[p].result = "refreshed"
      /\ run[p].after = accepted /\ accepted > 0
  BY <1>1, <1>3 DEF RustInv, ProcInv, Open, AcceptedPhases
<1>5. run' \in [Procs -> RunType] /\ run'[p] = r /\ \A q \in Procs \ {p} : run'[q] = run[q]
  BY <1>1, <1>2, RunIs DEF RustInv
<1>6. LeaseInv' /\ TypeOK'
  BY <1>1, <1>2, <1>3, <1>5, TypesOf DEF RustInv, TypeOK, RunType
<1>7. DiskInv'
  BY <1>1, <1>3, <1>4 DEF RustInv, DiskInv
<1>8. ProcInv(p)'
  BY <1>1, <1>2, <1>3, <1>4, <1>5, PublishingIs
     DEF ProcInv, Preparing, AfterShard, AfterManifest, AfterPointer
<1> QED
  BY <1>1, <1>5, <1>6, <1>7, <1>8, Together

LEMMA NextKeeps == RustInv /\ [Next]_vars => RustInv'
<1> SUFFICES ASSUME RustInv, [Next]_vars PROVE RustInv'
  OBVIOUS
<1>1. ASSUME NEW p \in Procs, Step(p) PROVE RustInv'
  BY <1>1, RecoverNothingKeeps, RecoverJournalKeeps, PlanKeeps, ScanKeeps, CompareKeeps,
     LastLookKeeps, LinkKeeps, BeginJournalKeeps, ReplaceKeeps, ReachKeeps, CommittingKeeps,
     UndoKeeps, UndoRaisesKeeps, UndoShardKeeps, DiscardKeeps, UnlinkKeeps, FailedKeeps,
     LeaveKeeps DEF Step
<1> QED
  BY <1>1, EditKeeps, EnterKeeps, RaiseKeeps, LeaveRaisesKeeps, KillKeeps, StutterKeeps DEF Next

LEMMA Publishes == Spec => []RustInv
BY InitRust, NextKeeps, PTL DEF Spec

-----------------------------------------------------------------------------
(* The theorems.                                                           *)

\* In every behaviour each variable keeps its type, and whoever is at work holds
\* the lease of the project.
THEOREM TypeCorrect == Spec => []TypeOK
BY Publishes, PTL DEF RustInv

\* Where no journal is left the four files are of the last generation whose
\* acceptance point was passed, whatever was raised, killed and recovered before
\* (rollback and commit of RustRefreshRecoveryJournal).
THEOREM RestsAtAccepted == Spec => []RestIsLastAccepted
<1>1. RustInv => RestIsLastAccepted
  BY DEF RustInv, DiskInv, Open, NoJournal, RestIsLastAccepted, Whole, WholeAt
<1> QED
  BY Publishes, <1>1, PTL

\* At every instant the shard the pointer names is there: readers of the pointer
\* take no lease (replace order of refresh(), order of rollback()).
THEOREM PointersLoad == Spec => []PointerHasShard
<1>1. RustInv => PointerHasShard
  <2> SUFFICES ASSUME RustInv, disk["pointer"] # 0 PROVE disk["pointer"] \in shards
    BY DEF PointerHasShard
  <2>1. disk["pointer"] \in Generations /\ "pointer" \in Artifacts /\ DiskInv
    BY DEF RustInv, TypeOK, Artifacts
  <2>2. disk["pointer"] = accepted => accepted \in shards
    BY <2>1 DEF DiskInv, Generations
  <2> QED
    BY <2>1, <2>2 DEF DiskInv, Undoable
<1> QED
  BY Publishes, <1>1, PTL

\* What refresh() answers is true of the files when it answers: generation_after
\* after "refreshed", generation_before after a failure that says it preserved it.
THEOREM AnswersAreTrue == Spec => []AnswersTrue
<1>1. RustInv => AnswersTrue
  <2> SUFFICES ASSUME RustInv, NEW p \in Procs, At(p, "leave"), run[p].after > 0
               PROVE  /\ run[p].result = "refreshed" => Whole(run[p].after)
                      /\ run[p].result = "failed" /\ run[p].whole => Whole(run[p].before)
    BY DEF AnswersTrue
  <2>1. ProcInv(p) /\ DiskInv
    BY DEF RustInv
  <2>2. ~Open => Whole(accepted)
    BY <2>1 DEF DiskInv, Whole, WholeAt
  <2>3. /\ run[p].result = "refreshed" => ~Open /\ run[p].after = accepted
        /\ run[p].result = "failed" /\ run[p].whole => ~Open /\ run[p].before = accepted
    BY <2>1 DEF ProcInv
  <2> QED
    BY <2>2, <2>3
<1> QED
  BY Publishes, <1>1, PTL

\* No step moves a file of the accepted generation, except a later refresh that
\* publishes its own (the phase "state_published" as the acceptance point).
THEOREM AcceptedIsKept == Spec => AcceptedStays
<1>1. RustInv /\ [Next]_vars => [KeepsAccepted]_vars
  <2> SUFFICES ASSUME RustInv, Next, NEW a \in Artifacts, Whole(accepted), disk'[a] # disk[a]
               PROVE  \E p \in Procs : disk'[a] = run[p].after /\ run[p].after > accepted
    BY DEF KeepsAccepted
  <2>1. disk \in [Artifacts -> Generations] /\ disk[a] = accepted
    BY DEF RustInv, TypeOK, Whole, WholeAt
  <2>2. ASSUME NEW p \in Procs, NEW f \in Published, Replace(p, f)
        PROVE  disk'[a] = run[p].after /\ run[p].after > accepted
    <3>1. disk'[a] = run[p].after
      BY <2>1, <2>2 DEF Replace
    <3>2. run[p].pc \in Publishing
      BY <2>2 DEF Replace, At, Publishing
    <3>3. accepted < run[p].after /\ run[p].after \in Nat /\ accepted \in Nat
      BY <3>2 DEF RustInv, ProcInv, TypeOK, Generations
    <3> QED
      BY <3>1, <3>3
  <2>3. ASSUME NEW p \in Procs, NEW b \in Artifacts, Undo(p, b)
        PROVE  FALSE
    <3>1. Undoable
      BY <2>3 DEF Undo, At, RustInv, ProcInv, DiskInv
    <3>2. disk' = [disk EXCEPT ![b] = IF b \in journal.existed THEN backup[b] ELSE 0]
          /\ (b \in journal.existed => backup[b] # NoLink)
      BY <2>3 DEF Undo
    <3>3. a = b
      BY <2>1, <3>2
    <3>4. disk'[a] = accepted
      BY <2>1, <3>1, <3>2, <3>3 DEF Undoable, RustInv, TypeOK, Generations
    <3> QED
      BY <2>1, <3>4
  <2>4. ASSUME NEW p \in Procs, Step(p)
        PROVE  \E q \in Procs : disk'[a] = run[q].after /\ run[q].after > accepted
    <3>1. CASE \E f \in Published : Replace(p, f)
      BY <2>2, <3>1
    <3>2. CASE \E b \in Artifacts : Undo(p, b)
      BY <2>3, <3>2
    <3>3. CASE /\ ~\E f \in Published : Replace(p, f)
               /\ ~\E b \in Artifacts : Undo(p, b)
      <4>1. disk' = disk
        BY <2>4, <3>3 DEF Step, RecoverNothing, RecoverJournal, Plan, Scan, Compare, LastLook,
           Link, BeginJournal, Reach, Committing, UndoRaises, UndoShard, Discard, Unlink,
           Failed, Leave, files
      <4> QED
        BY <4>1
    <3> QED
      BY <3>1, <3>2, <3>3
  <2> QED
    BY <2>4 DEF Next, Edit, Enter, Raise, LeaveRaises, Kill, files
<1> QED
  BY Publishes, <1>1, PTL DEF Spec, AcceptedStays

-----------------------------------------------------------------------------
(* The facts and the source they are labelled with.                        *)

Candidate == {"scan", "compare", "last_look", "link", "begin", "shard"}

\* A step that leaves candidate and source alone.
LEMMA FactsSame ==
  ASSUME RustInv, FactsInv, NEW p \in Procs, \A q \in Procs \ {p} : run'[q] = run[q],
         run'[p].pc \notin Candidate, UNCHANGED <<made, source>>, shards' \subseteq shards
  PROVE  FactsInv'
BY DEF FactsInv, Candidate

\* The candidate of a process that prepares it.
LEMMA CandidateIs ==
  ASSUME RustInv, NEW p \in Procs, run[p].pc \in Preparing
  PROVE  /\ source \in Nat /\ made \in Seq([bound : Sources, read : Sources])
         /\ run[p].after \in 1..Len(made) /\ run[p].after \notin shards
         /\ made[run[p].after] \in [bound : Sources, read : Sources]
         /\ made[run[p].after].read \in Nat
         /\ shards \subseteq 1..Len(made)
         /\ \A q \in Procs \ {p} : run[q].pc = "idle"
<1>1. made \in Seq([bound : Sources, read : Sources]) /\ shards \subseteq 1..Len(made)
  BY DEF RustInv, TypeOK
<1>2. source \in Nat /\ accepted \in Nat /\ run[p].after \in Nat
  BY BoundsAreNat DEF RustInv, TypeOK, Sources, Generations
<1>3. run[p].after = Len(made) /\ accepted < run[p].after /\ run[p].after \notin shards
  BY DEF RustInv, ProcInv
<1>4. run[p].after \in 1..Len(made)
  BY <1>2, <1>3
<1>5. made[run[p].after] \in [bound : Sources, read : Sources]
  BY <1>1, <1>4, ElementOfSeq
<1>6. made[run[p].after].read \in Nat
  BY <1>5, BoundsAreNat DEF Sources
<1>7. \A q \in Procs \ {p} : run[q].pc = "idle"
  BY Alone DEF Preparing
<1> QED
  BY <1>1, <1>2, <1>3, <1>4, <1>5, <1>6, <1>7

LEMMA FactsKeep ==
  ASSUME RustInv, FactsInv, [Next]_vars, ~Reverts
  PROVE  FactsInv'
<1>1. CASE UNCHANGED vars
  BY <1>1 DEF FactsInv, vars
<1>2. CASE Edit
  <2>1. source' > source /\ source \in Nat /\ source' \in Nat
    BY <1>2, BoundsAreNat DEF Edit, RustInv, TypeOK, Sources
  <2>2. UNCHANGED <<made, shards, run>>
    BY <1>2 DEF Edit, files
  <2>3. ASSUME NEW p \in Procs
        PROVE  LET r == run[p] IN
               /\ r.pc = "scan" => r.prov <= source'
               /\ r.pc = "compare" => r.prov <= made[r.after].read /\ made[r.after].read <= source'
    <3>1. run[p] \in RunType /\ run[p].prov \in Nat
      BY BoundsAreNat DEF RustInv, TypeOK, RunType, Sources
    <3>2. ASSUME run[p].pc = "compare" PROVE made[run[p].after].read \in Nat
      BY <3>2, CandidateIs DEF Preparing
    <3> QED
      BY <2>1, <3>1, <3>2 DEF FactsInv
  <2> QED
    BY <2>2, <2>3 DEF FactsInv
<1>3. ASSUME NEW p \in Procs, \/ \E kind \in {"refresh", "recover"} : Enter(p, kind)
                              \/ Step(p) \/ Raise(p) \/ LeaveRaises(p) \/ Kill(p)
      PROVE  FactsInv'
  <2>1. run \in [Procs -> RunType]
    BY DEF RustInv, TypeOK, RunType
  <2>2. \A q \in Procs \ {p} : run'[q] = run[q]
    BY <1>3, <2>1 DEF Enter, Step, RecoverNothing, RecoverJournal, Plan, Scan, Compare,
       LastLook, Link, BeginJournal, Replace, Reach, Committing, Undo, UndoRaises, Report,
       UndoShard, Discard, Unlink, Failed, Leave, Raise, LeaveRaises, Kill, To
  <2>3. CASE Plan(p)
    <3>1. /\ made' = Append(made, [bound |-> source, read |-> source])
          /\ run'[p].pc = "scan" /\ run'[p].prov = source
          /\ UNCHANGED <<source, shards>>
      BY <2>1, <2>3 DEF Plan, files, world, RunType
    <3>2. source \in Nat /\ \A i \in 1..Len(made) : made'[i] = made[i]
      BY <3>1, BoundsAreNat DEF RustInv, TypeOK, Sources
    <3>3. \A q \in Procs \ {p} : run[q].pc = "idle"
      BY <2>3, Alone DEF Plan, At
    <3>4. \A g \in shards : made'[g] = made[g]
      BY <3>2 DEF RustInv, TypeOK
    <3>5. \A g \in shards' : made'[g].read = made'[g].bound
      BY <3>1, <3>4 DEF FactsInv
    <3>6. \A q \in Procs \ {p} : run'[q].pc = "idle"
      BY <2>2, <3>3
    <3>7. run'[p].pc = "scan" /\ run'[p].prov <= source'
      BY <3>1, <3>2
    <3> QED
      BY <3>5, <3>6, <3>7 DEF FactsInv
  <2>4. CASE Scan(p)
    <3>1. /\ made' = [made EXCEPT ![run[p].after].read = source] /\ run[p].pc = "scan"
          /\ run'[p].pc = "compare" /\ run'[p].prov = run[p].prov /\ run'[p].after = run[p].after
          /\ UNCHANGED <<source, shards>>
      BY <2>1, <2>4 DEF Scan, files, world, At, RunType
    <3>2. run[p].pc \in Preparing
      BY <3>1 DEF Preparing
    <3>3. made'[run[p].after].read = source /\ \A g \in shards : made'[g] = made[g]
      BY <3>1, <3>2, CandidateIs
    <3> QED
      BY <2>2, <3>1, <3>2, <3>3, CandidateIs DEF FactsInv
  <2>5. CASE Compare(p)
    <3>1. /\ made' = [made EXCEPT ![run[p].after].bound = source] /\ run[p].pc = "compare"
          /\ run'[p].pc = IF source = run[p].prov THEN "last_look" ELSE "failed"
          /\ run'[p].after = run[p].after
          /\ UNCHANGED <<source, shards>>
      BY <2>1, <2>5 DEF Compare, To, files, world, At, RunType
    <3>2. run[p].pc \in Preparing
      BY <3>1 DEF Preparing
    <3>3. /\ made'[run[p].after].bound = source
          /\ made'[run[p].after].read = made[run[p].after].read
          /\ \A g \in shards : made'[g] = made[g]
      BY <3>1, <3>2, CandidateIs
    <3>4. source = run[p].prov => made[run[p].after].read = source
      BY <3>1, <3>2, CandidateIs DEF FactsInv
    <3> QED
      BY <2>2, <3>1, <3>2, <3>3, <3>4, CandidateIs DEF FactsInv
  <2>6. CASE LastLook(p) \/ Link(p) \/ BeginJournal(p)
    <3>1. /\ UNCHANGED <<made, source, shards>> /\ run'[p].after = run[p].after
          /\ run[p].pc \in {"last_look", "link", "begin"}
          /\ run'[p].pc \in {"link", "begin", "shard", "failed"}
      BY <2>1, <2>6 DEF LastLook, Link, BeginJournal, To, files, world, At, RunType
    <3> QED
      BY <2>2, <3>1 DEF FactsInv
  <2>7. CASE \E f \in Published : Replace(p, f)
    <3>1. PICK f \in Published : Replace(p, f)
      BY <2>7
    <3>2. /\ UNCHANGED <<made, source>> /\ run'[p].pc \in {Advance[f], "undo"}
          /\ run[p].pc = f /\ f \in {"shard", "manifest", "pointer", "state"}
          /\ shards' = IF f = "shard" THEN shards \cup {run[p].after} ELSE shards
      BY <2>1, <3>1 DEF Replace, To, files, world, At, RunType, Published
    <3>3. run'[p].pc \notin Candidate
      BY <3>2 DEF Advance, Candidate
    <3>4. f = "shard" => made[run[p].after].read = made[run[p].after].bound
      BY <3>2 DEF FactsInv
    <3> QED
      BY <2>2, <3>2, <3>3, <3>4 DEF FactsInv, Candidate
  <2>8. CASE \E f \in Published : Reach(p, f)
    <3>1. PICK f \in Published : Reach(p, f)
      BY <2>8
    <3>2. UNCHANGED <<made, source, shards>> /\ run'[p].pc = After[f]
      BY <2>1, <3>1 DEF Reach, files, world, RunType
    <3>3. run'[p].pc \notin Candidate
      BY <3>2 DEF After, Published, Candidate
    <3> QED
      BY <2>2, <3>2, <3>3, FactsSame
  <2>9. CASE \/ \E kind \in {"refresh", "recover"} : Enter(p, kind)
             \/ RecoverNothing(p) \/ RecoverJournal(p) \/ Committing(p)
             \/ \E a \in Artifacts : Undo(p, a) \/ UndoRaises(p, a)
             \/ UndoShard(p) \/ Discard(p) \/ Unlink(p) \/ Failed(p) \/ Leave(p)
             \/ Raise(p) \/ LeaveRaises(p) \/ Kill(p)
    <3>1. UNCHANGED <<made, source>> /\ shards' \subseteq shards
      BY <2>9 DEF Enter, RecoverNothing, RecoverJournal, Committing, Undo, UndoRaises,
         UndoShard, Discard, Unlink, Failed, Leave, Raise, LeaveRaises, Kill, files, world
    <3>2. run'[p].pc \in {"stuck", "recover", "leave", "plan", "discard", "undo", "unlink", "failed", "idle"}
      <4>1. CASE \E kind \in {"refresh", "recover"} : Enter(p, kind)
        BY <2>1, <4>1 DEF Enter, Idle
      <4>2. CASE RecoverNothing(p) \/ RecoverJournal(p) \/ Committing(p)
        BY <2>1, <4>2 DEF RecoverNothing, RecoverJournal, Committing, To, Recovered, RunType
      <4>3. CASE \E a \in Artifacts : Undo(p, a) \/ UndoRaises(p, a)
        BY <2>1, <4>3 DEF Undo, UndoRaises, Report, At, RunType
      <4>4. CASE UndoShard(p) \/ Discard(p) \/ Unlink(p) \/ Failed(p)
        BY <2>1, <4>4 DEF UndoShard, Discard, Unlink, Failed, To, Recovered, RunType
      <4>5. CASE Leave(p) \/ LeaveRaises(p) \/ Kill(p)
        BY <2>1, <4>5 DEF Leave, LeaveRaises, To, Kill, Idle, RunType
      <4>6. CASE Raise(p)
        BY <2>1, <4>6 DEF Raise, Report, To, RunType
      <4> QED
        BY <2>9, <4>1, <4>2, <4>3, <4>4, <4>5, <4>6
    <3>3. run'[p].pc \notin Candidate
      BY <3>2 DEF Candidate
    <3> QED
      BY <2>2, <3>1, <3>3, FactsSame
  <2> QED
    BY <1>3, <2>3, <2>4, <2>5, <2>6, <2>7, <2>8, <2>9 DEF Step
<1> QED
  BY <1>1, <1>2, <1>3 DEF Next

\* The facts of every published shard were read from the source its manifest and
\* pointer name, however often the source is edited meanwhile, as long as no edit
\* brings an earlier source back (the fingerprints taken around the scan).
THEOREM FactsAreLabelled ==
  ASSUME ~Reverts
  PROVE  Spec => []FactsOfTheirSource
<1>1. Init => FactsInv
  BY DEF Init, FactsInv, Idle
<1>2. RustInv /\ FactsInv /\ [Next]_vars => FactsInv'
  BY FactsKeep
<1>3. FactsInv => FactsOfTheirSource
  BY DEF FactsInv, FactsOfTheirSource
<1> QED
  BY Publishes, <1>1, <1>2, <1>3, PTL DEF Spec

-----------------------------------------------------------------------------
(* ProviderTransport: its constants and variables, and an instance of it   *)
(* that has these for its own.                                             *)
CONSTANTS Sessions, Exclusive, Lingers, IdleExits, MaxCalls, MaxChildren
VARIABLES lock, tr, child, result
Transport == INSTANCE ProviderTransport

\* What a child, a transport and a result are.
Children == [alive : BOOLEAN, asked : Nat, out : Seq(Transport!Item), closed : BOOLEAN,
          reading : BOOLEAN]
Transports == [pc : Transport!Pc, proc : Nat, nextId : Nat, id : Nat,
              method : {"none", "initialize", "tools/call"}, queue : Seq(Transport!Item),
              calls : 0..MaxCalls, outcome : Transport!Outcome]
Results == [outcome : Transport!Outcome, by : Nat, of : Nat]
Members(items) == {items[i] : i \in 1..Len(items)}

Typed ==
  /\ lock \in Sessions \cup {"free"}
  /\ tr \in [Sessions -> Transports] /\ child \in [Sessions -> Seq(Children)]
  /\ result \in [Sessions -> Results]
ChildInv(s) ==
  /\ tr[s].proc \in {0, Len(child[s])} /\ tr[s].nextId > 0
  /\ tr[s].pc \in {"send", "wait"} => tr[s].proc # 0
  /\ tr[s].outcome # "ok"

\* Request ids grow, and are not given twice: what carries the id waited for is
\* of the child in use, however late the others are.
IdInv(s) ==
  /\ \A k \in 1..Len(child[s]) :
       /\ child[s][k].asked < tr[s].nextId
       /\ \A x \in Members(child[s][k].out) : x.id < tr[s].nextId /\ x.from = k
  /\ \A x \in Members(tr[s].queue) : x.id < tr[s].nextId
  /\ tr[s].pc = "wait" =>
       /\ tr[s].id # 0 /\ tr[s].id < tr[s].nextId
       /\ \A k \in 1..Len(child[s]) : k # tr[s].proc =>
            child[s][k].asked # tr[s].id /\ \A x \in Members(child[s][k].out) : x.id # tr[s].id
       /\ \A x \in Members(tr[s].queue) : x.id = tr[s].id => x.from = tr[s].proc
  /\ result[s].outcome = "ok" => result[s].by = result[s].of

\* The one request a child has is the one waited for, until it is answered.
OwedInv(s) ==
  /\ tr[s].pc = "wait" =>
       LET c == child[s][tr[s].proc] IN
       /\ c.asked \in {0, tr[s].id}
       /\ \A x \in Members(tr[s].queue) \cup Members(c.out) : x.id = tr[s].id => c.asked = 0
  /\ tr[s].pc \in {"idle", "admit", "send"} /\ tr[s].proc # 0 => child[s][tr[s].proc].asked = 0

\* Only the child in use is alive, and who holds the lock.
HolderInv(s) ==
  /\ \A k \in 1..Len(child[s]) : child[s][k].alive =>
       k = tr[s].proc /\ (Exclusive => lock = s) /\ tr[s].pc \notin {"admit", "spawn"}
  /\ tr[s].pc \in {"admit", "spawn"} => tr[s].method = "initialize"
  /\ tr[s].pc = "spawn" \/ (tr[s].pc \in {"send", "wait"} /\ tr[s].method = "initialize") => lock = s
  /\ lock = s => \/ tr[s].pc \in {"spawn", "kill", "join"}
                 \/ tr[s].pc \in {"send", "wait"} /\ tr[s].method = "initialize"
                 \/ Exclusive /\ tr[s].proc # 0

\* Without readers that linger or children that die unasked, only the reader of
\* the child in use fills the queue.
ReaderInv(s) ==
  /\ \A k \in 1..Len(child[s]) : child[s][k].reading => k = tr[s].proc
  /\ tr[s].pc \in {"idle", "send"} /\ tr[s].proc # 0 => child[s][tr[s].proc].alive
  /\ tr[s].pc = "wait" => child[s][tr[s].proc].alive \/ child[s][tr[s].proc].asked # 0
  /\ tr[s].pc \in {"admit", "spawn"} => tr[s].proc = 0
  /\ tr[s].pc \in {"idle", "send", "wait"} /\ tr[s].proc # 0 =>
       \A x \in Members(tr[s].queue) : x.from = tr[s].proc

Acts(s) == \/ Transport!Call(s) \/ Transport!Session(s) \/ Transport!Close(s) \/ Transport!Reader(s)
           \/ \E k \in 1..Len(child[s]) : Transport!Reply(s, k) \/ Transport!Exit(s, k)

\* What a queue or an output holds: nothing at first, one item more when one is put,
\* and none more when one is taken.
LEMMA Queues ==
  ASSUME NEW q \in Seq(Transport!Item)
  PROVE  /\ Members(q) \subseteq Transport!Item /\ Members(<<>>) = {}
         /\ \A x \in Transport!Item : /\ Append(q, x) \in Seq(Transport!Item)
                            /\ Members(Append(q, x)) = Members(q) \cup {x}
         /\ q # <<>> => /\ Head(q) \in Members(q) /\ Tail(q) \in Seq(Transport!Item)
                        /\ Members(Tail(q)) \subseteq Members(q)
<1>1. Members(q) \subseteq Transport!Item /\ Members(<<>>) = {}
  BY DEF Members
<1>2. ASSUME NEW x \in Transport!Item PROVE Members(Append(q, x)) = Members(q) \cup {x}
  <2> DEFINE a == Append(q, x)
  <2>1. /\ Len(a) = Len(q) + 1 /\ Len(q) \in Nat
        /\ a[Len(q) + 1] = x
        /\ \A i \in 1..Len(q) : a[i] = q[i]
    OBVIOUS
  <2>2. ASSUME NEW y \in Members(a) PROVE y \in Members(q) \cup {x}
    BY <2>1, <2>2 DEF Members
  <2>3. ASSUME NEW y \in Members(q) PROVE y \in Members(a)
    <3>1. PICK i \in 1..Len(q) : y = q[i]
      BY <2>3 DEF Members
    <3>2. i \in 1..Len(a) /\ a[i] = y
      BY <2>1, <3>1
    <3>. QED
      BY <3>2 DEF Members
  <2>4. x \in Members(a)
    <3>1. Len(q) + 1 \in 1..Len(a)
      BY <2>1
    <3>. QED
      BY <2>1, <3>1 DEF Members
  <2>. QED
    BY <2>2, <2>3, <2>4
<1>3. ASSUME q # <<>>
      PROVE  Head(q) \in Members(q) /\ Tail(q) \in Seq(Transport!Item) /\ Members(Tail(q)) \subseteq Members(q)
  <2>1. /\ Len(q) \in Nat \ {0} /\ Head(q) = q[1] /\ Len(Tail(q)) = Len(q) - 1
        /\ \A i \in 1..(Len(q) - 1) : Tail(q)[i] = q[i + 1]
    BY <1>3
  <2>2. Head(q) \in Members(q)
    <3>1. 1 \in 1..Len(q)
      BY <2>1
    <3>. QED
      BY <2>1, <3>1 DEF Members
  <2>3. ASSUME NEW y \in Members(Tail(q)) PROVE y \in Members(q)
    <3>1. PICK i \in 1..(Len(q) - 1) : y = q[i + 1]
      BY <2>1, <2>3 DEF Members
    <3>2. i + 1 \in 1..Len(q)
      BY <2>1
    <3>. QED
      BY <3>1, <3>2 DEF Members
  <2>. QED
    BY <1>3, <2>2, <2>3
<1>. QED
  BY <1>1, <1>2, <1>3

\* One child is changed.
LEMMA OneChild ==
  ASSUME Typed, NEW s \in Sessions, NEW k \in 1..Len(child[s]), NEW c \in Children
  PROVE  LET d == [child EXCEPT ![s] = [@ EXCEPT ![k] = c]] IN
         /\ d \in [Sessions -> Seq(Children)] /\ Len(d[s]) = Len(child[s])
         /\ d[s][k] = c
         /\ \A j \in 1..Len(child[s]) : j # k => d[s][j] = child[s][j]
<1> DEFINE d == [child EXCEPT ![s] = [@ EXCEPT ![k] = c]]
<1>1. child[s] \in Seq(Children) /\ d[s] = [child[s] EXCEPT ![k] = c]
  BY DEF Typed
<1>2. d[s] \in Seq(Children) /\ Len(d[s]) = Len(child[s])
  BY <1>1
<1>3. /\ d[s][k] = c
      /\ \A j \in 1..Len(child[s]) : j # k => d[s][j] = child[s][j]
  BY <1>1
<1>4. d \in [Sessions -> Seq(Children)]
  BY <1>2 DEF Typed
<1>. QED
  BY <1>2, <1>3, <1>4

\* A child is started: the ones before it stay what they are.
LEMMA NewChildren ==
  ASSUME Typed, NEW s \in Sessions, child' = [child EXCEPT ![s] = Append(@, Transport!NewChild)]
  PROVE  /\ child' \in [Sessions -> Seq(Children)] /\ Len(child'[s]) = Len(child[s]) + 1
         /\ child'[s][Len(child[s]) + 1] = Transport!NewChild /\ Len(child[s]) \in Nat
         /\ \A j \in 1..Len(child[s]) : child'[s][j] = child[s][j]
<1>1. child[s] \in Seq(Children) /\ child'[s] = Append(child[s], Transport!NewChild) /\ Transport!NewChild \in Children
  <2>1. Transport!NewChild \in Children
    BY DEF Transport!NewChild, Children
  <2>. QED
    BY <2>1 DEF Typed
<1>2. /\ child'[s] \in Seq(Children) /\ Len(child'[s]) = Len(child[s]) + 1
      /\ child'[s][Len(child[s]) + 1] = Transport!NewChild /\ Len(child[s]) \in Nat
      /\ \A j \in 1..Len(child[s]) : child'[s][j] = child[s][j]
  BY <1>1
<1>3. child' \in [Sessions -> Seq(Children)]
  BY <1>2 DEF Typed
<1>. QED
  BY <1>2, <1>3

\* A transport with another value in one of its fields is one.
LEMMA Fields ==
  ASSUME NEW t \in Transports
  PROVE  /\ \A p \in Transport!Pc : [t EXCEPT !.pc = p] \in Transports
         /\ \A m \in {"none", "initialize", "tools/call"} : [t EXCEPT !.method = m] \in Transports
         /\ \A o \in Transport!Outcome : [t EXCEPT !.outcome = o] \in Transports
         /\ \A q \in Seq(Transport!Item) : [t EXCEPT !.queue = q] \in Transports
         /\ \A n \in Nat : /\ [t EXCEPT !.proc = n] \in Transports /\ [t EXCEPT !.id = n] \in Transports
                           /\ [t EXCEPT !.nextId = n] \in Transports
         /\ \A n \in 0..MaxCalls : [t EXCEPT !.calls = n] \in Transports
<1>1. \A p \in Transport!Pc : [t EXCEPT !.pc = p] \in Transports
  BY DEF Transports
<1>2. \A m \in {"none", "initialize", "tools/call"} : [t EXCEPT !.method = m] \in Transports
  BY DEF Transports
<1>3. \A o \in Transport!Outcome : [t EXCEPT !.outcome = o] \in Transports
  BY DEF Transports
<1>4. \A q \in Seq(Transport!Item) : [t EXCEPT !.queue = q] \in Transports
  BY DEF Transports
<1>5. \A n \in Nat : /\ [t EXCEPT !.proc = n] \in Transports /\ [t EXCEPT !.id = n] \in Transports
                     /\ [t EXCEPT !.nextId = n] \in Transports
  BY DEF Transports
<1>6. \A n \in 0..MaxCalls : [t EXCEPT !.calls = n] \in Transports
  BY DEF Transports
<1>. QED
  BY <1>1, <1>2, <1>3, <1>4, <1>5, <1>6

\* Every step of a session leaves its transport one.
LEMMA TransportKept ==
  ASSUME NEW s \in Sessions, Typed, ChildInv(s), MaxCalls \in Nat, Acts(s)
  PROVE  tr' \in [Sessions -> Transports]
<1>1. CASE Transport!Call(s)
  <2> DEFINE t1 == [tr[s] EXCEPT !.pc = (IF Transport!Alive(s) THEN "send" ELSE "admit")]
             t2 == [t1 EXCEPT !.method = (IF Transport!Alive(s) THEN "tools/call" ELSE "initialize")]
             t3 == [t2 EXCEPT !.calls = tr[s].calls + 1]
             t4 == [t3 EXCEPT !.outcome = "none"]
  <2>1. tr[s] \in Transports
    BY DEF Typed
  <2>2. t1 \in Transports
    <3>1. (IF Transport!Alive(s) THEN "send" ELSE "admit") \in Transport!Pc
      BY <1>1, <2>1 DEF Transports, Typed, Transport!Pc, Transport!Outcome, ChildInv,
         Transport!Call, Transport!Alive
    <3>. QED
      BY <2>1, <3>1, Fields
  <2>3. t2 \in Transports
    <3>1. (IF Transport!Alive(s) THEN "tools/call" ELSE "initialize") \in {"none", "initialize", "tools/call"}
      BY <1>1, <2>1 DEF Transports, Typed, Transport!Pc, Transport!Outcome, ChildInv,
         Transport!Call, Transport!Alive
    <3>. QED
      BY <2>2, <3>1, Fields
  <2>4. t3 \in Transports
    <3>1. tr[s].calls + 1 \in 0..MaxCalls
      BY <1>1, <2>1 DEF Transports, Typed, Transport!Pc, Transport!Outcome, ChildInv,
         Transport!Call, Transport!Alive
    <3>. QED
      BY <2>3, <3>1, Fields
  <2>5. t4 \in Transports
    <3>1. "none" \in Transport!Outcome
      BY <1>1, <2>1 DEF Transports, Typed, Transport!Pc, Transport!Outcome, ChildInv,
         Transport!Call, Transport!Alive
    <3>. QED
      BY <2>4, <3>1, Fields
  <2>6. tr' = [tr EXCEPT ![s] = t4]
    BY <1>1 DEF Transport!Call, Transport!Alive
  <2>. QED
    BY <2>5, <2>6 DEF Typed
<1>2. CASE Transport!Admit(s)
  <2> DEFINE t1 == [tr[s] EXCEPT !.pc = "spawn"]
  <2>1. tr[s] \in Transports
    BY DEF Typed
  <2>2. t1 \in Transports
    <3>1. "spawn" \in Transport!Pc
      BY <1>2, <2>1 DEF Transports, Typed, Transport!Pc, Transport!Outcome, ChildInv,
         Transport!Admit, Transport!Goto
    <3>. QED
      BY <2>1, <3>1, Fields
  <2>3. tr' = [tr EXCEPT ![s] = t1]
    BY <1>2 DEF Transport!Admit, Transport!Goto
  <2>. QED
    BY <2>2, <2>3 DEF Typed
<1>3. CASE Transport!AdmitTimeout(s)
  <2> DEFINE t1 == [tr[s] EXCEPT !.pc = "idle"]
  <2>1. tr[s] \in Transports
    BY DEF Typed
  <2>2. t1 \in Transports
    <3>1. "idle" \in Transport!Pc
      BY <1>3, <2>1 DEF Transports, Typed, Transport!Pc, Transport!Outcome, ChildInv,
         Transport!AdmitTimeout, Transport!Goto
    <3>. QED
      BY <2>1, <3>1, Fields
  <2>3. tr' = [tr EXCEPT ![s] = t1]
    BY <1>3 DEF Transport!AdmitTimeout, Transport!Goto
  <2>. QED
    BY <2>2, <2>3 DEF Typed
<1>4. CASE Transport!Spawn(s)
  <2> DEFINE t1 == [tr[s] EXCEPT !.pc = "send"]
             t2 == [t1 EXCEPT !.proc = Len(child'[s])]
             t3 == [t2 EXCEPT !.queue = <<>>]
  <2>1. tr[s] \in Transports
    BY DEF Typed
  <2>2. t1 \in Transports
    <3>1. "send" \in Transport!Pc
      BY <1>4, <2>1, NewChildren DEF Transports, Typed, Transport!Pc, Transport!Outcome,
         ChildInv, Transport!Spawn
    <3>. QED
      BY <2>1, <3>1, Fields
  <2>3. t2 \in Transports
    <3>1. Len(child'[s]) \in Nat
      BY <1>4, <2>1, NewChildren DEF Transports, Typed, Transport!Pc, Transport!Outcome,
         ChildInv, Transport!Spawn
    <3>. QED
      BY <2>2, <3>1, Fields
  <2>4. t3 \in Transports
    <3>1. <<>> \in Seq(Transport!Item)
      BY <1>4, <2>1, NewChildren DEF Transports, Typed, Transport!Pc, Transport!Outcome,
         ChildInv, Transport!Spawn
    <3>. QED
      BY <2>3, <3>1, Fields
  <2>5. tr' = [tr EXCEPT ![s] = t3]
    <3>1. tr' = [tr EXCEPT ![s].pc = "send", ![s].proc = Len(child'[s]), ![s].queue = <<>>]
      BY <1>4 DEF Transport!Spawn
    <3>. QED
      BY <3>1
  <2>. QED
    BY <2>4, <2>5 DEF Typed
<1>5. CASE Transport!SpawnFails(s)
  <2> DEFINE t1 == [tr[s] EXCEPT !.pc = "kill"]
             t2 == [t1 EXCEPT !.outcome = "start"]
  <2>1. tr[s] \in Transports
    BY DEF Typed
  <2>2. t1 \in Transports
    <3>1. "kill" \in Transport!Pc
      BY <1>5, <2>1 DEF Transports, Typed, Transport!Pc, Transport!Outcome, ChildInv,
         Transport!SpawnFails, Transport!Fail
    <3>. QED
      BY <2>1, <3>1, Fields
  <2>3. t2 \in Transports
    <3>1. "start" \in Transport!Outcome
      BY <1>5, <2>1 DEF Transports, Typed, Transport!Pc, Transport!Outcome, ChildInv,
         Transport!SpawnFails, Transport!Fail
    <3>. QED
      BY <2>2, <3>1, Fields
  <2>4. tr' = [tr EXCEPT ![s] = t2]
    BY <1>5 DEF Transport!SpawnFails, Transport!Fail
  <2>. QED
    BY <2>3, <2>4 DEF Typed
<1>6. CASE Transport!Send(s)
  <2>1. CASE Transport!Alive(s)
    <3> DEFINE t1 == [tr[s] EXCEPT !.pc = "wait"]
               t2 == [t1 EXCEPT !.id = tr[s].nextId]
               t3 == [t2 EXCEPT !.nextId = tr[s].nextId + 1]
    <3>1. tr[s] \in Transports
      BY DEF Typed
    <3>2. t1 \in Transports
      <4>1. "wait" \in Transport!Pc
        BY <1>6, <2>1, <3>1 DEF Transports, Typed, Transport!Pc, Transport!Outcome, ChildInv,
           Transport!Send
      <4>. QED
        BY <3>1, <4>1, Fields
    <3>3. t2 \in Transports
      <4>1. tr[s].nextId \in Nat
        BY <1>6, <2>1, <3>1 DEF Transports, Typed, Transport!Pc, Transport!Outcome, ChildInv,
           Transport!Send
      <4>. QED
        BY <3>2, <4>1, Fields
    <3>4. t3 \in Transports
      <4>1. tr[s].nextId + 1 \in Nat
        BY <1>6, <2>1, <3>1 DEF Transports, Typed, Transport!Pc, Transport!Outcome, ChildInv,
           Transport!Send
      <4>. QED
        BY <3>3, <4>1, Fields
    <3>5. tr' = [tr EXCEPT ![s] = t3]
      BY <1>6, <2>1 DEF Transport!Send
    <3>. QED
      BY <3>4, <3>5 DEF Typed
  <2>2. CASE tr' = [tr EXCEPT ![s].pc = "kill", ![s].outcome = "dead"]
    <3> DEFINE t1 == [tr[s] EXCEPT !.pc = "kill"]
               t2 == [t1 EXCEPT !.outcome = "dead"]
    <3>1. tr[s] \in Transports
      BY DEF Typed
    <3>2. t1 \in Transports
      <4>1. "kill" \in Transport!Pc
        BY <1>6, <2>2, <3>1 DEF Transports, Typed, Transport!Pc, Transport!Outcome, ChildInv,
           Transport!Send
      <4>. QED
        BY <3>1, <4>1, Fields
    <3>3. t2 \in Transports
      <4>1. "dead" \in Transport!Outcome
        BY <1>6, <2>2, <3>1 DEF Transports, Typed, Transport!Pc, Transport!Outcome, ChildInv,
           Transport!Send
      <4>. QED
        BY <3>2, <4>1, Fields
    <3>4. tr' = [tr EXCEPT ![s] = t2]
      BY <1>6, <2>2 DEF Transport!Send
    <3>. QED
      BY <3>3, <3>4 DEF Typed
  <2>3. CASE tr' = [tr EXCEPT ![s].pc = "idle"]
    <3> DEFINE t1 == [tr[s] EXCEPT !.pc = "idle"]
    <3>1. tr[s] \in Transports
      BY DEF Typed
    <3>2. t1 \in Transports
      <4>1. "idle" \in Transport!Pc
        BY <1>6, <2>3, <3>1 DEF Transports, Typed, Transport!Pc, Transport!Outcome, ChildInv,
           Transport!Send
      <4>. QED
        BY <3>1, <4>1, Fields
    <3>3. tr' = [tr EXCEPT ![s] = t1]
      BY <1>6, <2>3 DEF Transport!Send
    <3>. QED
      BY <3>2, <3>3 DEF Typed
  <2>. QED
    BY <1>6, <2>1, <2>2, <2>3 DEF Transport!Send, Transport!Fail, Transport!Goto
<1>7. CASE Transport!Receive(s)
  <2> DEFINE item == Head(tr[s].queue)
             mine == item.kind = "answer" /\ item.id = tr[s].id
  <2>1. CASE mine /\ tr[s].method = "initialize"
    <3> DEFINE t1 == [tr[s] EXCEPT !.queue = Tail(tr[s].queue)]
               t2 == [t1 EXCEPT !.pc = "send"]
               t3 == [t2 EXCEPT !.method = "tools/call"]
    <3>1. tr[s] \in Transports
      BY DEF Typed
    <3>2. t1 \in Transports
      <4>1. Tail(tr[s].queue) \in Seq(Transport!Item)
        BY <1>7, <2>1, <3>1, Queues DEF Transports, Typed, Transport!Pc, Transport!Outcome,
           ChildInv, Transport!Receive
      <4>. QED
        BY <3>1, <4>1, Fields
    <3>3. t2 \in Transports
      <4>1. "send" \in Transport!Pc
        BY <1>7, <2>1, <3>1, Queues DEF Transports, Typed, Transport!Pc, Transport!Outcome,
           ChildInv, Transport!Receive
      <4>. QED
        BY <3>2, <4>1, Fields
    <3>4. t3 \in Transports
      <4>1. "tools/call" \in {"none", "initialize", "tools/call"}
        BY <1>7, <2>1, <3>1, Queues DEF Transports, Typed, Transport!Pc, Transport!Outcome,
           ChildInv, Transport!Receive
      <4>. QED
        BY <3>3, <4>1, Fields
    <3>5. tr' = [tr EXCEPT ![s] = t3]
      BY <1>7, <2>1 DEF Transport!Receive
    <3>. QED
      BY <3>4, <3>5 DEF Typed
  <2>2. CASE mine /\ tr[s].method # "initialize"
    <3> DEFINE t1 == [tr[s] EXCEPT !.queue = Tail(tr[s].queue)]
               t2 == [t1 EXCEPT !.pc = "idle"]
    <3>1. tr[s] \in Transports
      BY DEF Typed
    <3>2. t1 \in Transports
      <4>1. Tail(tr[s].queue) \in Seq(Transport!Item)
        BY <1>7, <2>2, <3>1, Queues DEF Transports, Typed, Transport!Pc, Transport!Outcome,
           ChildInv, Transport!Receive
      <4>. QED
        BY <3>1, <4>1, Fields
    <3>3. t2 \in Transports
      <4>1. "idle" \in Transport!Pc
        BY <1>7, <2>2, <3>1, Queues DEF Transports, Typed, Transport!Pc, Transport!Outcome,
           ChildInv, Transport!Receive
      <4>. QED
        BY <3>2, <4>1, Fields
    <3>4. tr' = [tr EXCEPT ![s] = t2]
      BY <1>7, <2>2 DEF Transport!Receive
    <3>. QED
      BY <3>3, <3>4 DEF Typed
  <2>3. CASE ~mine
    <3> DEFINE t1 == [tr[s] EXCEPT !.queue = Tail(tr[s].queue)]
               t2 == [t1 EXCEPT !.pc = "kill"]
               t3 == [t2 EXCEPT !.outcome = "error"]
    <3>1. tr[s] \in Transports
      BY DEF Typed
    <3>2. t1 \in Transports
      <4>1. Tail(tr[s].queue) \in Seq(Transport!Item)
        BY <1>7, <2>3, <3>1, Queues DEF Transports, Typed, Transport!Pc, Transport!Outcome,
           ChildInv, Transport!Receive
      <4>. QED
        BY <3>1, <4>1, Fields
    <3>3. t2 \in Transports
      <4>1. "kill" \in Transport!Pc
        BY <1>7, <2>3, <3>1, Queues DEF Transports, Typed, Transport!Pc, Transport!Outcome,
           ChildInv, Transport!Receive
      <4>. QED
        BY <3>2, <4>1, Fields
    <3>4. t3 \in Transports
      <4>1. "error" \in Transport!Outcome
        BY <1>7, <2>3, <3>1, Queues DEF Transports, Typed, Transport!Pc, Transport!Outcome,
           ChildInv, Transport!Receive
      <4>. QED
        BY <3>3, <4>1, Fields
    <3>5. tr' = [tr EXCEPT ![s] = t3]
      BY <1>7, <2>3 DEF Transport!Receive
    <3>. QED
      BY <3>4, <3>5 DEF Typed
  <2>. QED
    BY <2>1, <2>2, <2>3
<1>8. CASE Transport!Timeout(s)
  <2> DEFINE t1 == [tr[s] EXCEPT !.pc = "kill"]
             t2 == [t1 EXCEPT !.outcome = "timeout"]
  <2>1. tr[s] \in Transports
    BY DEF Typed
  <2>2. t1 \in Transports
    <3>1. "kill" \in Transport!Pc
      BY <1>8, <2>1 DEF Transports, Typed, Transport!Pc, Transport!Outcome, ChildInv,
         Transport!Timeout, Transport!Fail
    <3>. QED
      BY <2>1, <3>1, Fields
  <2>3. t2 \in Transports
    <3>1. "timeout" \in Transport!Outcome
      BY <1>8, <2>1 DEF Transports, Typed, Transport!Pc, Transport!Outcome, ChildInv,
         Transport!Timeout, Transport!Fail
    <3>. QED
      BY <2>2, <3>1, Fields
  <2>4. tr' = [tr EXCEPT ![s] = t2]
    BY <1>8 DEF Transport!Timeout, Transport!Fail
  <2>. QED
    BY <2>3, <2>4 DEF Typed
<1>9. CASE Transport!Close(s)
  <2> DEFINE t1 == [tr[s] EXCEPT !.pc = "kill"]
             t2 == [t1 EXCEPT !.outcome = "closed"]
  <2>1. tr[s] \in Transports
    BY DEF Typed
  <2>2. t1 \in Transports
    <3>1. "kill" \in Transport!Pc
      BY <1>9, <2>1 DEF Transports, Typed, Transport!Pc, Transport!Outcome, ChildInv,
         Transport!Close, Transport!Fail
    <3>. QED
      BY <2>1, <3>1, Fields
  <2>3. t2 \in Transports
    <3>1. "closed" \in Transport!Outcome
      BY <1>9, <2>1 DEF Transports, Typed, Transport!Pc, Transport!Outcome, ChildInv,
         Transport!Close, Transport!Fail
    <3>. QED
      BY <2>2, <3>1, Fields
  <2>4. tr' = [tr EXCEPT ![s] = t2]
    BY <1>9 DEF Transport!Close, Transport!Fail
  <2>. QED
    BY <2>3, <2>4 DEF Typed
<1>10. CASE Transport!Shutdown(s)
  <2> DEFINE t1 == [tr[s] EXCEPT !.pc = "join"]
  <2>1. tr[s] \in Transports
    BY DEF Typed
  <2>2. t1 \in Transports
    <3>1. "join" \in Transport!Pc
      BY <1>10, <2>1 DEF Transports, Typed, Transport!Pc, Transport!Outcome, ChildInv,
         Transport!Shutdown, Transport!Goto
    <3>. QED
      BY <2>1, <3>1, Fields
  <2>3. tr' = [tr EXCEPT ![s] = t1]
    BY <1>10 DEF Transport!Shutdown, Transport!Goto
  <2>. QED
    BY <2>2, <2>3 DEF Typed
<1>11. CASE Transport!Join(s)
  <2> DEFINE t1 == [tr[s] EXCEPT !.pc = "idle"]
             t2 == [t1 EXCEPT !.proc = 0]
  <2>1. tr[s] \in Transports
    BY DEF Typed
  <2>2. t1 \in Transports
    <3>1. "idle" \in Transport!Pc
      BY <1>11, <2>1 DEF Transports, Typed, Transport!Pc, Transport!Outcome, ChildInv,
         Transport!Join
    <3>. QED
      BY <2>1, <3>1, Fields
  <2>3. t2 \in Transports
    <3>1. 0 \in Nat
      BY <1>11, <2>1 DEF Transports, Typed, Transport!Pc, Transport!Outcome, ChildInv,
         Transport!Join
    <3>. QED
      BY <2>2, <3>1, Fields
  <2>4. tr' = [tr EXCEPT ![s] = t2]
    BY <1>11 DEF Transport!Join
  <2>. QED
    BY <2>3, <2>4 DEF Typed
<1>12. ASSUME NEW k \in 1..Len(child[s]), Transport!Read(s, k)
      PROVE tr' \in [Sessions -> Transports]
  <2> DEFINE t1 == [tr[s] EXCEPT !.queue = Append(tr[s].queue, Head(child[s][k].out))]
  <2>1. tr[s] \in Transports
    BY DEF Typed
  <2>2. t1 \in Transports
    <3>1. Append(tr[s].queue, Head(child[s][k].out)) \in Seq(Transport!Item)
      <4>3. child[s] \in Seq(Children) /\ tr[s].queue \in Seq(Transport!Item)
        BY <2>1 DEF Typed, Transports
      <4>4. child[s][k] \in Children
        BY <4>3
      <4>1. child[s][k].out \in Seq(Transport!Item) /\ child[s][k].out # <<>> /\ tr[s].queue \in Seq(Transport!Item)
        BY <1>12, <4>3, <4>4 DEF Transport!Read, Children
      <4>2. Head(child[s][k].out) \in Transport!Item
        BY <4>1, Queues
      <4>. QED
        BY <4>1, <4>2, Queues
    <3>. QED
      BY <2>1, <3>1, Fields
  <2>3. tr' = [tr EXCEPT ![s] = t1]
    BY <1>12 DEF Transport!Read, Transport!Put
  <2>. QED
    BY <2>2, <2>3 DEF Typed
<1>13. ASSUME NEW k \in 1..Len(child[s]), Transport!ReadFails(s, k)
      PROVE tr' \in [Sessions -> Transports]
  <2> DEFINE t1 == [tr[s] EXCEPT !.queue = Append(tr[s].queue, [kind |-> "error", id |-> 0, from |-> k])]
  <2>1. tr[s] \in Transports
    BY DEF Typed
  <2>2. t1 \in Transports
    <3>1. Append(tr[s].queue, [kind |-> "error", id |-> 0, from |-> k]) \in Seq(Transport!Item)
      BY <1>13, <2>1, Queues DEF Transports, Typed, Transport!Pc, Transport!Outcome, ChildInv,
         Transport!ReadFails, Transport!Put, Transport!Item
    <3>. QED
      BY <2>1, <3>1, Fields
  <2>3. tr' = [tr EXCEPT ![s] = t1]
    BY <1>13 DEF Transport!ReadFails, Transport!Put
  <2>. QED
    BY <2>2, <2>3 DEF Typed
<1>14. ASSUME NEW k \in 1..Len(child[s]), Transport!Reply(s, k)
      PROVE tr' \in [Sessions -> Transports]
  BY <1>14 DEF Transport!Reply, Typed
<1>15. ASSUME NEW k \in 1..Len(child[s]), Transport!Exit(s, k)
      PROVE tr' \in [Sessions -> Transports]
  BY <1>15 DEF Transport!Exit, Typed
<1>. QED
  BY <1>1, <1>2, <1>3, <1>4, <1>5, <1>6, <1>7, <1>8, <1>9, <1>10, <1>11, <1>12, <1>13,
     <1>14, <1>15 DEF Acts, Transport!Session, Transport!Reader

\* Every step of a session leaves its children children.
LEMMA ChildrenKept ==
  ASSUME NEW s \in Sessions, Typed, ChildInv(s), Acts(s)
  PROVE  child' \in [Sessions -> Seq(Children)]
<1>1. CASE Transport!Call(s)
  BY <1>1 DEF Transport!Call, Transport!Alive, Typed
<1>2. CASE Transport!Admit(s)
  BY <1>2 DEF Transport!Admit, Transport!Goto, Typed
<1>3. CASE Transport!AdmitTimeout(s)
  BY <1>3 DEF Transport!AdmitTimeout, Transport!Goto, Typed
<1>4. CASE Transport!Spawn(s)
  BY <1>4, NewChildren DEF Transport!Spawn, Typed
<1>5. CASE Transport!SpawnFails(s)
  BY <1>5 DEF Transport!SpawnFails, Transport!Fail, Typed
<1>6. CASE Transport!Send(s)
  <2>1. CASE Transport!Alive(s)
    <3> DEFINE c == [child[s][tr[s].proc] EXCEPT !.asked = tr[s].nextId]
    <3>1. tr[s].proc \in 1..Len(child[s]) /\ child[s][tr[s].proc] \in Children
      BY <1>6, <2>1 DEF Typed, ChildInv, Transport!Alive
    <3>2. c \in Children
      BY <3>1 DEF Children, Typed, Transports
    <3>3. child' = [child EXCEPT ![s] = [@ EXCEPT ![tr[s].proc] = c]]
      BY <1>6, <2>1 DEF Transport!Send
    <3>. QED
      BY <3>1, <3>2, <3>3, OneChild
  <2>. QED
    BY <1>6, <2>1 DEF Transport!Send, Typed
<1>7. CASE Transport!Receive(s)
  BY <1>7 DEF Transport!Receive, Typed
<1>8. CASE Transport!Timeout(s)
  BY <1>8 DEF Transport!Timeout, Transport!Fail, Typed
<1>9. CASE Transport!Close(s)
  BY <1>9 DEF Transport!Close, Transport!Fail, Typed
<1>10. CASE Transport!Shutdown(s)
  <2>1. CASE tr[s].proc # 0
    <3> DEFINE c == [child[s][tr[s].proc] EXCEPT !.alive = FALSE, !.closed = TRUE]
    <3>1. tr[s].proc \in 1..Len(child[s]) /\ child[s][tr[s].proc] \in Children
      BY <1>10, <2>1 DEF Typed, ChildInv, Transport!Alive
    <3>2. c \in Children
      BY <3>1 DEF Children, Typed, Transports
    <3>3. child' = [child EXCEPT ![s] = [@ EXCEPT ![tr[s].proc] = c]]
      BY <1>10, <2>1 DEF Transport!Shutdown
    <3>. QED
      BY <3>1, <3>2, <3>3, OneChild
  <2>. QED
    BY <1>10, <2>1 DEF Transport!Shutdown, Typed
<1>11. CASE Transport!Join(s)
  <2>1. CASE tr[s].proc # 0
    <3> DEFINE c == [child[s][tr[s].proc] EXCEPT !.alive = FALSE]
    <3>1. tr[s].proc \in 1..Len(child[s]) /\ child[s][tr[s].proc] \in Children
      BY <1>11, <2>1 DEF Typed, ChildInv, Transport!Alive
    <3>2. c \in Children
      BY <3>1 DEF Children, Typed, Transports
    <3>3. child' = [child EXCEPT ![s] = [@ EXCEPT ![tr[s].proc] = c]]
      BY <1>11, <2>1 DEF Transport!Join
    <3>. QED
      BY <3>1, <3>2, <3>3, OneChild
  <2>. QED
    BY <1>11, <2>1 DEF Transport!Join, Typed
<1>12. ASSUME NEW k \in 1..Len(child[s]), Transport!Read(s, k)
      PROVE child' \in [Sessions -> Seq(Children)]
  <2> DEFINE c == [child[s][k] EXCEPT !.out = Tail(child[s][k].out)]
  <2>1. k \in 1..Len(child[s]) /\ child[s][k] \in Children
    BY <1>12 DEF Typed, ChildInv, Transport!Read
  <2>2. c \in Children
    <3>1. child[s][k].out \in Seq(Transport!Item) /\ child[s][k].out # <<>>
      BY <1>12, <2>1 DEF Transport!Read, Children
    <3>. QED
      BY <2>1, <3>1, Queues DEF Children
  <2>3. child' = [child EXCEPT ![s] = [@ EXCEPT ![k] = c]]
    BY <1>12 DEF Transport!Read
  <2>. QED
    BY <2>1, <2>2, <2>3, OneChild
<1>13. ASSUME NEW k \in 1..Len(child[s]), Transport!ReadFails(s, k)
      PROVE child' \in [Sessions -> Seq(Children)]
  <2> DEFINE c == [child[s][k] EXCEPT !.reading = FALSE]
  <2>1. k \in 1..Len(child[s]) /\ child[s][k] \in Children
    BY <1>13 DEF Typed, ChildInv, Transport!ReadFails
  <2>2. c \in Children
    BY <2>1 DEF Children
  <2>3. child' = [child EXCEPT ![s] = [@ EXCEPT ![k] = c]]
    BY <1>13 DEF Transport!ReadFails
  <2>. QED
    BY <2>1, <2>2, <2>3, OneChild
<1>14. ASSUME NEW k \in 1..Len(child[s]), Transport!Reply(s, k)
      PROVE child' \in [Sessions -> Seq(Children)]
  <2>1. k \in 1..Len(child[s]) /\ child[s][k] \in Children
    BY <1>14 DEF Typed
  <2>2. PICK kind \in {"answer", "toolerror"} :
          child' = [child EXCEPT ![s][k].asked = 0,
                     ![s][k].out = Append(@, [kind |-> kind, id |-> child[s][k].asked, from |-> k])]
    BY <1>14 DEF Transport!Reply
  <2> DEFINE x == [kind |-> kind, id |-> child[s][k].asked, from |-> k]
             c == [child[s][k] EXCEPT !.asked = 0, !.out = Append(@, x)]
  <2>3. x \in Transport!Item /\ child[s][k].out \in Seq(Transport!Item)
    BY <2>1 DEF Transport!Item, Children
  <2>4. Append(child[s][k].out, x) \in Seq(Transport!Item)
    BY <2>3, Queues
  <2>5. c \in Children
    BY <2>1, <2>4 DEF Children
  <2>6. child' = [child EXCEPT ![s] = [@ EXCEPT ![k] = c]]
    BY <2>2
  <2>. QED
    BY <2>1, <2>5, <2>6, OneChild
<1>15. ASSUME NEW k \in 1..Len(child[s]), Transport!Exit(s, k)
      PROVE child' \in [Sessions -> Seq(Children)]
  <2> DEFINE c == [child[s][k] EXCEPT !.alive = FALSE]
  <2>1. k \in 1..Len(child[s]) /\ child[s][k] \in Children
    BY <1>15 DEF Typed, ChildInv, Transport!Exit
  <2>2. c \in Children
    BY <2>1 DEF Children
  <2>3. child' = [child EXCEPT ![s] = [@ EXCEPT ![k] = c]]
    BY <1>15 DEF Transport!Exit
  <2>. QED
    BY <2>1, <2>2, <2>3, OneChild
<1>. QED
  BY <1>1, <1>2, <1>3, <1>4, <1>5, <1>6, <1>7, <1>8, <1>9, <1>10, <1>11, <1>12, <1>13,
     <1>14, <1>15 DEF Acts, Transport!Session, Transport!Reader

\* Every step of a session leaves a holder of the lock, and results.
LEMMA ResultsKept ==
  ASSUME NEW s \in Sessions, Typed, ChildInv(s), Acts(s)
  PROVE  lock' \in Sessions \cup {"free"} /\ result' \in [Sessions -> Results]
<1>1. CASE Transport!Call(s)
  BY <1>1 DEF Transport!Call, Transport!Alive, Typed, Results, Transports, Transport!Outcome,
     Transport!NoResult
<1>2. CASE Transport!Admit(s)
  BY <1>2 DEF Transport!Admit, Transport!Goto, Typed, Results, Transports, Transport!Outcome,
     Transport!NoResult
<1>3. CASE Transport!AdmitTimeout(s)
  BY <1>3 DEF Transport!AdmitTimeout, Transport!Goto, Typed, Results, Transports,
     Transport!Outcome, Transport!NoResult
<1>4. CASE Transport!Spawn(s)
  BY <1>4 DEF Transport!Spawn, Typed, Results, Transports, Transport!Outcome, Transport!NoResult
<1>5. CASE Transport!SpawnFails(s)
  BY <1>5 DEF Transport!SpawnFails, Transport!Fail, Typed, Results, Transports,
     Transport!Outcome, Transport!NoResult
<1>6. CASE Transport!Send(s)
  <2>1. CASE UNCHANGED result
    BY <1>6, <2>1 DEF Transport!Send, Typed
  <2>2. CASE result' = [result EXCEPT ![s] = [Transport!NoResult EXCEPT !.outcome = "dead"]]
    <3>1. [Transport!NoResult EXCEPT !.outcome = "dead"] \in Results
      BY DEF Transport!NoResult, Results, Transport!Outcome
    <3>2. lock' = lock
      BY <1>6 DEF Transport!Send
    <3>. QED
      BY <2>2, <3>1, <3>2 DEF Typed
  <2>. QED
    BY <1>6, <2>1, <2>2 DEF Transport!Send
<1>7. CASE Transport!Receive(s)
  <2>1. /\ tr[s].queue \in Seq(Transport!Item) /\ tr[s].queue # <<>>
        /\ tr[s].proc \in Nat
    BY <1>7 DEF Transport!Receive, Typed, Transports
  <2>2. Head(tr[s].queue) \in Transport!Item
    BY <2>1, Queues
  <2>3. [outcome |-> "ok", by |-> Head(tr[s].queue).from, of |-> tr[s].proc] \in Results
    BY <2>1, <2>2 DEF Transport!Item, Results, Transport!Outcome
  <2>4. result' \in [Sessions -> Results]
    BY <1>7, <2>3 DEF Transport!Receive, Typed
  <2>. QED
    BY <1>7, <2>4 DEF Transport!Receive, Typed
<1>8. CASE Transport!Timeout(s)
  BY <1>8 DEF Transport!Timeout, Transport!Fail, Typed, Results, Transports, Transport!Outcome,
     Transport!NoResult
<1>9. CASE Transport!Close(s)
  BY <1>9 DEF Transport!Close, Transport!Fail, Typed, Results, Transports, Transport!Outcome,
     Transport!NoResult
<1>10. CASE Transport!Shutdown(s)
  BY <1>10 DEF Transport!Shutdown, Transport!Goto, Typed, Results, Transports,
     Transport!Outcome, Transport!NoResult
<1>11. CASE Transport!Join(s)
  BY <1>11 DEF Transport!Join, Typed, Results, Transports, Transport!Outcome, Transport!NoResult
<1>12. ASSUME NEW k \in 1..Len(child[s]), Transport!Read(s, k)
      PROVE lock' \in Sessions \cup {"free"} /\ result' \in [Sessions -> Results]
  BY <1>12 DEF Transport!Read, Transport!Put, Typed, Results, Transports, Transport!Outcome,
     Transport!NoResult
<1>13. ASSUME NEW k \in 1..Len(child[s]), Transport!ReadFails(s, k)
      PROVE lock' \in Sessions \cup {"free"} /\ result' \in [Sessions -> Results]
  BY <1>13 DEF Transport!ReadFails, Transport!Put, Typed, Results, Transports,
     Transport!Outcome, Transport!NoResult
<1>14. ASSUME NEW k \in 1..Len(child[s]), Transport!Reply(s, k)
      PROVE lock' \in Sessions \cup {"free"} /\ result' \in [Sessions -> Results]
  BY <1>14 DEF Transport!Reply, Typed, Results, Transports, Transport!Outcome, Transport!NoResult
<1>15. ASSUME NEW k \in 1..Len(child[s]), Transport!Exit(s, k)
      PROVE lock' \in Sessions \cup {"free"} /\ result' \in [Sessions -> Results]
  BY <1>15 DEF Transport!Exit, Typed, Results, Transports, Transport!Outcome, Transport!NoResult
<1>. QED
  BY <1>1, <1>2, <1>3, <1>4, <1>5, <1>6, <1>7, <1>8, <1>9, <1>10, <1>11, <1>12, <1>13,
     <1>14, <1>15 DEF Acts, Transport!Session, Transport!Reader


\* What the steps with several outcomes do.
SameBut(s, fields) ==
  /\ tr'[s].proc = tr[s].proc
  /\ "nextId" \in fields \/ (tr'[s].nextId = tr[s].nextId /\ tr'[s].id = tr[s].id)
  /\ "method" \in fields \/ tr'[s].method = tr[s].method
  /\ "queue" \in fields \/ tr'[s].queue = tr[s].queue
OthersStay(s, k) ==
  /\ Len(child'[s]) = Len(child[s])
  /\ \A j \in 1..Len(child[s]) : j # k => child'[s][j] = child[s][j]

KeepsBut(s, k, fields) ==
  /\ "alive" \in fields \/ child'[s][k].alive = child[s][k].alive
  /\ "asked" \in fields \/ child'[s][k].asked = child[s][k].asked
  /\ "out" \in fields \/ child'[s][k].out = child[s][k].out
  /\ "reading" \in fields \/ child'[s][k].reading = child[s][k].reading

\* A request is written to the living child of the transport, under a new id; of a
\* dead one nothing is asked.
LEMMA SendDoes ==
  ASSUME Typed, NEW s \in Sessions, ChildInv(s), Transport!Send(s)
  PROVE  /\ lock' = lock /\ tr[s].pc = "send"
         /\ \/ /\ Transport!Alive(s) /\ tr'[s].pc = "wait" /\ SameBut(s, {"id", "nextId"})
               /\ tr'[s].id = tr[s].nextId /\ tr'[s].nextId = tr[s].nextId + 1
               /\ OthersStay(s, tr[s].proc)
               /\ KeepsBut(s, tr[s].proc, {"asked"}) /\ child'[s][tr[s].proc].asked = tr[s].nextId
               /\ result' = result
            \/ /\ ~Transport!Alive(s) /\ SameBut(s, {}) /\ child' = child
               /\ \/ tr'[s].pc = "kill" /\ result' = result
                  \/ /\ tr'[s].pc = "idle" /\ tr[s].method = "tools/call"
                     /\ result'[s].outcome # "ok"
<1>1. tr \in [Sessions -> Transports] /\ result \in [Sessions -> Results]
  BY DEF Typed
<1>2. CASE Transport!Alive(s)
  <2>1. tr' = [tr EXCEPT ![s].pc = "wait", ![s].id = tr[s].nextId, ![s].nextId = @ + 1]
    BY <1>2 DEF Transport!Send
  <2>2. /\ tr'[s].pc = "wait" /\ SameBut(s, {"id", "nextId"})
        /\ tr'[s].id = tr[s].nextId /\ tr'[s].nextId = tr[s].nextId + 1
    BY <1>1, <2>1 DEF Transports, SameBut
  <2> DEFINE c == [child[s][tr[s].proc] EXCEPT !.asked = tr[s].nextId]
  <2>3. tr[s].proc \in 1..Len(child[s]) /\ child[s][tr[s].proc] \in Children
    BY <1>2 DEF Typed, ChildInv, Transport!Alive
  <2>4. c \in Children
    BY <1>1, <2>3 DEF Children, Transports
  <2>5. child' = [child EXCEPT ![s] = [@ EXCEPT ![tr[s].proc] = c]]
    BY <1>2 DEF Transport!Send
  <2>6. /\ Len(child'[s]) = Len(child[s]) /\ child'[s][tr[s].proc] = c
        /\ \A j \in 1..Len(child[s]) : j # tr[s].proc => child'[s][j] = child[s][j]
    <3> HIDE DEF c
    <3>. QED
      BY <2>3, <2>4, <2>5, OneChild
  <2>7. /\ c.asked = tr[s].nextId /\ c.alive = child[s][tr[s].proc].alive
        /\ c.out = child[s][tr[s].proc].out /\ c.reading = child[s][tr[s].proc].reading
    BY <2>3 DEF Children
  <2>. QED
    BY <1>2, <2>2, <2>6, <2>7 DEF Transport!Send, OthersStay, KeepsBut
<1>3. CASE ~Transport!Alive(s)
  <2>1. CASE tr' = [tr EXCEPT ![s].pc = "kill", ![s].outcome = "dead"] /\ result' = result
    <3>1. tr'[s].pc = "kill" /\ SameBut(s, {})
      BY <1>1, <2>1 DEF Transports, SameBut
    <3>. QED
      BY <1>3, <2>1, <3>1 DEF Transport!Send
  <2>2. CASE /\ tr[s].method = "tools/call" /\ tr' = [tr EXCEPT ![s].pc = "idle"]
             /\ result' = [result EXCEPT ![s] = [Transport!NoResult EXCEPT !.outcome = "dead"]]
    <3>1. tr'[s].pc = "idle" /\ SameBut(s, {})
      BY <1>1, <2>2 DEF Transports, SameBut
    <3>2. result'[s].outcome # "ok"
      BY <1>1, <2>2 DEF Transport!NoResult
    <3>. QED
      BY <1>3, <2>2, <3>1, <3>2 DEF Transport!Send
  <2>. QED
    BY <1>3, <2>1, <2>2 DEF Transport!Send, Transport!Fail, Transport!Goto
<1>. QED
  BY <1>2, <1>3

\* One item is taken: what has the id waited for ends the call or the initialization,
\* and anything else ends the child.
LEMMA ReceiveDoes ==
  ASSUME Typed, NEW s \in Sessions, Transport!Receive(s)
  PROVE  /\ tr[s].pc = "wait" /\ child' = child
         /\ tr[s].queue \in Seq(Transport!Item) /\ Members(tr'[s].queue) \subseteq Members(tr[s].queue)
         /\ \/ /\ tr'[s].pc = "kill" /\ SameBut(s, {"queue"}) /\ lock' = lock /\ result' = result
            \/ \E x \in Members(tr[s].queue) :
                 /\ x.kind = "answer" /\ x.id = tr[s].id
                 /\ \/ /\ tr[s].method = "initialize" /\ tr'[s].method = "tools/call"
                       /\ tr'[s].pc = "send" /\ SameBut(s, {"queue", "method"})
                       /\ lock' = IF Exclusive THEN lock ELSE "free"
                       /\ result' = result
                    \/ /\ tr[s].method # "initialize" /\ tr'[s].pc = "idle"
                       /\ SameBut(s, {"queue"}) /\ lock' = lock
                       /\ result'[s].by = x.from /\ result'[s].of = tr[s].proc
<1>1. tr \in [Sessions -> Transports] /\ result \in [Sessions -> Results]
  BY DEF Typed
<1>2. tr[s].queue \in Seq(Transport!Item) /\ tr[s].queue # <<>>
  BY <1>1 DEF Transport!Receive, Transports
<1>3. /\ Head(tr[s].queue) \in Members(tr[s].queue)
      /\ Members(Tail(tr[s].queue)) \subseteq Members(tr[s].queue)
  BY <1>2, Queues
<1> DEFINE x == Head(tr[s].queue)
           mine == x.kind = "answer" /\ x.id = tr[s].id
<1>4. CASE mine /\ tr[s].method = "initialize"
  <2>1. /\ tr' = [tr EXCEPT ![s].queue = Tail(@), ![s].pc = "send", ![s].method = "tools/call"]
        /\ lock' = IF Exclusive THEN lock ELSE "free"
        /\ result' = result /\ child' = child
    BY <1>4 DEF Transport!Receive
  <2>2. /\ tr'[s].queue = Tail(tr[s].queue) /\ tr'[s].pc = "send"
        /\ tr'[s].method = "tools/call" /\ SameBut(s, {"queue", "method"})
    BY <1>1, <2>1 DEF Transports, SameBut
  <2>. QED
    BY <1>2, <1>3, <1>4, <2>1, <2>2 DEF Transport!Receive
<1>5. CASE mine /\ tr[s].method # "initialize"
  <2>1. /\ tr' = [tr EXCEPT ![s].queue = Tail(@), ![s].pc = "idle"]
        /\ result' = [result EXCEPT ![s] = [outcome |-> "ok", by |-> x.from, of |-> tr[s].proc]]
        /\ lock' = lock /\ child' = child
    BY <1>5 DEF Transport!Receive
  <2>2. /\ tr'[s].queue = Tail(tr[s].queue) /\ tr'[s].pc = "idle" /\ SameBut(s, {"queue"})
    BY <1>1, <2>1 DEF Transports, SameBut
  <2>3. result'[s].by = x.from /\ result'[s].of = tr[s].proc
    BY <1>1, <2>1
  <2>. QED
    BY <1>2, <1>3, <1>5, <2>1, <2>2, <2>3 DEF Transport!Receive
<1>6. CASE ~mine
  <2>1. /\ tr' = [tr EXCEPT ![s].queue = Tail(@), ![s].pc = "kill", ![s].outcome = "error"]
        /\ lock' = lock /\ result' = result /\ child' = child
    BY <1>6 DEF Transport!Receive
  <2>2. tr'[s].queue = Tail(tr[s].queue) /\ tr'[s].pc = "kill" /\ SameBut(s, {"queue"})
    BY <1>1, <2>1 DEF Transports, SameBut
  <2>. QED
    BY <1>2, <1>3, <2>1, <2>2 DEF Transport!Receive
<1>. QED
  BY <1>4, <1>5, <1>6

\* The child in use is the last one started, or none.
LEMMA ProcKept ==
  ASSUME NEW s \in Sessions, Typed, ChildInv(s), Acts(s)
  PROVE  ChildInv(s)'
<1>1. CASE Transport!Call(s)
  BY <1>1 DEF Transport!Call, Transport!Alive, Typed, ChildInv, Transports, Children
<1>2. CASE Transport!Admit(s)
  BY <1>2 DEF Transport!Admit, Transport!Goto, Typed, ChildInv, Transports, Children
<1>3. CASE Transport!AdmitTimeout(s)
  BY <1>3 DEF Transport!AdmitTimeout, Transport!Goto, Typed, ChildInv, Transports, Children
<1>4. CASE Transport!Spawn(s)
  BY <1>4 DEF Transport!Spawn, Typed, ChildInv, Transports, Children
<1>5. CASE Transport!SpawnFails(s)
  BY <1>5 DEF Transport!SpawnFails, Transport!Fail, Typed, ChildInv, Transports, Children
<1>6. CASE Transport!Send(s)
  <2>1. /\ tr'[s].proc = tr[s].proc /\ Len(child'[s]) = Len(child[s])
        /\ tr'[s].nextId \in {tr[s].nextId, tr[s].nextId + 1} /\ tr[s].nextId \in Nat
    BY <1>6, SendDoes DEF SameBut, OthersStay, Typed, Transports
  <2>2. tr'[s].pc \in {"send", "wait"} => tr[s].proc # 0
    BY <1>6, SendDoes DEF ChildInv
  <2>3. tr'[s].outcome \in {tr[s].outcome, "dead"}
    BY <1>6 DEF Transport!Send, Transport!Fail, Transport!Goto, Typed, Transports
  <2>. QED
    BY <2>1, <2>2, <2>3 DEF ChildInv
<1>7. CASE Transport!Receive(s)
  <2>1. /\ tr'[s].proc = tr[s].proc /\ child' = child /\ tr[s].pc = "wait"
        /\ tr'[s].nextId = tr[s].nextId
    BY <1>7, ReceiveDoes DEF SameBut
  <2>2. tr'[s].outcome \in {tr[s].outcome, "error"}
    BY <1>7 DEF Transport!Receive, Typed, Transports
  <2>. QED
    BY <2>1, <2>2 DEF ChildInv
<1>8. CASE Transport!Timeout(s)
  BY <1>8 DEF Transport!Timeout, Transport!Fail, Typed, ChildInv, Transports, Children
<1>9. CASE Transport!Close(s)
  BY <1>9 DEF Transport!Close, Transport!Fail, Typed, ChildInv, Transports, Children
<1>10. CASE Transport!Shutdown(s)
  BY <1>10 DEF Transport!Shutdown, Transport!Goto, Typed, ChildInv, Transports, Children
<1>11. CASE Transport!Join(s)
  BY <1>11 DEF Transport!Join, Typed, ChildInv, Transports, Children
<1>12. ASSUME NEW k \in 1..Len(child[s]), Transport!Read(s, k) PROVE ChildInv(s)'
  BY <1>12 DEF Transport!Read, Transport!Put, Typed, ChildInv, Transports, Children
<1>13. ASSUME NEW k \in 1..Len(child[s]), Transport!ReadFails(s, k) PROVE ChildInv(s)'
  BY <1>13 DEF Transport!ReadFails, Transport!Put, Typed, ChildInv, Transports, Children
<1>14. ASSUME NEW k \in 1..Len(child[s]), Transport!Reply(s, k) PROVE ChildInv(s)'
  BY <1>14 DEF Transport!Reply, Typed, ChildInv, Transports, Children
<1>15. ASSUME NEW k \in 1..Len(child[s]), Transport!Exit(s, k) PROVE ChildInv(s)'
  BY <1>15 DEF Transport!Exit, Typed, ChildInv, Transports, Children
<1>. QED
  BY <1>1, <1>2, <1>3, <1>4, <1>5, <1>6, <1>7, <1>8, <1>9, <1>10, <1>11, <1>12, <1>13,
     <1>14, <1>15 DEF Acts, Transport!Session, Transport!Reader


\* A reader moves one item of its child to the queue of the transport.
LEMMA ReadDoes ==
  ASSUME Typed, NEW s \in Sessions, NEW k \in 1..Len(child[s]), Transport!Read(s, k)
  PROVE  /\ lock' = lock /\ result' = result /\ tr'[s].pc = tr[s].pc /\ SameBut(s, {"queue"})
         /\ OthersStay(s, k) /\ KeepsBut(s, k, {"out"}) /\ child[s][k].reading
         /\ Members(child'[s][k].out) \subseteq Members(child[s][k].out)
         /\ \E x \in Members(child[s][k].out) :
              Members(tr'[s].queue) = Members(tr[s].queue) \cup {x}
<1>1. /\ tr \in [Sessions -> Transports] /\ tr[s].queue \in Seq(Transport!Item)
      /\ child[s] \in Seq(Children)
  BY DEF Typed, Transports
<1>2. child[s][k] \in Children
  BY <1>1
<1>3. child[s][k].out \in Seq(Transport!Item) /\ child[s][k].out # <<>>
  BY <1>2 DEF Transport!Read, Children
<1> DEFINE x == Head(child[s][k].out)
           c == [child[s][k] EXCEPT !.out = Tail(child[s][k].out)]
<1>4. /\ x \in Members(child[s][k].out) /\ x \in Transport!Item /\ Tail(child[s][k].out) \in Seq(Transport!Item)
      /\ Members(Tail(child[s][k].out)) \subseteq Members(child[s][k].out)
  BY <1>3, Queues
<1>5. c \in Children /\ c.out = Tail(child[s][k].out) /\ c.alive = child[s][k].alive
      /\ c.asked = child[s][k].asked /\ c.reading = child[s][k].reading
  BY <1>2, <1>4 DEF Children
<1>6. child' = [child EXCEPT ![s] = [@ EXCEPT ![k] = c]]
  BY DEF Transport!Read
<1>7. /\ Len(child'[s]) = Len(child[s]) /\ child'[s][k] = c
      /\ \A j \in 1..Len(child[s]) : j # k => child'[s][j] = child[s][j]
  <2> HIDE DEF c
  <2>. QED
    BY <1>5, <1>6, OneChild
<1>8. tr' = [tr EXCEPT ![s].queue = Append(@, x)]
  BY DEF Transport!Read, Transport!Put
<1>9. /\ tr'[s].queue = Append(tr[s].queue, x) /\ tr'[s].pc = tr[s].pc
      /\ SameBut(s, {"queue"})
  BY <1>1, <1>8 DEF Transports, SameBut
<1>10. Members(tr'[s].queue) = Members(tr[s].queue) \cup {x}
  BY <1>1, <1>4, <1>9, Queues
<1>11. KeepsBut(s, k, {"out"}) /\ Members(child'[s][k].out) \subseteq Members(child[s][k].out)
  BY <1>4, <1>5, <1>7 DEF KeepsBut
<1>. QED
  BY <1>4, <1>7, <1>9, <1>10, <1>11 DEF Transport!Read, OthersStay

\* A reader that can read no more puts an error of its child there, and ends.
LEMMA ReadFailsDoes ==
  ASSUME Typed, NEW s \in Sessions, NEW k \in 1..Len(child[s]), Transport!ReadFails(s, k)
  PROVE  /\ lock' = lock /\ result' = result /\ tr'[s].pc = tr[s].pc /\ SameBut(s, {"queue"})
         /\ OthersStay(s, k) /\ KeepsBut(s, k, {"reading"})
         /\ child[s][k].reading /\ ~child'[s][k].reading
         /\ \E x \in Transport!Item : /\ x.kind = "error" /\ x.id = 0 /\ x.from = k
                            /\ Members(tr'[s].queue) = Members(tr[s].queue) \cup {x}
<1>1. /\ tr \in [Sessions -> Transports] /\ tr[s].queue \in Seq(Transport!Item)
      /\ child[s] \in Seq(Children)
  BY DEF Typed, Transports
<1>2. child[s][k] \in Children
  BY <1>1
<1> DEFINE x == [kind |-> "error", id |-> 0, from |-> k]
           c == [child[s][k] EXCEPT !.reading = FALSE]
<1>4. x \in Transport!Item /\ x.kind = "error" /\ x.id = 0 /\ x.from = k
  BY DEF Transport!Item
<1>5. c \in Children /\ ~c.reading /\ c.alive = child[s][k].alive
      /\ c.asked = child[s][k].asked /\ c.out = child[s][k].out
  BY <1>2 DEF Children
<1>6. child' = [child EXCEPT ![s] = [@ EXCEPT ![k] = c]]
  BY DEF Transport!ReadFails
<1>7. /\ Len(child'[s]) = Len(child[s]) /\ child'[s][k] = c
      /\ \A j \in 1..Len(child[s]) : j # k => child'[s][j] = child[s][j]
  <2> HIDE DEF c
  <2>. QED
    BY <1>5, <1>6, OneChild
<1>8. tr' = [tr EXCEPT ![s].queue = Append(@, x)]
  BY DEF Transport!ReadFails, Transport!Put
<1>9. /\ tr'[s].queue = Append(tr[s].queue, x) /\ tr'[s].pc = tr[s].pc
      /\ SameBut(s, {"queue"})
  BY <1>1, <1>8 DEF Transports, SameBut
<1>10. Members(tr'[s].queue) = Members(tr[s].queue) \cup {x}
  <2> HIDE DEF x
  <2>. QED
    BY <1>1, <1>4, <1>9, Queues
<1>11. KeepsBut(s, k, {"reading"}) /\ ~child'[s][k].reading
  BY <1>5, <1>7 DEF KeepsBut
<1>. QED
  BY <1>4, <1>7, <1>9, <1>10, <1>11 DEF Transport!ReadFails, OthersStay

\* A child answers what it was asked, once.
LEMMA ReplyDoes ==
  ASSUME Typed, NEW s \in Sessions, NEW k \in 1..Len(child[s]), Transport!Reply(s, k)
  PROVE  /\ lock' = lock /\ result' = result /\ tr' = tr
         /\ OthersStay(s, k) /\ KeepsBut(s, k, {"asked", "out"})
         /\ child[s][k].alive /\ child[s][k].asked # 0 /\ child'[s][k].asked = 0
         /\ \E x \in Transport!Item : /\ x.id = child[s][k].asked /\ x.from = k
                            /\ Members(child'[s][k].out) = Members(child[s][k].out) \cup {x}
<1>1. child[s] \in Seq(Children)
  BY DEF Typed
<1>2. child[s][k] \in Children
  BY <1>1
<1>3. PICK kind \in {"answer", "toolerror"} :
        child' = [child EXCEPT ![s][k].asked = 0,
                   ![s][k].out = Append(@, [kind |-> kind, id |-> child[s][k].asked, from |-> k])]
  BY DEF Transport!Reply
<1> DEFINE x == [kind |-> kind, id |-> child[s][k].asked, from |-> k]
           c == [child[s][k] EXCEPT !.asked = 0, !.out = Append(child[s][k].out, x)]
<1>4. x \in Transport!Item /\ x.id = child[s][k].asked /\ x.from = k /\ child[s][k].out \in Seq(Transport!Item)
  BY <1>2 DEF Transport!Item, Children
<1>5. /\ Append(child[s][k].out, x) \in Seq(Transport!Item)
      /\ Members(Append(child[s][k].out, x)) = Members(child[s][k].out) \cup {x}
  <2> HIDE DEF x
  <2>. QED
    BY <1>4, Queues
<1>6. c \in Children /\ c.asked = 0 /\ c.alive = child[s][k].alive
      /\ c.out = Append(child[s][k].out, x) /\ c.reading = child[s][k].reading
  BY <1>2, <1>5 DEF Children
<1>7. child' = [child EXCEPT ![s] = [@ EXCEPT ![k] = c]]
  BY <1>3
<1>8. /\ Len(child'[s]) = Len(child[s]) /\ child'[s][k] = c
      /\ \A j \in 1..Len(child[s]) : j # k => child'[s][j] = child[s][j]
  <2> HIDE DEF c
  <2>. QED
    BY <1>6, <1>7, OneChild
<1>9. KeepsBut(s, k, {"asked", "out"}) /\ child'[s][k].asked = 0
      /\ Members(child'[s][k].out) = Members(child[s][k].out) \cup {x}
  BY <1>5, <1>6, <1>8 DEF KeepsBut
<1>. QED
  BY <1>4, <1>8, <1>9 DEF Transport!Reply, OthersStay

\* A child ends, while a request waits for it unless it may at any time.
LEMMA ExitDoes ==
  ASSUME Typed, NEW s \in Sessions, NEW k \in 1..Len(child[s]), Transport!Exit(s, k)
  PROVE  /\ lock' = lock /\ result' = result /\ tr' = tr
         /\ OthersStay(s, k) /\ KeepsBut(s, k, {"alive"}) /\ ~child'[s][k].alive
         /\ IdleExits \/ (tr[s].pc = "wait" /\ child[s][k].asked # 0)
<1>1. child[s] \in Seq(Children)
  BY DEF Typed
<1>2. child[s][k] \in Children
  BY <1>1
<1> DEFINE c == [child[s][k] EXCEPT !.alive = FALSE]
<1>5. c \in Children /\ ~c.alive /\ c.asked = child[s][k].asked
      /\ c.out = child[s][k].out /\ c.reading = child[s][k].reading
  BY <1>2 DEF Children
<1>6. child' = [child EXCEPT ![s] = [@ EXCEPT ![k] = c]]
  BY DEF Transport!Exit
<1>7. /\ Len(child'[s]) = Len(child[s]) /\ child'[s][k] = c
      /\ \A j \in 1..Len(child[s]) : j # k => child'[s][j] = child[s][j]
  <2> HIDE DEF c
  <2>. QED
    BY <1>5, <1>6, OneChild
<1>. QED
  BY <1>5, <1>7 DEF Transport!Exit, OthersStay, KeepsBut

\* The end of a child, for good in the shutdown.
LEMMA EndDoes ==
  ASSUME Typed, NEW s \in Sessions, ChildInv(s), tr[s].proc # 0, Transport!Shutdown(s) \/ Transport!Join(s)
  PROVE  /\ OthersStay(s, tr[s].proc) /\ KeepsBut(s, tr[s].proc, {"alive"})
         /\ ~child'[s][tr[s].proc].alive
<1>1. child[s] \in Seq(Children) /\ tr[s].proc \in 1..Len(child[s])
  BY DEF Typed, ChildInv
<1>2. child[s][tr[s].proc] \in Children
  BY <1>1
<1> DEFINE old == child[s][tr[s].proc]
           ended == [old EXCEPT !.alive = FALSE, !.closed = TRUE]
           gone == [old EXCEPT !.alive = FALSE]
<1>3. \A c \in {ended, gone} : c \in Children /\ ~c.alive /\ c.asked = old.asked
                                /\ c.out = old.out /\ c.reading = old.reading
  BY <1>2 DEF Children
<1>4. PICK c \in {ended, gone} : child' = [child EXCEPT ![s] = [@ EXCEPT ![tr[s].proc] = c]]
  <2>1. CASE Transport!Shutdown(s)
    <3>1. child' = [child EXCEPT ![s] = [@ EXCEPT ![tr[s].proc] = ended]]
      BY <2>1 DEF Transport!Shutdown
    <3>. QED
      BY <3>1
  <2>2. CASE Transport!Join(s)
    <3>1. child' = [child EXCEPT ![s] = [@ EXCEPT ![tr[s].proc] = gone]]
      BY <2>2 DEF Transport!Join
    <3>. QED
      BY <3>1
  <2>. QED
    BY <2>1, <2>2
<1>5. c \in Children /\ ~c.alive /\ c.asked = old.asked /\ c.out = old.out /\ c.reading = old.reading
  BY <1>3, <1>4
<1>6. /\ Len(child'[s]) = Len(child[s]) /\ child'[s][tr[s].proc] = c
      /\ \A j \in 1..Len(child[s]) : j # tr[s].proc => child'[s][j] = child[s][j]
  <2> HIDE DEF ended, gone
  <2>. QED
    BY <1>1, <1>4, <1>5, OneChild
<1>. QED
  BY <1>5, <1>6 DEF OthersStay, KeepsBut

\* What the types say of a session and its children.
LEMMA Plain ==
  ASSUME Typed, NEW s \in Sessions
  PROVE  /\ tr[s].nextId \in Nat /\ tr[s].id \in Nat /\ tr[s].proc \in Nat
         /\ tr[s].queue \in Seq(Transport!Item) /\ Members(tr[s].queue) \subseteq Transport!Item
         /\ child[s] \in Seq(Children) /\ Len(child[s]) \in Nat
         /\ \A k \in 1..Len(child[s]) : /\ child[s][k].asked \in Nat /\ child[s][k].out \in Seq(Transport!Item)
                                        /\ Members(child[s][k].out) \subseteq Transport!Item
         /\ \A x \in Transport!Item : x.id \in Nat /\ x.from \in Nat
<1>1. tr[s] \in Transports /\ child[s] \in Seq(Children)
  BY DEF Typed
<1>2. /\ tr[s].nextId \in Nat /\ tr[s].id \in Nat /\ tr[s].proc \in Nat
      /\ tr[s].queue \in Seq(Transport!Item)
  BY <1>1 DEF Transports
<1>3. \A k \in 1..Len(child[s]) : child[s][k] \in Children
  BY <1>1
<1>4. \A k \in 1..Len(child[s]) : child[s][k].asked \in Nat /\ child[s][k].out \in Seq(Transport!Item)
  BY <1>3 DEF Children
<1>5. \A x \in Transport!Item : x.id \in Nat /\ x.from \in Nat
  BY DEF Transport!Item
<1>. QED
  BY <1>1, <1>2, <1>4, <1>5, Queues

\* Steps that leave the children, or the transport but for its place, alone.
LEMMA CallDoes ==
  ASSUME Typed, NEW s \in Sessions, Transport!Call(s)
  PROVE  /\ lock' = lock /\ result' = result /\ child' = child /\ SameBut(s, {"method"})
         /\ tr[s].pc = "idle"
         /\ IF Transport!Alive(s) THEN tr'[s].pc = "send" /\ tr'[s].method = "tools/call"
                        ELSE tr'[s].pc = "admit"
<1>1. tr \in [Sessions -> Transports]
  BY DEF Typed
<1>2. tr' = [tr EXCEPT ![s].pc = IF Transport!Alive(s) THEN "send" ELSE "admit",
                       ![s].method = IF Transport!Alive(s) THEN "tools/call" ELSE "initialize",
                       ![s].calls = @ + 1, ![s].outcome = "none"]
  BY DEF Transport!Call
<1>3. /\ SameBut(s, {"method"}) /\ tr'[s].pc = (IF Transport!Alive(s) THEN "send" ELSE "admit")
      /\ tr'[s].method = (IF Transport!Alive(s) THEN "tools/call" ELSE "initialize")
  BY <1>1, <1>2 DEF SameBut, Transports
<1>. QED
  BY <1>3 DEF Transport!Call

\* The new child has been asked nothing and begins with an empty queue.
LEMMA SpawnDoes ==
  ASSUME Typed, NEW s \in Sessions, Transport!Spawn(s)
  PROVE  /\ lock' = lock /\ result' = result /\ tr[s].pc = "spawn" /\ tr'[s].pc = "send"
         /\ tr'[s].nextId = tr[s].nextId /\ tr'[s].id = tr[s].id /\ tr'[s].method = tr[s].method
         /\ tr'[s].proc = Len(child[s]) + 1 /\ Members(tr'[s].queue) = {}
         /\ Len(child'[s]) = Len(child[s]) + 1
         /\ LET c == child'[s][Len(child[s]) + 1] IN
            c.alive /\ c.reading /\ c.asked = 0 /\ Members(c.out) = {}
         /\ \A j \in 1..Len(child[s]) : child'[s][j] = child[s][j]
<1>1. tr \in [Sessions -> Transports]
  BY DEF Typed
<1>2. /\ Len(child'[s]) = Len(child[s]) + 1 /\ child'[s][Len(child[s]) + 1] = Transport!NewChild
      /\ \A j \in 1..Len(child[s]) : child'[s][j] = child[s][j]
  BY NewChildren DEF Transport!Spawn
<1>3. tr' = [tr EXCEPT ![s].pc = "send", ![s].proc = Len(child'[s]), ![s].queue = <<>>]
  BY DEF Transport!Spawn
<1>4. /\ tr'[s].pc = "send" /\ tr'[s].proc = Len(child'[s]) /\ tr'[s].queue = <<>>
      /\ tr'[s].nextId = tr[s].nextId /\ tr'[s].id = tr[s].id /\ tr'[s].method = tr[s].method
  BY <1>1, <1>3 DEF Transports
<1>5. Members(<<>>) = {}
  BY DEF Members
<1>6. LET c == child'[s][Len(child[s]) + 1] IN
      c.alive /\ c.reading /\ c.asked = 0 /\ Members(c.out) = {}
  BY <1>2, <1>5 DEF Transport!NewChild
<1>. QED
  BY <1>2, <1>4, <1>5, <1>6 DEF Transport!Spawn

\* The steps that only move on: they keep the rest of the transport, and end a child
\* at most.
LEMMA MoveDoes ==
  ASSUME Typed, NEW s \in Sessions, ChildInv(s),
         \/ Transport!Admit(s) \/ Transport!AdmitTimeout(s) \/ Transport!SpawnFails(s)
         \/ Transport!Timeout(s) \/ Transport!Close(s) \/ Transport!Shutdown(s)
  PROVE  /\ SameBut(s, {})
         /\ Transport!Admit(s) => /\ tr[s].pc = "admit" /\ tr'[s].pc = "spawn"
                        /\ lock \in {"free", s} /\ lock' = s
         /\ Transport!AdmitTimeout(s) => /\ tr[s].pc = "admit" /\ tr'[s].pc = "idle"
                               /\ lock \notin {"free", s} /\ result'[s].outcome # "ok"
         /\ Transport!SpawnFails(s) => tr[s].pc = "spawn" /\ tr'[s].pc = "kill"
         /\ Transport!Timeout(s) => tr[s].pc = "wait" /\ tr'[s].pc = "kill"
         /\ Transport!Close(s) => tr[s].pc = "idle" /\ tr'[s].pc = "kill"
         /\ Transport!Shutdown(s) => tr[s].pc = "kill" /\ tr'[s].pc = "join"
         /\ Transport!Shutdown(s) \/ child' = child
         /\ Transport!Admit(s) \/ lock' = lock
         /\ Transport!AdmitTimeout(s) \/ result' = result
<1>1. tr \in [Sessions -> Transports] /\ result \in [Sessions -> Results]
  BY DEF Typed
<1>2. CASE Transport!Admit(s)
  BY <1>1, <1>2 DEF Transport!Admit, Transport!Goto, SameBut, Transports,
     Transport!AdmitTimeout, Transport!SpawnFails, Transport!Timeout, Transport!Close,
     Transport!Shutdown
<1>3. CASE Transport!AdmitTimeout(s)
  <2>1. tr' = [tr EXCEPT ![s].pc = "idle"] /\ result' = [result EXCEPT ![s] = [Transport!NoResult EXCEPT !.outcome = "busy"]]
    BY <1>3 DEF Transport!AdmitTimeout, Transport!Goto
  <2>2. tr'[s].pc = "idle" /\ SameBut(s, {}) /\ result'[s].outcome # "ok"
    BY <1>1, <2>1 DEF SameBut, Transports, Transport!NoResult
  <2>. QED
    BY <1>3, <2>2 DEF Transport!Admit, Transport!AdmitTimeout, Transport!SpawnFails,
       Transport!Timeout, Transport!Close, Transport!Shutdown
<1>4. CASE Transport!SpawnFails(s)
  BY <1>1, <1>4 DEF Transport!Admit, Transport!Fail, SameBut, Transports,
     Transport!AdmitTimeout, Transport!SpawnFails, Transport!Timeout, Transport!Close,
     Transport!Shutdown
<1>5. CASE Transport!Timeout(s)
  BY <1>1, <1>5 DEF Transport!Admit, Transport!Fail, SameBut, Transports,
     Transport!AdmitTimeout, Transport!SpawnFails, Transport!Timeout, Transport!Close,
     Transport!Shutdown
<1>6. CASE Transport!Close(s)
  BY <1>1, <1>6 DEF Transport!Admit, Transport!Fail, SameBut, Transports,
     Transport!AdmitTimeout, Transport!SpawnFails, Transport!Timeout, Transport!Close,
     Transport!Shutdown
<1>7. CASE Transport!Shutdown(s)
  BY <1>1, <1>7 DEF Transport!Admit, Transport!Goto, SameBut, Transports,
     Transport!AdmitTimeout, Transport!SpawnFails, Transport!Timeout, Transport!Close,
     Transport!Shutdown
<1>. QED
  BY <1>2, <1>3, <1>4, <1>5, <1>6, <1>7

\* The transport forgets its child and gives the lock back.
LEMMA JoinDoes ==
  ASSUME Typed, NEW s \in Sessions, Transport!Join(s)
  PROVE  /\ tr[s].pc = "join" /\ tr'[s].pc = "idle" /\ tr'[s].proc = 0
         /\ tr'[s].nextId = tr[s].nextId /\ tr'[s].queue = tr[s].queue
         /\ tr[s].proc = 0 => child' = child
         /\ tr[s].proc # 0 /\ ~Lingers => ~child[s][tr[s].proc].reading
         /\ lock' = IF lock = s THEN "free" ELSE lock
         /\ result'[s].by = 0 /\ result'[s].outcome = tr[s].outcome
<1>1. tr \in [Sessions -> Transports] /\ result \in [Sessions -> Results]
  BY DEF Typed
<1>2. tr' = [tr EXCEPT ![s].pc = "idle", ![s].proc = 0]
  BY DEF Transport!Join
<1>3. /\ tr'[s].pc = "idle" /\ tr'[s].proc = 0
      /\ tr'[s].nextId = tr[s].nextId /\ tr'[s].queue = tr[s].queue
  BY <1>1, <1>2 DEF Transports
<1>4. result' = [result EXCEPT ![s] = [outcome |-> tr[s].outcome, by |-> 0, of |-> tr[s].proc]]
  BY DEF Transport!Join
<1>5. result'[s].by = 0 /\ result'[s].outcome = tr[s].outcome
  BY <1>1, <1>4
<1>. QED
  BY <1>3, <1>5 DEF Transport!Join

\* Without a child nothing is shut down.
LEMMA ShutdownOfNone ==
  ASSUME NEW s \in Sessions, Transport!Shutdown(s), tr[s].proc = 0
  PROVE  child' = child
  BY DEF Transport!Shutdown

\* What a step does that neither starts a child nor writes a request: answers
\* move from a child to its output and from there to the queue.
Carries(s) ==
  /\ tr'[s].nextId = tr[s].nextId /\ Len(child'[s]) = Len(child[s])
  /\ tr'[s].pc = "wait" =>
       tr[s].pc = "wait" /\ tr'[s].id = tr[s].id /\ tr'[s].proc = tr[s].proc
  /\ \A k \in 1..Len(child[s]) :
       /\ child'[s][k].asked \in {0, child[s][k].asked}
       /\ \A x \in Members(child'[s][k].out) :
            x \in Members(child[s][k].out)
            \/ (x.id = child[s][k].asked /\ x.from = k /\ child'[s][k].asked = 0)
  /\ \A x \in Members(tr'[s].queue) :
       \/ x \in Members(tr[s].queue) \/ x.id = 0
       \/ \E k \in 1..Len(child[s]) : x \in Members(child[s][k].out) /\ child[s][k].reading
  /\ result'[s].outcome = "ok" => result'[s].by = result'[s].of

\* Every step but the start of a child and the writing of a request only carries.
LEMMA MostCarry ==
  ASSUME NEW s \in Sessions, Typed, ChildInv(s), IdInv(s), Acts(s), ~Transport!Spawn(s),
         tr'[s].pc # "wait" \/ ~Transport!Send(s)
  PROVE  Carries(s)
<1>1. CASE Transport!Call(s)
  BY <1>1, CallDoes, Plain DEF SameBut, IdInv, Carries
<1>2. CASE Transport!Admit(s)
  BY <1>2, MoveDoes, Plain DEF Transport!Admit, SameBut, IdInv, Carries
<1>3. CASE Transport!AdmitTimeout(s)
  BY <1>3, MoveDoes, Plain DEF Transport!AdmitTimeout, SameBut, IdInv, Carries
<1>5. CASE Transport!SpawnFails(s)
  BY <1>5, MoveDoes, Plain DEF Transport!SpawnFails, SameBut, IdInv, Carries
<1>6. CASE Transport!Send(s)
  BY <1>6, SendDoes, Plain DEF SameBut, IdInv, Carries
<1>7. CASE Transport!Receive(s)
  <2>1. tr'[s].pc # "wait" /\ child' = child /\ tr'[s].nextId = tr[s].nextId
    BY <1>7, ReceiveDoes DEF SameBut
  <2>2. Members(tr'[s].queue) \subseteq Members(tr[s].queue)
    BY <1>7, ReceiveDoes
  <2>3. result'[s].outcome = "ok" => result'[s].by = result'[s].of
    BY <1>7, ReceiveDoes DEF IdInv
  <2>. QED
    BY <2>1, <2>2, <2>3, Plain DEF Carries
<1>8. CASE Transport!Timeout(s)
  BY <1>8, MoveDoes, Plain DEF Transport!Timeout, SameBut, IdInv, Carries
<1>9. CASE Transport!Close(s)
  BY <1>9, MoveDoes, Plain DEF Transport!Close, SameBut, IdInv, Carries
<1>10. CASE Transport!Shutdown(s)
  <2>1. /\ tr'[s].pc # "wait" /\ tr'[s].nextId = tr[s].nextId /\ tr'[s].queue = tr[s].queue
        /\ result' = result
    BY <1>10, MoveDoes DEF Transport!Shutdown, SameBut
  <2>2. Len(child'[s]) = Len(child[s]) /\ \A k \in 1..Len(child[s]) :
          child'[s][k].asked = child[s][k].asked /\ child'[s][k].out = child[s][k].out
    BY <1>10, EndDoes, ShutdownOfNone DEF OthersStay, KeepsBut
  <2>. QED
    BY <2>1, <2>2 DEF IdInv, Carries
<1>11. CASE Transport!Join(s)
  <2>1. /\ tr'[s].pc # "wait" /\ tr'[s].nextId = tr[s].nextId /\ tr'[s].queue = tr[s].queue
        /\ result'[s].outcome = tr[s].outcome
    BY <1>11, JoinDoes
  <2>2. Len(child'[s]) = Len(child[s]) /\ \A k \in 1..Len(child[s]) :
          child'[s][k].asked = child[s][k].asked /\ child'[s][k].out = child[s][k].out
    BY <1>11, EndDoes, JoinDoes DEF OthersStay, KeepsBut
  <2>3. tr[s].outcome # "ok"
    BY <1>11, JoinDoes DEF ChildInv
  <2>. QED
    BY <2>1, <2>2, <2>3 DEF IdInv, Carries
<1>12. ASSUME NEW k \in 1..Len(child[s]), Transport!Read(s, k) PROVE Carries(s)
  <2>1. /\ tr'[s].nextId = tr[s].nextId /\ tr'[s].id = tr[s].id /\ tr'[s].proc = tr[s].proc
        /\ tr'[s].pc = tr[s].pc /\ result' = result
    BY <1>12, ReadDoes DEF SameBut
  <2>2. Len(child'[s]) = Len(child[s]) /\ \A j \in 1..Len(child[s]) :
          /\ child'[s][j].asked = child[s][j].asked
          /\ Members(child'[s][j].out) \subseteq Members(child[s][j].out)
    BY <1>12, ReadDoes DEF OthersStay, KeepsBut
  <2>3. \A x \in Members(tr'[s].queue) : x \in Members(tr[s].queue) \cup Members(child[s][k].out)
    BY <1>12, ReadDoes
  <2>. QED
    BY <1>12, <2>1, <2>2, <2>3 DEF Transport!Read, IdInv, Carries
<1>13. ASSUME NEW k \in 1..Len(child[s]), Transport!ReadFails(s, k) PROVE Carries(s)
  <2>1. /\ tr'[s].nextId = tr[s].nextId /\ tr'[s].id = tr[s].id /\ tr'[s].proc = tr[s].proc
        /\ tr'[s].pc = tr[s].pc /\ result' = result
    BY <1>13, ReadFailsDoes DEF SameBut
  <2>2. Len(child'[s]) = Len(child[s]) /\ \A j \in 1..Len(child[s]) :
          child'[s][j].asked = child[s][j].asked /\ child'[s][j].out = child[s][j].out
    BY <1>13, ReadFailsDoes DEF OthersStay, KeepsBut
  <2>3. \A x \in Members(tr'[s].queue) : x \in Members(tr[s].queue) \/ x.id = 0
    BY <1>13, ReadFailsDoes
  <2>. QED
    BY <2>1, <2>2, <2>3 DEF IdInv, Carries
<1>14. ASSUME NEW k \in 1..Len(child[s]), Transport!Reply(s, k) PROVE Carries(s)
  <2>1. Len(child'[s]) = Len(child[s]) /\ \A j \in 1..Len(child[s]) :
          /\ child'[s][j].asked \in {0, child[s][j].asked}
          /\ j # k => child'[s][j] = child[s][j]
    BY <1>14, ReplyDoes DEF OthersStay
  <2>2. \A x \in Members(child'[s][k].out) :
          \/ x \in Members(child[s][k].out)
          \/ x.id = child[s][k].asked /\ x.from = k /\ child'[s][k].asked = 0
    BY <1>14, ReplyDoes
  <2>3. tr' = tr /\ result' = result
    BY <1>14, ReplyDoes
  <2>. QED
    BY <2>1, <2>2, <2>3 DEF IdInv, Carries
<1>15. ASSUME NEW k \in 1..Len(child[s]), Transport!Exit(s, k) PROVE Carries(s)
  <2>1. Len(child'[s]) = Len(child[s]) /\ \A j \in 1..Len(child[s]) :
          child'[s][j].asked = child[s][j].asked /\ child'[s][j].out = child[s][j].out
    BY <1>15, ExitDoes DEF OthersStay, KeepsBut
  <2>2. tr' = tr /\ result' = result
    BY <1>15, ExitDoes
  <2>. QED
    BY <2>1, <2>2 DEF IdInv, Carries
<1>. QED
  BY <1>1, <1>2, <1>3, <1>5, <1>6, <1>7, <1>8, <1>9, <1>10, <1>11, <1>12, <1>13,
     <1>14, <1>15 DEF Acts, Transport!Session, Transport!Reader

\* What is only carried keeps its id and its child.
LEMMA IdCarried ==
  ASSUME NEW s \in Sessions, Typed, ChildInv(s), IdInv(s), Carries(s)
  PROVE  IdInv(s)'
<1>1. \A k \in 1..Len(child'[s]) : child'[s][k].asked < tr'[s].nextId
  BY Plain DEF ChildInv, IdInv, Carries
<1>2. \A k \in 1..Len(child'[s]) : \A x \in Members(child'[s][k].out) :
        x.id < tr'[s].nextId /\ x.from = k
  BY Plain DEF IdInv, Carries
<1>3. \A x \in Members(tr'[s].queue) : x.id < tr'[s].nextId
  BY Plain DEF ChildInv, IdInv, Carries
<1>4. ASSUME tr'[s].pc = "wait" PROVE tr'[s].id # 0 /\ tr'[s].id < tr'[s].nextId
  BY <1>4 DEF IdInv, Carries
<1>5. ASSUME tr'[s].pc = "wait", NEW k \in 1..Len(child'[s]), k # tr'[s].proc
      PROVE  child'[s][k].asked # tr'[s].id /\ \A x \in Members(child'[s][k].out) : x.id # tr'[s].id
  BY <1>5 DEF IdInv, Carries
<1>6. ASSUME tr'[s].pc = "wait", NEW x \in Members(tr'[s].queue), x.id = tr'[s].id
      PROVE  x.from = tr'[s].proc
  BY <1>6 DEF IdInv, Carries
<1>. QED
  BY <1>1, <1>2, <1>3, <1>4, <1>5, <1>6 DEF IdInv, Carries

\* Request ids are not given twice: a new one is greater than all there are, and a
\* new child has none.
LEMMA IdKept ==
  ASSUME NEW s \in Sessions, Typed, ChildInv(s), IdInv(s), Acts(s)
  PROVE  IdInv(s)'
<1>1. CASE Transport!Spawn(s)
  <2>1. ASSUME NEW k \in 1..Len(child'[s])
        PROVE  /\ child'[s][k].asked < tr'[s].nextId
               /\ \A x \in Members(child'[s][k].out) : x.id < tr'[s].nextId /\ x.from = k
    <3>1. CASE k \in 1..Len(child[s])
      BY <1>1, <3>1, SpawnDoes DEF IdInv
    <3>2. CASE k = Len(child[s]) + 1
      BY <1>1, <3>2, SpawnDoes, Plain DEF ChildInv
    <3>. QED
      BY <1>1, <3>1, <3>2, SpawnDoes, Plain
  <2>. QED
    BY <1>1, <2>1, SpawnDoes DEF IdInv
<1>2. CASE Transport!Send(s) /\ tr'[s].pc = "wait"
  <2>1. /\ Transport!Alive(s) /\ SameBut(s, {"id", "nextId"}) /\ OthersStay(s, tr[s].proc)
        /\ tr'[s].id = tr[s].nextId /\ tr'[s].nextId = tr[s].nextId + 1
        /\ KeepsBut(s, tr[s].proc, {"asked"}) /\ child'[s][tr[s].proc].asked = tr[s].nextId
        /\ result' = result
    BY <1>2, SendDoes
  <2>2. \A k \in 1..Len(child'[s]) :
          /\ child'[s][k].asked < tr'[s].nextId
          /\ k # tr[s].proc => child'[s][k].asked < tr[s].nextId
          /\ \A x \in Members(child'[s][k].out) : x.id < tr[s].nextId /\ x.from = k
    <3>1. \A k \in 1..Len(child[s]) :
            /\ child[s][k].asked < tr[s].nextId /\ child[s][k].asked \in Nat
            /\ \A x \in Members(child[s][k].out) : x.id < tr[s].nextId /\ x.from = k
      BY Plain DEF IdInv
    <3>2. /\ child'[s][tr[s].proc].asked = tr[s].nextId /\ tr[s].nextId \in Nat
          /\ child'[s][tr[s].proc].out = child[s][tr[s].proc].out
      BY <2>1, Plain DEF KeepsBut
    <3>. QED
      BY <2>1, <3>1, <3>2, SMTT(20) DEF OthersStay
  <2>3. tr'[s].queue = tr[s].queue /\ \A x \in Members(tr[s].queue) : x.id < tr[s].nextId
    BY <2>1 DEF SameBut, IdInv
  <2>4. \A k \in 1..Len(child'[s]) : \A x \in Members(child'[s][k].out) : x.id \in Nat
    BY <2>1, Plain DEF OthersStay, KeepsBut
  <2>5. \A x \in Members(tr[s].queue) : x.id \in Nat
    BY Plain
  <2>6. \A k \in 1..Len(child'[s]) : k # tr[s].proc => child'[s][k].asked \in Nat
    BY <2>1, Plain DEF OthersStay
  <2>7. /\ tr[s].nextId \in Nat /\ tr[s].nextId > 0 /\ tr'[s].proc = tr[s].proc
        /\ result[s].outcome = "ok" => result[s].by = result[s].of
    BY <2>1, Plain DEF ChildInv, SameBut, IdInv
  <2>. QED
    BY <2>1, <2>2, <2>3, <2>4, <2>5, <2>6, <2>7 DEF IdInv
<1>3. CASE ~Transport!Spawn(s) /\ (tr'[s].pc # "wait" \/ ~Transport!Send(s))
  BY <1>3, MostCarry, IdCarried
<1>. QED
  BY <1>1, <1>2, <1>3

\* A request is written to a child that owes no answer.
LEMMA OwedKept ==
  ASSUME NEW s \in Sessions, Typed, ChildInv(s), IdInv(s), OwedInv(s), Acts(s)
  PROVE  OwedInv(s)'
<1> DEFINE Resting == {"idle", "admit", "send"}
<1>1. CASE Transport!Spawn(s)
  BY <1>1, SpawnDoes, Plain DEF OwedInv
<1>2. CASE Transport!Send(s) /\ tr'[s].pc = "wait"
  <2>1. /\ tr'[s].proc = tr[s].proc /\ tr[s].proc \in 1..Len(child[s])
        /\ tr'[s].id = tr[s].nextId /\ child'[s][tr[s].proc].asked = tr[s].nextId
        /\ tr'[s].queue = tr[s].queue /\ child'[s][tr[s].proc].out = child[s][tr[s].proc].out
    BY <1>2, SendDoes, Plain DEF SameBut, KeepsBut, ChildInv
  <2>2. \A x \in Members(tr[s].queue) \cup Members(child[s][tr[s].proc].out) : x.id # tr[s].nextId
    BY <2>1, Plain DEF IdInv
  <2>. QED
    BY <1>2, <2>1, <2>2 DEF OwedInv
<1>3. CASE ~Transport!Spawn(s) /\ (tr'[s].pc # "wait" \/ ~Transport!Send(s))
  <2>1. Carries(s)
    BY <1>3, MostCarry
  <2>2. ASSUME tr'[s].pc = "wait"
        PROVE  LET c == child'[s][tr'[s].proc] IN
               /\ c.asked \in {0, tr'[s].id}
               /\ \A x \in Members(tr'[s].queue) \cup Members(c.out) : x.id = tr'[s].id => c.asked = 0
    <3>1. /\ tr[s].pc = "wait" /\ tr'[s].id = tr[s].id /\ tr'[s].proc = tr[s].proc
          /\ tr[s].id # 0 /\ tr[s].proc \in 1..Len(child[s])
      BY <2>1, <2>2, Plain DEF Carries, ChildInv, IdInv
    <3>2. child'[s][tr[s].proc].asked \in {0, child[s][tr[s].proc].asked}
      BY <2>1, <3>1 DEF Carries
    <3>3. ASSUME NEW x \in Members(child'[s][tr[s].proc].out), x.id = tr[s].id
          PROVE  child'[s][tr[s].proc].asked = 0
      BY <2>1, <3>1, <3>2, <3>3 DEF Carries, OwedInv
    <3>4. ASSUME NEW x \in Members(tr'[s].queue), x.id = tr[s].id
          PROVE  child'[s][tr[s].proc].asked = 0
      <4>1. \/ x \in Members(tr[s].queue)
            \/ \E k \in 1..Len(child[s]) : x \in Members(child[s][k].out)
        BY <2>1, <3>1, <3>4 DEF Carries
      <4>2. x \in Members(tr[s].queue) \cup Members(child[s][tr[s].proc].out)
        BY <3>1, <3>4, <4>1 DEF IdInv
      <4>. QED
        BY <3>1, <3>2, <3>4, <4>2 DEF OwedInv
    <3>. QED
      BY <3>1, <3>2, <3>3, <3>4 DEF OwedInv
  <2>3. ASSUME tr'[s].pc \in Resting, tr'[s].proc # 0
        PROVE  /\ tr'[s].proc = tr[s].proc
               /\ tr[s].pc \in Resting \/ (tr[s].pc = "wait" /\ child[s][tr[s].proc].asked = 0)
    <3>1. CASE Transport!Receive(s)
      BY <2>3, <3>1, ReceiveDoes DEF SameBut, OwedInv
    <3>2. CASE Transport!Send(s)
      BY <1>3, <2>3, <3>2, SendDoes DEF SameBut
    <3>3. CASE Transport!Call(s)
      BY <2>3, <3>3, CallDoes DEF SameBut
    <3>4. CASE \/ Transport!Admit(s) \/ Transport!AdmitTimeout(s)
               \/ Transport!SpawnFails(s) \/ Transport!Timeout(s) \/ Transport!Close(s)
               \/ Transport!Shutdown(s)
      BY <2>3, <3>4, MoveDoes DEF SameBut
    <3>5. CASE Transport!Join(s)
      BY <2>3, <3>5, JoinDoes
    <3>6. ASSUME NEW k \in 1..Len(child[s]), Transport!Read(s, k) \/ Transport!ReadFails(s, k) \/ Transport!Reply(s, k) \/ Transport!Exit(s, k)
          PROVE  tr'[s].pc = tr[s].pc /\ tr'[s].proc = tr[s].proc
      BY <3>6, ReadDoes, ReadFailsDoes, ReplyDoes, ExitDoes DEF SameBut
    <3>. QED
      BY <1>3, <2>3, <3>1, <3>2, <3>3, <3>4, <3>5, <3>6 DEF Acts, Transport!Session,
         Transport!Reader
  <2>4. ASSUME tr'[s].pc \in Resting, tr'[s].proc # 0
        PROVE  child'[s][tr'[s].proc].asked = 0
    <3>1. tr[s].proc \in 1..Len(child[s]) /\ child[s][tr[s].proc].asked = 0
      BY <2>3, <2>4, Plain DEF ChildInv, OwedInv
    <3>. QED
      BY <2>1, <2>3, <2>4, <3>1 DEF Carries
  <2>. QED
    BY <2>2, <2>4 DEF OwedInv
<1>. QED
  BY <1>1, <1>2, <1>3

\* A session that starts, or keeps, an exclusive child has the lock.
LEMMA HolderKept ==
  ASSUME "free" \notin Sessions, NEW s \in Sessions, Typed, ChildInv(s), HolderInv(s), Acts(s)
  PROVE  HolderInv(s)'
<1>1. CASE Transport!Call(s)
  <2>1. ~Transport!Alive(s) => \A k \in 1..Len(child[s]) : ~child[s][k].alive
    BY Plain DEF Transport!Alive, HolderInv
  <2>2. /\ tr[s].pc = "idle" /\ tr'[s].proc = tr[s].proc /\ lock' = lock /\ child' = child
        /\ \/ Transport!Alive(s) /\ tr'[s].pc = "send" /\ tr'[s].method = "tools/call"
           \/ ~Transport!Alive(s) /\ tr'[s].pc = "admit"
    BY <1>1, CallDoes DEF SameBut
  <2>3. tr'[s].pc = "admit" => tr'[s].method = "initialize"
    BY <1>1, <2>2 DEF Transport!Call, Typed, Transports
  <2>. QED
    BY <2>1, <2>2, <2>3 DEF HolderInv
<1>2. CASE Transport!Admit(s)
  BY <1>2, MoveDoes, Plain DEF Transport!Admit, SameBut, ChildInv, HolderInv
<1>3. CASE Transport!AdmitTimeout(s)
  BY <1>3, MoveDoes, Plain DEF Transport!AdmitTimeout, SameBut, ChildInv, HolderInv
<1>4. CASE Transport!Spawn(s)
  <2>1. ASSUME NEW k \in 1..Len(child'[s]), child'[s][k].alive
        PROVE  k = tr'[s].proc
    BY <1>4, <2>1, SpawnDoes, Plain, SMTT(20) DEF HolderInv
  <2>. QED
    BY <1>4, <2>1, SpawnDoes, Plain DEF HolderInv
<1>5. CASE Transport!SpawnFails(s)
  BY <1>5, MoveDoes, Plain DEF Transport!SpawnFails, SameBut, ChildInv, HolderInv
<1>6. CASE Transport!Send(s)
  <2>1. \A k \in 1..Len(child'[s]) : k \in 1..Len(child[s]) /\ child'[s][k].alive = child[s][k].alive
    BY <1>6, SendDoes DEF OthersStay, KeepsBut
  <2>. QED
    BY <1>6, <2>1, SendDoes, SMTT(20) DEF SameBut, Transport!Alive, ChildInv, HolderInv
<1>7. CASE Transport!Receive(s)
  BY <1>7, ReceiveDoes DEF SameBut, ChildInv, HolderInv
<1>8. CASE Transport!Timeout(s)
  BY <1>8, MoveDoes, Plain DEF Transport!Timeout, SameBut, ChildInv, HolderInv
<1>9. CASE Transport!Close(s)
  BY <1>9, MoveDoes, Plain DEF Transport!Close, SameBut, ChildInv, HolderInv
<1>10. CASE Transport!Shutdown(s)
  <2>1. \A k \in 1..Len(child'[s]) : k \in 1..Len(child[s]) /\ (child'[s][k].alive => child[s][k].alive)
    BY <1>10, EndDoes, ShutdownOfNone DEF OthersStay, KeepsBut
  <2>2. /\ tr[s].pc = "kill" /\ tr'[s].pc = "join" /\ tr'[s].proc = tr[s].proc /\ lock' = lock
    BY <1>10, MoveDoes DEF Transport!Shutdown, SameBut
  <2>. QED
    BY <2>1, <2>2 DEF HolderInv
<1>11. CASE Transport!Join(s)
  <2>1. \A k \in 1..Len(child'[s]) : ~child'[s][k].alive
    BY <1>11, EndDoes, JoinDoes, Plain DEF OthersStay, KeepsBut, HolderInv
  <2>. QED
    BY <1>11, <2>1, JoinDoes DEF HolderInv
<1>12. ASSUME NEW k \in 1..Len(child[s]), Transport!Read(s, k) \/ Transport!ReadFails(s, k) \/ Transport!Reply(s, k) \/ Transport!Exit(s, k)
       PROVE  HolderInv(s)'
  <2>1. \A j \in 1..Len(child'[s]) : j \in 1..Len(child[s]) /\ (child'[s][j].alive => child[s][j].alive)
    BY <1>12, ReadDoes, ReadFailsDoes, ReplyDoes, ExitDoes DEF OthersStay, KeepsBut
  <2>2. /\ tr'[s].pc = tr[s].pc /\ tr'[s].proc = tr[s].proc /\ tr'[s].method = tr[s].method
        /\ lock' = lock
    BY <1>12, ReadDoes, ReadFailsDoes, ReplyDoes, ExitDoes DEF SameBut
  <2>. QED
    BY <2>1, <2>2 DEF HolderInv
<1>. QED
  BY <1>1, <1>2, <1>3, <1>4, <1>5, <1>6, <1>7, <1>8, <1>9, <1>10, <1>11, <1>12
     DEF Acts, Transport!Session, Transport!Reader

\* The reader of a child that is shut down is joined before the next child starts.
LEMMA ReaderKept ==
  ASSUME ~Lingers, ~IdleExits,
         NEW s \in Sessions, Typed, ChildInv(s), IdInv(s), OwedInv(s), ReaderInv(s), Acts(s)
  PROVE  ReaderInv(s)'
<1>1. CASE Transport!Call(s)
  BY <1>1, CallDoes, Plain DEF SameBut, Transport!Alive, ChildInv, ReaderInv
<1>2. CASE Transport!Admit(s)
  BY <1>2, MoveDoes, Plain DEF Transport!Admit, SameBut, ChildInv, ReaderInv
<1>3. CASE Transport!AdmitTimeout(s)
  BY <1>3, MoveDoes, Plain DEF Transport!AdmitTimeout, SameBut, ChildInv, ReaderInv
<1>4. CASE Transport!Spawn(s)
  <2>1. \A k \in 1..Len(child[s]) : ~child[s][k].reading
    BY <1>4, SpawnDoes, Plain DEF ReaderInv
  <2>2. ASSUME NEW k \in 1..Len(child'[s]), child'[s][k].reading
        PROVE  k = tr'[s].proc
    BY <1>4, <2>1, <2>2, SpawnDoes, Plain, SMTT(20)
  <2>. QED
    BY <1>4, <2>2, SpawnDoes, Plain DEF ReaderInv
<1>5. CASE Transport!SpawnFails(s)
  BY <1>5, MoveDoes, Plain DEF Transport!SpawnFails, SameBut, ChildInv, ReaderInv
<1>6. CASE Transport!Send(s)
  <2>1. Transport!Alive(s) /\ tr[s].pc = "send"
    BY <1>6, SendDoes DEF ChildInv, ReaderInv, Transport!Alive
  <2>2. /\ tr'[s].pc = "wait" /\ tr'[s].proc = tr[s].proc /\ tr'[s].queue = tr[s].queue
        /\ Len(child'[s]) = Len(child[s])
        /\ \A k \in 1..Len(child[s]) :
             child'[s][k].reading = child[s][k].reading /\ child'[s][k].alive = child[s][k].alive
    BY <1>6, <2>1, SendDoes DEF SameBut, OthersStay, KeepsBut
  <2>3. tr[s].proc \in 1..Len(child[s])
    BY <2>1, Plain DEF Transport!Alive, ChildInv
  <2>. QED
    BY <2>1, <2>2, <2>3 DEF Transport!Alive, ReaderInv
<1>7. CASE Transport!Receive(s)
  <2>1. tr'[s].pc \in {"idle", "send"} => child[s][tr[s].proc].asked = 0
    BY <1>7, ReceiveDoes DEF OwedInv
  <2>2. /\ tr[s].pc = "wait" /\ tr'[s].pc \in {"kill", "send", "idle"}
        /\ child' = child /\ tr'[s].proc = tr[s].proc
        /\ Members(tr'[s].queue) \subseteq Members(tr[s].queue)
    BY <1>7, ReceiveDoes DEF SameBut
  <2>. QED
    BY <2>1, <2>2 DEF ChildInv, ReaderInv
<1>8. CASE Transport!Timeout(s)
  BY <1>8, MoveDoes, Plain DEF Transport!Timeout, SameBut, ChildInv, ReaderInv
<1>9. CASE Transport!Close(s)
  BY <1>9, MoveDoes, Plain DEF Transport!Close, SameBut, ChildInv, ReaderInv
<1>10. CASE Transport!Shutdown(s)
  <2>1. \A k \in 1..Len(child'[s]) : k \in 1..Len(child[s]) /\ child'[s][k].reading = child[s][k].reading
    BY <1>10, EndDoes, ShutdownOfNone DEF OthersStay, KeepsBut
  <2>2. tr'[s].pc = "join" /\ tr'[s].proc = tr[s].proc
    BY <1>10, MoveDoes DEF Transport!Shutdown, SameBut
  <2>. QED
    BY <2>1, <2>2 DEF ReaderInv
<1>11. CASE Transport!Join(s)
  <2>1. \A k \in 1..Len(child'[s]) : ~child'[s][k].reading
    <3>1. CASE tr[s].proc = 0
      <4>1. child' = child /\ Len(child[s]) \in Nat
        BY <1>11, <3>1, JoinDoes, Plain
      <4>. QED
        BY <3>1, <4>1 DEF ReaderInv
    <3>2. CASE tr[s].proc # 0
      BY <1>11, <3>2, EndDoes, JoinDoes, SMTT(20) DEF OthersStay, KeepsBut, ReaderInv
    <3>. QED
      BY <3>1, <3>2
  <2>. QED
    BY <1>11, <2>1, JoinDoes DEF ReaderInv
<1>12. ASSUME NEW k \in 1..Len(child[s]), Transport!Read(s, k) \/ Transport!ReadFails(s, k)
       PROVE  ReaderInv(s)'
  <2>1. \A j \in 1..Len(child'[s]) : /\ j \in 1..Len(child[s]) /\ (child'[s][j].reading => child[s][j].reading)
                                     /\ child'[s][j].alive = child[s][j].alive
                                     /\ child'[s][j].asked = child[s][j].asked
    BY <1>12, ReadDoes, ReadFailsDoes DEF OthersStay, KeepsBut
  <2>2. /\ tr'[s].pc = tr[s].pc /\ tr'[s].proc = tr[s].proc /\ Len(child'[s]) = Len(child[s])
    BY <1>12, ReadDoes, ReadFailsDoes DEF SameBut, OthersStay
  <2>3. k = tr[s].proc
    BY <1>12, ReadDoes, ReadFailsDoes DEF ReaderInv
  <2>4. \A x \in Members(tr'[s].queue) : x \in Members(tr[s].queue) \/ x.from = k
    <3>1. CASE Transport!Read(s, k)
      BY <3>1, ReadDoes DEF IdInv
    <3>2. CASE Transport!ReadFails(s, k)
      BY <3>2, ReadFailsDoes
    <3>. QED
      BY <1>12, <3>1, <3>2
  <2>5. tr[s].proc # 0 => tr[s].proc \in 1..Len(child'[s])
    BY <2>2, Plain DEF ChildInv
  <2>. QED
    BY <2>1, <2>2, <2>3, <2>4, <2>5 DEF ChildInv, ReaderInv
<1>13. ASSUME NEW k \in 1..Len(child[s]), Transport!Reply(s, k) PROVE ReaderInv(s)'
  <2>1. \A j \in 1..Len(child'[s]) : /\ j \in 1..Len(child[s]) /\ (child'[s][j].reading => child[s][j].reading)
                                     /\ child'[s][j].alive = child[s][j].alive
                                     /\ child'[s][j].asked = child[s][j].asked \/ child'[s][j].alive
    BY <1>13, ReplyDoes DEF OthersStay, KeepsBut
  <2>2. tr'[s] = tr[s] /\ Len(child'[s]) = Len(child[s])
    BY <1>13, ReplyDoes DEF OthersStay
  <2>3. tr[s].proc # 0 => tr[s].proc \in 1..Len(child'[s])
    BY <2>2, Plain DEF ChildInv
  <2>4. \A j \in 1..Len(child'[s]) : child'[s][j].reading => j = tr[s].proc
    BY <2>1, <2>2 DEF ReaderInv
  <2>5. tr[s].pc = "wait" =>
          child'[s][tr[s].proc].alive \/ child'[s][tr[s].proc].asked # 0
    BY <2>1, <2>2, <2>3 DEF ChildInv, ReaderInv
  <2>6. tr[s].pc \in {"idle", "send"} /\ tr[s].proc # 0 => child'[s][tr[s].proc].alive
    BY <2>1, <2>2, <2>3 DEF ReaderInv
  <2>. QED
    BY <2>2, <2>4, <2>5, <2>6 DEF ReaderInv
<1>14. ASSUME NEW k \in 1..Len(child[s]), Transport!Exit(s, k) PROVE ReaderInv(s)'
  <2>1. \A j \in 1..Len(child'[s]) : /\ j \in 1..Len(child[s]) /\ (child'[s][j].reading => child[s][j].reading)
                                     /\ child'[s][j].asked = child[s][j].asked
                                     /\ j # k => child'[s][j].alive = child[s][j].alive
    BY <1>14, ExitDoes DEF OthersStay, KeepsBut
  <2>2. tr'[s] = tr[s] /\ Len(child'[s]) = Len(child[s]) /\ tr[s].pc = "wait" /\ child[s][k].asked # 0
    BY <1>14, ExitDoes DEF OthersStay
  <2>3. tr[s].proc # 0 => tr[s].proc \in 1..Len(child'[s])
    BY <2>2, Plain DEF ChildInv
  <2>4. \A j \in 1..Len(child'[s]) : child'[s][j].reading => j = tr[s].proc
    BY <2>1, <2>2 DEF ReaderInv
  <2>5. tr[s].pc = "wait" =>
          child'[s][tr[s].proc].alive \/ child'[s][tr[s].proc].asked # 0
    BY <2>1, <2>2, <2>3 DEF ChildInv, ReaderInv
  <2>6. tr[s].pc \in {"idle", "send"} /\ tr[s].proc # 0 => child'[s][tr[s].proc].alive
    BY <2>1, <2>2, <2>3 DEF ReaderInv
  <2>. QED
    BY <2>2, <2>4, <2>5, <2>6 DEF ReaderInv
<1>. QED
  BY <1>1, <1>2, <1>3, <1>4, <1>5, <1>6, <1>7, <1>8, <1>9, <1>10, <1>11, <1>12, <1>13, <1>14
     DEF Acts, Transport!Session, Transport!Reader

\* A step of one session leaves the others alone.
LEMMA OthersAlone ==
  ASSUME Typed, NEW s \in Sessions, NEW t \in Sessions, t # s, Acts(s)
  PROVE  tr'[t] = tr[t] /\ child'[t] = child[t] /\ result'[t] = result[t]
<1>1. CASE Transport!Call(s)
  BY <1>1 DEF Transport!Call, Typed
<1>2. CASE Transport!Admit(s)
  BY <1>2 DEF Transport!Admit, Transport!Goto, Typed
<1>3. CASE Transport!AdmitTimeout(s)
  BY <1>3 DEF Transport!AdmitTimeout, Transport!Goto, Typed
<1>4. CASE Transport!Spawn(s)
  BY <1>4 DEF Transport!Spawn, Typed
<1>5. CASE Transport!SpawnFails(s)
  BY <1>5 DEF Transport!SpawnFails, Transport!Fail, Typed
<1>6. CASE Transport!Send(s)
  BY <1>6 DEF Transport!Send, Transport!Goto, Transport!Fail, Typed
<1>7. CASE Transport!Receive(s)
  BY <1>7 DEF Transport!Receive, Typed
<1>8. CASE Transport!Timeout(s)
  BY <1>8 DEF Transport!Timeout, Transport!Fail, Typed
<1>9. CASE Transport!Close(s)
  BY <1>9 DEF Transport!Close, Transport!Fail, Typed
<1>10. CASE Transport!Shutdown(s)
  BY <1>10 DEF Transport!Shutdown, Transport!Goto, Typed
<1>11. CASE Transport!Join(s)
  BY <1>11 DEF Transport!Join, Typed
<1>12. ASSUME NEW k \in 1..Len(child[s]), Transport!Read(s, k) \/ Transport!ReadFails(s, k) \/ Transport!Reply(s, k) \/ Transport!Exit(s, k)
       PROVE  tr'[t] = tr[t] /\ child'[t] = child[t] /\ result'[t] = result[t]
  BY <1>12 DEF Transport!Read, Transport!ReadFails, Transport!Put, Transport!Reply,
     Transport!Exit, Typed
<1>. QED
  BY <1>1, <1>2, <1>3, <1>4, <1>5, <1>6, <1>7, <1>8, <1>9, <1>10, <1>11, <1>12
     DEF Acts, Transport!Session, Transport!Reader

\* Nor does it take the lock from them.
LEMMA LockStays ==
  ASSUME "free" \notin Sessions, Typed, NEW s \in Sessions, ChildInv(s), HolderInv(s), Acts(s),
         NEW t \in Sessions, t # s
  PROVE  lock' = t <=> lock = t
<1>1. CASE Transport!Admit(s)
  BY <1>1 DEF Transport!Admit
<1>2. CASE Transport!Receive(s)
  BY <1>2, ReceiveDoes DEF HolderInv
<1>3. CASE Transport!Join(s)
  BY <1>3 DEF Transport!Join
<1>. QED
  BY <1>1, <1>2, <1>3 DEF Acts, Transport!Session, Transport!Reader, Transport!Call,
     Transport!AdmitTimeout, Transport!Spawn, Transport!SpawnFails, Transport!Send,
     Transport!Timeout, Transport!Close, Transport!Shutdown, Transport!Read, Transport!ReadFails, Transport!Reply, Transport!Exit

-----------------------------------------------------------------------------
(* The theorems. *)

AnswerInv == Typed /\ \A s \in Sessions : ChildInv(s) /\ IdInv(s) /\ OwedInv(s)

\* Nobody has a child, nor the lock.
LEMMA AtStart ==
  ASSUME MaxCalls \in Nat, Transport!Init
  PROVE  AnswerInv /\ \A s \in Sessions : ReaderInv(s) /\ ("free" \notin Sessions => HolderInv(s))
<1>1. Transport!Idle \in Transports
  BY DEF Transport!Idle, Transports, Transport!Pc, Transport!Outcome
<1>2. Transport!NoResult \in Results
  BY DEF Transport!NoResult, Results, Transport!Outcome
<1>3. Typed
  BY <1>1, <1>2 DEF Transport!Init, Typed
<1>4. ASSUME NEW s \in Sessions
      PROVE  /\ Len(child[s]) = 0 /\ Members(tr[s].queue) = {} /\ tr[s] = Transport!Idle
             /\ result[s] = Transport!NoResult /\ lock = "free"
  BY <1>4, Queues DEF Transport!Init, Transport!Idle, Members
<1>5. ASSUME NEW s \in Sessions
      PROVE  ChildInv(s) /\ IdInv(s) /\ OwedInv(s) /\ ReaderInv(s) /\ ("free" \notin Sessions => HolderInv(s))
  BY <1>4 DEF ChildInv, IdInv, OwedInv, ReaderInv, HolderInv, Transport!Idle, Transport!NoResult
<1>. QED
  BY <1>3, <1>5 DEF AnswerInv

\* Steps of any session keep the invariant of the answers ...
LEMMA AnswersKept ==
  ASSUME MaxCalls \in Nat, AnswerInv, [Transport!Next]_Transport!vars
  PROVE  AnswerInv'
<1>1. CASE UNCHANGED Transport!vars
  BY <1>1 DEF Transport!vars, AnswerInv, Typed, ChildInv, IdInv, OwedInv
<1>2. ASSUME NEW s \in Sessions, Acts(s) PROVE AnswerInv'
  <2>1. ChildInv(s) /\ IdInv(s) /\ OwedInv(s) /\ Typed
    BY DEF AnswerInv
  <2>2. Typed'
    BY <1>2, <2>1, TransportKept, ChildrenKept, ResultsKept DEF Typed
  <2>3. ChildInv(s)' /\ IdInv(s)' /\ OwedInv(s)'
    BY <1>2, <2>1, ProcKept, IdKept, OwedKept
  <2>4. ASSUME NEW t \in Sessions, t # s PROVE ChildInv(t)' /\ IdInv(t)' /\ OwedInv(t)'
    <3>1. tr'[t] = tr[t] /\ child'[t] = child[t] /\ result'[t] = result[t]
      BY <1>2, <2>1, <2>4, OthersAlone
    <3>2. ChildInv(t) /\ IdInv(t) /\ OwedInv(t)
      BY DEF AnswerInv
    <3>. QED
      BY <3>1, <3>2 DEF ChildInv, IdInv, OwedInv
  <2>. QED
    BY <2>2, <2>3, <2>4 DEF AnswerInv
<1>. QED
  BY <1>1, <1>2 DEF Transport!Next, Acts

\* ... that of the holders of the lock ...
LEMMA HoldersKept ==
  ASSUME "free" \notin Sessions, AnswerInv, \A s \in Sessions : HolderInv(s), [Transport!Next]_Transport!vars
  PROVE  (\A s \in Sessions : HolderInv(s))'
<1>1. CASE UNCHANGED Transport!vars
  BY <1>1 DEF Transport!vars, HolderInv
<1>2. ASSUME NEW s \in Sessions, Acts(s) PROVE \A t \in Sessions : HolderInv(t)'
  <2>1. ChildInv(s) /\ Typed
    BY DEF AnswerInv
  <2>2. HolderInv(s)'
    BY <1>2, <2>1, HolderKept
  <2>3. ASSUME NEW t \in Sessions, t # s PROVE HolderInv(t)'
    <3>1. tr'[t] = tr[t] /\ child'[t] = child[t] /\ (lock' = t <=> lock = t)
      BY <1>2, <2>1, <2>3, OthersAlone, LockStays
    <3>. QED
      BY <3>1 DEF HolderInv
  <2>. QED
    BY <2>2, <2>3
<1>. QED
  BY <1>1, <1>2 DEF Transport!Next, Acts

\* ... and that of the readers.
LEMMA ReadersKept ==
  ASSUME ~Lingers, ~IdleExits, AnswerInv, \A s \in Sessions : ReaderInv(s), [Transport!Next]_Transport!vars
  PROVE  (\A s \in Sessions : ReaderInv(s))'
<1>1. CASE UNCHANGED Transport!vars
  BY <1>1 DEF Transport!vars, ReaderInv
<1>2. ASSUME NEW s \in Sessions, Acts(s) PROVE \A t \in Sessions : ReaderInv(t)'
  <2>1. ChildInv(s) /\ IdInv(s) /\ OwedInv(s) /\ Typed
    BY DEF AnswerInv
  <2>2. ReaderInv(s)'
    BY <1>2, <2>1, ReaderKept
  <2>3. ASSUME NEW t \in Sessions, t # s PROVE ReaderInv(t)'
    <3>1. tr'[t] = tr[t] /\ child'[t] = child[t]
      BY <1>2, <2>1, <2>3, OthersAlone
    <3>. QED
      BY <3>1 DEF ReaderInv
  <2>. QED
    BY <2>2, <2>3
<1>. QED
  BY <1>1, <1>2 DEF Transport!Next, Acts

\* The invariant of the answers, of the specification.
LEMMA Answers ==
  ASSUME MaxCalls \in Nat
  PROVE  Transport!Spec => []AnswerInv
<1>1. Transport!Init => AnswerInv
  BY AtStart
<1>2. AnswerInv /\ [Transport!Next]_Transport!vars => AnswerInv'
  BY AnswersKept
<1>. QED
  BY <1>1, <1>2, PTL DEF Transport!Spec

\* Every variable of the transports has its type, a request waits only with the last child
\* started, and a child at rest owes no answer, however many sessions, calls and children
\* there are.
THEOREM TransportTypes ==
  ASSUME MaxCalls \in Nat
  PROVE  Transport!Spec => []Transport!TypeOK
<1>1. AnswerInv => Transport!TypeOK
  <2> SUFFICES ASSUME AnswerInv PROVE Transport!TypeOK
    OBVIOUS
  <2>1. ASSUME NEW s \in Sessions
        PROVE  /\ tr[s] \in [pc : Transport!Pc, proc : 0..Len(child[s]), nextId : Nat, id : Nat,
                             method : {"none", "initialize", "tools/call"}, queue : Seq(Transport!Item),
                             calls : 0..MaxCalls, outcome : Transport!Outcome]
               /\ tr[s].pc \in {"send", "wait"} => tr[s].proc = Len(child[s])
               /\ (tr[s].pc = "idle" /\ tr[s].proc # 0) => child[s][tr[s].proc].asked = 0
               /\ \A k \in 1..Len(child[s]) : child[s][k].out \in Seq(Transport!Item)
    <3>1. ChildInv(s) /\ OwedInv(s) /\ Typed
      BY DEF AnswerInv
    <3>2. tr[s] \in Transports /\ tr[s].proc \in 0..Len(child[s])
      BY <3>1, Plain DEF Typed, ChildInv
    <3>3. tr[s] \in [pc : Transport!Pc, proc : 0..Len(child[s]), nextId : Nat, id : Nat,
                     method : {"none", "initialize", "tools/call"}, queue : Seq(Transport!Item),
                     calls : 0..MaxCalls, outcome : Transport!Outcome]
      BY <3>2 DEF Transports
    <3>. QED
      BY <3>1, <3>3, Plain DEF ChildInv, OwedInv
  <2>. QED
    BY <2>1 DEF AnswerInv, Typed, Transport!TypeOK, Results
<1>. QED
  BY <1>1, Answers, PTL

\* A call is answered by the child it was sent to, with the answer to this very request:
\* not with what a child still had to say when its request timed out, nor with what the
\* reader of an earlier child put into the queue late.  Of no child or reader is anything
\* assumed (call, _receive and _drain_stdout).
THEOREM OwnAnswer ==
  ASSUME MaxCalls \in Nat
  PROVE  Transport!Spec => []Transport!AnsweredByOwnChild
<1>1. AnswerInv => Transport!AnsweredByOwnChild
  BY DEF AnswerInv, IdInv, Transport!AnsweredByOwnChild
<1>. QED
  BY <1>1, Answers, PTL

\* The global Provider lock goes with the child: in an exclusive layout at most one live
\* Provider child is on the machine, and a session at rest without a child holds nothing
\* (GlobalCbmLock, start and _shutdown).  That the lock is free is not the name of a session.
THEOREM LockFollowsChild ==
  ASSUME MaxCalls \in Nat, "free" \notin Sessions
  PROVE  Transport!Spec => []Transport!LockGoesWithChild
<1> DEFINE Inv == AnswerInv /\ \A s \in Sessions : HolderInv(s)
<1>1. Transport!Init => Inv
  BY AtStart
<1>2. Inv /\ [Transport!Next]_Transport!vars => Inv'
  BY AnswersKept, HoldersKept
<1>3. Inv => Transport!LockGoesWithChild
  BY DEF HolderInv, Transport!LockGoesWithChild
<1>. QED
  BY <1>1, <1>2, <1>3, PTL DEF Transport!Spec

\* An error item a call finds in its queue is of its own child, when every reader ends
\* within the second it is joined for and no child dies while nothing waits for it (the
\* queue is made anew with the child, and a reader puts into the one there is).
THEOREM OwnFailures ==
  ASSUME MaxCalls \in Nat, ~Lingers, ~IdleExits
  PROVE  Transport!Spec => []Transport!FailsForOwnReason
<1> DEFINE Inv == AnswerInv /\ \A s \in Sessions : ReaderInv(s)
<1>1. Transport!Init => Inv
  BY AtStart
<1>2. Inv /\ [Transport!Next]_Transport!vars => Inv'
  BY AnswersKept, ReadersKept
<1>3. Inv => Transport!FailsForOwnReason
  BY DEF AnswerInv, ChildInv, ReaderInv, Transport!FailsForOwnReason, Members
<1>. QED
  BY <1>1, <1>2, <1>3, PTL DEF Transport!Spec

-----------------------------------------------------------------------------
(* RustSession: an instance of it over variables of its own, apart from    *)
(* child, a name that ProviderTransport has too.                           *)
CONSTANTS SlowLoad, EditsInQuery, MaxCrashes, MaxQueries, MaxTries
VARIABLES contents, started, process, opened, ready, pc, query, sawEmpty, tries, expired,
          answer, changes, crashes, asked
Analyzer == INSTANCE RustSession WITH disk <- contents, edits <- changes

\* The bounds of the exploration are numbers.
AnalyzerBounds ==
  /\ MaxEdits \in Nat /\ MaxCrashes \in Nat /\ MaxQueries \in Nat /\ MaxTries \in Nat
  /\ SlowLoad \in BOOLEAN

Versions == 0..MaxEdits
Disks == [asked : Versions, other : Versions]
Analyzers == [alive : BOOLEAN, loaded : BOOLEAN, answers : BOOLEAN, view : Versions]
Places == {"idle", "start", "initialize", "ready", "fresh", "open", "ask", "wait", "closed"}
Queries == [id : 0..MaxQueries, exists : BOOLEAN]
Endings == {"empty", "nodes", "partial", "error", "not running"}
Replies == [id : 0..MaxQueries, is : Endings \cup {"none"}, view : Versions, exists : BOOLEAN]
Tries == 0..MaxTries
Askings == 0..MaxQueries

\* The types of everything, the counters of an answer included.
WorldTyped == contents \in Disks /\ changes \in Versions /\ crashes \in 0..MaxCrashes
SessionTyped ==
  /\ child \in Analyzers
  /\ started \in BOOLEAN /\ process \in BOOLEAN /\ opened \in BOOLEAN /\ ready \in BOOLEAN
  /\ expired \in BOOLEAN
QueryTyped ==
  /\ pc \in Places /\ query \in Queries /\ answer \in Replies
  /\ sawEmpty \in BOOLEAN /\ tries \in Tries /\ asked \in Askings
AnalyzerTyped == WorldTyped /\ SessionTyped /\ QueryTyped

\* An analyzer is held, and there is none before the session has started or once
\* it is closed.
HeldInv ==
  /\ child.alive => process
  /\ pc \in {"fresh", "open", "ask", "wait"} => started
  /\ pc = "start" => ~started
  /\ pc \in {"idle", "start", "closed"} /\ ~started => ~child.alive
  /\ pc = "closed" => ~started

\* An analyzer whose empty answers are taken for final answers from its workspace, or
\* had a query wait until its deadline.
SettledInv ==
  /\ ready /\ child.alive => child.answers \/ expired
  /\ child.answers => child.loaded
  /\ Analyzer!EmptyAfterDeadline

\* The analyzer sees the generation as long as the repository is the generation,
\* and a query is asked of nothing else.
SourceInv ==
  /\ contents.other = 0 => child.view = 0
  /\ pc \in {"open", "ask", "wait"} => contents = Analyzer!Generation
  /\ Analyzer!AnswersOfGeneration

\* The parts of the initial state, and of a session without an analyzer, have types.
LEMMA AnalyzerParts ==
  ASSUME AnalyzerBounds
  PROVE  /\ 0 \in Versions /\ 0 \in Tries /\ Analyzer!Generation \in Disks
         /\ Analyzer!NoChild \in Analyzers
         /\ [Analyzer!NoChild EXCEPT !.alive = TRUE] \in Analyzers
         /\ \A c \in Analyzers : c.view \in Versions
<1>1. 0 \in Versions /\ 0 \in Tries
  BY DEF AnalyzerBounds, Versions, Tries
<1>2. Analyzer!Generation \in Disks
  BY <1>1 DEF Disks, Analyzer!Generation
<1>3. Analyzer!NoChild \in Analyzers
  BY <1>1 DEF Analyzers, Analyzer!NoChild
<1>4. [Analyzer!NoChild EXCEPT !.alive = TRUE] \in Analyzers
  BY <1>3 DEF Analyzers
<1>5. \A c \in Analyzers : c.view \in Versions
  BY DEF Analyzers
<1>. QED
  BY <1>1, <1>2, <1>3, <1>4, <1>5

\* What a query is told has a type, and nothing else of the query is touched.
LEMMA ToldTyped ==
  ASSUME QueryTyped, NEW is \in Endings, NEW view \in Versions, Analyzer!Tells(is, view)
  PROVE  /\ QueryTyped'
         /\ pc' = "idle" /\ query' = query /\ sawEmpty' = sawEmpty /\ tries' = tries
         /\ asked' = asked
         /\ answer'.is = is /\ answer'.view = view /\ answer'.exists = query.exists
<1>1. answer' \in Replies
  BY DEF Analyzer!Tells, QueryTyped, Replies, Queries
<1>2. /\ pc' = "idle" /\ query' = query /\ sawEmpty' = sawEmpty /\ tries' = tries
      /\ asked' = asked
      /\ answer'.is = is /\ answer'.view = view /\ answer'.exists = query.exists
  BY DEF Analyzer!Tells
<1>. QED
  BY <1>1, <1>2 DEF QueryTyped, Places

\* The source and the counters keep their types: only an edit and a crash touch them.
LEMMA WorldKept ==
  ASSUME AnalyzerBounds, WorldTyped, [Analyzer!Next]_Analyzer!vars
  PROVE  WorldTyped'
<1>1. CASE Analyzer!Edit
  <2>1. PICK file \in {"asked", "other"}, v \in {changes + 1, 0} : contents' = [contents EXCEPT ![file] = v]
    BY <1>1 DEF Analyzer!Edit
  <2>2. v \in Versions /\ changes' \in Versions /\ crashes' = crashes
    BY <1>1 DEF Analyzer!Edit, WorldTyped, AnalyzerBounds, Versions
  <2>3. contents' \in Disks
    BY <2>1, <2>2 DEF WorldTyped, Disks
  <2>. QED
    BY <2>2, <2>3 DEF WorldTyped
<1>2. CASE Analyzer!Crash
  BY <1>2 DEF Analyzer!Crash, WorldTyped, AnalyzerBounds
<1>3. CASE UNCHANGED Analyzer!world
  BY <1>3 DEF Analyzer!world, WorldTyped
<1>4. \/ Analyzer!LoadDone \/ Analyzer!Settle \/ Analyzer!Watch \/ Analyzer!Query \/ Analyzer!Steps
      \/ Analyzer!Close \/ UNCHANGED Analyzer!vars
      => UNCHANGED Analyzer!world
  <2>1. Analyzer!Steps => UNCHANGED Analyzer!world
    BY DEF Analyzer!Steps, Analyzer!Refuse, Analyzer!Launch, Analyzer!Initialize,
       Analyzer!WaitReady, Analyzer!StartTimeout, Analyzer!StartDead, Analyzer!AssertFresh,
       Analyzer!Open, Analyzer!Send, Analyzer!NotRunning, Analyzer!Located, Analyzer!Empty,
       Analyzer!Retryable, Analyzer!OtherError, Analyzer!TransportFails,
       Analyzer!RequestTimeout, Analyzer!Deadline
  <2>. QED
    BY <2>1 DEF Analyzer!LoadDone, Analyzer!Settle, Analyzer!Watch, Analyzer!Query,
       Analyzer!Close, Analyzer!vars, Analyzer!world
<1>. QED
  BY <1>1, <1>2, <1>3, <1>4 DEF Analyzer!Next

\* Every step of the provider leaves a session and a query.
LEMMA StepsDo ==
  ASSUME AnalyzerBounds, AnalyzerTyped, Analyzer!Steps
  PROVE  SessionTyped' /\ QueryTyped'
<1>a. 0 \in Versions /\ 0 \in Tries /\ Analyzer!NoChild \in Analyzers /\ child.view \in Versions
  BY AnalyzerParts DEF AnalyzerTyped, SessionTyped
<1>b. ASSUME NEW is \in Endings, NEW view \in Versions, Analyzer!Tells(is, view)
      PROVE  QueryTyped'
  BY <1>b, ToldTyped DEF AnalyzerTyped
<1>c. "error" \in Endings /\ "partial" \in Endings /\ "empty" \in Endings /\ "nodes" \in Endings
      /\ "not running" \in Endings
  BY DEF Endings
<1>d. UNCHANGED Analyzer!session => SessionTyped'
  BY DEF Analyzer!session, Analyzer!provider, AnalyzerTyped, SessionTyped
<1>e. Analyzer!Terminated /\ started' \in BOOLEAN => SessionTyped'
  BY <1>a DEF Analyzer!Terminated, SessionTyped
<1>f. UNCHANGED <<query, sawEmpty, tries, answer, asked>> /\ pc' \in Places => QueryTyped'
  BY DEF AnalyzerTyped, QueryTyped
<1>1. CASE Analyzer!Refuse \/ Analyzer!OtherError \/ Analyzer!NotRunning
  BY <1>1, <1>a, <1>b, <1>c, <1>d DEF Analyzer!Refuse, Analyzer!OtherError,
     Analyzer!NotRunning, Analyzer!Raises, Analyzer!session
<1>2. CASE Analyzer!Launch
  <2>1. child' \in Analyzers
    BY <1>2, AnalyzerParts DEF Analyzer!Launch
  <2>2. SessionTyped'
    BY <1>2, <2>1 DEF Analyzer!Launch, AnalyzerTyped, SessionTyped
  <2>. QED
    BY <1>2, <1>f, <2>2 DEF Analyzer!Launch, Places
<1>3. CASE Analyzer!Initialize
  BY <1>3, <1>d, <1>f DEF Analyzer!Initialize, Places
<1>4. CASE Analyzer!WaitReady
  BY <1>4, <1>f DEF Analyzer!WaitReady, Places, AnalyzerTyped, SessionTyped,
     Analyzer!provider
<1>5. CASE Analyzer!StartTimeout \/ Analyzer!StartDead
  BY <1>5, <1>a, <1>b, <1>c, <1>e DEF Analyzer!StartTimeout, Analyzer!StartDead,
     Analyzer!StartFails
<1>6. CASE Analyzer!AssertFresh
  <2>1. CASE UNCHANGED Analyzer!provider /\ Analyzer!Raises
    BY <2>1, <1>a, <1>b, <1>c, <1>d DEF Analyzer!Raises, Analyzer!session
  <2>. QED
    BY <1>6, <1>d, <1>f, <2>1 DEF Analyzer!AssertFresh, Places
<1>7. CASE Analyzer!Open
  <2>1. CASE UNCHANGED Analyzer!provider /\ started' = started /\ \E is \in {"not running", "error"} : Analyzer!Tells(is, 0)
    BY <2>1, <1>a, <1>b, <1>c, <1>d DEF Analyzer!session
  <2>2. CASE /\ opened' = TRUE /\ pc' = "ask" /\ sawEmpty' = FALSE /\ tries' = 0
             /\ UNCHANGED <<child, started, process, ready, expired, query, answer, asked>>
    <3>1. SessionTyped'
      BY <2>2 DEF AnalyzerTyped, SessionTyped
    <3>2. QueryTyped'
      BY <2>2, <1>a DEF AnalyzerTyped, QueryTyped, Places
    <3>. QED
      BY <3>1, <3>2
  <2>. QED
    BY <1>7, <2>1, <2>2 DEF Analyzer!Open
<1>8. CASE Analyzer!Send
  <2>1. tries' \in Tries
    BY <1>8 DEF Analyzer!Send, AnalyzerTyped, QueryTyped, Tries, AnalyzerBounds
  <2>2. QueryTyped'
    BY <1>8, <2>1 DEF Analyzer!Send, AnalyzerTyped, QueryTyped, Places
  <2>. QED
    BY <1>8, <1>d, <2>2 DEF Analyzer!Send
<1>9. CASE Analyzer!Located
  BY <1>9, <1>a, <1>b, <1>c DEF Analyzer!Located, AnalyzerTyped, SessionTyped
<1>10. CASE Analyzer!Empty
  <2>1. SessionTyped'
    BY <1>10 DEF Analyzer!Empty, AnalyzerTyped, SessionTyped
  <2>2. CASE ready
    BY <1>10, <1>a, <1>b, <1>c, <2>1, <2>2 DEF Analyzer!Empty
  <2>3. CASE ~ready
    BY <1>10, <2>1, <2>3 DEF Analyzer!Empty, AnalyzerTyped, QueryTyped, Places
  <2>. QED
    BY <2>2, <2>3
<1>11. CASE Analyzer!Retryable
  BY <1>11, <1>d, <1>f DEF Analyzer!Retryable, Places
<1>12. CASE Analyzer!TransportFails \/ Analyzer!RequestTimeout
  BY <1>12, <1>a, <1>b, <1>c, <1>e DEF Analyzer!TransportFails, Analyzer!RequestTimeout,
     Analyzer!TimedOut, Analyzer!Raises, AnalyzerTyped, SessionTyped
<1>13. CASE Analyzer!Deadline
  <2>1. CASE sawEmpty
    BY <1>13, <1>a, <1>b, <1>c, <2>1 DEF Analyzer!Deadline, AnalyzerTyped, SessionTyped
  <2>2. CASE ~sawEmpty
    BY <1>13, <1>a, <1>b, <1>c, <1>e, <2>2 DEF Analyzer!Deadline, Analyzer!TimedOut
  <2>. QED
    BY <2>1, <2>2
<1>. QED
  BY <1>1, <1>2, <1>3, <1>4, <1>5, <1>6, <1>7, <1>8, <1>9, <1>10, <1>11, <1>12, <1>13
     DEF Analyzer!Steps

\* Every step leaves everything its type.
LEMMA AnalyzerTypesKept ==
  ASSUME AnalyzerBounds, AnalyzerTyped, [Analyzer!Next]_Analyzer!vars
  PROVE  AnalyzerTyped'
<1>a. UNCHANGED <<pc, query, answer, sawEmpty, tries, asked>> => QueryTyped'
  BY DEF AnalyzerTyped, QueryTyped
<1>1. CASE Analyzer!LoadDone \/ Analyzer!Settle \/ Analyzer!Watch
  <2>1. contents.other \in Versions
    BY DEF AnalyzerTyped, WorldTyped, Disks
  <2>2. child' \in Analyzers
    BY <1>1, <2>1 DEF Analyzer!LoadDone, Analyzer!Settle, Analyzer!Watch, AnalyzerTyped,
       SessionTyped, Analyzers, AnalyzerBounds
  <2>3. SessionTyped'
    BY <1>1, <2>2 DEF Analyzer!LoadDone, Analyzer!Settle, Analyzer!Watch, AnalyzerTyped,
       SessionTyped
  <2>. QED
    BY <1>1, <1>a, <2>3, WorldKept DEF Analyzer!LoadDone, Analyzer!Settle, Analyzer!Watch,
       AnalyzerTyped
<1>2. CASE Analyzer!Crash
  <2>1. SessionTyped'
    BY <1>2, AnalyzerParts DEF Analyzer!Crash, AnalyzerTyped, SessionTyped
  <2>. QED
    BY <1>2, <1>a, <2>1, WorldKept DEF Analyzer!Crash, AnalyzerTyped
<1>3. CASE Analyzer!Edit \/ UNCHANGED Analyzer!vars
  <2>1. SessionTyped'
    BY <1>3 DEF Analyzer!Edit, Analyzer!vars, Analyzer!session, Analyzer!provider,
       AnalyzerTyped, SessionTyped
  <2>. QED
    BY <1>3, <1>a, <2>1, WorldKept DEF Analyzer!Edit, Analyzer!vars, AnalyzerTyped
<1>4. CASE Analyzer!Query
  <2>1. query' \in Queries /\ asked' \in Askings
    BY <1>4 DEF Analyzer!Query, AnalyzerTyped, QueryTyped, Queries, Askings, AnalyzerBounds
  <2>2. QueryTyped'
    BY <1>4, <2>1 DEF Analyzer!Query, AnalyzerTyped, QueryTyped, Places
  <2>3. SessionTyped'
    BY <1>4 DEF Analyzer!Query, Analyzer!session, Analyzer!provider, AnalyzerTyped,
       SessionTyped
  <2>. QED
    BY <2>2, <2>3, WorldKept DEF AnalyzerTyped
<1>5. CASE Analyzer!Steps
  BY <1>5, StepsDo, WorldKept DEF AnalyzerTyped
<1>6. CASE Analyzer!Close
  <2>1. SessionTyped'
    BY <1>6, AnalyzerParts DEF Analyzer!Close, Analyzer!Terminated, Analyzer!provider,
       AnalyzerTyped, SessionTyped
  <2>2. QueryTyped'
    BY <1>6 DEF Analyzer!Close, AnalyzerTyped, QueryTyped, Places
  <2>. QED
    BY <2>1, <2>2, WorldKept DEF AnalyzerTyped
<1>. QED
  BY <1>1, <1>2, <1>3, <1>4, <1>5, <1>6 DEF Analyzer!Next

\* An analyzer is launched by the provider that holds it, and whatever lets go of it, or
\* makes the service forget its start, has terminated it.
LEMMA HeldKept ==
  ASSUME AnalyzerTyped, HeldInv, [Analyzer!Next]_Analyzer!vars
  PROVE  HeldInv'
<1>a. ~Analyzer!NoChild.alive
  BY DEF Analyzer!NoChild
<1>1. CASE Analyzer!LoadDone \/ Analyzer!Settle \/ Analyzer!Watch
  <2>1. child'.alive = child.alive
    BY <1>1 DEF Analyzer!LoadDone, Analyzer!Settle, Analyzer!Watch, AnalyzerTyped,
       SessionTyped, Analyzers
  <2>. QED
    BY <1>1, <2>1 DEF Analyzer!LoadDone, Analyzer!Settle, Analyzer!Watch, HeldInv
<1>2. CASE Analyzer!Crash
  BY <1>2, <1>a DEF Analyzer!Crash, HeldInv
<1>3. CASE Analyzer!Edit \/ Analyzer!Query \/ UNCHANGED Analyzer!vars
  BY <1>3 DEF Analyzer!Edit, Analyzer!Query, Analyzer!vars, Analyzer!session,
     Analyzer!provider, HeldInv
<1>4. CASE Analyzer!Steps
  <2>a. ASSUME NEW is, NEW view, Analyzer!Tells(is, view)
        PROVE  pc' = "idle"
    BY <2>a DEF Analyzer!Tells
  <2>b. ASSUME UNCHANGED Analyzer!session, pc \in {"start", "initialize", "ready"} => pc' \notin {"start", "closed"},
               pc' \in {"fresh", "open", "ask", "wait"} => pc \in {"fresh", "open", "ask", "wait"},
               pc' = "idle" => pc \in {"start", "fresh", "open", "ask", "wait"},
               pc' \notin {"start", "closed"}
        PROVE  HeldInv'
    BY <2>b DEF Analyzer!session, Analyzer!provider, HeldInv
  <2>1. CASE \/ Analyzer!Refuse \/ Analyzer!OtherError \/ Analyzer!NotRunning
             \/ (Analyzer!AssertFresh /\ UNCHANGED Analyzer!provider /\ Analyzer!Raises)
    BY <2>1, <2>a, <2>b DEF Analyzer!Refuse, Analyzer!OtherError, Analyzer!NotRunning,
       Analyzer!AssertFresh, Analyzer!Raises, Analyzer!session
  <2>2. CASE Analyzer!Launch
    BY <2>2 DEF Analyzer!Launch, HeldInv
  <2>3. CASE Analyzer!Initialize \/ Analyzer!Send \/ Analyzer!Retryable
    BY <2>3, <2>b DEF Analyzer!Initialize, Analyzer!Send, Analyzer!Retryable
  <2>4. CASE Analyzer!WaitReady
    BY <2>4 DEF Analyzer!WaitReady, Analyzer!provider, HeldInv
  <2>5. CASE Analyzer!AssertFresh /\ pc' = "open" /\ UNCHANGED Analyzer!session
    BY <2>5, <2>b DEF Analyzer!AssertFresh
  <2>6. CASE \/ Analyzer!StartTimeout \/ Analyzer!StartDead \/ Analyzer!TransportFails
             \/ Analyzer!RequestTimeout \/ (Analyzer!Deadline /\ ~sawEmpty)
    <3>1. ~child'.alive /\ pc' = "idle"
      BY <2>6, <1>a, <2>a DEF Analyzer!StartTimeout, Analyzer!StartDead,
         Analyzer!TransportFails, Analyzer!RequestTimeout, Analyzer!Deadline,
         Analyzer!StartFails, Analyzer!TimedOut, Analyzer!Raises, Analyzer!Terminated
    <3>. QED
      BY <3>1 DEF HeldInv
  <2>7. CASE Analyzer!Open
    <3>1. child' = child /\ process' = process /\ started' = started /\ pc' \in {"ask", "idle"}
      BY <2>7, <2>a DEF Analyzer!Open, Analyzer!provider
    <3>. QED
      BY <2>7, <3>1 DEF Analyzer!Open, HeldInv
  <2>8. CASE Analyzer!Located \/ Analyzer!Empty \/ (Analyzer!Deadline /\ sawEmpty)
    <3>1. /\ child' = child /\ process' = process /\ started' = started
          /\ pc' \in {"ask", "idle"} /\ pc \in {"wait", "ask"}
      BY <2>8, <2>a DEF Analyzer!Located, Analyzer!Empty, Analyzer!Deadline
    <3>. QED
      BY <3>1 DEF HeldInv
  <2>9. CASE Analyzer!AssertFresh
    <3>1. CASE UNCHANGED Analyzer!provider /\ Analyzer!Raises
      BY <2>1, <2>9, <3>1
    <3>2. CASE UNCHANGED Analyzer!session /\ pc' = "open"
      BY <2>5, <2>9, <3>2
    <3>. QED
      BY <2>9, <3>1, <3>2 DEF Analyzer!AssertFresh
  <2>. QED
    BY <1>4, <2>1, <2>2, <2>3, <2>4, <2>6, <2>7, <2>8, <2>9 DEF Analyzer!Steps
<1>5. CASE Analyzer!Close
  BY <1>5, <1>a DEF Analyzer!Close, Analyzer!Terminated, Analyzer!provider, HeldInv
<1>. QED
  BY <1>1, <1>2, <1>3, <1>4, <1>5 DEF Analyzer!Next

\* Only an analyzer that is settled, or was waited for until a deadline, is believed
\* that there is nothing.
LEMMA SettledKept ==
  ASSUME AnalyzerTyped, SettledInv, [Analyzer!Next]_Analyzer!vars
  PROVE  SettledInv'
<1>a. ~Analyzer!NoChild.alive /\ ~Analyzer!NoChild.answers
  BY DEF Analyzer!NoChild
<1>b. ASSUME NEW is, NEW view, Analyzer!Tells(is, view)
      PROVE  answer'.is = is /\ answer'.exists = query.exists /\ pc' = "idle"
  BY <1>b DEF Analyzer!Tells
<1>c. child.alive \in BOOLEAN /\ child.answers \in BOOLEAN
  BY DEF AnalyzerTyped, SessionTyped, Analyzers
<1>1. CASE Analyzer!LoadDone \/ Analyzer!Settle \/ Analyzer!Watch
  <2>1. /\ UNCHANGED <<ready, expired, pc, answer>> /\ child.alive
        /\ (ready /\ ~expired => child'.answers) /\ child'.loaded
    BY <1>1, <1>c DEF Analyzer!LoadDone, Analyzer!Settle, Analyzer!Watch, AnalyzerTyped,
       SessionTyped, Analyzers, SettledInv
  <2>. QED
    BY <2>1 DEF SettledInv, Analyzer!EmptyAfterDeadline
<1>2. CASE Analyzer!Crash
  BY <1>2, <1>a DEF Analyzer!Crash, SettledInv, Analyzer!EmptyAfterDeadline
<1>3. CASE Analyzer!Edit \/ UNCHANGED Analyzer!vars
  BY <1>3 DEF Analyzer!Edit, Analyzer!vars, Analyzer!session, Analyzer!provider, SettledInv,
     Analyzer!EmptyAfterDeadline
<1>4. CASE \/ Analyzer!Query \/ Analyzer!Initialize \/ Analyzer!WaitReady \/ Analyzer!Send
           \/ Analyzer!Retryable \/ (Analyzer!AssertFresh /\ pc' = "open" /\ UNCHANGED Analyzer!session)
           \/ (Analyzer!Open /\ pc' = "ask")
  <2>1. pc' # "idle" /\ UNCHANGED <<child, ready, expired>>
    BY <1>4 DEF Analyzer!Query, Analyzer!Initialize, Analyzer!WaitReady, Analyzer!Send,
       Analyzer!Retryable, Analyzer!AssertFresh, Analyzer!Open, Analyzer!session,
       Analyzer!provider, Analyzer!Tells
  <2>. QED
    BY <2>1 DEF SettledInv, Analyzer!EmptyAfterDeadline
<1>5. CASE Analyzer!Launch
  <2>1. pc' # "idle" /\ ready' = FALSE /\ child'.answers = FALSE
    BY <1>5 DEF Analyzer!Launch, Analyzer!NoChild
  <2>. QED
    BY <2>1 DEF SettledInv, Analyzer!EmptyAfterDeadline
<1>6. CASE \/ Analyzer!Refuse \/ Analyzer!OtherError \/ Analyzer!NotRunning
           \/ (Analyzer!AssertFresh /\ ~Analyzer!Fresh) \/ (Analyzer!Open /\ pc' = "idle")
  <2>1. UNCHANGED <<child, ready, expired>> /\ \E is \in {"error", "not running"} : Analyzer!Tells(is, 0)
    BY <1>6 DEF Analyzer!Refuse, Analyzer!OtherError, Analyzer!NotRunning,
       Analyzer!AssertFresh, Analyzer!Open, Analyzer!Raises, Analyzer!provider
  <2>. QED
    BY <2>1, <1>b DEF SettledInv, Analyzer!EmptyAfterDeadline
<1>7. CASE \/ Analyzer!StartTimeout \/ Analyzer!StartDead \/ Analyzer!RequestTimeout
           \/ Analyzer!TransportFails \/ (Analyzer!Deadline /\ ~sawEmpty)
  <2>1. child' = Analyzer!NoChild /\ \E is \in {"partial", "error"} : Analyzer!Tells(is, 0)
    BY <1>7 DEF Analyzer!StartTimeout, Analyzer!StartDead, Analyzer!RequestTimeout,
       Analyzer!TransportFails, Analyzer!Deadline, Analyzer!StartFails, Analyzer!TimedOut,
       Analyzer!Raises, Analyzer!Terminated
  <2>. QED
    BY <2>1, <1>a, <1>b DEF SettledInv, Analyzer!EmptyAfterDeadline
<1>8. CASE Analyzer!Located
  <2>1. answer'.is = "nodes" /\ UNCHANGED <<child, expired>> /\ child.answers
    BY <1>8, <1>b DEF Analyzer!Located
  <2>. QED
    BY <2>1 DEF SettledInv, Analyzer!EmptyAfterDeadline
<1>9. CASE Analyzer!Empty
  <2>1. UNCHANGED <<child, ready, expired>> /\ child.alive /\ (~query.exists \/ ~child.answers)
    BY <1>9 DEF Analyzer!Empty
  <2>2. CASE ready
    <3>1. answer'.exists = query.exists /\ (query.exists => expired)
      BY <1>9, <2>1, <2>2, <1>b, <1>c DEF Analyzer!Empty, SettledInv
    <3>. QED
      BY <2>1, <3>1 DEF SettledInv, Analyzer!EmptyAfterDeadline
  <2>3. CASE ~ready
    <3>1. pc' = "ask"
      BY <1>9, <2>3 DEF Analyzer!Empty
    <3>. QED
      BY <2>1, <3>1 DEF SettledInv, Analyzer!EmptyAfterDeadline
  <2>. QED
    BY <2>2, <2>3
<1>10. CASE Analyzer!Deadline /\ sawEmpty
  BY <1>10 DEF Analyzer!Deadline, SettledInv, Analyzer!EmptyAfterDeadline
<1>11. CASE Analyzer!Close
  <2>1. pc' # "idle" /\ (child' = Analyzer!NoChild \/ UNCHANGED <<child, ready, expired>>)
    BY <1>11 DEF Analyzer!Close, Analyzer!Terminated, Analyzer!provider
  <2>. QED
    BY <2>1, <1>a DEF SettledInv, Analyzer!EmptyAfterDeadline
<1>12. Analyzer!AssertFresh => ~Analyzer!Fresh \/ (pc' = "open" /\ UNCHANGED Analyzer!session)
  BY DEF Analyzer!AssertFresh
<1>13. Analyzer!Open => pc' \in {"ask", "idle"}
  BY DEF Analyzer!Open, Analyzer!Tells
<1>. QED
  BY <1>1, <1>2, <1>3, <1>4, <1>5, <1>6, <1>7, <1>8, <1>9, <1>10, <1>11, <1>12, <1>13
     DEF Analyzer!Next, Analyzer!Steps

\* What the analyzer has read is the generation while the repository is.
LEMMA SourceKept ==
  ASSUME AnalyzerBounds, ~EditsInQuery, ~Reverts, AnalyzerTyped, SourceInv, [Analyzer!Next]_Analyzer!vars
  PROVE  SourceInv'
<1>a. /\ Analyzer!NoChild.view = 0 /\ [Analyzer!NoChild EXCEPT !.alive = TRUE].view = 0
      /\ Analyzer!Generation.other = 0
  BY DEF Analyzer!NoChild, Analyzer!Generation
<1>b. ASSUME NEW is, NEW view, Analyzer!Tells(is, view)
      PROVE  answer'.is = is /\ answer'.view = view /\ pc' = "idle"
  BY <1>b DEF Analyzer!Tells
<1>1. CASE Analyzer!LoadDone \/ Analyzer!Settle \/ Analyzer!Watch
  <2>1. child'.view \in {child.view, contents.other} /\ contents' = contents
    BY <1>1 DEF Analyzer!LoadDone, Analyzer!Settle, Analyzer!Watch, AnalyzerTyped,
       SessionTyped, Analyzers, Analyzer!world
  <2>. QED
    BY <1>1, <2>1 DEF Analyzer!LoadDone, Analyzer!Settle, Analyzer!Watch, SourceInv,
       Analyzer!AnswersOfGeneration
<1>2. CASE Analyzer!Edit
  <2>1. PICK file \in {"asked", "other"} : contents' = [contents EXCEPT ![file] = changes + 1]
    BY <1>2 DEF Analyzer!Edit
  <2>2. contents'.other \in {contents.other, changes + 1} /\ changes + 1 # 0
    BY <2>1 DEF AnalyzerTyped, WorldTyped, Disks, Versions, AnalyzerBounds
  <2>3. pc = "idle" /\ pc' = "idle"
    BY <1>2 DEF Analyzer!Edit
  <2>. QED
    BY <1>2, <2>2, <2>3 DEF Analyzer!Edit, Analyzer!session, Analyzer!provider, SourceInv,
       Analyzer!AnswersOfGeneration
<1>3. CASE Analyzer!Crash \/ Analyzer!Query \/ Analyzer!Close \/ UNCHANGED Analyzer!vars
  BY <1>3, <1>a DEF Analyzer!Crash, Analyzer!Query, Analyzer!Close, Analyzer!Terminated,
     Analyzer!vars, Analyzer!world, Analyzer!session, Analyzer!provider, SourceInv,
     Analyzer!AnswersOfGeneration
<1>4. CASE \/ Analyzer!Launch \/ Analyzer!Initialize \/ Analyzer!WaitReady \/ Analyzer!Send
           \/ Analyzer!Retryable
  BY <1>4, <1>a DEF Analyzer!Launch, Analyzer!Initialize, Analyzer!WaitReady,
     Analyzer!Send, Analyzer!Retryable, Analyzer!world, Analyzer!session,
     Analyzer!provider, SourceInv, Analyzer!AnswersOfGeneration
<1>5. CASE Analyzer!AssertFresh \/ Analyzer!Open
  BY <1>5, <1>b DEF Analyzer!AssertFresh, Analyzer!Fresh, Analyzer!Open, Analyzer!Raises,
     Analyzer!world, Analyzer!session, Analyzer!provider, SourceInv,
     Analyzer!AnswersOfGeneration
<1>6. CASE Analyzer!Located \/ Analyzer!Empty \/ Analyzer!Deadline
  <2>1. contents.other = 0 /\ child.view = 0
    BY <1>6, <1>a DEF Analyzer!Located, Analyzer!Empty, Analyzer!Deadline, SourceInv
  <2>. QED
    BY <1>6, <1>a, <1>b, <2>1 DEF Analyzer!Located, Analyzer!Empty, Analyzer!Deadline,
       Analyzer!TimedOut, Analyzer!Terminated, Analyzer!world, SourceInv,
       Analyzer!AnswersOfGeneration
<1>7. CASE \/ Analyzer!Refuse \/ Analyzer!OtherError \/ Analyzer!NotRunning
           \/ Analyzer!StartTimeout \/ Analyzer!StartDead \/ Analyzer!RequestTimeout
           \/ Analyzer!TransportFails
  BY <1>7, <1>a, <1>b DEF Analyzer!Refuse, Analyzer!OtherError, Analyzer!NotRunning,
     Analyzer!StartTimeout, Analyzer!StartDead, Analyzer!RequestTimeout,
     Analyzer!TransportFails, Analyzer!StartFails, Analyzer!TimedOut, Analyzer!Raises,
     Analyzer!Terminated, Analyzer!world, Analyzer!provider, SourceInv,
     Analyzer!AnswersOfGeneration
<1>. QED
  BY <1>1, <1>2, <1>3, <1>4, <1>5, <1>6, <1>7 DEF Analyzer!Next, Analyzer!Steps

\* Without an analyzer, and without an answer, everything holds.
LEMMA AnalyzerAtStart ==
  ASSUME AnalyzerBounds, Analyzer!Init
  PROVE  AnalyzerTyped /\ HeldInv /\ SettledInv /\ SourceInv
<1>1. WorldTyped /\ SessionTyped
  <2>1. WorldTyped
    BY AnalyzerParts DEF AnalyzerBounds, Analyzer!Init, WorldTyped
  <2>2. SessionTyped
    BY AnalyzerParts DEF Analyzer!Init, SessionTyped
  <2>. QED
    BY <2>1, <2>2
<1>2. query \in Queries /\ answer \in Replies
  BY AnalyzerParts DEF AnalyzerBounds, Analyzer!Init, Analyzer!NoQuery, Queries, Replies
<1>3. QueryTyped
  <2>1. tries \in Tries /\ asked \in Askings
    BY AnalyzerParts DEF AnalyzerBounds, Analyzer!Init, Askings
  <2>2. pc \in Places /\ sawEmpty \in BOOLEAN
    BY DEF Analyzer!Init, Places
  <2>. QED
    BY <1>2, <2>1, <2>2 DEF QueryTyped
<1>4. HeldInv /\ SettledInv /\ SourceInv
  BY DEF Analyzer!Init, Analyzer!Generation, Analyzer!NoChild, HeldInv, SettledInv,
     SourceInv, Analyzer!EmptyAfterDeadline, Analyzer!AnswersOfGeneration
<1>. QED
  BY <1>1, <1>3, <1>4 DEF AnalyzerTyped

\* Every variable of a Rust session has its type, however often files are edited, the
\* analyzer crashes and queries are retried.
THEOREM AnalyzerTypes ==
  ASSUME AnalyzerBounds
  PROVE  Analyzer!Spec => []Analyzer!TypeOK
<1>1. AnalyzerTyped => Analyzer!TypeOK
  BY DEF AnalyzerTyped, WorldTyped, SessionTyped, QueryTyped, Versions, Disks, Analyzers,
     Places, Queries, Endings, Replies, Tries, Askings, Analyzer!TypeOK
<1>. QED
  BY AnalyzerAtStart, AnalyzerTypesKept, <1>1, PTL DEF Analyzer!Spec

\* No rust-analyzer runs that the provider does not hold, and none when the service is
\* closed, whatever was raised in between: a failed start, a timeout and a broken
\* transport terminate the process, and close does unless the service does not count
\* Rust as started, when there is none (start, _terminate and AtlasService.close).
THEOREM AnalyzerHeld ==
  ASSUME AnalyzerBounds
  PROVE  Analyzer!Spec => [](Analyzer!NoOrphan /\ Analyzer!Held)
<1>1. HeldInv => Analyzer!NoOrphan /\ Analyzer!Held
  BY DEF HeldInv, Analyzer!NoOrphan, Analyzer!Held
<1>. QED
  BY AnalyzerAtStart, AnalyzerTypesKept, HeldKept, <1>1, PTL DEF Analyzer!Spec

\* That nothing was found is told of a symbol that exists only by an analyzer of which
\* some query awaited an answer until its deadline, however slow it loads, and whatever
\* crashes, times out and is started again: every start and every termination forgets that
\* an earlier analyzer was settled (query, _terminate and start).
THEOREM EmptyIsLate ==
  ASSUME AnalyzerBounds
  PROVE  Analyzer!Spec => []Analyzer!EmptyAfterDeadline
<1>1. SettledInv => Analyzer!EmptyAfterDeadline
  BY DEF SettledInv
<1>. QED
  BY AnalyzerAtStart, AnalyzerTypesKept, SettledKept, <1>1, PTL DEF Analyzer!Spec

\* The locations of an answer are of the source of the generation they are labelled
\* with, when no file is edited while a query runs and no edit brings back the source
\* of the generation: _assert_fresh compares it at the beginning of every query.
THEOREM AnswersAreOfGeneration ==
  ASSUME AnalyzerBounds, ~EditsInQuery, ~Reverts
  PROVE  Analyzer!Spec => []Analyzer!AnswersOfGeneration
<1>1. SourceInv => Analyzer!AnswersOfGeneration
  BY DEF SourceInv
<1>. QED
  BY AnalyzerAtStart, AnalyzerTypesKept, SourceKept, <1>1, PTL DEF Analyzer!Spec

-----------------------------------------------------------------------------
(* SerenaSession: an instance of it, which has some variables of the same  *)
(* names.                                                                  *)
CONSTANT MaxNoise
VARIABLES responses, request, noise
Serena == INSTANCE SerenaSession

\* The bounds of the exploration are numbers.
SerenaBounds == MaxNoise \in Nat /\ MaxCrashes \in Nat /\ MaxQueries \in Nat

Requests == 1..MaxQueries
Runners == [alive : BOOLEAN, ready : BOOLEAN, inbox : Seq(Requests)]
Told == [id : 0..MaxQueries, is : {"none", "ok", "error", "partial"}, of : 0..MaxQueries]
Moments == {"idle", "start", "write", "read", "closed"}

\* The types, and the child the provider holds is one of those there were; a
\* request is under way while a query runs.
SerenaTyped ==
  /\ child \in Seq(Runners) /\ process \in 0..Len(child)
  /\ started \in BOOLEAN
  /\ responses \in Seq(Serena!Item)
  /\ pc \in Moments /\ request \in 0..MaxQueries
  /\ pc \in {"start", "write", "read"} => request \in Requests
  /\ answer \in Told

\* A child is held from its start until it is terminated, and no other one lives.
KeptInv ==
  /\ pc = "start" => ~started
  /\ pc \in {"write", "read"} => started
  /\ pc # "closed" => (process # 0 <=> started \/ pc = "start")
  /\ \A p \in 1..Len(child) : child[p].alive => p = process

\* Without a stray line there is none in the queue, and a closed service holds no child.
ClosedInv ==
  /\ noise \in Nat
  /\ noise = 0 => /\ \A i \in 1..Len(responses) : responses[i].is # "noise"
                  /\ pc = "closed" => process = 0

\* A living child owes nothing but the answer of the query that reads, and all it
\* has said but this answer has been read.
OwesNothing == child[process].inbox = <<>> /\ Len(responses) = 0
TurnInv ==
  /\ noise = 0
  /\ pc = "start" /\ Serena!Live(process) =>
       /\ child[process].inbox = <<>>
       /\ IF child[process].ready THEN Len(responses) = 1 /\ responses[1] = Serena!Ready ELSE Len(responses) = 0
  /\ pc \in {"idle", "write"} /\ Serena!Live(process) => child[process].ready /\ OwesNothing
  /\ pc = "read" /\ Serena!Live(process) =>
       /\ child[process].ready
       /\ \/ Len(responses) = 0 /\ Len(child[process].inbox) = 1 /\ child[process].inbox[1] = request
          \/ Len(responses) = 1 /\ child[process].inbox = <<>>
  /\ pc = "read" => \A i \in 1..Len(responses) : responses[i].is = "ok" => responses[i].of = request
  /\ Serena!OwnAnswers

\* What a queue, an inbox and the sequence of the children hold.
LEMMA Lines ==
  ASSUME NEW S, NEW q \in Seq(S)
  PROVE  /\ Len(q) \in Nat /\ (q = <<>> <=> Len(q) = 0) /\ \A i \in 1..Len(q) : q[i] \in S
         /\ \A x \in S : /\ Append(q, x) \in Seq(S) /\ Len(Append(q, x)) = Len(q) + 1
                         /\ Append(q, x)[Len(q) + 1] = x
                         /\ \A i \in 1..Len(q) : Append(q, x)[i] = q[i]
         /\ q # <<>> => /\ Head(q) = q[1] /\ Head(q) \in S /\ Tail(q) \in Seq(S)
                        /\ Len(Tail(q)) = Len(q) - 1
                        /\ \A i \in 1..Len(Tail(q)) : Tail(q)[i] = q[i + 1]
<1>1. Len(q) \in Nat /\ (q = <<>> <=> Len(q) = 0) /\ \A i \in 1..Len(q) : q[i] \in S
  BY EmptySeq
<1>2. ASSUME NEW x \in S
      PROVE  /\ Append(q, x) \in Seq(S) /\ Len(Append(q, x)) = Len(q) + 1
             /\ Append(q, x)[Len(q) + 1] = x
             /\ \A i \in 1..Len(q) : Append(q, x)[i] = q[i]
  OBVIOUS
<1>3. ASSUME q # <<>>
      PROVE  /\ Head(q) = q[1] /\ Head(q) \in S /\ Tail(q) \in Seq(S)
             /\ Len(Tail(q)) = Len(q) - 1
             /\ \A i \in 1..Len(Tail(q)) : Tail(q)[i] = q[i + 1]
  BY <1>3, HeadTailProperties
<1>. QED
  BY <1>1, <1>2, <1>3

\* What the queue is given is a line.
LEMMA LinesAre ==
  ASSUME SerenaBounds
  PROVE  /\ Serena!Ready \in Serena!Item /\ Serena!Eof \in Serena!Item
         /\ Serena!Noise \in Serena!Item
BY DEF SerenaBounds, Serena!Item, Serena!Ready, Serena!Eof, Serena!Noise

\* One child changes: the sequence of them, and every other one, stays.
LEMMA OneRunner ==
  ASSUME SerenaTyped, process # 0, NEW r \in Runners, child' = [child EXCEPT ![process] = r]
  PROVE  /\ child' \in Seq(Runners) /\ Len(child') = Len(child)
         /\ \A p \in 1..Len(child) : child'[p] = IF p = process THEN r ELSE child[p]
<1>1. process \in 1..Len(child)
  BY DEF SerenaTyped
<1>. QED
  BY <1>1 DEF SerenaTyped

\* The child that is held is one of those there were.
LEMMA HeldRunner ==
  ASSUME SerenaTyped, process # 0
  PROVE  /\ process \in 1..Len(child) /\ child[process] \in Runners
         /\ child[process].inbox \in Seq(Requests)
         /\ Serena!Live(process) <=> child[process].alive
<1>1. process \in 1..Len(child) /\ child[process] \in Runners
  BY DEF SerenaTyped
<1>. QED
  BY <1>1 DEF Runners, Serena!Live

\* Afterwards no child lives.
LEMMA TerminatedDoes ==
  ASSUME SerenaTyped, KeptInv, Serena!Terminated
  PROVE  /\ process' = 0 /\ child' \in Seq(Runners) /\ Len(child') = Len(child)
         /\ \A p \in 1..Len(child') : ~child'[p].alive
<1>1. CASE process = 0
  BY <1>1 DEF Serena!Terminated, SerenaTyped, KeptInv
<1>2. CASE process # 0
  <2> DEFINE r == [child[process] EXCEPT !.alive = FALSE]
  <2>1. r \in Runners /\ ~r.alive
    BY <1>2, HeldRunner DEF Runners
  <2>2. child' = [child EXCEPT ![process] = r]
    BY <1>2 DEF Serena!Terminated
  <2>. HIDE DEF r
  <2>3. /\ child' \in Seq(Runners) /\ Len(child') = Len(child)
        /\ \A p \in 1..Len(child) : child'[p] = IF p = process THEN r ELSE child[p]
    BY <1>2, <2>1, <2>2, OneRunner
  <2>. QED
    BY <2>1, <2>3 DEF Serena!Terminated, KeptInv
<1>. QED
  BY <1>1, <1>2

\* What a query is told has a type.
LEMMA TellsDoes ==
  ASSUME SerenaTyped, NEW is \in {"ok", "error", "partial"}, NEW of \in 0..MaxQueries, Serena!Tells(is, of)
  PROVE  /\ answer' \in Told /\ answer'.is = is /\ answer'.of = of /\ answer'.id = request
         /\ pc' = "idle"
BY DEF SerenaTyped, Serena!Tells, Told

\* A child that becomes ready has said one line.
LEMMA BecomeReadyDoes ==
  ASSUME SerenaBounds, SerenaTyped, Serena!BecomeReady
  PROVE  /\ process # 0 /\ responses' = Append(responses, Serena!Ready)
         /\ child' \in Seq(Runners) /\ Len(child') = Len(child)
         /\ child'[process] = [child[process] EXCEPT !.ready = TRUE]
         /\ child'[process].alive /\ child'[process].ready
         /\ child'[process].inbox = child[process].inbox
         /\ \A p \in 1..Len(child) : p # process => child'[p] = child[p]
         /\ UNCHANGED <<started, process, pc, request, answer>>
<1> DEFINE r == [child[process] EXCEPT !.ready = TRUE]
<1>1. process # 0
  BY DEF Serena!BecomeReady, Serena!Live
<1>2. r \in Runners /\ r.alive = child[process].alive /\ r.ready /\ r.inbox = child[process].inbox
  BY <1>1, HeldRunner DEF Runners
<1>3. child' = [child EXCEPT ![process] = r]
  BY DEF Serena!BecomeReady
<1>4. child[process].alive
  BY DEF Serena!BecomeReady, Serena!Live
<1>5. /\ responses' = Append(responses, Serena!Ready)
      /\ UNCHANGED <<started, process, pc, request, answer>>
  BY DEF Serena!BecomeReady
<1>6. process \in 1..Len(child)
  BY <1>1, HeldRunner
<1>7. /\ child' \in Seq(Runners) /\ Len(child') = Len(child)
      /\ \A p \in 1..Len(child) : child'[p] = IF p = process THEN r ELSE child[p]
  <2>. HIDE DEF r
  <2>. QED BY <1>1, <1>2, <1>3, OneRunner
<1>. QED
  BY <1>1, <1>2, <1>4, <1>5, <1>6, <1>7

\* A child answers the first request it has not answered.
LEMMA RespondDoes ==
  ASSUME SerenaTyped, Serena!Respond
  PROVE  /\ process # 0 /\ child[process].ready /\ child[process].inbox # <<>>
         /\ \E x \in Serena!Item : responses' = Append(responses, x) /\ x.of = child[process].inbox[1]
         /\ child' \in Seq(Runners) /\ Len(child') = Len(child)
         /\ child'[process].alive /\ child'[process].ready
         /\ child'[process].inbox = Tail(child[process].inbox)
         /\ \A p \in 1..Len(child) : p # process => child'[p] = child[p]
         /\ UNCHANGED <<started, process, pc, request, answer>>
<1> DEFINE r == [child[process] EXCEPT !.inbox = Tail(child[process].inbox)]
<1>1. process # 0 /\ child[process].ready /\ child[process].inbox # <<>> /\ child[process].alive
  BY DEF Serena!Respond, Serena!Live
<1>2. /\ child[process].inbox \in Seq(Requests) /\ Tail(child[process].inbox) \in Seq(Requests)
      /\ Head(child[process].inbox) = child[process].inbox[1]
      /\ Head(child[process].inbox) \in Requests
  BY <1>1, HeldRunner, Lines
<1>3. r \in Runners /\ r.alive /\ r.ready /\ r.inbox = Tail(child[process].inbox)
  BY <1>1, <1>2, HeldRunner DEF Runners
<1>4. child' = [child EXCEPT ![process] = r]
  BY DEF Serena!Respond
<1>5. \E x \in Serena!Item : responses' = Append(responses, x) /\ x.of = child[process].inbox[1]
  <2>1. PICK is \in {"ok", "error"} :
            responses' = Append(responses, [is |-> is, of |-> Head(child[process].inbox)])
    BY DEF Serena!Respond
  <2>2. [is |-> is, of |-> Head(child[process].inbox)] \in Serena!Item
    BY <1>2 DEF Serena!Item, Requests
  <2>. QED
    BY <1>2, <2>1, <2>2
<1>6. UNCHANGED <<started, process, pc, request, answer>>
  BY DEF Serena!Respond
<1>7. process \in 1..Len(child)
  BY <1>1, HeldRunner
<1>8. /\ child' \in Seq(Runners) /\ Len(child') = Len(child)
      /\ \A p \in 1..Len(child) : child'[p] = IF p = process THEN r ELSE child[p]
  <2>. HIDE DEF r
  <2>. QED BY <1>1, <1>3, <1>4, OneRunner
<1>. QED
  BY <1>1, <1>3, <1>5, <1>6, <1>7, <1>8

\* A child that crashes has said its last line.
LEMMA CrashDoes ==
  ASSUME SerenaTyped, Serena!Crash
  PROVE  /\ process # 0 /\ responses' = Append(responses, Serena!Eof)
         /\ child' \in Seq(Runners) /\ Len(child') = Len(child)
         /\ ~child'[process].alive
         /\ \A p \in 1..Len(child) : p # process => child'[p] = child[p]
         /\ UNCHANGED <<started, process, pc, request, answer>>
<1> DEFINE r == [child[process] EXCEPT !.alive = FALSE]
<1>1. process # 0
  BY DEF Serena!Crash, Serena!Live
<1>2. r \in Runners /\ ~r.alive
  BY <1>1, HeldRunner DEF Runners
<1>3. child' = [child EXCEPT ![process] = r]
  BY DEF Serena!Crash
<1>4. /\ responses' = Append(responses, Serena!Eof)
      /\ UNCHANGED <<started, process, pc, request, answer>>
  BY DEF Serena!Crash
<1>5. process \in 1..Len(child)
  BY <1>1, HeldRunner
<1>6. /\ child' \in Seq(Runners) /\ Len(child') = Len(child)
      /\ \A p \in 1..Len(child) : child'[p] = IF p = process THEN r ELSE child[p]
  <2>. HIDE DEF r
  <2>. QED BY <1>1, <1>2, <1>3, OneRunner
<1>. QED
  BY <1>1, <1>2, <1>4, <1>5, <1>6

\* A request is written to the child that is held, and living.
LEMMA WriteDoes ==
  ASSUME SerenaTyped, Serena!Write
  PROVE  /\ process # 0 /\ child' \in Seq(Runners) /\ Len(child') = Len(child)
         /\ child'[process].alive /\ child'[process].ready = child[process].ready
         /\ child'[process].inbox = Append(child[process].inbox, request)
         /\ \A p \in 1..Len(child) : p # process => child'[p] = child[p]
         /\ pc' = "read" /\ UNCHANGED <<started, process, responses, request, answer>>
<1> DEFINE r == [child[process] EXCEPT !.inbox = Append(child[process].inbox, request)]
<1>1. process # 0 /\ child[process].alive
  BY DEF Serena!Write, Serena!Live
<1>2. request \in Requests
  BY DEF Serena!Write, SerenaTyped
<1>3. Append(child[process].inbox, request) \in Seq(Requests)
  BY <1>1, <1>2, HeldRunner, Lines
<1>4. /\ r \in Runners /\ r.alive /\ r.ready = child[process].ready
      /\ r.inbox = Append(child[process].inbox, request)
  BY <1>1, <1>3, HeldRunner DEF Runners
<1>5. child' = [child EXCEPT ![process] = r]
  BY DEF Serena!Write
<1>6. pc' = "read" /\ UNCHANGED <<started, process, responses, request, answer>>
  BY DEF Serena!Write
<1>7. process \in 1..Len(child)
  BY <1>1, HeldRunner
<1>8. /\ child' \in Seq(Runners) /\ Len(child') = Len(child)
      /\ \A p \in 1..Len(child) : child'[p] = IF p = process THEN r ELSE child[p]
  <2>. HIDE DEF r
  <2>. QED BY <1>1, <1>4, <1>5, OneRunner
<1>. QED
  BY <1>1, <1>4, <1>6, <1>7, <1>8

\* A query begins: with the child there is, or with a new one and an empty queue.
LEMMA EnsureDoes ==
  ASSUME SerenaBounds, SerenaTyped, KeptInv, Serena!Ensure
  PROVE  /\ pc = "idle" /\ request' \in Requests /\ answer' = answer
         /\ \/ /\ process # 0 /\ started /\ started' /\ pc' = "write"
               /\ UNCHANGED <<process, child, responses>>
            \/ /\ process = 0 /\ ~started /\ ~started' /\ pc' = "start"
               /\ process' = Len(child) + 1 /\ Len(child') = Len(child) + 1
               /\ child' \in Seq(Runners) /\ responses' = <<>>
               /\ child'[process'].alive /\ ~child'[process'].ready
               /\ child'[process'].inbox = <<>>
               /\ \A p \in 1..Len(child) : child'[p] = child[p]
<1>1. pc = "idle" /\ request' \in Requests /\ answer' = answer
  BY DEF Serena!Ensure, SerenaTyped, Requests, SerenaBounds
<1>2. CASE started \/ process # 0
  BY <1>1, <1>2 DEF Serena!Ensure, KeptInv
<1>3. CASE ~(started \/ process # 0)
  <2> DEFINE r == [alive |-> TRUE, ready |-> FALSE, inbox |-> <<>>]
  <2>1. r \in Runners /\ r.alive /\ ~r.ready /\ r.inbox = <<>>
    BY DEF Runners
  <2>2. /\ child' = Append(child, r) /\ process' = Len(child) + 1 /\ responses' = <<>>
        /\ pc' = "start" /\ started' = started
    BY <1>3 DEF Serena!Ensure
  <2>. HIDE DEF r
  <2>3. /\ child' \in Seq(Runners) /\ Len(child') = Len(child) + 1 /\ child'[Len(child) + 1] = r
        /\ \A p \in 1..Len(child) : child'[p] = child[p]
    BY <2>1, <2>2, Lines DEF SerenaTyped
  <2>. QED
    BY <1>1, <1>3, <2>1, <2>2, <2>3
<1>. QED
  BY <1>2, <1>3

\* What a line is of is a number of a query.
LEMMA HeadIs ==
  ASSUME SerenaTyped, responses # <<>>
  PROVE  /\ Head(responses) = responses[1] /\ Head(responses) \in Serena!Item
         /\ Head(responses).of \in 0..MaxQueries
         /\ Len(responses) >= 1
         /\ Tail(responses) \in Seq(Serena!Item) /\ Len(Tail(responses)) = Len(responses) - 1
<1>1. /\ Head(responses) = responses[1] /\ Head(responses) \in Serena!Item
      /\ Tail(responses) \in Seq(Serena!Item)
      /\ Len(Tail(responses)) = Len(responses) - 1 /\ Len(responses) \in Nat /\ Len(responses) # 0
  BY Lines DEF SerenaTyped
<1>2. Head(responses).of \in 0..MaxQueries
  BY <1>1 DEF Serena!Item
<1>. QED
  BY <1>1, <1>2

LEMMA ReadIs ==
  ASSUME SerenaTyped, Serena!Read
  PROVE  /\ pc = "read" /\ pc' = "idle" /\ responses # <<>> /\ responses' = Tail(responses)
         /\ UNCHANGED <<started, process, child, request>>
         /\ answer' \in Told /\ answer'.id = request
         /\ answer'.is = "ok" => Head(responses).is = "ok" /\ answer'.of = Head(responses).of
<1>1. /\ pc = "read" /\ responses # <<>> /\ responses' = Tail(responses)
      /\ UNCHANGED <<started, process, child, request>>
  BY DEF Serena!Read
<1>2. CASE Head(responses).is = "ok"
  <2>1. Serena!Tells("ok", Head(responses).of)
    BY <1>2 DEF Serena!Read
  <2>. QED
    BY <1>1, <1>2, <2>1, HeadIs, TellsDoes
<1>3. CASE Head(responses).is # "ok"
  <2>1. Serena!Tells("error", Head(responses).of)
    BY <1>3 DEF Serena!Read
  <2>2. answer' \in Told /\ answer'.is = "error" /\ answer'.id = request /\ pc' = "idle"
    BY <1>1, <2>1, HeadIs, TellsDoes
  <2>. QED
    BY <1>1, <2>2
<1>. QED
  BY <1>2, <1>3

\* The ends of a query that terminate the child.
LEMMA EndsDo ==
  ASSUME SerenaBounds, SerenaTyped, KeptInv, Serena!NotStarted \/ Serena!ReadTimeout
  PROVE  /\ pc \in {"start", "read"} /\ pc' = "idle" /\ ~started' /\ process' = 0
         /\ child' \in Seq(Runners) /\ \A p \in 1..Len(child') : ~child'[p].alive
         /\ UNCHANGED <<responses, request>>
         /\ answer' \in Told /\ answer'.is # "ok"
<1>1. /\ pc \in {"start", "read"} /\ Serena!Terminated /\ UNCHANGED <<responses, request>>
      /\ \E is \in {"error", "partial"} : Serena!Tells(is, 0)
  BY DEF Serena!NotStarted, Serena!ReadTimeout
<1>2. ~started'
  BY DEF Serena!NotStarted, Serena!ReadTimeout, KeptInv
<1>3. 0 \in 0..MaxQueries
  BY DEF SerenaBounds
<1>4. answer' \in Told /\ answer'.is # "ok" /\ pc' = "idle"
  BY <1>1, <1>3, TellsDoes
<1>. QED
  BY <1>1, <1>2, <1>4, TerminatedDoes

\* Every step leaves everything its type, and the child to the provider.
LEMMA SerenaTypesKept ==
  ASSUME SerenaBounds, SerenaTyped, KeptInv, [Serena!Next]_Serena!vars
  PROVE  SerenaTyped' /\ KeptInv'
<1>1. CASE Serena!BecomeReady
  <2>1. responses' \in Seq(Serena!Item)
    <3>1. responses' = Append(responses, Serena!Ready) /\ Serena!Ready \in Serena!Item
      BY <1>1, BecomeReadyDoes, LinesAre
    <3>. QED
      BY <3>1, Lines DEF SerenaTyped
  <2>2. SerenaTyped'
    BY <1>1, <2>1, BecomeReadyDoes DEF SerenaTyped
  <2>3. KeptInv'
    BY <1>1, BecomeReadyDoes DEF KeptInv
  <2>. QED
    BY <2>2, <2>3
<1>2. CASE Serena!Respond
  <2>1. responses' \in Seq(Serena!Item)
    <3>1. PICK x \in Serena!Item : responses' = Append(responses, x)
      BY <1>2, RespondDoes
    <3>. QED
      BY <3>1, Lines DEF SerenaTyped
  <2>2. SerenaTyped'
    BY <1>2, <2>1, RespondDoes DEF SerenaTyped
  <2>3. KeptInv'
    BY <1>2, RespondDoes DEF KeptInv
  <2>. QED
    BY <2>2, <2>3
<1>3. CASE Serena!Chatter
  <2>1. responses' \in Seq(Serena!Item)
    BY <1>3, LinesAre, Lines DEF Serena!Chatter, SerenaTyped
  <2>. QED
    BY <1>3, <2>1 DEF Serena!Chatter, SerenaTyped, KeptInv
<1>4. CASE Serena!Crash
  <2>1. responses' \in Seq(Serena!Item)
    <3>1. responses' = Append(responses, Serena!Eof) /\ Serena!Eof \in Serena!Item
      BY <1>4, CrashDoes, LinesAre
    <3>. QED
      BY <3>1, Lines DEF SerenaTyped
  <2>2. SerenaTyped'
    BY <1>4, <2>1, CrashDoes DEF SerenaTyped
  <2>3. KeptInv'
    BY <1>4, CrashDoes DEF KeptInv
  <2>. QED
    BY <2>2, <2>3
<1>5. CASE Serena!Ensure
  <2>1. CASE process # 0
    <3>1. /\ pc' = "write" /\ started' = TRUE /\ request' \in Requests
          /\ request' \in 0..MaxQueries
          /\ UNCHANGED <<process, child, responses, answer>>
      BY <1>5, <2>1, EnsureDoes DEF Requests, SerenaTyped
    <3>2. SerenaTyped'
      BY <3>1 DEF SerenaTyped, Moments
    <3>. QED
      BY <2>1, <3>1, <3>2 DEF KeptInv
  <2>2. CASE process = 0
    <3>1. SerenaTyped'
      <4>1. /\ pc' = "start" /\ started' = FALSE /\ request' \in Requests
            /\ request' \in 0..MaxQueries
            /\ answer' = answer /\ child' \in Seq(Runners) /\ responses' = <<>>
            /\ process' = Len(child) + 1 /\ Len(child') = Len(child) + 1
        BY <1>5, <2>2, EnsureDoes DEF Requests, SerenaTyped
      <4>2. Len(child) \in Nat /\ responses' \in Seq(Serena!Item)
        BY <4>1 DEF SerenaTyped
      <4>3. process' \in 0..Len(child')
        BY <4>1, <4>2
      <4>. QED
        BY <4>1, <4>2, <4>3 DEF SerenaTyped, Moments
    <3>2. KeptInv'
      <4>1. /\ pc' = "start" /\ started' = FALSE /\ process' = Len(child) + 1
            /\ Len(child') = Len(child) + 1
            /\ \A p \in 1..Len(child) : child'[p] = child[p]
        BY <1>5, <2>2, EnsureDoes
      <4>2. Len(child) \in Nat
        BY DEF SerenaTyped
      <4>3. \A p \in 1..Len(child) : ~child[p].alive
        BY <2>2, <4>2 DEF KeptInv
      <4>4. process' # 0
        BY <4>1, <4>2
      <4>5. ASSUME NEW p \in 1..Len(child'), child'[p].alive PROVE p = process'
        <5>1. p \in 1..Len(child) \/ p = Len(child) + 1
          BY <4>1, <4>2
        <5>. QED
          BY <4>1, <4>3, <4>5, <5>1
      <4>. QED
        BY <4>1, <4>4, <4>5 DEF KeptInv
    <3>. QED
      BY <3>1, <3>2
  <2>. QED
    BY <2>1, <2>2
<1>6. CASE Serena!Started
  <2>1. responses' \in Seq(Serena!Item)
    BY <1>6, HeadIs DEF Serena!Started
  <2>. QED
    BY <1>6, <2>1 DEF Serena!Started, SerenaTyped, KeptInv, Moments
<1>7. CASE Serena!NotStarted \/ Serena!ReadTimeout
  <2>1. SerenaTyped'
    <3>1. /\ pc' = "idle" /\ started' = FALSE /\ process' = 0 /\ child' \in Seq(Runners)
          /\ UNCHANGED <<responses, request>> /\ answer' \in Told
      BY <1>7, EndsDo DEF SerenaTyped
    <3>2. process' \in 0..Len(child')
      BY <3>1
    <3>. QED
      BY <3>1, <3>2 DEF SerenaTyped, Moments
  <2>. QED
    BY <1>7, <2>1, EndsDo DEF KeptInv
<1>8. CASE Serena!Write
  <2>1. SerenaTyped'
    BY <1>8, WriteDoes DEF Serena!Write, SerenaTyped, Moments
  <2>. QED
    BY <1>8, <2>1, WriteDoes DEF Serena!Write, KeptInv
<1>9. CASE Serena!WriteFails
  <2>1. answer' \in Told /\ pc' = "idle"
    BY <1>9, TellsDoes DEF Serena!WriteFails, SerenaBounds
  <2>. QED
    BY <1>9, <2>1 DEF Serena!WriteFails, SerenaTyped, KeptInv, Moments
<1>10. CASE Serena!Read
  <2>1. responses' \in Seq(Serena!Item)
    BY <1>10, ReadIs, HeadIs
  <2>. QED
    BY <1>10, <2>1, ReadIs DEF SerenaTyped, KeptInv, Moments
<1>11. CASE Serena!Close
  <2>1. CASE started /\ ~Serena!ReadsStray
    <3>1. /\ Serena!Terminated /\ pc' = "closed" /\ started' = FALSE
          /\ UNCHANGED <<responses, request, answer>>
      BY <1>11, <2>1 DEF Serena!Close
    <3>2. SerenaTyped'
      <4>1. process' = 0 /\ child' \in Seq(Runners)
        BY <3>1, TerminatedDoes
      <4>2. process' \in 0..Len(child')
        BY <4>1
      <4>. QED
        BY <3>1, <4>1, <4>2 DEF SerenaTyped, Moments
    <3>. QED
      BY <3>1, <3>2, TerminatedDoes DEF KeptInv
  <2>2. CASE ~started \/ Serena!ReadsStray
    BY <1>11, <2>2 DEF Serena!Close, SerenaTyped, KeptInv, Moments
  <2>. QED
    BY <2>1, <2>2 DEF SerenaTyped
<1>12. CASE UNCHANGED Serena!vars
  BY <1>12 DEF Serena!vars, SerenaTyped, KeptInv
<1>. QED
  BY <1>1, <1>2, <1>3, <1>4, <1>5, <1>6, <1>7, <1>8, <1>9, <1>10, <1>11, <1>12
     DEF Serena!Next, Serena!Steps

\* Only a stray line makes close leave the child that it would terminate.
LEMMA ClosedKept ==
  ASSUME SerenaBounds, SerenaTyped, KeptInv, ClosedInv, [Serena!Next]_Serena!vars
  PROVE  ClosedInv'
<1>a. /\ noise' \in Nat /\ (noise' = 0 => noise = 0)
      /\ noise' = noise \/ Serena!Chatter
  BY DEF ClosedInv, Serena!Next, Serena!Steps, Serena!BecomeReady, Serena!Respond,
     Serena!Chatter, Serena!Crash, Serena!Ensure, Serena!Started, Serena!NotStarted,
     Serena!Write, Serena!WriteFails, Serena!Read, Serena!ReadTimeout, Serena!Close,
     Serena!vars
<1>. SUFFICES ASSUME noise' = 0
     PROVE  /\ \A i \in 1..Len(responses)' : responses'[i].is # "noise"
            /\ pc' = "closed" => process' = 0
  BY <1>a DEF ClosedInv
<1>b. /\ noise = 0 /\ \A i \in 1..Len(responses) : responses[i].is # "noise"
      /\ pc = "closed" => process = 0
  BY <1>a DEF ClosedInv
<1>c. Len(responses) \in Nat /\ (responses # <<>> => Head(responses) = responses[1] /\ Len(responses) >= 1)
  BY Lines DEF SerenaTyped
<1>d. ~Serena!ReadsStray
  BY <1>b, <1>c DEF Serena!ReadsStray, Serena!Noise
<1>e. ASSUME NEW x \in Serena!Item, responses' = Append(responses, x), x.is # "noise"
      PROVE  \A i \in 1..Len(responses)' : responses'[i].is # "noise"
  <2>1. /\ Len(responses') = Len(responses) + 1 /\ responses'[Len(responses) + 1] = x
        /\ \A i \in 1..Len(responses) : responses'[i] = responses[i]
    BY <1>e, Lines DEF SerenaTyped
  <2>. QED
    BY <1>b, <1>c, <1>e, <2>1
<1>f. ASSUME responses # <<>>, responses' = Tail(responses)
      PROVE  \A i \in 1..Len(responses)' : responses'[i].is # "noise"
  <2>1. Len(responses') = Len(responses) - 1 /\ \A i \in 1..Len(responses') : responses'[i] = responses[i + 1]
    BY <1>f, Lines DEF SerenaTyped
  <2>. QED
    BY <1>b, <1>c, <2>1
<1>1. CASE Serena!BecomeReady
  <2>1. process # 0 /\ responses' = Append(responses, Serena!Ready) /\ pc' = pc
    BY <1>1, BecomeReadyDoes
  <2>. QED
    BY <1>b, <1>e, <2>1, LinesAre DEF Serena!Ready
<1>2. CASE Serena!Respond
  <2>1. process # 0 /\ pc' = pc
    BY <1>2, RespondDoes
  <2>2. \E x \in Serena!Item : responses' = Append(responses, x) /\ x.is # "noise"
    <3>1. PICK is \in {"ok", "error"} :
             responses' = Append(responses, [is |-> is, of |-> Head(child[process].inbox)])
      BY <1>2 DEF Serena!Respond
    <3>2. child[process].inbox \in Seq(Requests) /\ child[process].inbox # <<>>
      BY <1>2, RespondDoes, HeldRunner DEF Serena!Respond
    <3>3. Head(child[process].inbox) \in Requests
      BY <3>2, Lines
    <3>4. [is |-> is, of |-> Head(child[process].inbox)] \in Serena!Item
      BY <3>3 DEF Serena!Item, Requests
    <3>. QED
      BY <3>1, <3>4
  <2>. QED
    BY <1>b, <1>e, <2>1, <2>2
<1>3. ~Serena!Chatter
  BY <1>b DEF Serena!Chatter
<1>4. CASE Serena!Crash
  <2>1. process # 0 /\ responses' = Append(responses, Serena!Eof) /\ pc' = pc
    BY <1>4, CrashDoes
  <2>. QED
    BY <1>b, <1>e, <2>1, LinesAre DEF Serena!Eof
<1>5. CASE Serena!Ensure
  <2>1. pc' \in {"write", "start"} /\ (responses' = responses \/ responses' = <<>>)
    BY <1>5 DEF Serena!Ensure
  <2>. QED
    BY <1>b, <2>1
<1>6. CASE Serena!Started \/ Serena!Read
  <2>1. responses # <<>> /\ responses' = Tail(responses) /\ pc' \in {"write", "idle"}
    BY <1>6 DEF Serena!Started, Serena!Read, Serena!Tells
  <2>. QED
    BY <1>f, <2>1
<1>7. CASE Serena!NotStarted \/ Serena!ReadTimeout \/ Serena!Write \/ Serena!WriteFails
  <2>1. responses' = responses /\ pc' # "closed"
    BY <1>7 DEF Serena!NotStarted, Serena!ReadTimeout, Serena!Write, Serena!WriteFails, Serena!Tells
  <2>. QED
    BY <1>b, <2>1
<1>8. CASE Serena!Close
  <2>1. responses' = responses /\ (started => process' = 0) /\ (~started => process' = process)
        /\ pc = "idle"
    BY <1>8, <1>d DEF Serena!Close, Serena!Terminated
  <2>2. ~started => process = 0
    BY <2>1 DEF KeptInv
  <2>. QED
    BY <1>b, <2>1, <2>2
<1>9. CASE UNCHANGED Serena!vars
  BY <1>9, <1>b DEF Serena!vars
<1>. QED
  BY <1>1, <1>2, <1>3, <1>4, <1>5, <1>6, <1>7, <1>8, <1>9 DEF Serena!Next, Serena!Steps

\* Child and query take turns: every step leaves them in step.
LEMMA TurnKept ==
  ASSUME SerenaBounds, MaxNoise = 0, SerenaTyped, KeptInv, TurnInv, [Serena!Next]_Serena!vars
  PROVE  TurnInv'
<1>a. noise' = 0
  BY DEF TurnInv, Serena!Next, Serena!Steps, Serena!BecomeReady, Serena!Respond,
     Serena!Chatter, Serena!Crash, Serena!Ensure, Serena!Started, Serena!NotStarted,
     Serena!Write, Serena!WriteFails, Serena!Read, Serena!ReadTimeout, Serena!Close,
     Serena!vars
<1>b. responses \in Seq(Serena!Item) /\ Len(responses) \in Nat /\ (responses = <<>> <=> Len(responses) = 0)
  BY Lines DEF SerenaTyped
<1>1. CASE Serena!BecomeReady
  <2>1. Serena!Live(process) /\ ~child[process].ready
    BY <1>1 DEF Serena!BecomeReady
  <2>2. pc \notin {"idle", "write", "read"}
    BY <2>1 DEF TurnInv
  <2>3. pc = "start" => child[process].inbox = <<>> /\ Len(responses) = 0
    BY <2>1 DEF TurnInv
  <2>4. Len(responses') = Len(responses) + 1 /\ responses'[Len(responses) + 1] = Serena!Ready
    BY <1>1, <1>b, BecomeReadyDoes, LinesAre, Lines
  <2>. QED
    BY <1>1, <1>a, <1>b, <2>2, <2>3, <2>4, BecomeReadyDoes DEF TurnInv, Serena!OwnAnswers
<1>2. CASE Serena!Respond
  <2>1. Serena!Live(process) /\ child[process].ready /\ child[process].inbox # <<>>
    BY <1>2 DEF Serena!Respond
  <2>2. pc \notin {"start", "idle", "write"}
    BY <2>1 DEF TurnInv, OwesNothing
  <2>3. CASE pc = "read"
    <3>1. Len(responses) = 0 /\ Len(child[process].inbox) = 1 /\ child[process].inbox[1] = request
      BY <2>1, <2>3 DEF TurnInv
    <3>2. PICK x \in Serena!Item : responses' = Append(responses, x) /\ x.of = request
      BY <1>2, <3>1, RespondDoes
    <3>3. Len(responses') = 1 /\ responses'[1] = x
      BY <1>b, <3>1, <3>2, Lines
    <3>4. child'[process].inbox = <<>>
      <4>1. /\ child[process].inbox \in Seq(Requests) /\ child[process].inbox # <<>>
            /\ child'[process].inbox = Tail(child[process].inbox)
        BY <1>2, RespondDoes, HeldRunner
      <4>2. Tail(child[process].inbox) \in Seq(Requests) /\ Len(Tail(child[process].inbox)) = 0
        BY <3>1, <4>1, Lines
      <4>3. Tail(child[process].inbox) = <<>>
        BY <4>2, Lines
      <4>. QED
        BY <4>1, <4>3
    <3>5. child'[process].ready /\ UNCHANGED <<started, process, pc, request, answer>>
      BY <1>2, RespondDoes
    <3>. QED
      BY <1>a, <2>3, <3>2, <3>3, <3>4, <3>5 DEF TurnInv, Serena!OwnAnswers
  <2>. QED
    BY <1>2, <1>a, <2>2, <2>3, RespondDoes DEF TurnInv, Serena!OwnAnswers, SerenaTyped,
       Moments
<1>3. ~Serena!Chatter
  BY DEF Serena!Chatter, TurnInv
<1>4. CASE Serena!Crash
  <2>1. process' = process /\ ~Serena!Live(process)'
    BY <1>4, CrashDoes DEF Serena!Live
  <2>2. /\ Len(responses') = Len(responses) + 1 /\ responses'[Len(responses) + 1] = Serena!Eof
        /\ \A i \in 1..Len(responses) : responses'[i] = responses[i]
    BY <1>4, <1>b, CrashDoes, LinesAre, Lines
  <2>3. Serena!Eof.is # "ok"
    BY DEF Serena!Eof
  <2>4. pc = "read" => \A i \in 1..Len(responses') : responses'[i].is = "ok" => responses'[i].of = request
    BY <1>b, <2>2, <2>3 DEF TurnInv
  <2>. QED
    BY <1>4, <1>a, <2>1, <2>4, CrashDoes DEF TurnInv, Serena!OwnAnswers
<1>5. CASE Serena!Ensure
  <2>1. CASE process # 0
    BY <1>5, <1>a, <2>1, EnsureDoes DEF TurnInv, Serena!OwnAnswers, OwesNothing, Serena!Live
  <2>2. CASE process = 0
    <3>1. Len(responses') = 0 /\ pc' = "start" /\ answer' = answer
      BY <1>5, <2>2, EnsureDoes
    <3>. QED
      BY <1>5, <1>a, <2>2, <3>1, EnsureDoes DEF TurnInv, Serena!OwnAnswers
  <2>. QED
    BY <2>1, <2>2
<1>6. CASE Serena!Started
  <2>1. /\ pc = "start" /\ pc' = "write" /\ UNCHANGED <<process, child, request, answer>>
        /\ responses' = Tail(responses)
        /\ responses # <<>>
    BY <1>6 DEF Serena!Started
  <2>2. Serena!Live(process) => child[process].ready /\ child[process].inbox = <<>> /\ Len(responses) = 1
    BY <1>b, <2>1 DEF TurnInv
  <2>3. Len(responses') = Len(responses) - 1
    BY <2>1, HeadIs
  <2>4. Serena!Live(process)' <=> Serena!Live(process)
    BY <2>1 DEF Serena!Live
  <2>. QED
    BY <1>a, <2>1, <2>2, <2>3, <2>4 DEF TurnInv, OwesNothing, Serena!OwnAnswers
<1>7. CASE Serena!NotStarted \/ Serena!ReadTimeout
  <2>1. ~Serena!Live(process)'
    BY <1>7, EndsDo DEF Serena!Live
  <2>. QED
    BY <1>7, <1>a, <2>1, EndsDo DEF TurnInv, Serena!OwnAnswers
<1>8. CASE Serena!Write
  <2>1. pc = "write" /\ Serena!Live(process)
    BY <1>8 DEF Serena!Write
  <2>2. child[process].ready /\ child[process].inbox = <<>> /\ Len(responses) = 0
    BY <2>1 DEF TurnInv, OwesNothing
  <2>3. process # 0 /\ request \in Requests
    BY <1>8, <2>1, WriteDoes DEF SerenaTyped
  <2>4. Len(child'[process].inbox) = 1 /\ child'[process].inbox[1] = request
    <3>1. child'[process].inbox = Append(<<>>, request)
      BY <1>8, <2>2, WriteDoes
    <3>. QED
      BY <3>1
  <2>5. pc' = "read" /\ child'[process].ready /\ UNCHANGED <<process, responses, request, answer>>
    BY <1>8, <2>2, WriteDoes
  <2>6. \A i \in 1..Len(responses') : responses'[i].is = "ok" => responses'[i].of = request'
    BY <2>2, <2>5
  <2>. QED
    BY <1>a, <2>2, <2>4, <2>5, <2>6 DEF TurnInv, Serena!OwnAnswers
<1>9. CASE Serena!WriteFails
  <2>1. ~Serena!Live(process)' /\ pc' = "idle"
    BY <1>9 DEF Serena!WriteFails, Serena!Tells, Serena!Live
  <2>2. answer'.is # "ok"
    BY <1>9 DEF Serena!WriteFails, Serena!Tells
  <2>. QED
    BY <1>a, <2>1, <2>2 DEF TurnInv, Serena!OwnAnswers
<1>10. CASE Serena!Read
  <2>1. /\ Len(responses) >= 1 /\ Head(responses) = responses[1]
        /\ Len(responses') = Len(responses) - 1
    BY <1>10, ReadIs, HeadIs
  <2>2. Head(responses).is = "ok" => Head(responses).of = request
    BY <1>10, <1>b, <2>1, ReadIs DEF TurnInv
  <2>3. Serena!OwnAnswers'
    BY <1>10, <2>2, ReadIs DEF Serena!OwnAnswers
  <2>4. Serena!Live(process)' <=> Serena!Live(process)
    BY <1>10, ReadIs DEF Serena!Live
  <2>5. Serena!Live(process) => child[process].ready /\ child[process].inbox = <<>> /\ Len(responses) = 1
    BY <1>10, <1>b, <2>1, ReadIs DEF TurnInv
  <2>. QED
    BY <1>10, <1>a, <1>b, <2>1, <2>3, <2>4, <2>5, ReadIs DEF TurnInv, OwesNothing
<1>11. CASE Serena!Close
  BY <1>11, <1>a DEF Serena!Close, TurnInv, Serena!OwnAnswers
<1>12. CASE UNCHANGED Serena!vars
  BY <1>12, <1>a DEF Serena!vars, TurnInv, Serena!OwnAnswers, OwesNothing, Serena!Live
<1>. QED
  BY <1>1, <1>2, <1>3, <1>4, <1>5, <1>6, <1>7, <1>8, <1>9, <1>10, <1>11, <1>12
     DEF Serena!Next, Serena!Steps

\* Without a child everything holds.
LEMMA SerenaAtStart ==
  ASSUME SerenaBounds, Serena!Init
  PROVE  SerenaTyped /\ KeptInv /\ ClosedInv /\ TurnInv
<1>1. SerenaTyped
  <2>1. answer \in Told /\ 0 \in 0..MaxQueries
    BY DEF SerenaBounds, Serena!Init, Told
  <2>2. <<>> \in Seq(Runners) /\ <<>> \in Seq(Serena!Item) /\ Len(<<>>) = 0
    OBVIOUS
  <2>3. child \in Seq(Runners) /\ process \in 0..Len(child) /\ responses \in Seq(Serena!Item)
    BY <2>2 DEF Serena!Init
  <2>. QED
    BY <2>1, <2>3 DEF Serena!Init, SerenaTyped, Moments
<1>. QED
  BY <1>1 DEF Serena!Init, KeptInv, ClosedInv, TurnInv, Serena!OwnAnswers, Serena!Live

\* Every variable of a Serena session has its type.
THEOREM SerenaTypes ==
  ASSUME SerenaBounds
  PROVE  Serena!Spec => []Serena!TypeOK
<1>1. ASSUME SerenaTyped PROVE Serena!TypeOK
  <2>1. \A p \in 1..Len(child) : child[p] \in Runners
    BY <1>1, Lines DEF SerenaTyped
  <2>2. \A p \in 1..Len(child) : child[p].alive \in BOOLEAN /\ child[p].inbox \in Seq(1..MaxQueries)
    BY <2>1 DEF Runners, Requests
  <2>. QED
    BY <1>1, <2>2 DEF SerenaTyped, Serena!TypeOK, Told, Moments
<1>. QED
  BY <1>1, SerenaAtStart, SerenaTypesKept, PTL DEF Serena!Spec

\* At most one Serena child runs, the one the provider holds, and what the service
\* believes started is a child the provider holds.  None runs after the service was closed,
\* unless a stray line was printed: close reads it in place of the acknowledgement of its
\* shutdown, and what that raises goes past the code that terminates the child.  Timeouts,
\* errors and the crashes of the child may come at any moment (start, query, close,
\* _terminate and AtlasService._ensure_semantic).
THEOREM SerenaHeld ==
  ASSUME SerenaBounds
  PROVE  Serena!Spec => [](Serena!OneChild /\ Serena!StartedIsHeld)
<1>1. ASSUME SerenaTyped, KeptInv, ClosedInv PROVE Serena!OneChild /\ Serena!StartedIsHeld
  BY <1>1 DEF SerenaTyped, KeptInv, ClosedInv, Serena!OneChild, Serena!StartedIsHeld
<1>. QED
  BY <1>1, SerenaAtStart, SerenaTypesKept, ClosedKept, PTL DEF Serena!Spec

\* The answer a query returns was computed for that query, although no line of the protocol
\* has an id: as long as the child prints nothing else, every line is read by the query it
\* answers, whatever query timed out or failed before.
THEOREM SerenaOwnAnswers ==
  ASSUME SerenaBounds, MaxNoise = 0
  PROVE  Serena!Spec => []Serena!OwnAnswers
<1>1. TurnInv => Serena!OwnAnswers
  BY DEF TurnInv
<1>. QED
  BY <1>1, SerenaAtStart, SerenaTypesKept, TurnKept, PTL DEF Serena!Spec
=============================================================================
