------------------------ MODULE LifecycleJournal_proofs ------------------------
(***************************************************************************)
(* Theorems about LifecycleJournal, for any number of commands, kills,     *)
(* exceptions, user edits and refreshes; the last of them for commands     *)
(* that nothing disturbs (Undisturbed).                                    *)
(***************************************************************************)
EXTENDS LifecycleJournal, TLAPS

\* The places of a command before its journal and with it, of its rollback in
\* the process, and of the restoration from the backups.
AtWork == {"run", "writing"}
Undoing == {"undo_routing", "undo_provider", "undo_files"}
Restoring == {"restore", "restore_rest"}
OwnTx == {"capture"} \cup AtWork \cup Undoing

-----------------------------------------------------------------------------
(* Where a process is, and what it then has.                               *)
PlaceInv ==
  /\ pc \in AtWork \cup Undoing \cup {"check"} \cup Restoring => journal.phase = "prepared"
  /\ pc \in {"capture", "rmtree"} => journal.phase = "none"
  /\ pc = "unlink" => Journalled
  /\ journal.phase = "accepted" => pc \in {"idle", "unlink"}
  /\ Journalled \/ pc \in OwnTx => cmd \in Commands
  /\ pc = "capture" => at \in 1 .. Len(Order) + 1
  /\ pc \in AtWork => at \in 1 .. Len(Script[cmd]) + 1
  /\ pc \in {"undo_provider", "undo_files"} => at \in 0 .. Len(TxFiles)
  /\ pc = "undo_provider" => at = Len(TxFiles)
  /\ pc \in Restoring => at \in 0 .. Len(Order)
  /\ pc = "writing" =>
       /\ at <= Len(Script[cmd]) /\ Step.do = "write" /\ Step.of \in Guarded
       /\ file[Step.of] = Torn

\* What the transactions in the process remember.
TxInv ==
  pc \in OwnTx =>
    /\ tx.before = base
    /\ \A a \in Guarded : tx.allowed[a] \subseteq {base[a], Final(a)}
                          /\ tx.expected[a] \in {base[a], Final(a)}

\* The repository files: each is one the journal recognizes, the user's, or
\* what the command found.
Recognizable(a) == file[a] \in journal.allowed[a] \cup {User, Merged, base[a]}
JournalInv ==
  /\ pc = "capture" => \A a \in External :
       /\ Kept(a)
       /\ \A i \in 1 .. at - 1 : Order[i] = a => journal.before[a] \in {base[a], User}
  /\ journal.phase = "prepared" =>
       \A a \in External :
         /\ journal.before[a] \in {base[a], User} \cap journal.allowed[a]
         /\ journal.allowed[a] \subseteq {journal.before[a], Final(a)}
         /\ a \in Routing /\ cmd # "stop" => Final(a) \in journal.allowed[a]
  /\ pc \in AtWork =>
       \A i \in 1 .. at - 1 : \A a \in Guarded :
           Script[cmd][i] = Allow(a) => Final(a) \in journal.allowed[a]

TornByUs(a) == file[a] = Torn /\ (CutWrites \/ (pc = "writing" /\ a = Step.of))
ReadWell == \/ tx.read \in journal.allowed[Step.of] \cup {User, Merged, base[Step.of]}
            \/ CutWrites /\ tx.read = Torn
OwnInv ==
  /\ journal.phase = "prepared" => \A a \in External : Recognizable(a) \/ TornByUs(a)
  /\ pc = "writing" => ReadWell

\* While a rollback restores, what the user wrote is what it restores.
RestoreInv ==
  pc \in Restoring =>
    \A a \in External : /\ file[a] = User => journal.before[a] = User
                        /\ file[a] = Merged => base[a] = Merged

\* The command as a whole: what has been published, and what has been put back.
\* A refresh that another process runs meanwhile may change the index files.
Steady == IF MaxRefreshes = 0 THEN Artifact ELSE Artifact \ {IndexFiles[i] : i \in DOMAIN IndexFiles}
SteadyUndone == \A a \in Steady : Kept(a)
SteadyDone == \A a \in Steady : IF a \in Written THEN Put(a) ELSE Kept(a)

Saved(a) == journal.before[a] \in {base[a]} \cup IF a \in External THEN {User} ELSE {}
SavedInv ==
  /\ pc = "capture" => SteadyUndone /\ \A i \in 1 .. at - 1 : Order[i] \in Steady => Saved(Order[i])
  /\ journal.phase = "prepared" => \A a \in Steady : Saved(a)

ProgressInv ==
  pc \in AtWork =>
    /\ \A i \in 1 .. at - 1 : \A a \in Steady : Script[cmd][i] = Write(a) => Put(a)
    /\ \A a \in Steady : a \notin Written => Kept(a)

OutcomeInv ==
  /\ pc = "restore" => \A i \in at + 1 .. Len(Order) : Order[i] \in Steady => Kept(Order[i])
  /\ pc = "unlink" /\ journal.phase = "prepared" => SteadyUndone
  /\ journal.phase = "accepted" => SteadyDone
  /\ pc \in {"idle", "rmtree"} /\ ~Journalled /\ cmd # "none" => SteadyUndone \/ SteadyDone

ReportInv ==
  /\ report = "done" => SteadyDone
  /\ report = "preserved" => SteadyUndone
  /\ report \in {"done", "preserved"} =>
       /\ pc \in {"unlink", "rmtree", "idle"}
       /\ pc = "idle" => ~Journalled /\ ~root

RefreshInv == MaxRefreshes = 0 => refresh = 0
WholeInv == RefreshInv /\ SavedInv /\ ProgressInv /\ OutcomeInv /\ ReportInv

BaseInv == TypeOK /\ PlaceInv /\ TxInv /\ JournalInv
JournalledInv ==
  /\ BaseInv /\ OwnInv /\ WholeInv
  /\ ~EditsInRestore => RestoreInv

-----------------------------------------------------------------------------
(* The scripts.                                                            *)
Steps == [do : {"write", "allow", "mark"}, of : Artifact]

\* What the proofs use of the scripts: which steps there are, that nothing is
\* published before it is authorized, and nothing twice.
WellPlaced(s, i) ==
  /\ s[i].do = "allow" => s[i].of \in Guarded
  /\ s[i].do = "mark" => s[i].of = "lifecycle" /\ \E j \in 1 .. Len(s) : s[j] = Write("lifecycle")
  /\ s[i].do = "write" /\ s[i].of \in Guarded => \E j \in 1 .. i - 1 : s[j] = Allow(s[i].of)
  /\ \A j \in 1 .. i - 1 : s[j].do = "write" /\ s[i].do # "allow" => s[j].of # s[i].of
WellFormed(s) == \A i \in 1 .. Len(s) : s[i] \in Steps /\ WellPlaced(s, i)

LEMMA Names ==
  /\ Artifact = {"config", "codex", "rule", "skill", "lifecycle", "index", "manifest",
                 "registrations", "routing_state", "provider"}
  /\ \A i \in 1 .. Len(Order) : Order[i] \in Artifact
  /\ Len(Order) = 10
  BY DEF Artifact, Order

LEMMA OrderFacts ==
  /\ \A a \in Artifact : \E i \in 1 .. Len(Order) : Order[i] = a
  /\ \A i, j \in 1 .. Len(Order) : Order[i] = Order[j] => i = j
<1>1. DOMAIN Order = 1 .. Len(Order)
  BY DEF Order
<1>2. \A i, j \in 1 .. 10 : Order[i] = Order[j] => i = j
  BY DEF Order
<1>. QED BY <1>1, <1>2, Names DEF Artifact

LEMMA Kinds ==
  /\ Guarded \subseteq Artifact /\ Routing \subseteq Artifact /\ External \subseteq Artifact
  /\ External = Guarded \cup Routing /\ Guarded \cap Routing = {} /\ "lifecycle" \in Artifact \ External
  BY Names DEF External, Guarded, Routing

LEMMA TxNames ==
  /\ Len(TxFiles) = 7 /\ \A i \in 1 .. Len(TxFiles) : TxFiles[i] \in Artifact \ Routing
  /\ Len(IndexFiles) = 4 /\ \A i \in 1 .. Len(IndexFiles) : IndexFiles[i] \in Artifact \ External
  BY Names DEF TxFiles, IndexFiles, External, Routing, Guarded

LEMMA StopFacts == Len(StopScript) = 2 /\ WellFormed(StopScript)
<1>. DEFINE s == StopScript
<1>1. /\ Len(s) = 2
      /\ s[1] = Mark /\ s[2] = Write("lifecycle")
  BY DEF StopScript
<1>. HIDE DEF s
<1>. USE DEF Mark, Write, Allow
<1>2. SUFFICES ASSUME NEW i \in 1 .. Len(s) PROVE s[i] \in Steps /\ WellPlaced(s, i)
  BY <1>1 DEF WellFormed, s
<1>0. i \in {1, 2}
  BY <1>1
<1>3. CASE i = 1
  <2>1. 2 \in 1 .. Len(s)
    BY <1>1
  <2>. QED BY <1>1, <1>3, <2>1, Names DEF WellPlaced, Steps, Guarded
<1>4. CASE i = 2
  BY <1>1, <1>4, Names DEF WellPlaced, Steps, Guarded
<1>. QED BY <1>0, <1>3, <1>4

LEMMA UpdateFacts == Len(UpdateScript) = 8 /\ WellFormed(UpdateScript)
<1>. DEFINE s == UpdateScript
<1>1. /\ Len(s) = 8
      /\ s[1] = Write("rule") /\ s[2] = Write("skill") /\ s[3] = Mark
      /\ s[4] = Allow("config") /\ s[5] = Write("config") /\ s[6] = Allow("codex")
      /\ s[7] = Write("codex") /\ s[8] = Write("lifecycle")
  BY DEF UpdateScript
<1>. HIDE DEF s
<1>. USE DEF Mark, Write, Allow
<1>2. SUFFICES ASSUME NEW i \in 1 .. Len(s) PROVE s[i] \in Steps /\ WellPlaced(s, i)
  BY <1>1 DEF WellFormed, s
<1>0. i \in {1, 2, 3, 4, 5, 6, 7, 8}
  BY <1>1
<1>3. CASE i = 1
  BY <1>1, <1>3, Names DEF WellPlaced, Steps, Guarded
<1>4. CASE i = 2
  BY <1>1, <1>4, Names DEF WellPlaced, Steps, Guarded
<1>5. CASE i = 3
  <2>1. 8 \in 1 .. Len(s)
    BY <1>1
  <2>. QED BY <1>1, <1>5, <2>1, Names DEF WellPlaced, Steps, Guarded
<1>6. CASE i = 4
  BY <1>1, <1>6, Names DEF WellPlaced, Steps, Guarded
<1>7. CASE i = 5
  <2>1. 4 \in 1 .. i - 1 /\ 4 \in 1 .. Len(s)
    BY <1>1, <1>7
  <2>. QED BY <1>1, <1>7, <2>1, Names DEF WellPlaced, Steps, Guarded
<1>8. CASE i = 6
  BY <1>1, <1>8, Names DEF WellPlaced, Steps, Guarded
<1>9. CASE i = 7
  <2>1. 6 \in 1 .. i - 1 /\ 6 \in 1 .. Len(s)
    BY <1>1, <1>9
  <2>. QED BY <1>1, <1>9, <2>1, Names DEF WellPlaced, Steps, Guarded
<1>10. CASE i = 8
  BY <1>1, <1>10, Names DEF WellPlaced, Steps, Guarded
<1>. QED BY <1>0, <1>3, <1>4, <1>5, <1>6, <1>7, <1>8, <1>9, <1>10

LEMMA EnableFacts == Len(EnableScript) = 12 /\ WellFormed(EnableScript)
<1>. DEFINE s == EnableScript
<1>1. /\ Len(s) = 12
      /\ s[1] = Allow("config") /\ s[2] = Write("rule") /\ s[3] = Write("skill")
      /\ s[4] = Write("routing_state") /\ s[5] = Mark /\ s[6] = Write("config")
      /\ s[7] = Write("provider") /\ s[8] = Write("registrations")
      /\ s[9] = Write("index") /\ s[10] = Allow("codex") /\ s[11] = Write("codex")
      /\ s[12] = Write("lifecycle")
  BY DEF EnableScript
<1>. HIDE DEF s
<1>. USE DEF Mark, Write, Allow
<1>2. SUFFICES ASSUME NEW i \in 1 .. Len(s) PROVE s[i] \in Steps /\ WellPlaced(s, i)
  BY <1>1 DEF WellFormed, s
<1>0. i \in {1, 2, 3, 4, 5, 6, 7, 8, 9, 10, 11, 12}
  BY <1>1
<1>3. CASE i = 1
  BY <1>1, <1>3, Names DEF WellPlaced, Steps, Guarded
<1>4. CASE i = 2
  BY <1>1, <1>4, Names DEF WellPlaced, Steps, Guarded
<1>5. CASE i = 3
  BY <1>1, <1>5, Names DEF WellPlaced, Steps, Guarded
<1>6. CASE i = 4
  BY <1>1, <1>6, Names DEF WellPlaced, Steps, Guarded
<1>7. CASE i = 5
  <2>1. 12 \in 1 .. Len(s)
    BY <1>1
  <2>. QED BY <1>1, <1>7, <2>1, Names DEF WellPlaced, Steps, Guarded
<1>8. CASE i = 6
  <2>1. 1 \in 1 .. i - 1 /\ 1 \in 1 .. Len(s)
    BY <1>1, <1>8
  <2>. QED BY <1>1, <1>8, <2>1, Names DEF WellPlaced, Steps, Guarded
<1>9. CASE i = 7
  BY <1>1, <1>9, Names DEF WellPlaced, Steps, Guarded
<1>10. CASE i = 8
  BY <1>1, <1>10, Names DEF WellPlaced, Steps, Guarded
<1>11. CASE i = 9
  BY <1>1, <1>11, Names DEF WellPlaced, Steps, Guarded
<1>12. CASE i = 10
  BY <1>1, <1>12, Names DEF WellPlaced, Steps, Guarded
<1>13. CASE i = 11
  <2>1. 10 \in 1 .. i - 1 /\ 10 \in 1 .. Len(s)
    BY <1>1, <1>13
  <2>. QED BY <1>1, <1>13, <2>1, Names DEF WellPlaced, Steps, Guarded
<1>14. CASE i = 12
  BY <1>1, <1>14, Names DEF WellPlaced, Steps, Guarded
<1>. QED BY <1>0, <1>3, <1>4, <1>5, <1>6, <1>7, <1>8, <1>9, <1>10, <1>11, <1>12, <1>13, <1>14

LEMMA ScriptFacts ==
  ASSUME NEW c \in DOMAIN Script
  PROVE  /\ Len(Script[c]) \in Nat \ {0}
         /\ DOMAIN Script[c] = 1 .. Len(Script[c])
         /\ WellFormed(Script[c])
         /\ c = "stop" => \A i \in 1 .. Len(Script[c]) : Script[c][i].of = "lifecycle"
<1>1. CASE c = "enable"
  BY <1>1, EnableFacts DEF Script, EnableScript
<1>2. CASE c = "update"
  BY <1>2, UpdateFacts DEF Script, UpdateScript
<1>3. CASE c = "stop"
  BY <1>3, StopFacts DEF Script, StopScript, Mark, Write
<1>. QED BY <1>1, <1>2, <1>3 DEF Script


\* The step a command is at.
LEMMA StepFacts ==
  ASSUME TypeOK, PlaceInv, pc \in AtWork, at <= Len(Script[cmd])
  PROVE  /\ cmd \in Commands /\ cmd \in DOMAIN Script /\ at \in 1 .. Len(Script[cmd])
         /\ Step \in Steps /\ Step.of \in Artifact
         /\ WellPlaced(Script[cmd], at)
         /\ cmd = "stop" => Step.of = "lifecycle"
<1>1. cmd \in Commands /\ cmd \in DOMAIN Script /\ at \in 1 .. Len(Script[cmd])
  BY ConstantsOK DEF PlaceInv, AtWork, OwnTx, TypeOK
<1>. QED BY <1>1, ScriptFacts DEF WellFormed, Step, Steps

\* What the next command to start would call its own.
LEMMA FinalType ==
  ASSUME TypeOK
  PROVE  /\ \A a : Final(a) \in Content /\ Final(a) \notin {User, Merged}
         /\ Transitional \in Content
  BY SMTT(30) DEF TypeOK, Final, Transitional, Content, User, Merged

LEMMA Contents ==
  {0, Torn, User, Merged} \subseteq Content /\ \A k \in Nat : Refreshed(k) \in Content
  BY DEF Content, Torn, User, Merged, Refreshed

LEMMA TypeNext ==
  ASSUME TypeOK, PlaceInv, [Next]_vars
  PROVE  TypeOK'
<1>1. ASSUME NEW c \in Commands, Start(c) PROVE TypeOK'
  <2>1. file' \in [Artifact -> Content] /\ base' \in [Artifact -> Content]
    BY <1>1 DEF TypeOK, Start
  <2>2. journal' \in [phase : {"none", "prepared", "accepted"}, before : [Artifact -> Content],
                        allowed : [External -> SUBSET Content]]
    BY <1>1 DEF TypeOK, Start
  <2>3. tx' \in [before : [Artifact -> Content], expected : [Artifact -> Content],
                   allowed : [Guarded -> SUBSET Content], applied : SUBSET Routing,
                   indexed : BOOLEAN, errors : BOOLEAN, read : Content]
    <3>1. [a \in Guarded |-> {file[a]}] \in [Guarded -> SUBSET Content]
      BY Kinds DEF TypeOK
    <3>2. tx' = [before |-> file, expected |-> file, allowed |-> [a \in Guarded |-> {file[a]}],
                 applied |-> {}, indexed |-> FALSE, errors |-> FALSE, read |-> 0]
      BY <1>1 DEF Start, NoTx
    <3>. QED BY <3>1, <3>2, Contents DEF TypeOK
  <2>4. /\ root' \in BOOLEAN /\ cmd' \in DOMAIN Script \cup {"none"} /\ at' \in Nat
         /\ pc' \in {"idle", "capture", "run", "writing", "undo_routing", "undo_provider", "undo_files",
                    "check", "restore", "restore_rest", "unlink", "rmtree"}
         /\ lease' \in {"none", "command", "refresh"} /\ refresh' \in 0 .. Len(IndexFiles) + 1
         /\ report' \in {"none", "done", "preserved", "unknown"}
    BY <1>1, ConstantsOK DEF TypeOK, Start
  <2>5. count' \in [{"ops", "kills", "raises", "edits", "refreshes"} -> Nat]
    BY <1>1, Contents DEF TypeOK, Start, Count
  <2>. QED BY <2>1, <2>2, <2>3, <2>4, <2>5 DEF TypeOK
<1>2. CASE Capture
  <2>0. at \in 1 .. Len(Order) /\ Order[at] \in Artifact
    BY <1>2, Names DEF Capture, PlaceInv
  <2>1. file' \in [Artifact -> Content] /\ base' \in [Artifact -> Content]
    BY <1>2 DEF TypeOK, Capture
  <2>2. journal' \in [phase : {"none", "prepared", "accepted"}, before : [Artifact -> Content],
                        allowed : [External -> SUBSET Content]]
    BY <1>2, <2>0 DEF TypeOK, Capture
  <2>3. tx' \in [before : [Artifact -> Content], expected : [Artifact -> Content],
                   allowed : [Guarded -> SUBSET Content], applied : SUBSET Routing,
                   indexed : BOOLEAN, errors : BOOLEAN, read : Content]
    BY <1>2 DEF TypeOK, Capture
  <2>4. /\ root' \in BOOLEAN /\ cmd' \in DOMAIN Script \cup {"none"} /\ at' \in Nat
         /\ pc' \in {"idle", "capture", "run", "writing", "undo_routing", "undo_provider", "undo_files",
                    "check", "restore", "restore_rest", "unlink", "rmtree"}
         /\ lease' \in {"none", "command", "refresh"} /\ refresh' \in 0 .. Len(IndexFiles) + 1
         /\ report' \in {"none", "done", "preserved", "unknown"}
    BY <1>2, <2>0 DEF TypeOK, PlaceInv, Capture
  <2>5. count' \in [{"ops", "kills", "raises", "edits", "refreshes"} -> Nat]
    BY <1>2 DEF TypeOK, Capture
  <2>. QED BY <2>1, <2>2, <2>3, <2>4, <2>5 DEF TypeOK
<1>3. CASE WriteJournal
  <2>1. file' \in [Artifact -> Content] /\ base' \in [Artifact -> Content]
    BY <1>3 DEF TypeOK, WriteJournal
  <2>2. journal' \in [phase : {"none", "prepared", "accepted"}, before : [Artifact -> Content],
                        allowed : [External -> SUBSET Content]]
    <3>1. \A a \in External : {journal.before[a]} \cup (IF a \in Routing /\ cmd # "stop" THEN {Final(a)} ELSE {})
                              \in SUBSET Content
      BY FinalType, Kinds DEF TypeOK
    <3>. QED BY <1>3, <3>1 DEF TypeOK, WriteJournal
  <2>3. tx' \in [before : [Artifact -> Content], expected : [Artifact -> Content],
                   allowed : [Guarded -> SUBSET Content], applied : SUBSET Routing,
                   indexed : BOOLEAN, errors : BOOLEAN, read : Content]
    BY <1>3 DEF TypeOK, WriteJournal
  <2>4. /\ root' \in BOOLEAN /\ cmd' \in DOMAIN Script \cup {"none"} /\ at' \in Nat
         /\ pc' \in {"idle", "capture", "run", "writing", "undo_routing", "undo_provider", "undo_files",
                    "check", "restore", "restore_rest", "unlink", "rmtree"}
         /\ lease' \in {"none", "command", "refresh"} /\ refresh' \in 0 .. Len(IndexFiles) + 1
         /\ report' \in {"none", "done", "preserved", "unknown"}
    BY <1>3 DEF TypeOK, WriteJournal
  <2>5. count' \in [{"ops", "kills", "raises", "edits", "refreshes"} -> Nat]
    BY <1>3 DEF TypeOK, WriteJournal
  <2>. QED BY <2>1, <2>2, <2>3, <2>4, <2>5 DEF TypeOK
<1>4. CASE Authorize
  <2>0. /\ at \in 1 .. Len(Script[cmd]) /\ cmd \in DOMAIN Script /\ Step \in Steps /\ Step.of \in Artifact
        /\ WellPlaced(Script[cmd], at)
    BY <1>4, StepFacts DEF Authorize, Running, Publishing, AtWork
  <2>9. Step.of \in Guarded
    BY <1>4, <2>0 DEF Authorize, Running, WellPlaced, Step
  <2>1. file' \in [Artifact -> Content] /\ base' \in [Artifact -> Content]
    BY <1>4 DEF TypeOK, Authorize
  <2>2. journal' \in [phase : {"none", "prepared", "accepted"}, before : [Artifact -> Content],
                        allowed : [External -> SUBSET Content]]
    BY <1>4, <2>0, <2>9, FinalType, Kinds, ZenonT(40) DEF TypeOK, Authorize
  <2>3. tx' \in [before : [Artifact -> Content], expected : [Artifact -> Content],
                   allowed : [Guarded -> SUBSET Content], applied : SUBSET Routing,
                   indexed : BOOLEAN, errors : BOOLEAN, read : Content]
    BY <1>4, <2>0, <2>9, FinalType, Kinds, ZenonT(40) DEF TypeOK, Authorize
  <2>4. /\ root' \in BOOLEAN /\ cmd' \in DOMAIN Script \cup {"none"} /\ at' \in Nat
         /\ pc' \in {"idle", "capture", "run", "writing", "undo_routing", "undo_provider", "undo_files",
                    "check", "restore", "restore_rest", "unlink", "rmtree"}
         /\ lease' \in {"none", "command", "refresh"} /\ refresh' \in 0 .. Len(IndexFiles) + 1
         /\ report' \in {"none", "done", "preserved", "unknown"}
    BY <1>4, <2>0 DEF TypeOK, Authorize
  <2>5. count' \in [{"ops", "kills", "raises", "edits", "refreshes"} -> Nat]
    BY <1>4 DEF TypeOK, Authorize
  <2>. QED BY <2>1, <2>2, <2>3, <2>4, <2>5 DEF TypeOK
<1>5. CASE ApplyRouting
  <2>0. /\ at \in 1 .. Len(Script[cmd]) /\ cmd \in DOMAIN Script /\ Step \in Steps /\ Step.of \in Artifact
        /\ WellPlaced(Script[cmd], at)
    BY <1>5, StepFacts DEF ApplyRouting, Running, Publishing, AtWork
  <2>1. file' \in [Artifact -> Content] /\ base' \in [Artifact -> Content]
    <3>1. file \in [Artifact -> Content] /\ base \in [Artifact -> Content] /\ Final(Step.of) \in Content
      BY FinalType, Contents DEF TypeOK
    <3>2. base' = base /\ (file' = file \/ file' = [file EXCEPT ![Step.of] = Final(Step.of)])
      BY <1>5 DEF ApplyRouting
    <3>. QED BY <2>0, <3>1, <3>2
  <2>2. journal' \in [phase : {"none", "prepared", "accepted"}, before : [Artifact -> Content],
                        allowed : [External -> SUBSET Content]]
    BY <1>5 DEF TypeOK, ApplyRouting
  <2>3. tx' \in [before : [Artifact -> Content], expected : [Artifact -> Content],
                   allowed : [Guarded -> SUBSET Content], applied : SUBSET Routing,
                   indexed : BOOLEAN, errors : BOOLEAN, read : Content]
    BY <1>5, <2>0, SMTT(30) DEF TypeOK, ApplyRouting
  <2>4. /\ root' \in BOOLEAN /\ cmd' \in DOMAIN Script \cup {"none"} /\ at' \in Nat
         /\ pc' \in {"idle", "capture", "run", "writing", "undo_routing", "undo_provider", "undo_files",
                    "check", "restore", "restore_rest", "unlink", "rmtree"}
         /\ lease' \in {"none", "command", "refresh"} /\ refresh' \in 0 .. Len(IndexFiles) + 1
         /\ report' \in {"none", "done", "preserved", "unknown"}
    BY <1>5, <2>0 DEF TypeOK, ApplyRouting
  <2>5. count' \in [{"ops", "kills", "raises", "edits", "refreshes"} -> Nat]
    BY <1>5 DEF TypeOK, ApplyRouting
  <2>. QED BY <2>1, <2>2, <2>3, <2>4, <2>5 DEF TypeOK
<1>6. CASE Truncate
  <2>0. /\ at \in 1 .. Len(Script[cmd]) /\ cmd \in DOMAIN Script /\ Step \in Steps /\ Step.of \in Artifact
        /\ WellPlaced(Script[cmd], at)
    BY <1>6, StepFacts DEF Truncate, Running, Publishing, AtWork
  <2>1. file' \in [Artifact -> Content] /\ base' \in [Artifact -> Content]
    BY <1>6, <2>0, Contents DEF TypeOK, Truncate
  <2>2. journal' \in [phase : {"none", "prepared", "accepted"}, before : [Artifact -> Content],
                        allowed : [External -> SUBSET Content]]
    BY <1>6 DEF TypeOK, Truncate
  <2>3. tx' \in [before : [Artifact -> Content], expected : [Artifact -> Content],
                   allowed : [Guarded -> SUBSET Content], applied : SUBSET Routing,
                   indexed : BOOLEAN, errors : BOOLEAN, read : Content]
    <3>1. PICK c \in Content : tx' = [tx EXCEPT !.read = c]
      BY <1>6, <2>0 DEF TypeOK, Truncate
    <3>. QED BY <3>1 DEF TypeOK
  <2>4. /\ root' \in BOOLEAN /\ cmd' \in DOMAIN Script \cup {"none"} /\ at' \in Nat
         /\ pc' \in {"idle", "capture", "run", "writing", "undo_routing", "undo_provider", "undo_files",
                    "check", "restore", "restore_rest", "unlink", "rmtree"}
         /\ lease' \in {"none", "command", "refresh"} /\ refresh' \in 0 .. Len(IndexFiles) + 1
         /\ report' \in {"none", "done", "preserved", "unknown"}
    BY <1>6 DEF TypeOK, Truncate
  <2>5. count' \in [{"ops", "kills", "raises", "edits", "refreshes"} -> Nat]
    BY <1>6 DEF TypeOK, Truncate
  <2>. QED BY <2>1, <2>2, <2>3, <2>4, <2>5 DEF TypeOK
<1>7. CASE Publish
  <2>0. /\ at \in 1 .. Len(Script[cmd]) /\ cmd \in DOMAIN Script /\ Step \in Steps /\ Step.of \in Artifact
        /\ WellPlaced(Script[cmd], at)
    BY <1>7, StepFacts DEF Publish, Running, Publishing, AtWork, PlaceInv
  <2>1. file' \in [Artifact -> Content] /\ base' \in [Artifact -> Content]
    <3>1. ToWrite(Step.of) \in Content
      BY FinalType, Contents DEF ToWrite
    <3>. QED BY <1>7, <2>0, <3>1 DEF TypeOK, Publish, Published
  <2>2. journal' \in [phase : {"none", "prepared", "accepted"}, before : [Artifact -> Content],
                        allowed : [External -> SUBSET Content]]
    BY <1>7 DEF TypeOK, Publish
  <2>3. tx' \in [before : [Artifact -> Content], expected : [Artifact -> Content],
                   allowed : [Guarded -> SUBSET Content], applied : SUBSET Routing,
                   indexed : BOOLEAN, errors : BOOLEAN, read : Content]
    <3>1. \/ tx' = tx
          \/ \E e \in [Artifact -> Content], b \in BOOLEAN :
               tx' = [tx EXCEPT !.expected = e, !.indexed = b, !.read = 0]
      BY <1>7, <2>1 DEF TypeOK, Publish, Observe
    <3>. QED BY <3>1, Contents DEF TypeOK
  <2>4. /\ root' \in BOOLEAN /\ cmd' \in DOMAIN Script \cup {"none"} /\ at' \in Nat
         /\ pc' \in {"idle", "capture", "run", "writing", "undo_routing", "undo_provider", "undo_files",
                    "check", "restore", "restore_rest", "unlink", "rmtree"}
         /\ lease' \in {"none", "command", "refresh"} /\ refresh' \in 0 .. Len(IndexFiles) + 1
         /\ report' \in {"none", "done", "preserved", "unknown"}
    BY <1>7, <2>0 DEF TypeOK, Publish, Observe
  <2>5. count' \in [{"ops", "kills", "raises", "edits", "refreshes"} -> Nat]
    BY <1>7 DEF TypeOK, Publish
  <2>. QED BY <2>1, <2>2, <2>3, <2>4, <2>5 DEF TypeOK
<1>8. CASE SkipMark
  <2>0. /\ at \in 1 .. Len(Script[cmd]) /\ cmd \in DOMAIN Script /\ Step \in Steps /\ Step.of \in Artifact
        /\ WellPlaced(Script[cmd], at)
    BY <1>8, StepFacts DEF SkipMark, Running, Publishing, AtWork
  <2>1. file' \in [Artifact -> Content] /\ base' \in [Artifact -> Content]
    BY <1>8 DEF TypeOK, SkipMark
  <2>2. journal' \in [phase : {"none", "prepared", "accepted"}, before : [Artifact -> Content],
                        allowed : [External -> SUBSET Content]]
    BY <1>8 DEF TypeOK, SkipMark
  <2>3. tx' \in [before : [Artifact -> Content], expected : [Artifact -> Content],
                   allowed : [Guarded -> SUBSET Content], applied : SUBSET Routing,
                   indexed : BOOLEAN, errors : BOOLEAN, read : Content]
    BY <1>8 DEF TypeOK, SkipMark
  <2>4. /\ root' \in BOOLEAN /\ cmd' \in DOMAIN Script \cup {"none"} /\ at' \in Nat
         /\ pc' \in {"idle", "capture", "run", "writing", "undo_routing", "undo_provider", "undo_files",
                    "check", "restore", "restore_rest", "unlink", "rmtree"}
         /\ lease' \in {"none", "command", "refresh"} /\ refresh' \in 0 .. Len(IndexFiles) + 1
         /\ report' \in {"none", "done", "preserved", "unknown"}
    BY <1>8, <2>0 DEF TypeOK, SkipMark
  <2>5. count' \in [{"ops", "kills", "raises", "edits", "refreshes"} -> Nat]
    BY <1>8 DEF TypeOK, SkipMark
  <2>. QED BY <2>1, <2>2, <2>3, <2>4, <2>5 DEF TypeOK
<1>9. CASE AcceptChange
  BY <1>9, Contents DEF TypeOK, AcceptChange
<1>10. CASE Raise
  <2>1. file' \in [Artifact -> Content] /\ base' \in [Artifact -> Content]
    BY <1>10, Contents DEF TypeOK, Raise
  <2>2. journal' \in [phase : {"none", "prepared", "accepted"}, before : [Artifact -> Content],
                        allowed : [External -> SUBSET Content]]
    BY <1>10, Contents DEF TypeOK, Raise, NoJournal
  <2>3. tx' \in [before : [Artifact -> Content], expected : [Artifact -> Content],
                   allowed : [Guarded -> SUBSET Content], applied : SUBSET Routing,
                   indexed : BOOLEAN, errors : BOOLEAN, read : Content]
    BY <1>10 DEF TypeOK, Raise
  <2>4. /\ root' \in BOOLEAN /\ cmd' \in DOMAIN Script \cup {"none"} /\ at' \in Nat
         /\ pc' \in {"idle", "capture", "run", "writing", "undo_routing", "undo_provider", "undo_files",
                    "check", "restore", "restore_rest", "unlink", "rmtree"}
         /\ lease' \in {"none", "command", "refresh"} /\ refresh' \in 0 .. Len(IndexFiles) + 1
         /\ report' \in {"none", "done", "preserved", "unknown"}
    BY <1>10 DEF TypeOK, Raise
  <2>5. count' \in [{"ops", "kills", "raises", "edits", "refreshes"} -> Nat]
    BY <1>10, Contents DEF TypeOK, Raise, Count
  <2>. QED BY <2>1, <2>2, <2>3, <2>4, <2>5 DEF TypeOK
<1>11. CASE UndoRouting
  <2>1. file' \in [Artifact -> Content] /\ base' \in [Artifact -> Content]
    BY <1>11, Contents DEF TypeOK, UndoRouting
  <2>2. journal' \in [phase : {"none", "prepared", "accepted"}, before : [Artifact -> Content],
                        allowed : [External -> SUBSET Content]]
    BY <1>11 DEF TypeOK, UndoRouting
  <2>3. tx' \in [before : [Artifact -> Content], expected : [Artifact -> Content],
                   allowed : [Guarded -> SUBSET Content], applied : SUBSET Routing,
                   indexed : BOOLEAN, errors : BOOLEAN, read : Content]
    <3>1. tx' = tx \/ \E x \in SUBSET Routing, b \in BOOLEAN : tx' = [tx EXCEPT !.applied = x, !.errors = b]
      BY <1>11 DEF TypeOK, UndoRouting
    <3>. QED BY <3>1 DEF TypeOK
  <2>4. /\ root' \in BOOLEAN /\ cmd' \in DOMAIN Script \cup {"none"} /\ at' \in Nat
         /\ pc' \in {"idle", "capture", "run", "writing", "undo_routing", "undo_provider", "undo_files",
                    "check", "restore", "restore_rest", "unlink", "rmtree"}
         /\ lease' \in {"none", "command", "refresh"} /\ refresh' \in 0 .. Len(IndexFiles) + 1
         /\ report' \in {"none", "done", "preserved", "unknown"}
    BY <1>11, TxNames DEF TypeOK, UndoRouting
  <2>5. count' \in [{"ops", "kills", "raises", "edits", "refreshes"} -> Nat]
    BY <1>11 DEF TypeOK, UndoRouting
  <2>. QED BY <2>1, <2>2, <2>3, <2>4, <2>5 DEF TypeOK
<1>12. CASE UndoProvider
  BY <1>12, Names DEF TypeOK, UndoProvider
<1>13. CASE UndoFile
  <2>0. at \in 0 .. Len(TxFiles) /\ \A i \in 1 .. Len(TxFiles) : TxFiles[i] \in Artifact
    BY <1>13, TxNames DEF UndoFile, PlaceInv, Undoing
  <2>1. file' \in [Artifact -> Content] /\ base' \in [Artifact -> Content]
    BY <1>13, <2>0 DEF TypeOK, UndoFile
  <2>2. journal' \in [phase : {"none", "prepared", "accepted"}, before : [Artifact -> Content],
                        allowed : [External -> SUBSET Content]]
    BY <1>13 DEF TypeOK, UndoFile
  <2>3. tx' \in [before : [Artifact -> Content], expected : [Artifact -> Content],
                   allowed : [Guarded -> SUBSET Content], applied : SUBSET Routing,
                   indexed : BOOLEAN, errors : BOOLEAN, read : Content]
    <3>1. tx' = tx \/ \E b \in BOOLEAN : tx' = [tx EXCEPT !.errors = b]
      BY <1>13, <2>0 DEF TypeOK, UndoFile
    <3>. QED BY <3>1 DEF TypeOK
  <2>4. /\ root' \in BOOLEAN /\ cmd' \in DOMAIN Script \cup {"none"} /\ at' \in Nat
         /\ pc' \in {"idle", "capture", "run", "writing", "undo_routing", "undo_provider", "undo_files",
                    "check", "restore", "restore_rest", "unlink", "rmtree"}
         /\ lease' \in {"none", "command", "refresh"} /\ refresh' \in 0 .. Len(IndexFiles) + 1
         /\ report' \in {"none", "done", "preserved", "unknown"}
    BY <1>13, <2>0 DEF TypeOK, PlaceInv, UndoFile
  <2>5. count' \in [{"ops", "kills", "raises", "edits", "refreshes"} -> Nat]
    BY <1>13 DEF TypeOK, UndoFile
  <2>. QED BY <2>1, <2>2, <2>3, <2>4, <2>5 DEF TypeOK
<1>14. CASE Check
  BY <1>14, Names, SMTT(30) DEF TypeOK, Check, Return
<1>15. CASE Restore
  <2>0. at \in 0 .. Len(Order) /\ \A i \in 1 .. Len(Order) : Order[i] \in Artifact
    BY <1>15, Names DEF Restore, PlaceInv, Restoring
  <2>1. file' \in [Artifact -> Content] /\ base' \in [Artifact -> Content]
    BY <1>15, <2>0 DEF TypeOK, Restore
  <2>2. journal' \in [phase : {"none", "prepared", "accepted"}, before : [Artifact -> Content],
                        allowed : [External -> SUBSET Content]]
    BY <1>15 DEF TypeOK, Restore
  <2>3. tx' \in [before : [Artifact -> Content], expected : [Artifact -> Content],
                   allowed : [Guarded -> SUBSET Content], applied : SUBSET Routing,
                   indexed : BOOLEAN, errors : BOOLEAN, read : Content]
    BY <1>15 DEF TypeOK, Restore
  <2>4. /\ root' \in BOOLEAN /\ cmd' \in DOMAIN Script \cup {"none"} /\ at' \in Nat
         /\ pc' \in {"idle", "capture", "run", "writing", "undo_routing", "undo_provider", "undo_files",
                    "check", "restore", "restore_rest", "unlink", "rmtree"}
         /\ lease' \in {"none", "command", "refresh"} /\ refresh' \in 0 .. Len(IndexFiles) + 1
         /\ report' \in {"none", "done", "preserved", "unknown"}
    BY <1>15, <2>0 DEF TypeOK, PlaceInv, Restore
  <2>5. count' \in [{"ops", "kills", "raises", "edits", "refreshes"} -> Nat]
    BY <1>15 DEF TypeOK, Restore
  <2>. QED BY <2>1, <2>2, <2>3, <2>4, <2>5 DEF TypeOK
<1>16. CASE RestoreFails
  <2>0. at \in 0 .. Len(Order) /\ \A i \in 1 .. Len(Order) : Order[i] \in Artifact
    BY <1>16, Names DEF RestoreFails, PlaceInv, Restoring
  <2>1. file' \in [Artifact -> Content] /\ base' \in [Artifact -> Content]
    BY <1>16 DEF TypeOK, RestoreFails
  <2>2. journal' \in [phase : {"none", "prepared", "accepted"}, before : [Artifact -> Content],
                        allowed : [External -> SUBSET Content]]
    BY <1>16 DEF TypeOK, RestoreFails
  <2>3. tx' \in [before : [Artifact -> Content], expected : [Artifact -> Content],
                   allowed : [Guarded -> SUBSET Content], applied : SUBSET Routing,
                   indexed : BOOLEAN, errors : BOOLEAN, read : Content]
    BY <1>16 DEF TypeOK, RestoreFails
  <2>4. /\ root' \in BOOLEAN /\ cmd' \in DOMAIN Script \cup {"none"} /\ at' \in Nat
         /\ pc' \in {"idle", "capture", "run", "writing", "undo_routing", "undo_provider", "undo_files",
                    "check", "restore", "restore_rest", "unlink", "rmtree"}
         /\ lease' \in {"none", "command", "refresh"} /\ refresh' \in 0 .. Len(IndexFiles) + 1
         /\ report' \in {"none", "done", "preserved", "unknown"}
    BY <1>16, <2>0 DEF TypeOK, PlaceInv, RestoreFails
  <2>5. count' \in [{"ops", "kills", "raises", "edits", "refreshes"} -> Nat]
    BY <1>16, Contents DEF TypeOK, RestoreFails, Count
  <2>. QED BY <2>1, <2>2, <2>3, <2>4, <2>5 DEF TypeOK
<1>17. CASE RestoreRest
  <2>0. at \in 0 .. Len(Order) /\ \A i \in 1 .. Len(Order) : Order[i] \in Artifact
    BY <1>17, Names DEF RestoreRest, PlaceInv, Restoring
  <2>1. file' \in [Artifact -> Content] /\ base' \in [Artifact -> Content]
    BY <1>17, <2>0 DEF TypeOK, RestoreRest
  <2>2. journal' \in [phase : {"none", "prepared", "accepted"}, before : [Artifact -> Content],
                        allowed : [External -> SUBSET Content]]
    BY <1>17 DEF TypeOK, RestoreRest
  <2>3. tx' \in [before : [Artifact -> Content], expected : [Artifact -> Content],
                   allowed : [Guarded -> SUBSET Content], applied : SUBSET Routing,
                   indexed : BOOLEAN, errors : BOOLEAN, read : Content]
    BY <1>17 DEF TypeOK, RestoreRest
  <2>4. /\ root' \in BOOLEAN /\ cmd' \in DOMAIN Script \cup {"none"} /\ at' \in Nat
         /\ pc' \in {"idle", "capture", "run", "writing", "undo_routing", "undo_provider", "undo_files",
                    "check", "restore", "restore_rest", "unlink", "rmtree"}
         /\ lease' \in {"none", "command", "refresh"} /\ refresh' \in 0 .. Len(IndexFiles) + 1
         /\ report' \in {"none", "done", "preserved", "unknown"}
    BY <1>17, <2>0 DEF TypeOK, RestoreRest, Return
  <2>5. count' \in [{"ops", "kills", "raises", "edits", "refreshes"} -> Nat]
    BY <1>17 DEF TypeOK, RestoreRest
  <2>. QED BY <2>1, <2>2, <2>3, <2>4, <2>5 DEF TypeOK
<1>18. CASE RestoreDone
  BY <1>18, Contents DEF TypeOK, RestoreDone
<1>19. CASE Unlink
  BY <1>19, Contents DEF TypeOK, Unlink, NoJournal
<1>20. CASE Rmtree
  BY <1>20, Contents DEF TypeOK, Rmtree, Return
<1>21. CASE Recover
  BY <1>21, Contents DEF TypeOK, Recover, NoTx
<1>22. CASE Kill
  BY <1>22, Contents DEF TypeOK, Kill, Return, Count, NoJournal, NoTx
<1>23. ASSUME NEW a \in External, Edit(a) PROVE TypeOK'
  <2>1. file' \in [Artifact -> Content] /\ base' \in [Artifact -> Content]
    <3>1. {User, base[a]} \subseteq Content /\ a \in Artifact
      BY Kinds, Contents DEF TypeOK
    <3>. QED BY <1>23, <3>1 DEF TypeOK, Edit
  <2>2. journal' \in [phase : {"none", "prepared", "accepted"}, before : [Artifact -> Content],
                        allowed : [External -> SUBSET Content]]
    BY <1>23 DEF TypeOK, Edit
  <2>3. tx' \in [before : [Artifact -> Content], expected : [Artifact -> Content],
                   allowed : [Guarded -> SUBSET Content], applied : SUBSET Routing,
                   indexed : BOOLEAN, errors : BOOLEAN, read : Content]
    BY <1>23 DEF TypeOK, Edit
  <2>4. /\ root' \in BOOLEAN /\ cmd' \in DOMAIN Script \cup {"none"} /\ at' \in Nat
         /\ pc' \in {"idle", "capture", "run", "writing", "undo_routing", "undo_provider", "undo_files",
                    "check", "restore", "restore_rest", "unlink", "rmtree"}
         /\ lease' \in {"none", "command", "refresh"} /\ refresh' \in 0 .. Len(IndexFiles) + 1
         /\ report' \in {"none", "done", "preserved", "unknown"}
    BY <1>23 DEF TypeOK, Edit
  <2>5. count' \in [{"ops", "kills", "raises", "edits", "refreshes"} -> Nat]
    BY <1>23, Contents DEF TypeOK, Edit, Count
  <2>. QED BY <2>1, <2>2, <2>3, <2>4, <2>5 DEF TypeOK
<1>24. CASE RefreshBegin
  <2>1. file' \in [Artifact -> Content] /\ base' \in [Artifact -> Content]
    BY <1>24 DEF TypeOK, RefreshBegin
  <2>2. journal' \in [phase : {"none", "prepared", "accepted"}, before : [Artifact -> Content],
                        allowed : [External -> SUBSET Content]]
    BY <1>24 DEF TypeOK, RefreshBegin
  <2>3. tx' \in [before : [Artifact -> Content], expected : [Artifact -> Content],
                   allowed : [Guarded -> SUBSET Content], applied : SUBSET Routing,
                   indexed : BOOLEAN, errors : BOOLEAN, read : Content]
    BY <1>24 DEF TypeOK, RefreshBegin
  <2>4. /\ root' \in BOOLEAN /\ cmd' \in DOMAIN Script \cup {"none"} /\ at' \in Nat
         /\ pc' \in {"idle", "capture", "run", "writing", "undo_routing", "undo_provider", "undo_files",
                    "check", "restore", "restore_rest", "unlink", "rmtree"}
         /\ lease' \in {"none", "command", "refresh"} /\ refresh' \in 0 .. Len(IndexFiles) + 1
         /\ report' \in {"none", "done", "preserved", "unknown"}
    BY <1>24, TxNames DEF TypeOK, RefreshBegin
  <2>5. count' \in [{"ops", "kills", "raises", "edits", "refreshes"} -> Nat]
    BY <1>24, Contents DEF TypeOK, RefreshBegin, Count
  <2>. QED BY <2>1, <2>2, <2>3, <2>4, <2>5 DEF TypeOK
<1>25. CASE RefreshStep
  BY <1>25, TxNames, Contents DEF TypeOK, RefreshStep
<1>26. CASE UNCHANGED vars
  BY <1>26, Contents DEF TypeOK, vars
<1>. QED
  BY <1>1, <1>2, <1>3, <1>4, <1>5, <1>6, <1>7, <1>8, <1>9, <1>10, <1>11, <1>12, <1>13, <1>14,
     <1>15, <1>16, <1>17, <1>18, <1>19, <1>20, <1>21, <1>22, <1>23, <1>24, <1>25,
     <1>26 DEF Next, Work, Settle

LEMMA RefreshFiles ==
  ASSUME TypeOK, RefreshStep
  PROVE  /\ \A a \in Artifact : file'[a] = file[a] \/ a \in {IndexFiles[i] : i \in DOMAIN IndexFiles}
         /\ \A a \in External : file'[a] = file[a]
<1>1. file' = file \/ (refresh \in 1 .. Len(IndexFiles) /\ file' = [file EXCEPT ![IndexFiles[refresh]] = Refreshed(count.refreshes)])
  BY TxNames DEF TypeOK, RefreshStep
<1>2. DOMAIN IndexFiles = 1 .. Len(IndexFiles)
  BY DEF IndexFiles
<1>3. \A i \in 1 .. Len(IndexFiles) : IndexFiles[i] \notin External
  BY TxNames
<1>. QED BY <1>1, <1>2, <1>3, Kinds DEF TypeOK

LEMMA PlaceNext ==
  ASSUME TypeOK, PlaceInv, [Next]_vars
  PROVE  PlaceInv'
<1>. USE DEF PlaceInv, AtWork, Undoing, Restoring, OwnTx, Journalled
<1>1. ASSUME NEW c \in Commands, Start(c) PROVE PlaceInv'
  BY <1>1, Names DEF TypeOK, Start
<1>2. CASE Capture
  BY <1>2, Names, SMTT(30) DEF TypeOK, Capture
<1>3. CASE WriteJournal
  <2>1. cmd \in DOMAIN Script /\ Len(Script[cmd]) \in Nat
    BY <1>3, ConstantsOK, ScriptFacts DEF WriteJournal
  <2>. QED BY <1>3, <2>1 DEF TypeOK, WriteJournal
<1>4. CASE Authorize
  <2>1. /\ at \in 1 .. Len(Script[cmd]) /\ Step \in Steps /\ cmd \in Commands
        /\ Len(Script[cmd]) \in Nat
    BY <1>4, StepFacts, ScriptFacts DEF Authorize, Running
  <2>2. Script[cmd]' = Script[cmd]
    BY <1>4 DEF Authorize
  <2>. QED BY <1>4, <2>1, <2>2 DEF TypeOK, Authorize, Running, Steps
<1>5. CASE ApplyRouting
  <2>1. /\ at \in 1 .. Len(Script[cmd]) /\ Step \in Steps /\ cmd \in Commands
        /\ Len(Script[cmd]) \in Nat
    BY <1>5, StepFacts, ScriptFacts DEF ApplyRouting, Running
  <2>2. Script[cmd]' = Script[cmd]
    BY <1>5 DEF ApplyRouting
  <2>. QED BY <1>5, <2>1, <2>2, SMTT(30) DEF TypeOK, ApplyRouting, Running, Steps
<1>6. CASE Truncate
  <2>1. /\ at \in 1 .. Len(Script[cmd]) /\ Step \in Steps /\ cmd \in Commands /\ Step.of \in Artifact
        /\ Len(Script[cmd]) \in Nat
    BY <1>6, StepFacts, ScriptFacts DEF Truncate, Running
  <2>2. Step' = Step /\ Script[cmd]' = Script[cmd] /\ file'[Step.of] = Torn
    BY <1>6, <2>1 DEF Truncate, Step, TypeOK
  <2>. QED BY <1>6, <2>1, <2>2 DEF TypeOK, Truncate, Running
<1>7. CASE Publish
  <2>1. /\ at \in 1 .. Len(Script[cmd]) /\ cmd \in Commands /\ Len(Script[cmd]) \in Nat
        /\ pc \in AtWork /\ ~(pc = "writing" /\ cmd = "stop")
    BY <1>7, StepFacts, ScriptFacts, Kinds DEF Publish, Running, Publishing
  <2>2. Script[cmd]' = Script[cmd] /\ journal' = journal /\ cmd' = cmd
    BY <1>7 DEF Publish
  <2>3. (pc' = "run" /\ at' = at + 1) \/ pc' = "undo_routing"
    BY <1>7, <2>1 DEF Publish, Observe
  <2>. QED BY <2>1, <2>2, <2>3, SMTT(30) DEF TypeOK
<1>8. CASE SkipMark
  <2>1. /\ at \in 1 .. Len(Script[cmd]) /\ Step \in Steps /\ cmd \in Commands
        /\ Len(Script[cmd]) \in Nat
    BY <1>8, StepFacts, ScriptFacts DEF SkipMark, Running
  <2>2. Script[cmd]' = Script[cmd]
    BY <1>8 DEF SkipMark
  <2>. QED BY <1>8, <2>1, <2>2 DEF TypeOK, SkipMark, Running, Steps
<1>9. CASE AcceptChange
  BY <1>9 DEF TypeOK, AcceptChange, Return, NoJournal
<1>10. CASE Raise
  BY <1>10 DEF TypeOK, Raise, NoJournal
<1>11. CASE UndoRouting
  BY <1>11, TxNames DEF TypeOK, UndoRouting
<1>12. CASE UndoProvider
  BY <1>12 DEF TypeOK, UndoProvider, Return, NoJournal
<1>13. CASE UndoFile
  BY <1>13, TxNames DEF TypeOK, UndoFile
<1>14. CASE Check
  BY <1>14, Names, SMTT(30) DEF TypeOK, Check, Return
<1>15. CASE Restore
  BY <1>15, Names DEF TypeOK, Restore, Return
<1>16. CASE RestoreFails
  BY <1>16, Names DEF TypeOK, RestoreFails, Return
<1>17. CASE RestoreRest
  <2>1. CASE at > 0
    BY <1>17, <2>1 DEF TypeOK, RestoreRest
  <2>2. CASE ~(at > 0)
    BY <1>17, <2>2 DEF TypeOK, RestoreRest, Return
  <2>. QED BY <2>1, <2>2
<1>18. CASE RestoreDone
  BY <1>18 DEF TypeOK, RestoreDone, Return, NoJournal
<1>19. CASE Unlink
  BY <1>19 DEF TypeOK, Unlink, Return, NoJournal
<1>20. CASE Rmtree
  BY <1>20 DEF TypeOK, Rmtree, Return, NoJournal
<1>21. CASE Recover
  BY <1>21 DEF TypeOK, Recover, Return, NoJournal
<1>22. CASE Kill
  BY <1>22 DEF TypeOK, Kill, Return, NoJournal
<1>23. ASSUME NEW a \in External, Edit(a) PROVE PlaceInv'
  BY <1>23 DEF TypeOK, Edit, Return, NoJournal
<1>24. CASE RefreshBegin
  BY <1>24 DEF TypeOK, RefreshBegin, Step
<1>25. CASE RefreshStep
  <2>1. Step' = Step
    BY <1>25 DEF RefreshStep, Step
  <2>4. pc = "writing" => file'[Step.of] = file[Step.of]
    BY <1>25, RefreshFiles, Kinds
  <2>. QED BY <1>25, <2>1, <2>4 DEF TypeOK, RefreshStep
<1>26. CASE UNCHANGED vars
  BY <1>26 DEF vars, Step
<1>. QED
  BY <1>1, <1>2, <1>3, <1>4, <1>5, <1>6, <1>7, <1>8, <1>9, <1>10, <1>11, <1>12, <1>13, <1>14,
     <1>15, <1>16, <1>17, <1>18, <1>19, <1>20, <1>21, <1>22, <1>23, <1>24, <1>25,
     <1>26 DEF Next, Work, Settle

\* Within a command nothing changes what it is, what it began with and what it
\* publishes.
LEMMA OpsKept ==
  ASSUME TypeOK, ~(pc = "idle" /\ pc' = "capture"), [Next]_vars
  PROVE  cmd' = cmd /\ base' = base /\ count'.ops = count.ops
<1>1. ASSUME NEW c \in Commands, Start(c) PROVE cmd' = cmd /\ base' = base /\ count'.ops = count.ops
  BY <1>1 DEF Start
<1>2. CASE Capture
  BY <1>2 DEF Capture
<1>3. CASE WriteJournal
  BY <1>3 DEF WriteJournal
<1>4. CASE Authorize
  BY <1>4 DEF Authorize
<1>5. CASE ApplyRouting
  BY <1>5 DEF ApplyRouting
<1>6. CASE Truncate
  BY <1>6 DEF Truncate
<1>7. CASE Publish
  BY <1>7 DEF Publish
<1>8. CASE SkipMark
  BY <1>8 DEF SkipMark
<1>9. CASE AcceptChange
  BY <1>9 DEF AcceptChange
<1>10. CASE Raise
  BY <1>10 DEF TypeOK, Raise, Count
<1>11. CASE UndoRouting
  BY <1>11 DEF UndoRouting
<1>12. CASE UndoProvider
  BY <1>12 DEF UndoProvider
<1>13. CASE UndoFile
  BY <1>13 DEF UndoFile
<1>14. CASE Check
  BY <1>14 DEF TypeOK, Check
<1>15. CASE Restore
  BY <1>15 DEF Restore
<1>16. CASE RestoreFails
  BY <1>16 DEF TypeOK, RestoreFails, Count
<1>17. CASE RestoreRest
  BY <1>17 DEF RestoreRest
<1>18. CASE RestoreDone
  BY <1>18 DEF RestoreDone
<1>19. CASE Unlink
  BY <1>19 DEF Unlink
<1>20. CASE Rmtree
  BY <1>20 DEF Rmtree
<1>21. CASE Recover
  BY <1>21 DEF Recover
<1>22. CASE Kill
  BY <1>22 DEF TypeOK, Kill, Count
<1>23. ASSUME NEW a \in External, Edit(a) PROVE cmd' = cmd /\ base' = base /\ count'.ops = count.ops
  BY <1>23 DEF TypeOK, Edit, Count
<1>24. CASE RefreshBegin
  BY <1>24 DEF TypeOK, RefreshBegin, Count
<1>25. CASE RefreshStep
  BY <1>25 DEF RefreshStep
<1>26. CASE UNCHANGED vars
  BY <1>26 DEF TypeOK, vars
<1>. QED
  BY <1>1, <1>2, <1>3, <1>4, <1>5, <1>6, <1>7, <1>8, <1>9, <1>10, <1>11, <1>12, <1>13, <1>14,
     <1>15, <1>16, <1>17, <1>18, <1>19, <1>20, <1>21, <1>22, <1>23, <1>24, <1>25,
     <1>26 DEF Next, Work, Settle

LEMMA CommandKept ==
  ASSUME TypeOK, ~(pc = "idle" /\ pc' = "capture"), [Next]_vars
  PROVE  /\ cmd' = cmd /\ base' = base
         /\ \A a : Final(a)' = Final(a)
         /\ Written' = Written /\ Script[cmd]' = Script[cmd]
  BY OpsKept DEF Final, Written

LEMMA TxNext ==
  ASSUME TypeOK, PlaceInv, TxInv, [Next]_vars
  PROVE  TxInv'
<1>. USE DEF TxInv, AtWork, Undoing, OwnTx
<1>1. ASSUME NEW c \in Commands, Start(c) PROVE TxInv'
  BY <1>1, Kinds DEF TypeOK, Start, NoTx
<1>2. CASE Capture
  BY <1>2, CommandKept DEF Capture, Return
<1>3. CASE WriteJournal
  BY <1>3, CommandKept DEF WriteJournal, Return
<1>4. CASE Authorize
  <2>1. Step.of \in Guarded
    BY <1>4, StepFacts DEF Authorize, Running, WellPlaced, Step
  <2>. QED BY <1>4, <2>1, CommandKept DEF TypeOK, Authorize, Running
<1>5. CASE ApplyRouting
  BY <1>5, CommandKept DEF TypeOK, ApplyRouting, Running
<1>6. CASE Truncate
  BY <1>6, CommandKept DEF Truncate, Running
<1>7. CASE Publish
  <2>1. file' \in [Artifact -> Content] /\ pc \in AtWork
    BY <1>7, TypeNext DEF TypeOK, Publish, Publishing, Running
  <2>2. tx' = tx \/ Observe(file')
    BY <1>7 DEF Publish
  <2>3. tx'.before = tx.before /\ tx'.allowed = tx.allowed
    BY <2>2 DEF Observe, TypeOK
  <2>4. \A a \in Guarded : tx'.expected[a] \in {tx.expected[a]} \cup tx.allowed[a]
    <3>1. ASSUME NEW a \in Guarded, Observe(file')
          PROVE  tx'.expected[a] = IF file'[a] \notin tx.allowed[a] THEN tx.expected[a] ELSE file'[a]
      <4>1. a \in Artifact /\ tx'.expected = [b \in Artifact |->
                IF b \in {c \in Guarded : file'[c] \notin tx.allowed[c]} THEN tx.expected[b] ELSE file'[b]]
        BY <3>1, Kinds DEF Observe, TypeOK
      <4>. QED BY <4>1, <3>1
    <3>. QED BY <2>2, <3>1
  <2>. QED BY <1>7, <2>1, <2>3, <2>4, CommandKept DEF Publish
<1>8. CASE SkipMark
  BY <1>8, CommandKept DEF SkipMark, Running
<1>9. CASE AcceptChange
  BY <1>9, CommandKept DEF AcceptChange, Return
<1>10. CASE Raise
  BY <1>10, CommandKept DEF TypeOK, Raise
<1>11. CASE UndoRouting
  BY <1>11, CommandKept DEF TypeOK, UndoRouting
<1>12. CASE UndoProvider
  BY <1>12, CommandKept DEF UndoProvider, Return
<1>13. CASE UndoFile
  BY <1>13, CommandKept DEF TypeOK, UndoFile
<1>14. CASE Check
  BY <1>14, CommandKept DEF Check, Return
<1>15. CASE Restore
  BY <1>15, CommandKept DEF Restore, Return
<1>16. CASE RestoreFails
  BY <1>16, CommandKept DEF RestoreFails, Return
<1>17. CASE RestoreRest
  BY <1>17, CommandKept DEF RestoreRest, Return
<1>18. CASE RestoreDone
  BY <1>18, CommandKept DEF RestoreDone, Return
<1>19. CASE Unlink
  BY <1>19, CommandKept DEF Unlink, Return
<1>20. CASE Rmtree
  BY <1>20, CommandKept DEF Rmtree, Return
<1>21. CASE Recover
  BY <1>21, CommandKept DEF Recover, Return
<1>22. CASE Kill
  BY <1>22, CommandKept DEF Kill, Return
<1>23. ASSUME NEW a \in External, Edit(a) PROVE TxInv'
  BY <1>23, CommandKept DEF Edit, Return
<1>24. CASE RefreshBegin
  BY <1>24, CommandKept DEF RefreshBegin, Return
<1>25. CASE RefreshStep
  BY <1>25, CommandKept DEF RefreshStep, Return
<1>26. CASE UNCHANGED vars
  BY <1>26, CommandKept DEF vars
<1>. QED
  BY <1>1, <1>2, <1>3, <1>4, <1>5, <1>6, <1>7, <1>8, <1>9, <1>10, <1>11, <1>12, <1>13, <1>14,
     <1>15, <1>16, <1>17, <1>18, <1>19, <1>20, <1>21, <1>22, <1>23, <1>24, <1>25,
     <1>26 DEF Next, Work, Settle

LEMMA JournalNext ==
  ASSUME TypeOK, PlaceInv, JournalInv, [Next]_vars
  PROVE  JournalInv'
<1>. USE DEF JournalInv, AtWork, Kept
<1>1. ASSUME NEW c \in Commands, Start(c) PROVE JournalInv'
  <2>1. \A a \in External : file'[a] = base'[a]
    BY <1>1, Kinds DEF Start, TypeOK
  <2>. QED BY <1>1, <2>1 DEF Start, Journalled, Kept
<1>2. CASE Capture
  <2>1. at \in 1 .. Len(Order) /\ Order[at] \in Artifact
    BY <1>2, Names DEF Capture, PlaceInv
  <2>2. /\ at' = at + 1 /\ pc' = pc /\ file' = file /\ journal'.phase = journal.phase
        /\ journal'.before = [journal.before EXCEPT ![Order[at]] = file[Order[at]]]
    BY <1>2 DEF TypeOK, Capture
  <2>3. \A a \in External : journal'.before[a] = IF a = Order[at] THEN file[a] ELSE journal.before[a]
    BY <2>1, <2>2, Kinds DEF TypeOK
  <2>4. \A a \in External : file[a] \in {base[a], User}
    BY <1>2 DEF Capture
  <2>5. \A i \in 1 .. at' - 1 : i \in 1 .. at - 1 \/ i = at
    BY <2>1, <2>2
  <2>6. cmd' = cmd /\ base' = base /\ pc = "capture" /\ journal.phase = "none"
    BY <1>2, CommandKept DEF Capture, PlaceInv
  <2>. QED BY <2>2, <2>3, <2>4, <2>5, <2>6
<1>3. CASE WriteJournal
  <2>1. ASSUME NEW a \in External PROVE journal.before[a] \in {base[a], User}
    BY <1>3, OrderFacts, Kinds, Names DEF WriteJournal, PlaceInv
  <2>2. /\ journal'.before = journal.before /\ at' = 1 /\ pc' = "run"
        /\ journal'.allowed = [a \in External |-> {journal.before[a]} \cup
                                 IF a \in Routing /\ cmd # "stop" THEN {Final(a)} ELSE {}]
    BY <1>3 DEF TypeOK, WriteJournal
  <2>. QED BY <1>3, <2>1, <2>2, CommandKept DEF WriteJournal
<1>4. CASE Authorize
  <2>1. Step.of \in Guarded /\ Step.of \in External /\ at \in 1 .. Len(Script[cmd]) /\ pc = "run" /\ Step = Script[cmd][at]
    BY <1>4, StepFacts, Kinds DEF Authorize, Running, WellPlaced, Step
  <2>2. /\ journal' = [journal EXCEPT !.allowed[Step.of] = @ \cup {Final(Step.of)}]
        /\ at' = at + 1 /\ pc' = pc
    BY <1>4 DEF Authorize
  <2>3. \A a \in External : journal'.allowed[a] = IF a = Step.of THEN journal.allowed[a] \cup {Final(a)}
                                                      ELSE journal.allowed[a]
    BY <2>1, <2>2 DEF TypeOK
  <2>4. journal'.phase = journal.phase /\ journal'.before = journal.before /\ journal.phase = "prepared"
    BY <2>1, <2>2 DEF TypeOK, PlaceInv
  <2>5. \A a \in Guarded : Step = Allow(a) => a = Step.of
    BY DEF Allow
  <2>6. \A a \in Guarded : a \in External
    BY Kinds
  <2>7. \A i \in 1 .. at' - 1 : i \in 1 .. at - 1 \/ i = at
    BY <2>1, <2>2
  <2>8. \A i \in 1 .. at' - 1 : \A a \in Guarded : Script[cmd][i] = Allow(a) => Final(a) \in journal'.allowed[a]
    BY <2>1, <2>3, <2>5, <2>6, <2>7
  <2>9. \A a \in External :
          /\ journal'.before[a] \in {base[a], User} \cap journal'.allowed[a]
          /\ journal'.allowed[a] \subseteq {journal'.before[a], Final(a)}
          /\ a \in Routing /\ cmd # "stop" => Final(a) \in journal'.allowed[a]
    <3>1. \A a \in External :
            /\ journal.before[a] \in {base[a], User} /\ journal.before[a] \in journal.allowed[a]
            /\ \A c \in journal.allowed[a] : c = journal.before[a] \/ c = Final(a)
            /\ a \in Routing /\ cmd # "stop" => Final(a) \in journal.allowed[a]
      BY <2>4
    <3>. SUFFICES ASSUME NEW a \in External
                  PROVE  /\ journal'.before[a] \in {base[a], User} \cap journal'.allowed[a]
                         /\ journal'.allowed[a] \subseteq {journal'.before[a], Final(a)}
                         /\ a \in Routing /\ cmd # "stop" => Final(a) \in journal'.allowed[a]
      OBVIOUS
    <3>2. CASE a = Step.of
      <4>1. journal'.allowed[a] = journal.allowed[a] \cup {Final(a)} /\ journal'.before[a] = journal.before[a]
        BY <2>3, <2>4, <3>2
      <4>. QED BY <3>1, <4>1
    <3>3. CASE a # Step.of
      <4>1. journal'.allowed[a] = journal.allowed[a] /\ journal'.before[a] = journal.before[a]
        BY <2>3, <2>4, <3>3
      <4>. QED BY <3>1, <4>1
    <3>. QED BY <3>2, <3>3
  <2>10. cmd' = cmd /\ base' = base /\ Script[cmd]' = Script[cmd] /\ \A a : Final(a)' = Final(a)
    BY <2>1, <2>2, CommandKept
  <2>. QED BY <2>1, <2>2, <2>4, <2>8, <2>9, <2>10
<1>5. CASE ApplyRouting
  <2>1. at \in 1 .. Len(Script[cmd]) /\ Step.do = "write" /\ pc = "run"
    BY <1>5, StepFacts DEF ApplyRouting, Running
  <2>2. pc' \in AtWork => at' = at + 1
    BY <1>5 DEF ApplyRouting
  <2>. QED BY <1>5, <2>1, <2>2, CommandKept DEF ApplyRouting, Step, Allow
<1>6. CASE Truncate
  BY <1>6, CommandKept, StepFacts, SMTT(30) DEF TypeOK, Truncate, Running, Step, Allow
<1>7. CASE Publish
  <2>1. at \in 1 .. Len(Script[cmd]) /\ pc \in AtWork /\ Step.do # "allow" /\ pc' # "capture"
    BY <1>7, StepFacts DEF Publish, Publishing, Running, PlaceInv, Observe
  <2>2. pc' \in AtWork => at' = at + 1
    BY <1>7 DEF Publish, Observe
  <2>. QED BY <1>7, <2>1, <2>2, CommandKept DEF Publish, Step, Allow
<1>8. CASE SkipMark
  BY <1>8, CommandKept, StepFacts, SMTT(30) DEF TypeOK, SkipMark, Running, Step, Allow
<1>9. CASE AcceptChange
  BY <1>9, CommandKept DEF TypeOK, AcceptChange, Return, NoJournal
<1>10. CASE Raise
  BY <1>10, CommandKept DEF TypeOK, Raise, Return, NoJournal
<1>11. CASE UndoRouting
  BY <1>11, CommandKept DEF TypeOK, UndoRouting, Return, NoJournal
<1>12. CASE UndoProvider
  BY <1>12, CommandKept DEF TypeOK, UndoProvider, Return, NoJournal
<1>13. CASE UndoFile
  BY <1>13, CommandKept DEF TypeOK, UndoFile, Return, NoJournal
<1>14. CASE Check
  BY <1>14, CommandKept DEF TypeOK, Check, Return, NoJournal
<1>15. CASE Restore
  BY <1>15, CommandKept DEF TypeOK, Restore, Return, NoJournal
<1>16. CASE RestoreFails
  BY <1>16, CommandKept DEF TypeOK, RestoreFails, Return, NoJournal
<1>17. CASE RestoreRest
  BY <1>17, CommandKept DEF TypeOK, RestoreRest, Return, NoJournal
<1>18. CASE RestoreDone
  BY <1>18, CommandKept DEF TypeOK, RestoreDone, Return, NoJournal
<1>19. CASE Unlink
  BY <1>19, CommandKept DEF TypeOK, Unlink, Return, NoJournal
<1>20. CASE Rmtree
  BY <1>20, CommandKept DEF TypeOK, Rmtree, Return, NoJournal
<1>21. CASE Recover
  BY <1>21, CommandKept DEF TypeOK, Recover, Return, NoJournal
<1>22. CASE Kill
  BY <1>22, CommandKept DEF TypeOK, Kill, Return, NoJournal
<1>23. ASSUME NEW a \in External, Edit(a) PROVE JournalInv'
  BY <1>23, CommandKept DEF TypeOK, Edit, Return, NoJournal
<1>24. CASE RefreshBegin
  BY <1>24, CommandKept DEF TypeOK, RefreshBegin, Return, NoJournal
<1>25. CASE RefreshStep
  BY <1>25, CommandKept, RefreshFiles DEF RefreshStep
<1>26. CASE UNCHANGED vars
  BY <1>26, CommandKept DEF vars
<1>. QED
  BY <1>1, <1>2, <1>3, <1>4, <1>5, <1>6, <1>7, <1>8, <1>9, <1>10, <1>11, <1>12, <1>13, <1>14,
     <1>15, <1>16, <1>17, <1>18, <1>19, <1>20, <1>21, <1>22, <1>23, <1>24, <1>25,
     <1>26 DEF Next, Work, Settle

LEMMA OwnNext ==
  ASSUME TypeOK, PlaceInv, TxInv, JournalInv, OwnInv, [Next]_vars
  PROVE  OwnInv'
<1>. USE DEF OwnInv, Recognizable, TornByUs
<1>1. ASSUME NEW c \in Commands, Start(c) PROVE OwnInv'
  BY <1>1 DEF Start, Journalled
<1>2. CASE Capture
  BY <1>2, CommandKept DEF TypeOK, Capture, Return, NoJournal, PlaceInv, Undoing, Restoring
<1>3. CASE WriteJournal
  BY <1>3, CommandKept DEF TypeOK, WriteJournal, JournalInv, Kept
<1>4. CASE Authorize
  <2>1. \A a \in External : journal.allowed[a] \subseteq journal'.allowed[a]
    BY <1>4 DEF TypeOK, Authorize
  <2>. QED BY <1>4, <2>1, CommandKept DEF Authorize, Running, TypeOK
<1>5. CASE ApplyRouting
  <2>1. Step.of \in Routing /\ cmd # "stop" /\ pc = "run"
    BY <1>5, StepFacts, Kinds DEF ApplyRouting, Running, AtWork
  <2>2. Final(Step.of) \in journal.allowed[Step.of]
    BY <2>1, <1>5, Kinds DEF JournalInv, PlaceInv, AtWork
  <2>3. file' = file \/ file' = [file EXCEPT ![Step.of] = Final(Step.of)]
    BY <1>5 DEF ApplyRouting
  <2>4. journal' = journal /\ cmd' = cmd /\ base' = base /\ pc' # "writing"
    BY <1>5, <2>1, CommandKept DEF ApplyRouting
  <2>. QED BY <2>1, <2>2, <2>3, <2>4, Kinds DEF TypeOK
<1>6. CASE Truncate
  <2>1. pc = "run" /\ pc' = "writing" /\ Step' = Step /\ journal' = journal /\ base' = base
        /\ file' = [file EXCEPT ![Step.of] = Torn] /\ Step.of \in Guarded
    BY <1>6 DEF Truncate, Step, Running
  <2>2. journal.phase = "prepared" /\ tx.before = base
    BY <2>1 DEF PlaceInv, TxInv, OwnTx, AtWork
  <2>3. tx'.read \in {file[Step.of], base[Step.of]}
    BY <1>6, <2>2 DEF Truncate, TypeOK
  <2>4. Recognizable(Step.of) \/ (CutWrites /\ file[Step.of] = Torn)
    BY <2>1, <2>2, Kinds
  <2>5. ReadWell'
    BY <2>1, <2>3, <2>4 DEF ReadWell
  <2>. QED BY <2>1, <2>5, Kinds DEF TypeOK
<1>7. CASE Publish
  <2>1. at \in 1 .. Len(Script[cmd]) /\ pc \in AtWork /\ Step \in Steps /\ Step.do # "allow"
        /\ WellPlaced(Script[cmd], at) /\ Step = Script[cmd][at] /\ journal' = journal /\ base' = base
    BY <1>7, StepFacts DEF Publish, Publishing, Running, PlaceInv, AtWork, Step
  <2>2. Step.of \notin Routing /\ (Step.of \in Guarded => Step.do = "write")
    BY <1>7, <2>1, Kinds DEF Publish, Publishing, Running, PlaceInv, WellPlaced, Steps
  <2>3. Step.of \in Guarded => Final(Step.of) \in journal.allowed[Step.of]
    BY <2>1, <2>2 DEF WellPlaced, JournalInv, AtWork
  <2>4. ASSUME NEW a \in External, a # Step.of PROVE file'[a] = file[a]
    BY <1>7, <2>4, Kinds DEF Publish, Published, TypeOK
  <2>5. ASSUME Step.of \in Guarded, pc = "writing"
        PROVE  file'[Step.of] \in {Final(Step.of), Merged}
    BY <1>7, <2>2, <2>5, Kinds, SMTT(30) DEF Publish, Published, Refused, ToWrite, TypeOK
  <2>6. ASSUME Step.of \in Guarded, pc = "run" PROVE file' = file
    BY <1>7, <2>6 DEF Publish, Published, Refused
  <2>7. pc' # "writing"
    <3>1. pc = "writing" => Step.of \in Guarded
      BY DEF PlaceInv
    <3>2. cmd # "stop" => pc' # "writing"
      BY <1>7 DEF Publish, Observe
    <3>3. cmd = "stop" => pc' = pc /\ Step.of = "lifecycle"
      BY <1>7, <2>1, StepFacts DEF Publish
    <3>. QED BY <2>1, <3>1, <3>2, <3>3, Kinds
  <2>8. ASSUME NEW a \in External, a = Step.of, journal.phase = "prepared"
        PROVE  (Recognizable(a) \/ TornByUs(a))'
    <3>1. a \in Guarded
      BY <2>2, <2>8, Kinds
    <3>2. CASE pc = "writing"
      BY <2>1, <2>3, <2>5, <2>8, <3>1, <3>2
    <3>3. CASE pc = "run"
      BY <2>1, <2>6, <2>8, <3>1, <3>3
    <3>. QED BY <2>1, <3>2, <3>3 DEF AtWork
  <2>. QED BY <2>1, <2>4, <2>7, <2>8
<1>8. CASE SkipMark
  BY <1>8, CommandKept DEF SkipMark, Running
<1>9. CASE AcceptChange
  BY <1>9, CommandKept DEF TypeOK, AcceptChange, Return, NoJournal, PlaceInv, Undoing, Restoring
<1>10. CASE Raise
  <2>0. pc' # "writing"
    BY <1>10 DEF Raise
  <2>1. CASE pc = "writing"
    <3>1. Step.of \in Guarded /\ journal.phase = "prepared" /\ base' = base /\ journal' = journal
      BY <1>10, <2>1 DEF Raise, PlaceInv, AtWork
    <3>2. file' = [file EXCEPT ![Step.of] = tx.read] \/ (CutWrites /\ file' = file)
      BY <1>10, <2>1 DEF Raise
    <3>3. ReadWell
      BY <2>1
    <3>. QED BY <2>0, <2>1, <3>1, <3>2, <3>3, Kinds DEF TypeOK, ReadWell
  <2>2. CASE pc # "writing"
    BY <1>10, <2>0, <2>2, CommandKept DEF Raise, NoJournal
  <2>. QED BY <2>1, <2>2
<1>11. CASE UndoRouting
  <2>1. tx.before = base /\ base' = base /\ journal' = journal /\ pc # "writing" /\ pc' # "writing"
    BY <1>11 DEF UndoRouting, TxInv, OwnTx, Undoing
  <2>2. \A a \in External : file'[a] = file[a] \/ file'[a] = base[a]
    BY <1>11, <2>1, Kinds DEF UndoRouting, TypeOK
  <2>. QED BY <2>1, <2>2
<1>12. CASE UndoProvider
  <2>1. tx.before = base /\ base' = base /\ journal' = journal /\ pc # "writing" /\ pc' # "writing"
    BY <1>12 DEF UndoProvider, TxInv, OwnTx, Undoing
  <2>2. \A a \in External : file'[a] = file[a] \/ file'[a] = base[a]
    BY <1>12, <2>1, Kinds DEF UndoProvider, TypeOK
  <2>. QED BY <2>1, <2>2
<1>13. CASE UndoFile
  <2>1. tx.before = base /\ base' = base /\ journal' = journal /\ pc # "writing" /\ pc' # "writing"
    BY <1>13 DEF UndoFile, TxInv, OwnTx, Undoing
  <2>2. \A a \in External : file'[a] = file[a] \/ file'[a] = base[a]
    BY <1>13, <2>1, Kinds DEF UndoFile, TypeOK
  <2>. QED BY <2>1, <2>2
<1>14. CASE Check
  BY <1>14, CommandKept DEF TypeOK, Check, Return, NoJournal, PlaceInv, Undoing, Restoring
<1>15. CASE Restore
  <2>1. base' = base /\ journal' = journal /\ pc # "writing" /\ pc' # "writing" /\ journal.phase = "prepared"
    BY <1>15 DEF Restore, PlaceInv, Restoring, Return
  <2>2. \A a \in External : file'[a] = file[a] \/ file'[a] = journal.before[a]
    BY <1>15, <2>1, Kinds DEF Restore, TypeOK
  <2>. QED BY <2>1, <2>2 DEF JournalInv
<1>16. CASE RestoreFails
  BY <1>16, CommandKept DEF TypeOK, RestoreFails, Return, NoJournal, PlaceInv, Undoing, Restoring
<1>17. CASE RestoreRest
  <2>1. base' = base /\ journal' = journal /\ pc # "writing" /\ pc' # "writing" /\ journal.phase = "prepared"
    BY <1>17 DEF RestoreRest, PlaceInv, Restoring, Return
  <2>2. \A a \in External : file'[a] = file[a] \/ file'[a] = journal.before[a]
    BY <1>17, <2>1, Kinds DEF RestoreRest, TypeOK
  <2>. QED BY <2>1, <2>2 DEF JournalInv
<1>18. CASE RestoreDone
  BY <1>18, CommandKept DEF TypeOK, RestoreDone, Return, NoJournal, PlaceInv, Undoing, Restoring
<1>19. CASE Unlink
  BY <1>19, CommandKept DEF TypeOK, Unlink, Return, NoJournal, PlaceInv, Undoing, Restoring
<1>20. CASE Rmtree
  BY <1>20, CommandKept DEF TypeOK, Rmtree, Return, NoJournal, PlaceInv, Undoing, Restoring
<1>21. CASE Recover
  BY <1>21, CommandKept DEF TypeOK, Recover, Return, NoJournal, PlaceInv, Undoing, Restoring
<1>22. CASE Kill
  BY <1>22, CommandKept DEF TypeOK, Kill, Return, NoJournal, PlaceInv, Undoing, Restoring
<1>23. ASSUME NEW a \in External, Edit(a) PROVE OwnInv'
  <2>1. file'[a] \in {User, base[a]} /\ \A b \in External : b # a => file'[b] = file[b]
    BY <1>23, Kinds DEF Edit, TypeOK
  <2>. QED BY <1>23, <2>1 DEF Edit
<1>24. CASE RefreshBegin
  BY <1>24 DEF RefreshBegin, Step, ReadWell
<1>25. CASE RefreshStep
  <2>1. /\ pc' = pc /\ Step' = Step /\ journal' = journal /\ base' = base /\ tx' = tx
        /\ \A a \in External : file'[a] = file[a]
    BY <1>25, RefreshFiles DEF RefreshStep, Step
  <2>. QED BY <2>1 DEF ReadWell
<1>26. CASE UNCHANGED vars
  BY <1>26, CommandKept DEF vars, Step, ReadWell
<1>. QED
  BY <1>1, <1>2, <1>3, <1>4, <1>5, <1>6, <1>7, <1>8, <1>9, <1>10, <1>11, <1>12, <1>13, <1>14,
     <1>15, <1>16, <1>17, <1>18, <1>19, <1>20, <1>21, <1>22, <1>23, <1>24, <1>25,
     <1>26 DEF Next, Work, Settle

LEMMA RestoreNext ==
  ASSUME ~EditsInRestore, TypeOK, PlaceInv, JournalInv, RestoreInv, [Next]_vars
  PROVE  RestoreInv'
<1>. USE DEF RestoreInv, Restoring
<1>1. ASSUME NEW c \in Commands, Start(c) PROVE RestoreInv'
  BY <1>1 DEF TypeOK, Start, Return
<1>2. CASE Capture
  BY <1>2 DEF TypeOK, Capture, Return
<1>3. CASE WriteJournal
  BY <1>3 DEF TypeOK, WriteJournal, Return
<1>4. CASE Authorize
  BY <1>4 DEF Authorize, Running
<1>5. CASE ApplyRouting
  BY <1>5 DEF ApplyRouting, Running
<1>6. CASE Truncate
  BY <1>6 DEF Truncate, Running
<1>7. CASE Publish
  BY <1>7 DEF Publish, Publishing, Running, Observe
<1>8. CASE SkipMark
  BY <1>8 DEF SkipMark, Running
<1>9. CASE AcceptChange
  BY <1>9 DEF TypeOK, AcceptChange, Return
<1>10. CASE Raise
  BY <1>10 DEF TypeOK, Raise, Return
<1>11. CASE UndoRouting
  BY <1>11 DEF TypeOK, UndoRouting, Return
<1>12. CASE UndoProvider
  BY <1>12 DEF TypeOK, UndoProvider, Return
<1>13. CASE UndoFile
  BY <1>13 DEF TypeOK, UndoFile, Return
<1>14. CASE Check
  <2>1. CASE \A a \in External : Recognized(a)
    <3>1. \A a \in External : /\ file[a] \in {journal.before[a], Final(a)} /\ journal.before[a] \in {base[a], User}
                              /\ Final(a) \notin {User, Merged}
      BY <1>14, <2>1, FinalType DEF Check, Recognized, JournalInv, PlaceInv
    <3>. QED BY <1>14, <3>1 DEF Check, User, Merged
  <2>2. CASE ~(\A a \in External : Recognized(a))
    BY <1>14, <2>2 DEF Check, Return
  <2>. QED BY <2>1, <2>2
<1>15. CASE Restore
  <2>1. \A a \in External : file'[a] = file[a] \/ file'[a] = journal.before[a]
    BY <1>15, Kinds DEF Restore, TypeOK
  <2>2. \A a \in External : journal.before[a] \in {base[a], User}
    BY <1>15 DEF Restore, JournalInv, PlaceInv
  <2>. QED BY <1>15, <2>1, <2>2 DEF Restore, Return, User, Merged
<1>16. CASE RestoreFails
  BY <1>16 DEF TypeOK, RestoreFails, Return
<1>17. CASE RestoreRest
  <2>1. \A a \in External : file'[a] = file[a] \/ file'[a] = journal.before[a]
    BY <1>17, Kinds DEF RestoreRest, TypeOK
  <2>2. \A a \in External : journal.before[a] \in {base[a], User}
    BY <1>17 DEF RestoreRest, JournalInv, PlaceInv
  <2>. QED BY <1>17, <2>1, <2>2 DEF RestoreRest, Return, User, Merged
<1>18. CASE RestoreDone
  BY <1>18 DEF TypeOK, RestoreDone, Return
<1>19. CASE Unlink
  BY <1>19 DEF TypeOK, Unlink, Return
<1>20. CASE Rmtree
  BY <1>20 DEF TypeOK, Rmtree, Return
<1>21. CASE Recover
  BY <1>21 DEF TypeOK, Recover, Return
<1>22. CASE Kill
  BY <1>22 DEF TypeOK, Kill, Return
<1>23. ASSUME NEW a \in External, Edit(a) PROVE RestoreInv'
  BY <1>23 DEF Edit
<1>24. CASE RefreshBegin
  BY <1>24 DEF TypeOK, RefreshBegin, Return
<1>25. CASE RefreshStep
  BY <1>25, RefreshFiles DEF RefreshStep
<1>26. CASE UNCHANGED vars
  BY <1>26 DEF vars
<1>. QED
  BY <1>1, <1>2, <1>3, <1>4, <1>5, <1>6, <1>7, <1>8, <1>9, <1>10, <1>11, <1>12, <1>13, <1>14,
     <1>15, <1>16, <1>17, <1>18, <1>19, <1>20, <1>21, <1>22, <1>23, <1>24, <1>25,
     <1>26 DEF Next, Work, Settle

\* A step that leaves the repository alone loses nothing of the user's.
LEMMA HeldStill ==
  ASSUME pc # "writing", \A a \in External : file'[a] = file[a]
  PROVE  EditStays
  BY DEF EditStays, Held

LEMMA EditNext ==
  ASSUME ~CutWrites, BaseInv, RestoreInv, [Next]_vars
  PROVE  EditStays
<1>. USE DEF BaseInv
<1>1. ASSUME NEW c \in Commands, Start(c) PROVE EditStays
  BY <1>1, HeldStill DEF Start
<1>2. CASE Capture
  BY <1>2, HeldStill DEF Capture
<1>3. CASE WriteJournal
  BY <1>3, HeldStill DEF WriteJournal
<1>4. CASE Authorize
  BY <1>4, HeldStill DEF Authorize, Running
<1>5. CASE ApplyRouting
  <2>1. /\ tx.before = base /\ pc # "writing"
        /\ \A a \in External : file'[a] = file[a] \/ file[a] = tx.before[a]
    BY <1>5, Kinds DEF ApplyRouting, Running, TxInv, OwnTx, AtWork, TypeOK
  <2>. QED BY <2>1 DEF EditStays, Held
<1>6. CASE Truncate
  <2>1. pc = "run" /\ pc' = "writing" /\ file' = [file EXCEPT ![Step.of] = Torn] /\ Step.of \in Guarded
    BY <1>6 DEF Truncate, Running
  <2>2. \A a \in External \ Guarded : file'[a] = file[a]
    BY <2>1, Kinds DEF TypeOK
  <2>. QED BY <2>1, <2>2 DEF EditStays, Held
<1>7. CASE Publish
  <2>1. Step.of \notin Routing /\ tx.before = base /\ pc \in AtWork
    BY <1>7, Kinds DEF Publish, Publishing, Running, PlaceInv, TxInv, OwnTx, AtWork
  <2>2. CASE pc = "run"
    <3>1. \A a \in External : file'[a] = file[a]
      BY <1>7, <2>1, <2>2, Kinds DEF Publish, Published, Refused, TypeOK
    <3>. QED BY <2>2, <3>1, HeldStill
  <2>3. CASE pc = "writing"
    <3>1. file[Step.of] = Torn /\ Step.of \in Guarded /\ Step.do = "write"
      BY <2>3 DEF PlaceInv
    <3>2. file' = [file EXCEPT ![Step.of] = ToWrite(Step.of)]
      BY <1>7, <2>3 DEF Publish, Published, Refused
    <3>. SUFFICES ASSUME NEW a \in External, Held(a), base[a] \notin {User, Merged}
                  PROVE  file'[a] \in {User, Merged}
      BY DEF EditStays, Held
    <3>3. CASE a # Step.of
      BY <3>2, <3>3, Kinds DEF Held, TypeOK
    <3>4. CASE a = Step.of
      <4>1. a = "codex" /\ tx.read = User /\ tx.before[a] # User
        BY <2>1, <3>1, <3>4 DEF Held, Torn, User, Merged
      <4>2. ToWrite(a) = Merged
        BY <3>1, <3>4, <4>1 DEF ToWrite
      <4>. QED BY <3>2, <3>4, <4>2, Kinds DEF TypeOK
    <3>. QED BY <3>3, <3>4
  <2>. QED BY <2>1, <2>2, <2>3 DEF AtWork
<1>8. CASE SkipMark
  BY <1>8, HeldStill DEF SkipMark, Running
<1>9. CASE AcceptChange
  BY <1>9, HeldStill DEF AcceptChange
<1>10. CASE Raise
  <2>1. CASE pc # "writing"
    BY <1>10, <2>1, HeldStill DEF Raise
  <2>2. CASE pc = "writing"
    <3>1. file[Step.of] = Torn /\ Step.of \in Guarded
      BY <2>2 DEF PlaceInv
    <3>2. file' = [file EXCEPT ![Step.of] = tx.read]
      BY <1>10, <2>2 DEF Raise
    <3>. QED BY <3>1, <3>2, Kinds DEF EditStays, Held, TypeOK, Torn, User, Merged
  <2>. QED BY <2>1, <2>2
<1>11. CASE UndoRouting
  <2>1. pc # "writing" /\ \A a \in External : file'[a] = file[a] \/ file[a] = Final(a)
    BY <1>11, Kinds DEF UndoRouting, TypeOK
  <2>. QED BY <2>1, FinalType DEF EditStays, Held
<1>12. CASE UndoProvider
  <2>1. \A a \in External : file'[a] = file[a]
    BY <1>12, Kinds, Names DEF UndoProvider, TypeOK, External, Routing, Guarded
  <2>. QED BY <1>12, <2>1, HeldStill DEF UndoProvider
<1>13. CASE UndoFile
  <2>1. at > 0 => TxFiles[at] \in Artifact \ Routing
    BY <1>13, TxNames DEF UndoFile, PlaceInv, Undoing
  <2>2. \A a \in Guarded : tx.expected[a] \in {base[a], Final(a)}
    BY <1>13 DEF UndoFile, TxInv, OwnTx, Undoing
  <2>3. \A a \in External : file'[a] = file[a] \/ (a \in Guarded /\ file[a] = tx.expected[a])
    BY <1>13, <2>1, Kinds DEF UndoFile, TypeOK
  <2>4. pc # "writing"
    BY <1>13 DEF UndoFile
  <2>. QED BY <2>2, <2>3, <2>4, FinalType DEF EditStays, Held
<1>14. CASE Check
  BY <1>14, HeldStill DEF Check
<1>15. CASE Restore
  <2>1. pc \in Restoring /\ \A a \in External : file'[a] = file[a] \/ file'[a] = journal.before[a]
    BY <1>15, Kinds DEF Restore, TypeOK, Restoring
  <2>. QED BY <2>1 DEF RestoreInv, Restoring, EditStays, Held
<1>16. CASE RestoreFails
  BY <1>16, HeldStill DEF RestoreFails
<1>17. CASE RestoreRest
  <2>1. pc \in Restoring /\ \A a \in External : file'[a] = file[a] \/ file'[a] = journal.before[a]
    BY <1>17, Kinds DEF RestoreRest, TypeOK, Restoring
  <2>. QED BY <2>1 DEF RestoreInv, Restoring, EditStays, Held
<1>18. CASE RestoreDone
  BY <1>18, HeldStill DEF RestoreDone
<1>19. CASE Unlink
  BY <1>19, HeldStill DEF Unlink
<1>20. CASE Rmtree
  BY <1>20, HeldStill DEF Rmtree
<1>21. CASE Recover
  BY <1>21, HeldStill DEF Recover
<1>22. CASE Kill
  BY <1>22, HeldStill DEF Kill
<1>23. ASSUME NEW a \in External, Edit(a) PROVE EditStays
  BY <1>23 DEF Edit, Count, TypeOK, EditStays
<1>24. CASE RefreshBegin
  BY <1>24 DEF RefreshBegin, EditStays, Held, Step
<1>25. CASE RefreshStep
  <2>1. pc' = pc /\ Step' = Step /\ tx' = tx /\ \A a \in External : file'[a] = file[a]
    BY <1>25, RefreshFiles DEF RefreshStep, Step
  <2>. QED BY <2>1 DEF EditStays, Held
<1>26. CASE UNCHANGED vars
  BY <1>26 DEF vars, EditStays, Held, Step
<1>. QED
  BY <1>1, <1>2, <1>3, <1>4, <1>5, <1>6, <1>7, <1>8, <1>9, <1>10, <1>11, <1>12, <1>13, <1>14,
     <1>15, <1>16, <1>17, <1>18, <1>19, <1>20, <1>21, <1>22, <1>23, <1>24, <1>25,
     <1>26 DEF Next, Work, Settle

LEMMA Steadies ==
  /\ Steady \subseteq Artifact /\ External \subseteq Steady
  /\ MaxRefreshes = 0 => Steady = Artifact
<1>1. \A i \in DOMAIN IndexFiles : IndexFiles[i] \notin External
  BY TxNames DEF IndexFiles
<1>. QED BY <1>1, Kinds DEF Steady

\* What user edits and refreshes leave of an artifact's state.
Alone == \A a \in Steady : file'[a] = file[a] \/ (a \in External /\ file'[a] \in {User, base[a]})

LEMMA StillKept ==
  ASSUME TypeOK, ~(pc = "idle" /\ pc' = "capture"), [Next]_vars, Alone
  PROVE  /\ \A a \in Steady : (Kept(a) => Kept(a)') /\ (Put(a) => Put(a)')
         /\ SteadyUndone => SteadyUndone'
         /\ SteadyDone => SteadyDone'
<1>1. \A a \in Steady : (Kept(a) => Kept(a)') /\ (Put(a) => Put(a)')
  BY CommandKept DEF Alone, Kept, Put
<1>. QED BY <1>1, CommandKept DEF SteadyUndone, SteadyDone

LEMMA EditAlone ==
  ASSUME TypeOK, NEW a \in External, Edit(a)
  PROVE  Alone /\ pc' = pc /\ journal' = journal /\ at' = at
  BY Kinds DEF Edit, TypeOK, Alone

LEMMA RefreshAlone ==
  ASSUME TypeOK, RefreshInv, RefreshStep
  PROVE  Alone /\ pc' = pc /\ journal' = journal /\ at' = at
<1>1. MaxRefreshes # 0
  BY DEF RefreshInv, RefreshStep
<1>2. \A a \in Steady : file'[a] = file[a]
  BY <1>1, RefreshFiles DEF Steady
<1>. QED BY <1>2 DEF Alone, RefreshStep

LEMMA RefreshNext ==
  ASSUME TypeOK, RefreshInv, [Next]_vars
  PROVE  RefreshInv'
<1>. USE ConstantsOK DEF RefreshInv
<1>1. ASSUME NEW c \in Commands, Start(c) PROVE RefreshInv'
  BY <1>1 DEF Start
<1>2. CASE Capture
  BY <1>2 DEF TypeOK, Capture, Return, Count
<1>3. CASE WriteJournal
  BY <1>3 DEF TypeOK, WriteJournal, Return, Count
<1>4. CASE Authorize
  BY <1>4 DEF TypeOK, Authorize, Return, Count
<1>5. CASE ApplyRouting
  BY <1>5 DEF TypeOK, ApplyRouting, Return, Count
<1>6. CASE Truncate
  BY <1>6 DEF TypeOK, Truncate, Return, Count
<1>7. CASE Publish
  BY <1>7 DEF Publish
<1>8. CASE SkipMark
  BY <1>8 DEF TypeOK, SkipMark, Return, Count
<1>9. CASE AcceptChange
  BY <1>9 DEF TypeOK, AcceptChange, Return, Count
<1>10. CASE Raise
  BY <1>10 DEF TypeOK, Raise, Return, Count
<1>11. CASE UndoRouting
  BY <1>11 DEF TypeOK, UndoRouting, Return, Count
<1>12. CASE UndoProvider
  BY <1>12 DEF TypeOK, UndoProvider, Return, Count
<1>13. CASE UndoFile
  BY <1>13 DEF TypeOK, UndoFile, Return, Count
<1>14. CASE Check
  BY <1>14 DEF Check
<1>15. CASE Restore
  BY <1>15 DEF TypeOK, Restore, Return, Count
<1>16. CASE RestoreFails
  BY <1>16 DEF TypeOK, RestoreFails, Return, Count
<1>17. CASE RestoreRest
  BY <1>17 DEF TypeOK, RestoreRest, Return, Count
<1>18. CASE RestoreDone
  BY <1>18 DEF TypeOK, RestoreDone, Return, Count
<1>19. CASE Unlink
  BY <1>19 DEF TypeOK, Unlink, Return, Count
<1>20. CASE Rmtree
  BY <1>20 DEF TypeOK, Rmtree, Return, Count
<1>21. CASE Recover
  BY <1>21 DEF TypeOK, Recover, Return, Count
<1>22. CASE Kill
  BY <1>22 DEF Kill
<1>23. ASSUME NEW a \in External, Edit(a) PROVE RefreshInv'
  BY <1>23 DEF TypeOK, Edit, Return, Count
<1>24. CASE RefreshBegin
  BY <1>24 DEF RefreshBegin, Count, TypeOK
<1>25. CASE RefreshStep
  BY <1>25 DEF TypeOK, RefreshStep, Return, Count
<1>26. CASE UNCHANGED vars
  BY <1>26 DEF vars
<1>. QED
  BY <1>1, <1>2, <1>3, <1>4, <1>5, <1>6, <1>7, <1>8, <1>9, <1>10, <1>11, <1>12, <1>13, <1>14,
     <1>15, <1>16, <1>17, <1>18, <1>19, <1>20, <1>21, <1>22, <1>23, <1>24, <1>25,
     <1>26 DEF Next, Work, Settle

LEMMA SavedNext ==
  ASSUME TypeOK, PlaceInv, RefreshInv, SavedInv, [Next]_vars
  PROVE  SavedInv'
<1>. USE DEF SavedInv
<1>1. ASSUME NEW c \in Commands, Start(c) PROVE SavedInv'
  <2>1. pc' = "capture" /\ at' = 1 /\ journal'.phase = "none" /\ base' = file /\ file' = file
    BY <1>1 DEF Start, Journalled
  <2>. QED BY <2>1 DEF SteadyUndone, Kept
<1>2. CASE Capture
  <2>1. at \in 1 .. Len(Order) /\ Order[at] \in Artifact
    BY <1>2, Names DEF Capture, PlaceInv
  <2>2. /\ at' = at + 1 /\ pc' = pc /\ file' = file /\ journal'.phase = journal.phase
        /\ journal'.before = [journal.before EXCEPT ![Order[at]] = file[Order[at]]]
    BY <1>2 DEF TypeOK, Capture
  <2>3. \A i \in 1 .. at : journal'.before[Order[i]] = IF i = at THEN file[Order[i]] ELSE journal.before[Order[i]]
    <3>1. \A i \in 1 .. at : i \in 1 .. Len(Order) /\ Order[i] \in Artifact
      BY <2>1, Names
    <3>2. \A i \in 1 .. at : i # at => Order[i] # Order[at]
      BY <2>1, <3>1, OrderFacts
    <3>. QED BY <2>1, <2>2, <3>1, <3>2 DEF TypeOK
  <2>4. \A i \in 1 .. at' - 1 : i \in 1 .. at /\ (i # at => i \in 1 .. at - 1)
    BY <2>1, <2>2
  <2>5. cmd' = cmd /\ base' = base /\ pc = "capture" /\ journal.phase = "none" /\ Alone
    BY <1>2, CommandKept DEF Capture, PlaceInv, Alone
  <2>6. SteadyUndone /\ SteadyUndone'
    BY <2>2, <2>5, StillKept
  <2>7. ASSUME NEW i \in 1 .. at, Order[i] \in Steady PROVE Saved(Order[i])'
    <3>1. CASE i = at
      <4>1. Kept(Order[i])
        BY <2>6, <2>7 DEF SteadyUndone
      <4>. QED BY <2>3, <2>5, <3>1, <4>1 DEF Kept, Saved
    <3>2. CASE i # at
      <4>1. Saved(Order[i])
        BY <2>1, <2>5, <2>7, <3>2
      <4>. QED BY <2>3, <2>5, <3>2, <4>1 DEF Saved
    <3>. QED BY <3>1, <3>2
  <2>. QED BY <2>2, <2>4, <2>5, <2>6, <2>7
<1>3. CASE WriteJournal
  <2>1. \A a \in Steady : Saved(a)
    BY <1>3, OrderFacts, Steadies, Names DEF WriteJournal, PlaceInv
  <2>2. journal'.before = journal.before /\ pc' = "run" /\ base' = base
    BY <1>3, CommandKept DEF WriteJournal, TypeOK
  <2>. QED BY <2>1, <2>2 DEF Saved
<1>4. CASE Authorize
  <2>1. journal'.before = journal.before /\ journal'.phase = journal.phase /\ base' = base
        /\ pc # "capture" /\ pc' # "capture"
    BY <1>4, CommandKept DEF Authorize, TypeOK, PlaceInv, Undoing, Restoring, Running, Publishing, Observe, Return
  <2>. QED BY <2>1 DEF Saved
<1>5. CASE ApplyRouting
  <2>1. journal'.before = journal.before /\ journal'.phase = journal.phase /\ base' = base
        /\ pc # "capture" /\ pc' # "capture"
    BY <1>5, CommandKept DEF ApplyRouting, TypeOK, PlaceInv, Undoing, Restoring, Running, Publishing, Observe, Return
  <2>. QED BY <2>1 DEF Saved
<1>6. CASE Truncate
  <2>1. journal'.before = journal.before /\ journal'.phase = journal.phase /\ base' = base
        /\ pc # "capture" /\ pc' # "capture"
    BY <1>6, CommandKept DEF Truncate, TypeOK, PlaceInv, Undoing, Restoring, Running, Publishing, Observe, Return
  <2>. QED BY <2>1 DEF Saved
<1>7. CASE Publish
  <2>1. journal'.before = journal.before /\ journal'.phase = journal.phase /\ base' = base
        /\ pc # "capture" /\ pc' # "capture"
    BY <1>7, CommandKept DEF Publish, TypeOK, PlaceInv, Undoing, Restoring, Running, Publishing, Observe, Return
  <2>. QED BY <2>1 DEF Saved
<1>8. CASE SkipMark
  <2>1. journal'.before = journal.before /\ journal'.phase = journal.phase /\ base' = base
        /\ pc # "capture" /\ pc' # "capture"
    BY <1>8, CommandKept DEF SkipMark, TypeOK, PlaceInv, Undoing, Restoring, Running, Publishing, Observe, Return
  <2>. QED BY <2>1 DEF Saved
<1>9. CASE AcceptChange
  BY <1>9 DEF AcceptChange, TypeOK
<1>10. CASE Raise
  <2>1. pc' # "capture" /\ base' = base /\ (journal' = journal \/ journal'.phase = "none")
    BY <1>10, CommandKept DEF Raise, NoJournal
  <2>. QED BY <2>1 DEF Saved
<1>11. CASE UndoRouting
  <2>1. journal'.before = journal.before /\ journal'.phase = journal.phase /\ base' = base
        /\ pc # "capture" /\ pc' # "capture"
    BY <1>11, CommandKept DEF UndoRouting, TypeOK, PlaceInv, Undoing, Restoring, Running, Publishing, Observe, Return
  <2>. QED BY <2>1 DEF Saved
<1>12. CASE UndoProvider
  <2>1. journal'.before = journal.before /\ journal'.phase = journal.phase /\ base' = base
        /\ pc # "capture" /\ pc' # "capture"
    BY <1>12, CommandKept DEF UndoProvider, TypeOK, PlaceInv, Undoing, Restoring, Running, Publishing, Observe, Return
  <2>. QED BY <2>1 DEF Saved
<1>13. CASE UndoFile
  <2>1. journal'.before = journal.before /\ journal'.phase = journal.phase /\ base' = base
        /\ pc # "capture" /\ pc' # "capture"
    BY <1>13, CommandKept DEF UndoFile, TypeOK, PlaceInv, Undoing, Restoring, Running, Publishing, Observe, Return
  <2>. QED BY <2>1 DEF Saved
<1>14. CASE Check
  <2>1. journal'.before = journal.before /\ journal'.phase = journal.phase /\ base' = base
        /\ pc # "capture" /\ pc' # "capture"
    BY <1>14, CommandKept DEF Check, TypeOK, PlaceInv, Undoing, Restoring, Running, Publishing, Observe, Return
  <2>. QED BY <2>1 DEF Saved
<1>15. CASE Restore
  <2>1. journal'.before = journal.before /\ journal'.phase = journal.phase /\ base' = base
        /\ pc # "capture" /\ pc' # "capture"
    BY <1>15, CommandKept DEF Restore, TypeOK, PlaceInv, Undoing, Restoring, Running, Publishing, Observe, Return
  <2>. QED BY <2>1 DEF Saved
<1>16. CASE RestoreFails
  <2>1. journal'.before = journal.before /\ journal'.phase = journal.phase /\ base' = base
        /\ pc # "capture" /\ pc' # "capture"
    BY <1>16, CommandKept DEF RestoreFails, TypeOK, PlaceInv, Undoing, Restoring, Running, Publishing, Observe, Return
  <2>. QED BY <2>1 DEF Saved
<1>17. CASE RestoreRest
  <2>1. journal'.before = journal.before /\ journal'.phase = journal.phase /\ base' = base
        /\ pc # "capture" /\ pc' # "capture"
    BY <1>17, CommandKept DEF RestoreRest, TypeOK, PlaceInv, Undoing, Restoring, Running, Publishing, Observe, Return
  <2>. QED BY <2>1 DEF Saved
<1>18. CASE RestoreDone
  <2>1. journal'.before = journal.before /\ journal'.phase = journal.phase /\ base' = base
        /\ pc # "capture" /\ pc' # "capture"
    BY <1>18, CommandKept DEF RestoreDone, TypeOK, PlaceInv, Undoing, Restoring, Running, Publishing, Observe, Return
  <2>. QED BY <2>1 DEF Saved
<1>19. CASE Unlink
  BY <1>19 DEF Unlink, NoJournal
<1>20. CASE Rmtree
  BY <1>20, CommandKept DEF Rmtree, PlaceInv, Return
<1>21. CASE Recover
  <2>1. journal'.before = journal.before /\ journal'.phase = journal.phase /\ base' = base
        /\ pc # "capture" /\ pc' # "capture"
    BY <1>21, CommandKept DEF Recover, TypeOK, PlaceInv, Undoing, Restoring, Running, Publishing, Observe, Return
  <2>. QED BY <2>1 DEF Saved
<1>22. CASE Kill
  <2>1. pc' # "capture" /\ base' = base /\ (journal' = journal \/ journal'.phase = "none")
    BY <1>22, CommandKept DEF Kill, NoJournal, Return
  <2>. QED BY <2>1 DEF Saved
<1>23. ASSUME NEW a \in External, Edit(a) PROVE SavedInv'
  <2>1. Alone /\ pc' = pc /\ journal' = journal /\ at' = at
    BY <1>23, EditAlone
  <2>2. base' = base /\ (pc = "capture" => SteadyUndone /\ SteadyUndone')
    BY <2>1, CommandKept, StillKept
  <2>. QED BY <2>1, <2>2 DEF Saved
<1>24. CASE RefreshBegin
  <2>1. Alone /\ pc' = pc /\ journal' = journal /\ at' = at
    BY <1>24, CommandKept DEF RefreshBegin, Alone
  <2>2. base' = base /\ (pc = "capture" => SteadyUndone /\ SteadyUndone')
    BY <2>1, CommandKept, StillKept
  <2>. QED BY <2>1, <2>2 DEF Saved
<1>25. CASE RefreshStep
  <2>1. Alone /\ pc' = pc /\ journal' = journal /\ at' = at
    BY <1>25, RefreshAlone
  <2>2. base' = base /\ (pc = "capture" => SteadyUndone /\ SteadyUndone')
    BY <2>1, CommandKept, StillKept
  <2>. QED BY <2>1, <2>2 DEF Saved
<1>26. CASE UNCHANGED vars
  <2>1. Alone /\ pc' = pc /\ journal' = journal /\ at' = at
    BY <1>26, CommandKept DEF vars, Alone
  <2>2. base' = base /\ (pc = "capture" => SteadyUndone /\ SteadyUndone')
    BY <2>1, CommandKept, StillKept
  <2>. QED BY <2>1, <2>2 DEF Saved
<1>. QED
  BY <1>1, <1>2, <1>3, <1>4, <1>5, <1>6, <1>7, <1>8, <1>9, <1>10, <1>11, <1>12, <1>13, <1>14,
     <1>15, <1>16, <1>17, <1>18, <1>19, <1>20, <1>21, <1>22, <1>23, <1>24, <1>25,
     <1>26 DEF Next, Work, Settle

LEMMA WrittenFacts ==
  ASSUME TypeOK, PlaceInv, pc \in AtWork
  PROVE  /\ at <= Len(Script[cmd]) /\ Step.do # "allow" => Step.of \in Written
         /\ \A a \in Written : \E i \in 1 .. Len(Script[cmd]) : Script[cmd][i] = Write(a)
<1>1. cmd \in DOMAIN Script /\ DOMAIN Script[cmd] = 1 .. Len(Script[cmd]) /\ WellFormed(Script[cmd])
  BY ConstantsOK, ScriptFacts DEF PlaceInv, AtWork, OwnTx
<1>2. at <= Len(Script[cmd]) => at \in DOMAIN Script[cmd] /\ Step = Script[cmd][at]
  BY <1>1, StepFacts DEF Step
<1>3. ASSUME NEW i \in 1 .. Len(Script[cmd]), Script[cmd][i].do # "allow"
      PROVE  \E j \in 1 .. Len(Script[cmd]) : Script[cmd][j] = Write(Script[cmd][i].of)
  <2>1. CASE Script[cmd][i].do = "write"
    <3>1. Script[cmd][i] = Write(Script[cmd][i].of)
      BY <1>1, <2>1 DEF WellFormed, Steps, Write
    <3>. QED BY <3>1
  <2>2. CASE Script[cmd][i].do = "mark"
    BY <1>1, <2>2 DEF WellFormed, WellPlaced
  <2>. QED BY <1>1, <1>3, <2>1, <2>2 DEF WellFormed, Steps
<1>. QED BY <1>1, <1>2, <1>3 DEF Written

LEMMA ProgressNext ==
  ASSUME TypeOK, PlaceInv, TxInv, RefreshInv, SavedInv, ProgressInv, [Next]_vars
  PROVE  ProgressInv'
<1>. USE DEF ProgressInv, AtWork
<1>1. ASSUME NEW c \in Commands, Start(c) PROVE ProgressInv'
  BY <1>1 DEF TypeOK, Start, Return
<1>2. CASE Capture
  BY <1>2 DEF Capture, Return
<1>3. CASE WriteJournal
  <2>1. pc' = "run" /\ at' = 1 /\ file' = file /\ SteadyUndone /\ Alone
    BY <1>3 DEF WriteJournal, SavedInv, Alone
  <2>2. SteadyUndone' /\ Written' = Written
    BY <1>3, <2>1, StillKept, CommandKept
  <2>. QED BY <2>1, <2>2 DEF SteadyUndone
<1>4. CASE Authorize
  <2>1. at \in 1 .. Len(Script[cmd]) /\ pc = "run" /\ Step.do # "write" /\ Step = Script[cmd][at]
        /\ pc' = "run" /\ at' = at + 1 /\ Alone
    BY <1>4, StepFacts DEF Authorize, Running, Step, Alone
  <2>2. \A i \in 1 .. at' - 1 : i \in 1 .. at - 1 \/ i = at
    BY <2>1
  <2>3. Script[cmd]' = Script[cmd] /\ Written' = Written /\ \A a : Step # Write(a)
    BY <2>1, CommandKept DEF Write
  <2>4. \A a \in Steady : (Kept(a) => Kept(a)') /\ (Put(a) => Put(a)')
    BY <2>1, StillKept
  <2>. QED BY <2>1, <2>2, <2>3, <2>4
<1>5. CASE ApplyRouting
  <2>1. at \in 1 .. Len(Script[cmd]) /\ Step.do # "allow" /\ Step = Script[cmd][at] /\ pc \in AtWork
        /\ WellPlaced(Script[cmd], at) /\ Step \in Steps /\ Step.of \in Written
    BY <1>5, StepFacts, WrittenFacts DEF ApplyRouting, Running, Step
  <2>2. Script[cmd]' = Script[cmd] /\ Written' = Written /\ base' = base /\ (\A a : Final(a)' = Final(a))
    BY <2>1, CommandKept
  <2>3. \A i \in 1 .. at - 1 : \A a \in Steady : Script[cmd][i] = Write(a) => a # Step.of
    BY <2>1 DEF WellPlaced, Write
  <2>4. \A a \in Steady : a # Step.of => file'[a] = file[a]
    BY <1>5, <2>1, Steadies DEF ApplyRouting, TypeOK
  <2>5. \A a \in Steady : a # Step.of => (Kept(a) => Kept(a)') /\ (Put(a) => Put(a)')
    BY <2>2, <2>4 DEF Kept, Put
  <2>6. CASE pc' = "run"
    <3>1. at' = at + 1 /\ file'[Step.of] = Final(Step.of)
      BY <1>5, <2>1, <2>6, Kinds DEF ApplyRouting, TypeOK
    <3>2. \A a \in Steady : a = Step.of => Put(a)'
      BY <2>2, <3>1 DEF Put
    <3>3. \A i \in 1 .. at' - 1 : i \in 1 .. at - 1 \/ i = at
      BY <2>1, <3>1
    <3>4. \A a \in Steady : Step = Write(a) => a = Step.of
      BY DEF Write
    <3>. QED BY <2>1, <2>2, <2>3, <2>5, <3>1, <3>2, <3>3, <3>4
  <2>. QED BY <1>5, <2>6 DEF ApplyRouting, Running
<1>6. CASE Truncate
  <2>1. at \in 1 .. Len(Script[cmd]) /\ Step.do # "allow" /\ Step = Script[cmd][at] /\ pc \in AtWork
        /\ WellPlaced(Script[cmd], at) /\ Step \in Steps /\ Step.of \in Written
    BY <1>6, StepFacts, WrittenFacts DEF Truncate, Running, Step
  <2>2. Script[cmd]' = Script[cmd] /\ Written' = Written /\ base' = base /\ (\A a : Final(a)' = Final(a))
    BY <2>1, CommandKept
  <2>3. \A i \in 1 .. at - 1 : \A a \in Steady : Script[cmd][i] = Write(a) => a # Step.of
    BY <2>1 DEF WellPlaced, Write
  <2>4. \A a \in Steady : a # Step.of => file'[a] = file[a]
    BY <1>6, <2>1, Steadies DEF Truncate, TypeOK
  <2>5. \A a \in Steady : a # Step.of => (Kept(a) => Kept(a)') /\ (Put(a) => Put(a)')
    BY <2>2, <2>4 DEF Kept, Put
  <2>6. at' = at /\ pc' = "writing"
    BY <1>6 DEF Truncate
  <2>. QED BY <2>1, <2>2, <2>3, <2>5, <2>6
<1>7. CASE Publish
  <2>1. at \in 1 .. Len(Script[cmd]) /\ Step.do # "allow" /\ Step = Script[cmd][at] /\ pc \in AtWork
        /\ WellPlaced(Script[cmd], at) /\ Step \in Steps /\ Step.of \in Written
    BY <1>7, StepFacts, WrittenFacts DEF Publish, Publishing, Running, Step, PlaceInv
  <2>2. Script[cmd]' = Script[cmd] /\ Written' = Written /\ base' = base /\ (\A a : Final(a)' = Final(a))
    BY <2>1, CommandKept
  <2>3. \A i \in 1 .. at - 1 : \A a \in Steady : Script[cmd][i] = Write(a) => a # Step.of
    BY <2>1 DEF WellPlaced, Write
  <2>4. \A a \in Steady : a # Step.of => file'[a] = file[a]
    BY <1>7, <2>1, Steadies DEF Publish, TypeOK, Published
  <2>5. \A a \in Steady : a # Step.of => (Kept(a) => Kept(a)') /\ (Put(a) => Put(a)')
    BY <2>2, <2>4 DEF Kept, Put
  <2>6. CASE pc' \in AtWork
    <3>1. at' = at + 1
      BY <1>7, <2>6 DEF Publish, Observe
    <3>2. ASSUME Step.do = "write", Step.of \in Steady PROVE file'[Step.of] \in {Final(Step.of)} \cup
                      IF Step.of \in Guarded THEN {base[Step.of]} ELSE {}
      <4>1. CASE file'[Step.of] = Final(Step.of)
        BY <4>1
      <4>2. CASE file'[Step.of] # Final(Step.of)
        <5>1. Step.of \in Guarded /\ cmd # "stop"
          <6>1. "codex" \in Guarded
            BY DEF Guarded
          <6>2. Step.of \notin Guarded => file'[Step.of] = Final(Step.of)
            BY <1>7, <2>1, <3>2, <6>1, Steadies DEF Publish, Published, Refused, ToWrite, TypeOK
          <6>. QED BY <2>1, <4>2, <6>2, StepFacts, Kinds
        <5>2. file'[Step.of] \in tx.allowed[Step.of]
          BY <1>7, <2>6, <5>1 DEF Publish, Observe
        <5>. QED BY <2>1, <5>1, <5>2 DEF TxInv, OwnTx
      <4>. QED BY <4>1, <4>2
    <3>3. \A a \in Steady : Step = Write(a) => a = Step.of /\ Step.do = "write"
      BY DEF Write
    <3>4. \A a \in Steady : Step = Write(a) => Put(a)'
      BY <2>2, <3>2, <3>3, Kinds DEF Put
    <3>5. \A i \in 1 .. at' - 1 : i \in 1 .. at - 1 \/ i = at
      BY <2>1, <3>1
    <3>. QED BY <2>1, <2>2, <2>3, <2>5, <3>4, <3>5
  <2>. QED BY <2>6
<1>8. CASE SkipMark
  <2>1. at \in 1 .. Len(Script[cmd]) /\ pc = "run" /\ Step.do # "write" /\ Step = Script[cmd][at]
        /\ pc' = "run" /\ at' = at + 1 /\ Alone
    BY <1>8, StepFacts DEF SkipMark, Running, Step, Alone
  <2>2. \A i \in 1 .. at' - 1 : i \in 1 .. at - 1 \/ i = at
    BY <2>1
  <2>3. Script[cmd]' = Script[cmd] /\ Written' = Written /\ \A a : Step # Write(a)
    BY <2>1, CommandKept DEF Write
  <2>4. \A a \in Steady : (Kept(a) => Kept(a)') /\ (Put(a) => Put(a)')
    BY <2>1, StillKept
  <2>. QED BY <2>1, <2>2, <2>3, <2>4
<1>9. CASE AcceptChange
  BY <1>9 DEF AcceptChange, Return
<1>10. CASE Raise
  BY <1>10 DEF Raise, Return
<1>11. CASE UndoRouting
  BY <1>11 DEF UndoRouting, Return
<1>12. CASE UndoProvider
  BY <1>12 DEF UndoProvider, Return
<1>13. CASE UndoFile
  BY <1>13 DEF UndoFile, Return
<1>14. CASE Check
  BY <1>14 DEF Check, Return
<1>15. CASE Restore
  BY <1>15 DEF Restore, Return
<1>16. CASE RestoreFails
  BY <1>16 DEF RestoreFails, Return
<1>17. CASE RestoreRest
  BY <1>17 DEF RestoreRest, Return
<1>18. CASE RestoreDone
  BY <1>18 DEF RestoreDone, Return
<1>19. CASE Unlink
  BY <1>19 DEF Unlink, Return
<1>20. CASE Rmtree
  BY <1>20 DEF Rmtree, Return
<1>21. CASE Recover
  BY <1>21 DEF Recover, Return
<1>22. CASE Kill
  BY <1>22 DEF Kill, Return
<1>23. ASSUME NEW a \in External, Edit(a) PROVE ProgressInv'
  <2>1. Alone /\ pc' = pc /\ journal' = journal /\ at' = at
    BY <1>23, EditAlone
  <2>2. /\ \A x \in Steady : (Kept(x) => Kept(x)') /\ (Put(x) => Put(x)')
        /\ Script[cmd]' = Script[cmd] /\ Written' = Written
    BY <2>1, StillKept, CommandKept
  <2>. QED BY <2>1, <2>2
<1>24. CASE RefreshBegin
  <2>1. Alone /\ pc' = pc /\ journal' = journal /\ at' = at
    BY <1>24, CommandKept DEF RefreshBegin, Alone
  <2>2. /\ \A a \in Steady : (Kept(a) => Kept(a)') /\ (Put(a) => Put(a)')
        /\ Script[cmd]' = Script[cmd] /\ Written' = Written
    BY <2>1, StillKept, CommandKept
  <2>. QED BY <2>1, <2>2
<1>25. CASE RefreshStep
  <2>1. Alone /\ pc' = pc /\ journal' = journal /\ at' = at
    BY <1>25, RefreshAlone
  <2>2. /\ \A a \in Steady : (Kept(a) => Kept(a)') /\ (Put(a) => Put(a)')
        /\ Script[cmd]' = Script[cmd] /\ Written' = Written
    BY <2>1, StillKept, CommandKept
  <2>. QED BY <2>1, <2>2
<1>26. CASE UNCHANGED vars
  <2>1. Alone /\ pc' = pc /\ journal' = journal /\ at' = at
    BY <1>26, CommandKept DEF vars, Alone
  <2>2. /\ \A a \in Steady : (Kept(a) => Kept(a)') /\ (Put(a) => Put(a)')
        /\ Script[cmd]' = Script[cmd] /\ Written' = Written
    BY <2>1, StillKept, CommandKept
  <2>. QED BY <2>1, <2>2
<1>. QED
  BY <1>1, <1>2, <1>3, <1>4, <1>5, <1>6, <1>7, <1>8, <1>9, <1>10, <1>11, <1>12, <1>13, <1>14,
     <1>15, <1>16, <1>17, <1>18, <1>19, <1>20, <1>21, <1>22, <1>23, <1>24, <1>25,
     <1>26 DEF Next, Work, Settle

LEMMA OutcomeNext ==
  ASSUME TypeOK, PlaceInv, RefreshInv, SavedInv, ProgressInv, OutcomeInv, [Next]_vars
  PROVE  OutcomeInv'
<1>. USE DEF OutcomeInv
<1>1. ASSUME NEW c \in Commands, Start(c) PROVE OutcomeInv'
  BY <1>1 DEF Start, Journalled
<1>2. CASE Capture
  <2>1. pc' = "capture" /\ journal'.phase = "none"
    BY <1>2 DEF Capture, TypeOK, PlaceInv
  <2>. QED BY <2>1
<1>3. CASE WriteJournal
  <2>1. journal'.phase = "prepared" /\ pc' = "run"
    BY <1>3 DEF WriteJournal, TypeOK
  <2>. QED BY <2>1 DEF Journalled
<1>4. CASE Authorize
  <2>1. journal'.phase = "prepared" /\ pc' \notin {"restore", "unlink"}
    BY <1>4 DEF Authorize, TypeOK, PlaceInv, AtWork, Undoing, Restoring, Running, Publishing, Observe, Return
  <2>. QED BY <2>1 DEF Journalled
<1>5. CASE ApplyRouting
  <2>1. journal'.phase = "prepared" /\ pc' \notin {"restore", "unlink"}
    BY <1>5 DEF ApplyRouting, TypeOK, PlaceInv, AtWork, Undoing, Restoring, Running, Publishing, Observe, Return
  <2>. QED BY <2>1 DEF Journalled
<1>6. CASE Truncate
  <2>1. journal'.phase = "prepared" /\ pc' \notin {"restore", "unlink"}
    BY <1>6 DEF Truncate, TypeOK, PlaceInv, AtWork, Undoing, Restoring, Running, Publishing, Observe, Return
  <2>. QED BY <2>1 DEF Journalled
<1>7. CASE Publish
  <2>1. journal'.phase = "prepared" /\ pc' \notin {"restore", "unlink"}
    BY <1>7 DEF Publish, TypeOK, PlaceInv, AtWork, Undoing, Restoring, Running, Publishing, Observe, Return
  <2>. QED BY <2>1 DEF Journalled
<1>8. CASE SkipMark
  <2>1. journal'.phase = "prepared" /\ pc' \notin {"restore", "unlink"}
    BY <1>8 DEF SkipMark, TypeOK, PlaceInv, AtWork, Undoing, Restoring, Running, Publishing, Observe, Return
  <2>. QED BY <2>1 DEF Journalled
<1>9. CASE AcceptChange
  <2>1. Alone /\ pc' = "unlink" /\ journal'.phase = "accepted"
    BY <1>9 DEF AcceptChange, TypeOK, Alone
  <2>2. pc = "run" /\ at = Len(Script[cmd]) + 1 /\ Len(Script[cmd]) \in Nat
    BY <1>9, ConstantsOK, ScriptFacts DEF AcceptChange, PlaceInv, AtWork
  <2>3. \A a \in Steady : IF a \in Written THEN Put(a) ELSE Kept(a)
    BY <2>2, WrittenFacts DEF ProgressInv, AtWork
  <2>4. SteadyDone /\ SteadyDone'
    BY <1>9, <2>1, <2>2, <2>3, StillKept DEF SteadyDone
  <2>. QED BY <2>1, <2>4
<1>10. CASE Raise
  <2>1. CASE pc = "capture"
    <3>1. Alone /\ journal' = NoJournal /\ pc' = "rmtree" /\ SteadyUndone
      BY <1>10, <2>1 DEF Raise, Alone, SavedInv
    <3>2. SteadyUndone'
      BY <2>1, <3>1, StillKept
    <3>. QED BY <3>1, <3>2 DEF NoJournal
  <2>2. CASE pc # "capture"
    <3>1. journal'.phase = "prepared" /\ pc' \notin {"restore", "unlink"}
      BY <1>10, <2>2 DEF Raise, PlaceInv, AtWork
    <3>. QED BY <3>1 DEF Journalled
  <2>. QED BY <2>1, <2>2
<1>11. CASE UndoRouting
  <2>1. journal'.phase = "prepared" /\ pc' \notin {"restore", "unlink"}
    BY <1>11 DEF UndoRouting, TypeOK, PlaceInv, AtWork, Undoing, Restoring, Running, Publishing, Observe, Return
  <2>. QED BY <2>1 DEF Journalled
<1>12. CASE UndoProvider
  <2>1. journal'.phase = "prepared" /\ pc' \notin {"restore", "unlink"}
    BY <1>12 DEF UndoProvider, TypeOK, PlaceInv, AtWork, Undoing, Restoring, Running, Publishing, Observe, Return
  <2>. QED BY <2>1 DEF Journalled
<1>13. CASE UndoFile
  <2>1. journal'.phase = "prepared" /\ pc' \notin {"restore", "unlink"}
    BY <1>13 DEF UndoFile, TypeOK, PlaceInv, AtWork, Undoing, Restoring, Running, Publishing, Observe, Return
  <2>. QED BY <2>1 DEF Journalled
<1>14. CASE Check
  <2>1. journal'.phase = "prepared" /\ ((pc' = "restore" /\ at' = Len(Order)) \/ pc' = "idle") 
    BY <1>14 DEF Check, PlaceInv, Return
  <2>. QED BY <2>1, Names DEF Journalled
<1>15. CASE Restore
  <2>1. /\ at \in 1 .. Len(Order) /\ Order[at] \in Artifact /\ pc = "restore" /\ pc' = "restore"
        /\ at' = at - 1 /\ journal' = journal /\ journal.phase = "prepared"
        /\ file' = [file EXCEPT ![Order[at]] = journal.before[Order[at]]]
    BY <1>15, Names DEF Restore, PlaceInv, Restoring
  <2>2. base' = base
    BY <2>1, CommandKept
  <2>3. ASSUME NEW i \in at .. Len(Order), Order[i] \in Steady PROVE Kept(Order[i])'
    <3>0. i \in 1 .. Len(Order) /\ Order[i] \in Artifact
      BY <2>1, <2>3, Names
    <3>1. CASE i = at
      <4>1. Saved(Order[i]) /\ file'[Order[i]] = journal.before[Order[i]]
        BY <2>1, <2>3, <3>1 DEF SavedInv, TypeOK
      <4>. QED BY <2>2, <4>1 DEF Saved, Kept
    <3>2. CASE i # at
      <4>1. Order[i] # Order[at]
        BY <2>1, <3>0, <3>2, OrderFacts
      <4>2. Kept(Order[i]) /\ file'[Order[i]] = file[Order[i]]
        BY <2>1, <2>3, <3>0, <3>2, <4>1 DEF TypeOK
      <4>. QED BY <2>2, <4>2 DEF Kept
    <3>. QED BY <3>1, <3>2
  <2>4. \A i \in at' + 1 .. Len(Order) : i \in at .. Len(Order)
    BY <2>1
  <2>. QED BY <2>1, <2>3, <2>4
<1>16. CASE RestoreFails
  <2>1. journal'.phase = "prepared" /\ pc' \notin {"restore", "unlink"}
    BY <1>16 DEF RestoreFails, TypeOK, PlaceInv, AtWork, Undoing, Restoring, Running, Publishing, Observe, Return
  <2>. QED BY <2>1 DEF Journalled
<1>17. CASE RestoreRest
  <2>1. journal'.phase = "prepared" /\ pc' \notin {"restore", "unlink"}
    BY <1>17 DEF RestoreRest, TypeOK, PlaceInv, AtWork, Undoing, Restoring, Running, Publishing, Observe, Return
  <2>. QED BY <2>1 DEF Journalled
<1>18. CASE RestoreDone
  <2>1. Alone /\ pc' = "unlink" /\ journal' = journal /\ pc = "restore" /\ at = 0
    BY <1>18 DEF RestoreDone, Alone
  <2>2. SteadyUndone
    BY <2>1, OrderFacts, Steadies, Names DEF SteadyUndone
  <2>3. SteadyUndone' /\ journal.phase = "prepared"
    BY <2>1, <2>2, StillKept DEF PlaceInv, Restoring
  <2>. QED BY <2>1, <2>3
<1>19. CASE Unlink
  <2>1. Alone /\ pc # "capture" /\ pc' # "capture" /\ cmd' = cmd /\ pc' # "restore"
    BY <1>19 DEF Unlink, Alone, Return
  <2>2. (SteadyUndone => SteadyUndone') /\ (SteadyDone => SteadyDone')
    BY <2>1, StillKept
  <2>. QED BY <1>19, <2>1, <2>2 DEF Unlink, NoJournal, Return, PlaceInv, Journalled, TypeOK
<1>20. CASE Rmtree
  <2>1. Alone /\ pc # "capture" /\ pc' # "capture" /\ cmd' = cmd /\ pc' # "restore"
    BY <1>20 DEF Rmtree, Alone, Return
  <2>2. (SteadyUndone => SteadyUndone') /\ (SteadyDone => SteadyDone')
    BY <2>1, StillKept
  <2>. QED BY <1>20, <2>1, <2>2 DEF Rmtree, NoJournal, Return, PlaceInv, Journalled, TypeOK
<1>21. CASE Recover
  <2>1. Alone /\ pc # "capture" /\ pc' # "capture" /\ cmd' = cmd /\ pc' # "restore"
    BY <1>21 DEF Recover, Alone, Return
  <2>2. (SteadyUndone => SteadyUndone') /\ (SteadyDone => SteadyDone')
    BY <2>1, StillKept
  <2>. QED BY <1>21, <2>1, <2>2 DEF Recover, NoJournal, Return, PlaceInv, Journalled, TypeOK
<1>22. CASE Kill
  <2>1. Alone /\ pc' = "idle" /\ cmd' = cmd /\ (pc # "capture" => journal' = journal)
        /\ (pc = "capture" => journal'.phase = "none")
    BY <1>22 DEF Kill, Alone, NoJournal, Return
  <2>2. (SteadyUndone => SteadyUndone') /\ (SteadyDone => SteadyDone')
    BY <2>1, StillKept
  <2>3. pc = "capture" => SteadyUndone
    BY DEF SavedInv
  <2>. QED BY <1>22, <2>1, <2>2, <2>3 DEF Kill, PlaceInv, AtWork, Undoing, Restoring, Journalled, TypeOK
<1>23. ASSUME NEW a \in External, Edit(a) PROVE OutcomeInv'
  <2>1. Alone /\ pc' = pc /\ journal' = journal /\ at' = at /\ cmd' = cmd
    BY <1>23, EditAlone, CommandKept DEF Edit
  <2>2. /\ \A x \in Steady : Kept(x) => Kept(x)'
        /\ (SteadyUndone => SteadyUndone') /\ (SteadyDone => SteadyDone')
    BY <2>1, StillKept
  <2>. QED BY <2>1, <2>2 DEF Journalled
<1>24. CASE RefreshBegin
  <2>1. Alone /\ pc' = pc /\ journal' = journal /\ at' = at /\ cmd' = cmd
    BY <1>24, CommandKept DEF RefreshBegin, Alone
  <2>2. /\ \A a \in Steady : Kept(a) => Kept(a)'
        /\ (SteadyUndone => SteadyUndone') /\ (SteadyDone => SteadyDone')
    BY <2>1, StillKept
  <2>. QED BY <2>1, <2>2 DEF Journalled
<1>25. CASE RefreshStep
  <2>1. Alone /\ pc' = pc /\ journal' = journal /\ at' = at /\ cmd' = cmd
    BY <1>25, RefreshAlone, CommandKept DEF RefreshStep
  <2>2. /\ \A a \in Steady : Kept(a) => Kept(a)'
        /\ (SteadyUndone => SteadyUndone') /\ (SteadyDone => SteadyDone')
    BY <2>1, StillKept
  <2>. QED BY <2>1, <2>2 DEF Journalled
<1>26. CASE UNCHANGED vars
  <2>1. Alone /\ pc' = pc /\ journal' = journal /\ at' = at /\ cmd' = cmd
    BY <1>26, CommandKept DEF vars, Alone
  <2>2. /\ \A a \in Steady : Kept(a) => Kept(a)'
        /\ (SteadyUndone => SteadyUndone') /\ (SteadyDone => SteadyDone')
    BY <2>1, StillKept
  <2>. QED BY <2>1, <2>2 DEF Journalled
<1>. QED
  BY <1>1, <1>2, <1>3, <1>4, <1>5, <1>6, <1>7, <1>8, <1>9, <1>10, <1>11, <1>12, <1>13, <1>14,
     <1>15, <1>16, <1>17, <1>18, <1>19, <1>20, <1>21, <1>22, <1>23, <1>24, <1>25,
     <1>26 DEF Next, Work, Settle

LEMMA ReportNext ==
  ASSUME TypeOK, PlaceInv, RefreshInv, SavedInv, ProgressInv, OutcomeInv, ReportInv, [Next]_vars
  PROVE  ReportInv'
<1>. USE DEF ReportInv
<1>1. ASSUME NEW c \in Commands, Start(c) PROVE ReportInv'
  <2>1. report' \in {"none", "unknown"}
    BY <1>1 DEF Start, TypeOK, Return
  <2>. QED BY <2>1
<1>2. CASE Capture
  <2>1. report' = report /\ pc \notin {"unlink", "rmtree", "idle"} /\ report \notin {"done", "preserved"}
    BY <1>2 DEF Capture, Publishing, Running
  <2>. QED BY <2>1
<1>3. CASE WriteJournal
  <2>1. report' = report /\ pc \notin {"unlink", "rmtree", "idle"} /\ report \notin {"done", "preserved"}
    BY <1>3 DEF WriteJournal, Publishing, Running
  <2>. QED BY <2>1
<1>4. CASE Authorize
  <2>1. report' = report /\ pc \notin {"unlink", "rmtree", "idle"} /\ report \notin {"done", "preserved"}
    BY <1>4 DEF Authorize, Publishing, Running
  <2>. QED BY <2>1
<1>5. CASE ApplyRouting
  <2>1. report' = report /\ pc \notin {"unlink", "rmtree", "idle"} /\ report \notin {"done", "preserved"}
    BY <1>5 DEF ApplyRouting, Publishing, Running
  <2>. QED BY <2>1
<1>6. CASE Truncate
  <2>1. report' = report /\ pc \notin {"unlink", "rmtree", "idle"} /\ report \notin {"done", "preserved"}
    BY <1>6 DEF Truncate, Publishing, Running
  <2>. QED BY <2>1
<1>7. CASE Publish
  <2>1. report' = report /\ pc \notin {"unlink", "rmtree", "idle"} /\ report \notin {"done", "preserved"}
    BY <1>7 DEF Publish, Publishing, Running
  <2>. QED BY <2>1
<1>8. CASE SkipMark
  <2>1. report' = report /\ pc \notin {"unlink", "rmtree", "idle"} /\ report \notin {"done", "preserved"}
    BY <1>8 DEF SkipMark, Publishing, Running
  <2>. QED BY <2>1
<1>9. CASE AcceptChange
  <2>1. report' = "done" /\ pc' = "unlink"
    BY <1>9 DEF AcceptChange
  <2>2. SteadyDone'
    BY <1>9, OutcomeNext DEF AcceptChange, OutcomeInv, TypeOK
  <2>. QED BY <2>1, <2>2
<1>10. CASE Raise
  <2>1. CASE pc = "capture"
    <3>1. Alone /\ pc' = "rmtree" /\ report' = "preserved" /\ SteadyUndone
      BY <1>10, <2>1 DEF Raise, Alone, SavedInv
    <3>2. SteadyUndone'
      BY <2>1, <3>1, StillKept
    <3>. QED BY <3>1, <3>2
  <2>2. CASE pc # "capture"
    <3>1. report' = report /\ report \notin {"done", "preserved"}
      BY <1>10, <2>2 DEF Raise
    <3>. QED BY <3>1
  <2>. QED BY <2>1, <2>2
<1>11. CASE UndoRouting
  <2>1. report' = report /\ pc \notin {"unlink", "rmtree", "idle"} /\ report \notin {"done", "preserved"}
    BY <1>11 DEF UndoRouting, Publishing, Running
  <2>. QED BY <2>1
<1>12. CASE UndoProvider
  <2>1. report' = report /\ pc \notin {"unlink", "rmtree", "idle"} /\ report \notin {"done", "preserved"}
    BY <1>12 DEF UndoProvider, Publishing, Running
  <2>. QED BY <2>1
<1>13. CASE UndoFile
  <2>1. report' = report /\ pc \notin {"unlink", "rmtree", "idle"} /\ report \notin {"done", "preserved"}
    BY <1>13 DEF UndoFile, Publishing, Running
  <2>. QED BY <2>1
<1>14. CASE Check
  <2>1. report' \in {report, "unknown"} /\ report \notin {"done", "preserved"}
    BY <1>14 DEF Check
  <2>. QED BY <2>1
<1>15. CASE Restore
  <2>1. report' = report /\ pc \notin {"unlink", "rmtree", "idle"} /\ report \notin {"done", "preserved"}
    BY <1>15 DEF Restore, Publishing, Running
  <2>. QED BY <2>1
<1>16. CASE RestoreFails
  <2>1. report' = report /\ pc \notin {"unlink", "rmtree", "idle"} /\ report \notin {"done", "preserved"}
    BY <1>16 DEF RestoreFails, Publishing, Running
  <2>. QED BY <2>1
<1>17. CASE RestoreRest
  <2>1. report' \in {report, "unknown"} /\ report \notin {"done", "preserved"}
    BY <1>17 DEF RestoreRest
  <2>. QED BY <2>1
<1>18. CASE RestoreDone
  <2>1. report' # "done" /\ pc' = "unlink" /\ journal' = journal /\ journal.phase = "prepared"
    BY <1>18 DEF RestoreDone, PlaceInv, Restoring
  <2>2. SteadyUndone'
    BY <2>1, OutcomeNext DEF OutcomeInv
  <2>. QED BY <2>1, <2>2
<1>19. CASE Unlink
  <2>1. Alone /\ pc # "capture" /\ pc' # "capture" /\ report' = report
    BY <1>19 DEF Unlink, Alone, Return
  <2>2. (SteadyUndone => SteadyUndone') /\ (SteadyDone => SteadyDone')
    BY <2>1, StillKept
  <2>. QED BY <1>19, <2>1, <2>2 DEF Unlink, NoJournal, Return, PlaceInv, Journalled
<1>20. CASE Rmtree
  <2>1. Alone /\ pc # "capture" /\ pc' # "capture" /\ report' = report
    BY <1>20 DEF Rmtree, Alone, Return
  <2>2. (SteadyUndone => SteadyUndone') /\ (SteadyDone => SteadyDone')
    BY <2>1, StillKept
  <2>. QED BY <1>20, <2>1, <2>2 DEF Rmtree, NoJournal, Return, PlaceInv, Journalled
<1>21. CASE Recover
  <2>1. Alone /\ pc # "capture" /\ pc' # "capture" /\ report' = report
    BY <1>21 DEF Recover, Alone, Return
  <2>2. (SteadyUndone => SteadyUndone') /\ (SteadyDone => SteadyDone')
    BY <2>1, StillKept
  <2>. QED BY <1>21, <2>1, <2>2 DEF Recover, NoJournal, Return, PlaceInv, Journalled
<1>22. CASE Kill
  <2>1. report' \in {"none", "unknown"}
    BY <1>22 DEF Kill, TypeOK, Return
  <2>. QED BY <2>1
<1>23. ASSUME NEW a \in External, Edit(a) PROVE ReportInv'
  <2>1. Alone /\ pc' = pc /\ journal' = journal /\ report' = report /\ root' = root
    BY <1>23, EditAlone DEF Edit
  <2>2. (SteadyUndone => SteadyUndone') /\ (SteadyDone => SteadyDone')
    BY <2>1, StillKept
  <2>. QED BY <2>1, <2>2 DEF Journalled
<1>24. CASE RefreshBegin
  <2>1. Alone /\ pc' = pc /\ journal' = journal /\ report' = report /\ root' = root
    BY <1>24, CommandKept DEF RefreshBegin, Alone
  <2>2. (SteadyUndone => SteadyUndone') /\ (SteadyDone => SteadyDone')
    BY <2>1, StillKept
  <2>. QED BY <2>1, <2>2 DEF Journalled
<1>25. CASE RefreshStep
  <2>1. Alone /\ pc' = pc /\ journal' = journal /\ report' = report /\ root' = root
    BY <1>25, RefreshAlone DEF RefreshStep
  <2>2. (SteadyUndone => SteadyUndone') /\ (SteadyDone => SteadyDone')
    BY <2>1, StillKept
  <2>. QED BY <2>1, <2>2 DEF Journalled
<1>26. CASE UNCHANGED vars
  <2>1. Alone /\ pc' = pc /\ journal' = journal /\ report' = report /\ root' = root
    BY <1>26, CommandKept DEF vars, Alone
  <2>2. (SteadyUndone => SteadyUndone') /\ (SteadyDone => SteadyDone')
    BY <2>1, StillKept
  <2>. QED BY <2>1, <2>2 DEF Journalled
<1>. QED
  BY <1>1, <1>2, <1>3, <1>4, <1>5, <1>6, <1>7, <1>8, <1>9, <1>10, <1>11, <1>12, <1>13, <1>14,
     <1>15, <1>16, <1>17, <1>18, <1>19, <1>20, <1>21, <1>22, <1>23, <1>24, <1>25,
     <1>26 DEF Next, Work, Settle

-----------------------------------------------------------------------------
(* The theorems.                                                           *)
LEMMA Begins == Init => JournalledInv
<1>. SUFFICES ASSUME Init PROVE JournalledInv
  OBVIOUS
<1>1. /\ pc = "idle" /\ cmd = "none" /\ report = "none" /\ refresh = 0 /\ ~Journalled
      /\ journal.phase = "none"
  BY DEF Init, NoJournal, Journalled
<1>2. TypeOK
  <2>1. file \in [Artifact -> Content] /\ base \in [Artifact -> Content]
    BY DEF Init, Content
  <2>2. journal \in [phase : {"none", "prepared", "accepted"}, before : [Artifact -> Content],
                     allowed : [External -> SUBSET Content]]
    BY Contents DEF Init, NoJournal
  <2>3. tx \in [before : [Artifact -> Content], expected : [Artifact -> Content],
                allowed : [Guarded -> SUBSET Content], applied : SUBSET Routing,
                indexed : BOOLEAN, errors : BOOLEAN, read : Content]
    BY Contents DEF Init, NoTx
  <2>4. count \in [{"ops", "kills", "raises", "edits", "refreshes"} -> Nat]
    BY DEF Init
  <2>5. root \in BOOLEAN /\ at \in Nat /\ lease = "none"
    BY DEF Init
  <2>6. refresh \in 0 .. Len(IndexFiles) + 1
    BY <1>1, TxNames
  <2>. QED BY <1>1, <2>1, <2>2, <2>3, <2>4, <2>5, <2>6 DEF TypeOK
<1>3. BaseInv
  BY <1>1, <1>2 DEF BaseInv, PlaceInv, TxInv, JournalInv, OwnTx, AtWork, Undoing, Restoring
<1>4. OwnInv /\ WholeInv /\ RestoreInv
  BY <1>1 DEF OwnInv, WholeInv, RefreshInv, SavedInv, ProgressInv, OutcomeInv, ReportInv, RestoreInv,
              AtWork, Restoring
<1>. QED BY <1>3, <1>4 DEF JournalledInv

\* No step of a command, of its rollback, of a recovery, of a user or of a
\* refresh leaves the invariant.
LEMMA Continues ==
  ASSUME JournalledInv, [Next]_vars
  PROVE  JournalledInv'
<1>1. TypeOK /\ PlaceInv /\ TxInv /\ JournalInv
  BY DEF JournalledInv, BaseInv
<1>2. BaseInv'
  BY <1>1, TypeNext, PlaceNext, TxNext, JournalNext DEF BaseInv
<1>3. OwnInv'
  BY <1>1, OwnNext DEF JournalledInv
<1>4. WholeInv'
  BY <1>1, RefreshNext, SavedNext, ProgressNext, OutcomeNext, ReportNext DEF JournalledInv, WholeInv
<1>5. ~EditsInRestore => RestoreInv'
  BY <1>1, RestoreNext DEF JournalledInv
<1>. QED BY <1>2, <1>3, <1>4, <1>5 DEF JournalledInv

THEOREM Invariant == Spec => []JournalledInv
BY Begins, Continues, PTL DEF Spec

\* Every variable has its type at every step.
THEOREM TypeCorrect == Spec => []TypeOK
<1>1. JournalledInv => TypeOK
  BY DEF JournalledInv, BaseInv
<1>. QED BY Invariant, <1>1, PTL

\* What a standing journal may have to undo it recognizes: a repository file is
\* one the journal allows, the user's, or what the command found
\* (begin, allow_config and allow_codex_plan before the bytes are published).
THEOREM OwnRecognized ==
  ASSUME ~CutWrites
  PROVE  Spec => []OwnWritesRecognized
<1>1. JournalledInv => OwnWritesRecognized
  BY DEF JournalledInv, OwnInv, Recognizable, TornByUs, OwnWritesRecognized
<1>. QED BY Invariant, <1>1, PTL

\* And when a kill or an interrupt may fall between the truncation and the
\* rewriting of a file, that torn file is all a recovery ever refuses without the
\* user's doing (Merged holds what the user wrote).
OnlyTornRefused ==
  journal.phase = "prepared" =>
    \A a \in External : file[a] \in journal.allowed[a] \cup {User, Merged, base[a], Torn}

THEOREM RefusedIsTorn == Spec => []OnlyTornRefused
<1>1. JournalledInv => OnlyTornRefused
  BY DEF JournalledInv, OwnInv, Recognizable, TornByUs, OnlyTornRefused
<1>. QED BY Invariant, <1>1, PTL

\* A command happened to every artifact or to none: however often it, its
\* rollback and the recoveries were killed, whatever raised and wherever the
\* user edited (begin, accept, _finish and recover_lifecycle_transaction).
THEOREM CommandWhole ==
  ASSUME MaxRefreshes = 0
  PROVE  Spec => []AllOrNothing
<1>1. JournalledInv => AllOrNothing
  BY Steadies DEF JournalledInv, WholeInv, OutcomeInv, AllOrNothing, SteadyUndone, SteadyDone, Undone, Done
<1>. QED BY Invariant, <1>1, PTL

\* With refreshes by other processes, which look at no journal, the same is true
\* of every artifact but the four index files they write.
SteadyAllOrNothing ==
  pc = "idle" /\ ~Journalled /\ cmd # "none" => SteadyUndone \/ SteadyDone

THEOREM RefreshTouchesIndexOnly == Spec => []SteadyAllOrNothing
<1>1. JournalledInv => SteadyAllOrNothing
  BY DEF JournalledInv, WholeInv, OutcomeInv, SteadyAllOrNothing
<1>. QED BY Invariant, <1>1, PTL

\* "ready" and "stopped" are reported only of published artifacts, and
\* previous_state_preserved only when all are what they were.
THEOREM ReportsAreHonest ==
  ASSUME MaxRefreshes = 0
  PROVE  Spec => []ReportHonest
<1>1. JournalledInv => ReportHonest
  BY Steadies DEF JournalledInv, WholeInv, ReportInv, ReportHonest, SteadyUndone, SteadyDone, Undone, Done
<1>. QED BY Invariant, <1>1, PTL

\* No step but the user's own loses what the user wrote into a repository file
\* after the command began, if nothing is edited while a rollback restores and
\* no write is cut short: it stays in the file, is merged with the block of Atlas
\* or goes back from the memory of the process, and only the truncation of config
\* or Codex file, which does not compare the text with what was read, may take it
\* (_publish and _finish compare before they write, write_verified and codex_apply
\* do not).
THEOREM UserKeepsEdits ==
  ASSUME ~EditsInRestore, ~CutWrites
  PROVE  Spec => UserEditKept
<1>1. JournalledInv /\ [Next]_vars => [EditStays]_vars
  BY EditNext DEF JournalledInv
<1>. QED BY Invariant, <1>1, PTL DEF Spec, UserEditKept
-----------------------------------------------------------------------------
(* A refresh by another process beside a command that is neither killed    *)
(* nor edited under, and fails at most once.                               *)
Undisturbed ==
  /\ MaxKills = 0 /\ MaxEdits = 0 /\ MaxRaises \in {0, 1} /\ ~CutWrites
  /\ "provider" \in Missing <=> "registrations" \in Missing
  /\ "registrations" \in Missing <=> "index" \in Missing

Indexed == {"provider", "registrations", "index"}
Agree(f) == f["provider"] = f["registrations"] /\ f["registrations"] = f["index"]

\* Nobody but the command writes the repository files.
OursInv == \A a \in External : {file[a], base[a], journal.before[a]} \cap {User, Merged} = {}

\* So what the transactions expect is what they find, and nothing is rolled back
\* but what raised: the process and the journal authorize the same, and the files
\* of the repository are what they were until they are published.
ExpectedInv ==
  /\ pc = "capture" => \A a \in Guarded : tx.allowed[a] = {base[a]}
  /\ pc \in AtWork =>
       /\ \A a \in Guarded : tx.allowed[a] = journal.allowed[a]
       /\ \A a \in External :
            \/ file[a] = base[a]
            \/ \E i \in 1 .. at - 1 : Script[cmd][i] = Write(a)
            \/ pc = "writing" /\ a = Step.of
  /\ pc = "writing" => tx.read = base[Step.of]

\* Whoever works holds the refresh lease, and leaves no journal.
LeaseInv ==
  /\ refresh > 0 <=> lease = "refresh"
  /\ pc # "idle" => lease = "command"
  /\ pc = "idle" => ~Journalled /\ ~root
  /\ pc # "restore_rest"
  /\ pc \in Undoing \cup {"check", "restore"} => count.raises >= MaxRaises

\* The index files: a refresh and a command publish all of them or none.
IndexInv ==
  /\ refresh > 0 => \A i \in 1 .. refresh - 1 : file[IndexFiles[i]] = Refreshed(count.refreshes)
  /\ pc = "idle" /\ refresh = 0 => Agree(file)
  /\ pc # "idle" => Agree(base)
  /\ pc = "capture" => \A a \in Indexed :
       /\ file[a] = base[a]
       /\ \A i \in 1 .. at - 1 : Order[i] = a => journal.before[a] = base[a]
  /\ journal.phase = "prepared" => \A a \in Indexed : journal.before[a] = base[a]
  /\ pc \in AtWork => \A a \in Indexed :
       /\ a \notin Written => file[a] = base[a]
       /\ \A i \in 1 .. at - 1 : Script[cmd][i] = Write(a) => file[a] = Final(a)
  /\ journal.phase = "accepted" => Agree(file)
  /\ pc = "restore" => \A i \in at + 1 .. Len(Order) : Order[i] \in Indexed => file[Order[i]] = base[Order[i]]
  /\ pc \in {"unlink", "rmtree"} => Agree(file)

\* Nothing kills the command or edits beside it.
LEMMA Calm ==
  ASSUME Undisturbed, TypeOK
  PROVE  ~Kill /\ \A a : ~Edit(a)
BY DEF Undisturbed, TypeOK, Kill, Edit

\* The index files are no repository files; three of the four steps of a refresh
\* write what they must agree on.
LEMMA IndexNames ==
  /\ Indexed \subseteq Artifact \ External /\ "lifecycle" \notin Indexed
  /\ \A i \in 1 .. 4 : IndexFiles[i] \in Artifact \ External
  /\ IndexFiles[1] = "provider" /\ IndexFiles[2] = "registrations" /\ IndexFiles[4] = "index"
  /\ Len(IndexFiles) = 4
BY Names DEF Indexed, External, Guarded, Routing, IndexFiles

\* A command publishes all index files or none.
LEMMA AllIndexed ==
  ASSUME NEW c \in DOMAIN Script
  PROVE  \/ \A a \in Indexed : \E i \in 1 .. Len(Script[c]) : Script[c][i] = Write(a)
         \/ \A i \in 1 .. Len(Script[c]) : Script[c][i].of \notin Indexed
<1>1. CASE c = "enable"
  <2>1. /\ EnableScript[7] = Write("provider") /\ EnableScript[8] = Write("registrations")
        /\ EnableScript[9] = Write("index") /\ Len(EnableScript) = 12
    BY DEF EnableScript
  <2>2. Script[c] = EnableScript
    BY <1>1 DEF Script
  <2>3. 7 \in 1 .. 12 /\ 8 \in 1 .. 12 /\ 9 \in 1 .. 12 /\ Len(Script[c]) = 12
    BY <2>1, <2>2
  <2>. QED BY <2>1, <2>2, <2>3 DEF Indexed
<1>2. CASE c = "update"
  <2>1. /\ \A i \in 1 .. 8 : UpdateScript[i].of \in {"rule", "skill", "lifecycle", "config", "codex"}
        /\ Len(UpdateScript) = 8
    BY DEF UpdateScript, Write, Mark, Allow
  <2>. QED BY <1>2, <2>1 DEF Script, Indexed
<1>3. CASE c = "stop"
  BY <1>3, ScriptFacts DEF Indexed
<1>. QED BY <1>1, <1>2, <1>3 DEF Script

\* No step of a command or a refresh writes what a user would.
LEMMA OursNext ==
  ASSUME Undisturbed, TypeOK, PlaceInv, TxInv, OursInv, ExpectedInv, [Next]_vars
  PROVE  OursInv'
<1>. USE DEF OursInv
<1>1. ASSUME NEW c \in Commands, Start(c) PROVE OursInv'
  BY <1>1, Kinds DEF TypeOK, Start
<1>2. CASE Capture
  <2>1. at \in 1 .. Len(Order) /\ Order[at] \in Artifact
    BY <1>2, Names DEF Capture, PlaceInv
  <2>2. journal' = [journal EXCEPT !.before[Order[at]] = file[Order[at]]] /\ file' = file /\ base' = base
    BY <1>2 DEF Capture
  <2>. QED BY <2>1, <2>2, Kinds DEF TypeOK
<1>3. CASE WriteJournal
  <2>1. journal'.before = journal.before
    BY <1>3 DEF WriteJournal, TypeOK
  <2>. QED BY <1>3, <2>1 DEF WriteJournal
<1>4. CASE Authorize
  <2>1. journal'.before = journal.before
    BY <1>4 DEF Authorize, TypeOK
  <2>. QED BY <1>4, <2>1 DEF Authorize
<1>5. CASE ApplyRouting
  <2>1. file' \in {file, [file EXCEPT ![Step.of] = Final(Step.of)]}
    BY <1>5 DEF ApplyRouting
  <2>. QED BY <1>5, <2>1, FinalType, Kinds DEF ApplyRouting, TypeOK
<1>6. CASE Truncate
  BY <1>6, Kinds DEF Truncate, TypeOK, Torn, User, Merged
<1>7. CASE Publish
  <2>1. pc \in AtWork /\ at <= Len(Script[cmd]) /\ Step.do # "allow"
    BY <1>7 DEF Publish, Publishing, Running, AtWork, PlaceInv
  <2>2. Step.of \in External => Step.do # "mark"
    BY <2>1, StepFacts, Kinds DEF WellPlaced, Step
  <2>3. CASE pc = "run"
    <3>1. \A a \in External : file'[a] = file[a]
      BY <1>7, <2>3, Kinds DEF Publish, Publishing, Published, Refused, TypeOK
    <3>. QED BY <1>7, <3>1 DEF Publish
  <2>4. CASE pc = "writing"
    <3>1. Step.of \in Guarded /\ tx.read = tx.before[Step.of] /\ Step.do = "write"
      BY <2>4 DEF PlaceInv, ExpectedInv, TxInv, OwnTx, AtWork
    <3>2. file' = [file EXCEPT ![Step.of] = Final(Step.of)]
      BY <1>7, <2>4, <3>1 DEF Publish, Published, Refused, ToWrite
    <3>. QED BY <1>7, <3>1, <3>2, FinalType, Kinds DEF Publish, TypeOK
  <2>. QED BY <2>1, <2>3, <2>4 DEF AtWork
<1>8. CASE SkipMark
  BY <1>8 DEF SkipMark
<1>9. CASE AcceptChange
  <2>1. journal'.before = journal.before
    BY <1>9 DEF AcceptChange, TypeOK
  <2>. QED BY <1>9, <2>1 DEF AcceptChange
<1>10. CASE Raise
  <2>1. CASE pc = "capture"
    BY <1>10, <2>1, Kinds DEF Raise, NoJournal, User, Merged
  <2>2. CASE pc # "capture"
    <3>1. ~CutWrites /\ (pc = "writing" => Step.of \in External /\ tx.read = base[Step.of])
      BY Kinds DEF Undisturbed, PlaceInv, ExpectedInv
    <3>2. \A a \in External : file'[a] \in {file[a], base[a]}
      BY <1>10, <2>2, <3>1, Kinds DEF Raise, TypeOK
    <3>. QED BY <1>10, <2>2, <3>2 DEF Raise
  <2>. QED BY <2>1, <2>2
<1>11. CASE UndoRouting
  <2>1. \A a \in External : file'[a] \in {file[a], tx.before[a]}
    BY <1>11, Kinds DEF UndoRouting, TypeOK
  <2>. QED BY <1>11, <2>1 DEF UndoRouting, TxInv, OwnTx, Undoing
<1>12. CASE UndoProvider
  <2>1. \A a \in External : file'[a] \in {file[a], tx.before[a]}
    BY <1>12, Kinds DEF UndoProvider, TypeOK
  <2>. QED BY <1>12, <2>1 DEF UndoProvider, TxInv, OwnTx, Undoing
<1>13. CASE UndoFile
  <2>1. \A a \in External : file'[a] \in {file[a], tx.before[a]}
    BY <1>13, Kinds DEF UndoFile, TypeOK
  <2>. QED BY <1>13, <2>1 DEF UndoFile, TxInv, OwnTx, Undoing
<1>14. CASE Check
  BY <1>14 DEF Check
<1>15. CASE Restore
  BY <1>15, Kinds DEF Restore, TypeOK
<1>16. CASE RestoreFails
  BY <1>16 DEF RestoreFails
<1>17. CASE RestoreRest
  BY <1>17, Kinds DEF RestoreRest, TypeOK
<1>18. CASE RestoreDone
  BY <1>18 DEF RestoreDone
<1>19. CASE Unlink
  BY <1>19, Kinds DEF Unlink, NoJournal, User, Merged
<1>20. CASE Rmtree
  BY <1>20 DEF Rmtree
<1>21. CASE Recover
  BY <1>21 DEF Recover
<1>22. CASE RefreshBegin
  BY <1>22 DEF RefreshBegin
<1>23. CASE RefreshStep
  BY <1>23, RefreshFiles DEF RefreshStep
<1>24. CASE UNCHANGED vars
  BY <1>24 DEF vars
<1>. QED
  BY Calm, <1>1, <1>2, <1>3, <1>4, <1>5, <1>6, <1>7, <1>8, <1>9, <1>10, <1>11, <1>12,
     <1>13, <1>14, <1>15, <1>16, <1>17, <1>18, <1>19, <1>20, <1>21, <1>22, <1>23, <1>24 DEF Next, Work, Settle

\* No step makes the transactions of the process and the journal disagree.
LEMMA ExpectedNext ==
  ASSUME Undisturbed, TypeOK, PlaceInv, TxInv, JournalInv, OursInv, LeaseInv, ExpectedInv, [Next]_vars
  PROVE  ExpectedInv'
<1>. USE DEF ExpectedInv, AtWork
<1>1. ASSUME NEW c \in Commands, Start(c) PROVE ExpectedInv'
  BY <1>1 DEF Start, NoTx
<1>2. CASE Capture
  BY <1>2, CommandKept DEF Capture
<1>3. CASE WriteJournal
  <2>1. /\ pc = "capture" /\ pc' = "run" /\ tx' = tx /\ file' = file /\ base' = base /\ at > Len(Order)
        /\ journal'.allowed = [a \in External |-> {journal.before[a]} \cup
                                IF a \in Routing /\ cmd # "stop" THEN {Final(a)} ELSE {}]
    BY <1>3 DEF WriteJournal, TypeOK
  <2>2. \A a \in Guarded : journal.before[a] = base[a]
    <3>1. ASSUME NEW a \in Guarded PROVE \E i \in 1 .. at - 1 : Order[i] = a
      <4>1. PICK i \in 1 .. Len(Order) : Order[i] = a
        BY OrderFacts, Kinds
      <4>2. i \in 1 .. at - 1
        BY <2>1, <4>1, Names, SMTT(30) DEF TypeOK
      <4>. QED BY <4>1, <4>2
    <3>. QED BY <2>1, <3>1, Kinds DEF JournalInv, OursInv
  <2>3. \A a \in Guarded : journal'.allowed[a] = {base[a]}
    BY <2>1, <2>2, Kinds
  <2>4. \A a \in External : file[a] = base[a]
    BY <2>1 DEF JournalInv, Kept, OursInv
  <2>. QED BY <2>1, <2>3, <2>4
<1>4. CASE Authorize
  <2>1. Step.of \in Guarded /\ at \in 1 .. Len(Script[cmd])
    BY <1>4, StepFacts DEF Authorize, Running, WellPlaced, Step
  <2>2. /\ pc = "run" /\ pc' = "run" /\ file' = file /\ at' = at + 1 /\ base' = base
        /\ Script[cmd]' = Script[cmd]
    BY <1>4 DEF Authorize, Running
  <2>3. \A a \in Guarded : tx'.allowed[a] = journal'.allowed[a]
    BY <1>4, <2>1, <2>2, Kinds DEF Authorize, TypeOK
  <2>4. \A i \in 1 .. at - 1 : i \in 1 .. at' - 1
    BY <2>1, <2>2
  <2>. QED BY <2>2, <2>3, <2>4
<1>5. CASE ApplyRouting
  <2>1. Step.of \in Routing /\ at \in 1 .. Len(Script[cmd]) /\ Step = Script[cmd][at] /\ pc = "run"
        /\ Step \in Steps /\ Step.do = "write"
    BY <1>5, StepFacts DEF ApplyRouting, Running, Step
  <2>2. base' = base /\ Script[cmd]' = Script[cmd] /\ tx'.allowed = tx.allowed /\ journal' = journal
    BY <1>5 DEF ApplyRouting, TypeOK
  <2>3. CASE pc' = "run"
    <3>1. at' = at + 1 /\ \A a \in External : a # Step.of => file'[a] = file[a]
      BY <1>5, <2>1, <2>3, Kinds DEF ApplyRouting, TypeOK
    <3>2. Script[cmd][at] = Write(Step.of) /\ at \in 1 .. at' - 1
      BY <2>1, <3>1 DEF Steps, Write
    <3>3. \A i \in 1 .. at - 1 : i \in 1 .. at' - 1
      BY <2>1, <3>1
    <3>4. \A a \in External :
            file'[a] = base[a] \/ \E i \in 1 .. at' - 1 : Script[cmd][i] = Write(a)
      <4>. SUFFICES ASSUME NEW a \in External
                    PROVE  file'[a] = base[a] \/ \E i \in 1 .. at' - 1 : Script[cmd][i] = Write(a)
        OBVIOUS
      <4>1. CASE a = Step.of
        BY <3>2, <4>1
      <4>2. CASE a # Step.of
        BY <2>1, <3>1, <3>3, <4>2
      <4>. QED BY <4>1, <4>2
    <3>. QED BY <2>1, <2>2, <2>3, <3>4
  <2>. QED BY <1>5, <2>1, <2>3 DEF ApplyRouting
<1>6. CASE Truncate
  <2>1. /\ pc = "run" /\ pc' = "writing" /\ Step.of \in Guarded /\ Step' = Step /\ at' = at
        /\ at \in 1 .. Len(Script[cmd]) /\ Step = Script[cmd][at] /\ Step.do = "write"
        /\ WellPlaced(Script[cmd], at) /\ \A a \in External : a # Step.of => file'[a] = file[a]
    BY <1>6, StepFacts, Kinds DEF Truncate, Running, TypeOK, Step
  <2>2. base' = base /\ Script[cmd]' = Script[cmd] /\ tx'.allowed = tx.allowed /\ journal' = journal
    BY <1>6 DEF Truncate, TypeOK
  <2>3. \A i \in 1 .. at - 1 : Script[cmd][i] # Write(Step.of)
    BY <2>1 DEF WellPlaced, Write
  <2>4. file[Step.of] = base[Step.of] /\ tx.before = base
    BY <2>1, <2>3, Kinds DEF TxInv, OwnTx
  <2>5. tx'.read = base[Step.of]
    BY <1>6, <2>4 DEF Truncate, TypeOK
  <2>. QED BY <2>1, <2>2, <2>5
<1>7. CASE Publish
  <2>1. /\ pc \in AtWork /\ at \in 1 .. Len(Script[cmd]) /\ Step.of \notin Routing /\ Step.of \in Artifact
        /\ Step = Script[cmd][at] /\ Step \in Steps /\ WellPlaced(Script[cmd], at) /\ Step.do # "allow"
    BY <1>7, StepFacts, Kinds DEF Publish, Publishing, Running, AtWork, PlaceInv, Step
  <2>2. base' = base /\ Script[cmd]' = Script[cmd] /\ tx'.allowed = tx.allowed /\ journal' = journal
    BY <1>7 DEF Publish, Observe, TypeOK
  <2>3. \A a \in External : a # Step.of => file'[a] = file[a]
    BY <1>7, <2>1, Kinds DEF Publish, Published, TypeOK
  <2>4. (at' = at + 1 /\ pc' = "run") \/ pc' = "undo_routing"
    <3>1. cmd = "stop" => Step.of \notin Guarded
      BY <2>1, StepFacts, Kinds
    <3>. QED BY <1>7, <2>1, <3>1, Kinds DEF Publish, Observe, Publishing, PlaceInv, Running
  <2>5. at' = at + 1 => /\ \A i \in 1 .. at - 1 : i \in 1 .. at' - 1
                        /\ at \in 1 .. at' - 1
    BY <2>1
  <2>6. Step.of \in External => Script[cmd][at] = Write(Step.of)
    BY <2>1, Kinds DEF WellPlaced, Write, Steps
  <2>. QED BY <2>1, <2>2, <2>3, <2>4, <2>5, <2>6
<1>8. CASE SkipMark
  <2>1. pc = "run" /\ at \in 1 .. Len(Script[cmd]) /\ at' = at + 1
    BY <1>8, StepFacts DEF SkipMark, Running
  <2>2. \A i \in 1 .. at - 1 : i \in 1 .. at' - 1
    BY <2>1
  <2>. QED BY <1>8, <2>1, <2>2 DEF SkipMark
<1>9. CASE AcceptChange
  BY <1>9 DEF AcceptChange, Return
<1>10. CASE Raise
  BY <1>10 DEF Raise, Return
<1>11. CASE UndoRouting
  BY <1>11 DEF UndoRouting, Return
<1>12. CASE UndoProvider
  BY <1>12 DEF UndoProvider, Return
<1>13. CASE UndoFile
  BY <1>13 DEF UndoFile, Return
<1>14. CASE Check
  BY <1>14 DEF Check, Return
<1>15. CASE Restore
  BY <1>15 DEF Restore, Return
<1>16. CASE RestoreFails
  BY <1>16 DEF RestoreFails, Return
<1>17. CASE RestoreRest
  BY <1>17 DEF RestoreRest, Return
<1>18. CASE RestoreDone
  BY <1>18 DEF RestoreDone, Return
<1>19. CASE Unlink
  BY <1>19 DEF Unlink, Return
<1>20. CASE Rmtree
  BY <1>20 DEF Rmtree, Return
<1>21. CASE Recover
  BY <1>21 DEF Recover, Return
<1>22. CASE RefreshBegin
  BY <1>22 DEF RefreshBegin, LeaseInv
<1>23. CASE RefreshStep
  <2>1. pc = "idle" /\ pc' = pc
    BY <1>23 DEF RefreshStep, LeaseInv
  <2>. QED BY <2>1
<1>24. CASE UNCHANGED vars
  BY <1>24 DEF vars, Return, Step
<1>. QED
  BY Calm, <1>1, <1>2, <1>3, <1>4, <1>5, <1>6, <1>7, <1>8, <1>9, <1>10, <1>11, <1>12,
     <1>13, <1>14, <1>15, <1>16, <1>17, <1>18, <1>19, <1>20, <1>21, <1>22, <1>23, <1>24 DEF Next, Work, Settle

\* No step gives the lease away while something works, and none leaves a journal.
LEMMA LeaseNext ==
  ASSUME Undisturbed, TypeOK, PlaceInv, TxInv, OwnInv, OwnInv', JournalInv, JournalInv', PlaceInv',
         OursInv, OursInv', ExpectedInv, LeaseInv, [Next]_vars
  PROVE  LeaseInv'
<1>. USE DEF LeaseInv, AtWork, Undoing
<1>1. ASSUME NEW c \in Commands, Start(c) PROVE LeaseInv'
  BY <1>1 DEF Start, Journalled
<1>2. CASE Capture
  BY <1>2 DEF Capture, Journalled
<1>3. CASE WriteJournal
  BY <1>3 DEF WriteJournal, Journalled
<1>4. CASE Authorize
  BY <1>4 DEF Authorize, Journalled
<1>5. CASE ApplyRouting
  <2>1. pc = "run" /\ Step.of \in Routing /\ at \in 1 .. Len(Script[cmd]) /\ Step = Script[cmd][at]
        /\ WellPlaced(Script[cmd], at) /\ Step.do = "write"
    BY <1>5, StepFacts DEF ApplyRouting, Running, Step
  <2>2. \A i \in 1 .. at - 1 : Script[cmd][i] # Write(Step.of)
    BY <2>1 DEF WellPlaced, Write
  <2>3. file[Step.of] = base[Step.of] /\ tx.before = base
    BY <2>1, <2>2, Kinds DEF ExpectedInv, TxInv, OwnTx
  <2>. QED BY <1>5, <2>1, <2>3 DEF ApplyRouting
<1>6. CASE Truncate
  BY <1>6 DEF Truncate, Running, Journalled
<1>7. CASE Publish
  <2>1. pc \in AtWork /\ journal.phase = "prepared" /\ journal' = journal /\ base' = base
    BY <1>7 DEF Publish, Publishing, Running, PlaceInv
  <2>2. pc' # "writing" /\ (cmd = "stop" => pc' = "run")
    <3>1. cmd = "stop" => pc # "writing"
      BY <1>7, StepFacts, Kinds DEF PlaceInv
    <3>. QED BY <1>7, <2>1, <3>1 DEF Publish, Observe
  <2>3. \A a \in Guarded : file'[a] \in journal.allowed[a]
    BY <2>1, <2>2, Kinds DEF OwnInv, Recognizable, TornByUs, Undisturbed, OursInv, JournalInv
  <2>4. \A a \in Guarded : file'[a] \in tx.allowed[a]
    BY <2>1, <2>3 DEF ExpectedInv
  <2>5. pc' = "run"
    BY <1>7, <2>1, <2>2, <2>4 DEF Publish, Observe
  <2>. QED BY <1>7, <2>1, <2>5 DEF Publish
<1>8. CASE SkipMark
  BY <1>8 DEF SkipMark, Journalled
<1>9. CASE AcceptChange
  BY <1>9 DEF AcceptChange, Journalled
<1>10. CASE Raise
  <2>1. count'.raises >= MaxRaises /\ pc # "idle" /\ pc' \in {"rmtree", "check", "undo_routing"}
    BY <1>10 DEF Raise, Count, TypeOK, Undisturbed
  <2>. QED BY <1>10, <2>1 DEF Raise
<1>11. CASE UndoRouting
  BY <1>11 DEF UndoRouting
<1>12. CASE UndoProvider
  BY <1>12 DEF UndoProvider, Journalled
<1>13. CASE UndoFile
  BY <1>13 DEF UndoFile, Journalled
<1>14. CASE Check
  <2>1. pc = "check" /\ journal.phase = "prepared"
    BY <1>14 DEF Check, PlaceInv
  <2>2. \A a \in External : Recognized(a)
    <3>1. ASSUME NEW a \in External PROVE file[a] \in journal.allowed[a]
      <4>1. file[a] \in journal.allowed[a] \cup {User, Merged, base[a]}
        BY <2>1 DEF OwnInv, Recognizable, TornByUs, Undisturbed
      <4>2. base[a] \in journal.allowed[a] /\ file[a] \notin {User, Merged}
        BY <2>1 DEF JournalInv, OursInv
      <4>. QED BY <4>1, <4>2
    <3>. QED BY <3>1 DEF Recognized
  <2>. QED BY <1>14, <2>1, <2>2 DEF Check
<1>15. CASE Restore
  BY <1>15 DEF Restore, Journalled
<1>16. CASE RestoreFails
  <2>1. FALSE
    BY <1>16 DEF RestoreFails, TypeOK, Undisturbed
  <2>. QED BY <2>1
<1>17. CASE RestoreRest
  <2>1. FALSE
    BY <1>17 DEF RestoreRest
  <2>. QED BY <2>1
<1>18. CASE RestoreDone
  BY <1>18 DEF RestoreDone, Journalled
<1>19. CASE Unlink
  BY <1>19 DEF Unlink, Journalled
<1>20. CASE Rmtree
  <2>1. pc = "rmtree" /\ journal.phase = "none" /\ journal' = journal /\ lease = "command"
    BY <1>20 DEF Rmtree, PlaceInv
  <2>. QED BY <1>20, <2>1 DEF Rmtree, Return, Journalled
<1>21. CASE Recover
  BY <1>21 DEF Recover
<1>22. CASE RefreshBegin
  BY <1>22 DEF RefreshBegin, Journalled
<1>23. CASE RefreshStep
  <2>1. pc = "idle" /\ refresh \in 1 .. 5
    BY <1>23, IndexNames DEF RefreshStep, TypeOK
  <2>. QED BY <1>23, <2>1 DEF RefreshStep, Journalled
<1>24. CASE UNCHANGED vars
  BY <1>24 DEF vars, Journalled
<1>. QED
  BY Calm, <1>1, <1>2, <1>3, <1>4, <1>5, <1>6, <1>7, <1>8, <1>9, <1>10, <1>11, <1>12,
     <1>13, <1>14, <1>15, <1>16, <1>17, <1>18, <1>19, <1>20, <1>21, <1>22, <1>23, <1>24 DEF Next, Work, Settle

\* No step leaves the index files of two generations to an idle process.
LEMMA IndexNext ==
  ASSUME Undisturbed, TypeOK, PlaceInv, TxInv, LeaseInv, LeaseInv', IndexInv, [Next]_vars
  PROVE  IndexInv'
<1>. USE DEF IndexInv, AtWork
<1>1. ASSUME NEW c \in Commands, Start(c) PROVE IndexInv'
  <2>1. /\ pc = "idle" /\ refresh = 0 /\ pc' = "capture" /\ base' = file /\ file' = file /\ at' = 1
        /\ journal' = journal /\ journal.phase = "none" /\ refresh' = 0
    BY <1>1 DEF Start, LeaseInv, Journalled, TypeOK
  <2>. QED BY <2>1
<1>2. CASE Capture
  <2>1. /\ at \in 1 .. Len(Order) /\ Order[at] \in Artifact /\ pc = "capture" /\ pc' = pc
        /\ journal' = [journal EXCEPT !.before[Order[at]] = file[Order[at]]] /\ at' = at + 1
        /\ file' = file /\ base' = base /\ refresh' = refresh /\ journal.phase = "none"
    BY <1>2, Names DEF Capture, PlaceInv
  <2>2. ASSUME NEW a \in Indexed, NEW i \in 1 .. at' - 1, Order[i] = a PROVE journal'.before[a] = base[a]
    <3>1. CASE i = at
      BY <2>1, <2>2, <3>1 DEF TypeOK
    <3>2. CASE i # at
      <4>1. i \in 1 .. at - 1 /\ i \in 1 .. Len(Order) /\ Order[at] # a
        BY <2>1, <2>2, <3>2, OrderFacts
      <4>. QED BY <2>1, <2>2, <4>1, SMTT(30) DEF TypeOK
    <3>. QED BY <3>1, <3>2
  <2>3. journal'.phase = "none"
    BY <2>1 DEF TypeOK
  <2>. QED BY <2>1, <2>2, <2>3 DEF LeaseInv
<1>3. CASE WriteJournal
  <2>1. /\ pc = "capture" /\ pc' = "run" /\ at > Len(Order) /\ at' = 1 /\ file' = file /\ base' = base
        /\ journal'.before = journal.before /\ journal'.phase = "prepared" /\ refresh' = refresh
    BY <1>3 DEF WriteJournal, TypeOK
  <2>2. \A a \in Indexed : \E i \in 1 .. at - 1 : Order[i] = a
    <3>1. ASSUME NEW a \in Indexed PROVE \E i \in 1 .. at - 1 : Order[i] = a
      <4>1. PICK i \in 1 .. Len(Order) : Order[i] = a
        BY OrderFacts, IndexNames
      <4>2. i \in 1 .. at - 1
        <5>1. at \in Nat
          BY DEF TypeOK
        <5>2. Len(Order) \in Nat /\ at > Len(Order) /\ i \in 1 .. Len(Order)
          BY <2>1, <4>1, Names
        <5>. QED BY <5>1, <5>2
      <4>. QED BY <4>1, <4>2
    <3>. QED BY <3>1
  <2>3. \A a \in Indexed : journal.before[a] = base[a] /\ file[a] = base[a]
    BY <2>1, <2>2
  <2>. QED BY <2>1, <2>3 DEF LeaseInv
<1>4. CASE Authorize
  <2>1. /\ pc = "run" /\ pc' = "run" /\ at \in 1 .. Len(Script[cmd]) /\ at' = at + 1 /\ file' = file
        /\ journal'.phase = "prepared" /\ journal'.before = journal.before /\ refresh' = refresh
        /\ Step.do # "write" /\ Step = Script[cmd][at] /\ journal.phase = "prepared"
    BY <1>4, StepFacts DEF Authorize, Running, Step, PlaceInv, TypeOK
  <2>2. \A i \in 1 .. at' - 1 : i \in 1 .. at - 1 \/ i = at
    BY <2>1
  <2>3. /\ base' = base /\ Script[cmd]' = Script[cmd] /\ Written' = Written
        /\ \A a : Final(a)' = Final(a) /\ Step # Write(a)
    BY <2>1, CommandKept DEF Write
  <2>. QED BY <2>1, <2>2, <2>3 DEF LeaseInv
<1>5. CASE ApplyRouting
  <2>1. /\ pc = "run" /\ at \in 1 .. Len(Script[cmd]) /\ Step = Script[cmd][at] /\ Step.of \in Routing
        /\ journal.phase = "prepared" /\ journal' = journal /\ refresh' = refresh
    BY <1>5, StepFacts DEF ApplyRouting, Running, Step, PlaceInv
  <2>2. /\ base' = base /\ Script[cmd]' = Script[cmd] /\ Written' = Written
        /\ \A a : Final(a)' = Final(a)
    BY <2>1, CommandKept
  <2>3. \A a \in Indexed : file'[a] = file[a] /\ Step # Write(a)
    BY <1>5, <2>1, IndexNames, Kinds DEF ApplyRouting, TypeOK, Write
  <2>4. (pc' = "run" /\ at' = at + 1) \/ pc' = "undo_routing"
    BY <1>5, <2>1 DEF ApplyRouting
  <2>5. at' = at + 1 => \A i \in 1 .. at' - 1 : i \in 1 .. at - 1 \/ i = at
    BY <2>1
  <2>. QED BY <2>1, <2>2, <2>3, <2>4, <2>5 DEF LeaseInv
<1>6. CASE Truncate
  <2>1. /\ pc = "run" /\ pc' = "writing" /\ at' = at /\ Step.of \in Guarded
        /\ journal.phase = "prepared" /\ journal' = journal /\ refresh' = refresh
    BY <1>6 DEF Truncate, Running, PlaceInv
  <2>2. /\ base' = base /\ Script[cmd]' = Script[cmd] /\ Written' = Written
        /\ \A a : Final(a)' = Final(a)
    BY <2>1, CommandKept
  <2>3. \A a \in Indexed : file'[a] = file[a]
    BY <1>6, <2>1, IndexNames, Kinds DEF Truncate, TypeOK
  <2>. QED BY <2>1, <2>2, <2>3 DEF LeaseInv
<1>7. CASE Publish
  <2>1. /\ pc \in AtWork /\ at \in 1 .. Len(Script[cmd]) /\ Step = Script[cmd][at] /\ Step \in Steps
        /\ WellPlaced(Script[cmd], at) /\ Step.do # "allow" /\ Step.of \in Written
        /\ journal.phase = "prepared" /\ journal' = journal /\ refresh' = refresh
    BY <1>7, StepFacts, WrittenFacts DEF Publish, Publishing, Running, Step, PlaceInv
  <2>2. /\ base' = base /\ Script[cmd]' = Script[cmd] /\ Written' = Written
        /\ \A a : Final(a)' = Final(a)
    BY <2>1, CommandKept
  <2>3. \A a \in Indexed : a # Step.of => file'[a] = file[a]
    BY <1>7, <2>1, IndexNames DEF Publish, Published, TypeOK
  <2>4. \A a \in Indexed : Step = Write(a) => file'[a] = Final(a)
    <3>1. "codex" \in External
      BY DEF External, Guarded
    <3>. QED BY <1>7, <2>1, <3>1, IndexNames, Kinds DEF Publish, Published, Refused, ToWrite, TypeOK, Write
  <2>5. \A i \in 1 .. at - 1 : Script[cmd][i] # Write(Step.of)
    BY <2>1 DEF WellPlaced, Write
  <2>6. (pc' \in AtWork /\ at' = at + 1) \/ pc' = "undo_routing"
    BY <1>7, <2>1 DEF Publish, Observe
  <2>7. at' = at + 1 => \A i \in 1 .. at' - 1 : i \in 1 .. at - 1 \/ i = at
    BY <2>1
  <2>. QED BY <2>1, <2>2, <2>3, <2>4, <2>5, <2>6, <2>7 DEF LeaseInv
<1>8. CASE SkipMark
  <2>1. /\ pc = "run" /\ pc' = "run" /\ at \in 1 .. Len(Script[cmd]) /\ at' = at + 1 /\ file' = file
        /\ journal'.phase = "prepared" /\ journal'.before = journal.before /\ refresh' = refresh
        /\ Step.do # "write" /\ Step = Script[cmd][at] /\ journal.phase = "prepared"
    BY <1>8, StepFacts DEF SkipMark, Running, Step, PlaceInv, TypeOK
  <2>2. \A i \in 1 .. at' - 1 : i \in 1 .. at - 1 \/ i = at
    BY <2>1
  <2>3. /\ base' = base /\ Script[cmd]' = Script[cmd] /\ Written' = Written
        /\ \A a : Final(a)' = Final(a) /\ Step # Write(a)
    BY <2>1, CommandKept DEF Write
  <2>. QED BY <2>1, <2>2, <2>3 DEF LeaseInv
<1>9. CASE AcceptChange
  <2>1. /\ pc = "run" /\ pc' = "unlink" /\ journal'.phase = "accepted" /\ file' = file /\ base' = base
        /\ refresh' = refresh
    BY <1>9 DEF AcceptChange, TypeOK
  <2>a. cmd \in DOMAIN Script
    BY <2>1, ConstantsOK DEF PlaceInv, OwnTx
  <2>2. at = Len(Script[cmd]) + 1 /\ Len(Script[cmd]) \in Nat
    BY <1>9, <2>a, ScriptFacts DEF AcceptChange, PlaceInv
  <2>3. CASE \A a \in Indexed : \E i \in 1 .. Len(Script[cmd]) : Script[cmd][i] = Write(a)
    <3>1. \A a \in Indexed : file[a] = Final(a)
      BY <2>1, <2>2, <2>3
    <3>. QED BY <2>1, <3>1 DEF Indexed, Agree, Final, LeaseInv
  <2>4. CASE \A i \in 1 .. Len(Script[cmd]) : Script[cmd][i].of \notin Indexed
    <3>1. \A a \in Indexed : a \notin Written
      BY <2>a, <2>2, <2>4, ScriptFacts DEF Written
    <3>2. \A a \in Indexed : file[a] = base[a]
      BY <2>1, <3>1
    <3>. QED BY <2>1, <3>2 DEF Indexed, Agree, LeaseInv
  <2>. QED BY <2>a, <2>3, <2>4, AllIndexed
<1>10. CASE Raise
  <2>1. refresh' = refresh /\ base' = base /\ pc # "idle" /\ pc' \in {"rmtree", "check", "undo_routing"}
    BY <1>10 DEF Raise
  <2>2. CASE pc = "capture"
    <3>1. pc' = "rmtree" /\ journal'.phase = "none" /\ file' = file
      BY <1>10, <2>2 DEF Raise, NoJournal
    <3>. QED BY <2>1, <2>2, <3>1 DEF Indexed, Agree, LeaseInv
  <2>3. CASE pc # "capture"
    <3>1. pc' \in {"check", "undo_routing"} /\ journal' = journal /\ journal.phase = "prepared"
      BY <1>10, <2>3 DEF Raise, PlaceInv
    <3>. QED BY <2>1, <3>1 DEF LeaseInv
  <2>. QED BY <2>2, <2>3
<1>11. CASE UndoRouting
  <2>1. pc \in Undoing /\ pc' \in Undoing \cup {"check"} /\ journal' = journal /\ journal.phase = "prepared"
        /\ refresh' = refresh /\ base' = base
    BY <1>11 DEF UndoRouting, PlaceInv, Undoing
  <2>. QED BY <2>1 DEF Undoing, LeaseInv
<1>12. CASE UndoProvider
  <2>1. pc \in Undoing /\ pc' \in Undoing \cup {"check"} /\ journal' = journal /\ journal.phase = "prepared"
        /\ refresh' = refresh /\ base' = base
    BY <1>12 DEF UndoProvider, PlaceInv, Undoing
  <2>. QED BY <2>1 DEF Undoing, LeaseInv
<1>13. CASE UndoFile
  <2>1. pc \in Undoing /\ pc' \in Undoing \cup {"check"} /\ journal' = journal /\ journal.phase = "prepared"
        /\ refresh' = refresh /\ base' = base
    BY <1>13 DEF UndoFile, PlaceInv, Undoing
  <2>. QED BY <2>1 DEF Undoing, LeaseInv
<1>14. CASE Check
  <2>1. /\ pc = "check" /\ journal' = journal /\ journal.phase = "prepared" /\ refresh' = refresh
        /\ base' = base /\ file' = file
    BY <1>14 DEF Check, PlaceInv
  <2>2. pc' = "restore" /\ at' = Len(Order)
    BY <1>14, <2>1 DEF Check, LeaseInv, Return, Journalled
  <2>. QED BY <2>1, <2>2, Names DEF LeaseInv
<1>15. CASE Restore
  <2>1. /\ at \in 1 .. Len(Order) /\ Order[at] \in Artifact /\ pc = "restore" /\ pc' = "restore"
        /\ at' = at - 1 /\ journal' = journal /\ journal.phase = "prepared" /\ base' = base
        /\ file' = [file EXCEPT ![Order[at]] = journal.before[Order[at]]] /\ refresh' = refresh
    BY <1>15, Names DEF Restore, PlaceInv, Restoring
  <2>2. ASSUME NEW i \in at .. Len(Order), Order[i] \in Indexed PROVE file'[Order[i]] = base[Order[i]]
    <3>1. CASE i = at
      BY <2>1, <2>2, <3>1 DEF TypeOK
    <3>2. CASE i # at
      <4>1. i \in 1 .. Len(Order) /\ Order[i] # Order[at] /\ i \in at + 1 .. Len(Order)
        BY <2>1, <3>2, OrderFacts, Names
      <4>. QED BY <2>1, <2>2, <4>1, Names DEF TypeOK
    <3>. QED BY <3>1, <3>2
  <2>3. \A i \in at' + 1 .. Len(Order) : i \in at .. Len(Order)
    BY <2>1
  <2>. QED BY <2>1, <2>2, <2>3 DEF LeaseInv
<1>16. CASE RestoreFails
  <2>1. FALSE
    BY <1>16 DEF RestoreFails, LeaseInv, Undoing, TypeOK, Undisturbed
  <2>. QED BY <2>1
<1>17. CASE RestoreRest
  <2>1. FALSE
    BY <1>17 DEF RestoreRest, LeaseInv
  <2>. QED BY <2>1
<1>18. CASE RestoreDone
  <2>1. /\ pc = "restore" /\ at = 0 /\ pc' = "unlink" /\ journal' = journal /\ file' = file /\ base' = base
        /\ journal.phase = "prepared" /\ refresh' = refresh
    BY <1>18 DEF RestoreDone, PlaceInv, Restoring
  <2>2. \A a \in Indexed : \E i \in at + 1 .. Len(Order) : Order[i] = a
    BY <2>1, OrderFacts, IndexNames, Names
  <2>3. \A a \in Indexed : file[a] = base[a]
    BY <2>1, <2>2
  <2>. QED BY <2>1, <2>3 DEF Indexed, Agree, LeaseInv
<1>19. CASE Unlink
  <2>1. /\ pc = "unlink" /\ pc' = "rmtree" /\ journal'.phase = "none" /\ file' = file /\ base' = base
        /\ refresh' = refresh
    BY <1>19 DEF Unlink, NoJournal
  <2>. QED BY <2>1 DEF LeaseInv
<1>20. CASE Rmtree
  <2>1. /\ pc = "rmtree" /\ pc' = "idle" /\ journal' = journal /\ journal.phase = "none" /\ file' = file
        /\ base' = base /\ refresh' = refresh
    BY <1>20 DEF Rmtree, Return, PlaceInv
  <2>. QED BY <2>1 DEF LeaseInv
<1>21. CASE Recover
  <2>1. FALSE
    BY <1>21 DEF Recover, LeaseInv
  <2>. QED BY <2>1
<1>22. CASE RefreshBegin
  <2>1. /\ pc = "idle" /\ pc' = "idle" /\ refresh' = 1 /\ journal' = journal /\ journal.phase = "none"
    BY <1>22 DEF RefreshBegin, LeaseInv, Journalled
  <2>. QED BY <2>1
<1>23. CASE RefreshStep
  <2>1. /\ pc = "idle" /\ pc' = "idle" /\ journal' = journal /\ journal.phase = "none" /\ refresh \in 1 .. 5
        /\ count' = count
    BY <1>23, IndexNames DEF RefreshStep, LeaseInv, Journalled, TypeOK
  <2>2. CASE refresh \in 1 .. 4
    <3>1. /\ file' = [file EXCEPT ![IndexFiles[refresh]] = Refreshed(count.refreshes)]
          /\ refresh' = refresh + 1 /\ IndexFiles[refresh] \in Artifact
      BY <1>23, <2>2, IndexNames DEF RefreshStep
    <3>2. ASSUME NEW i \in 1 .. refresh PROVE file'[IndexFiles[i]] = Refreshed(count.refreshes)
      <4>1. i \in 1 .. 4 /\ IndexFiles[i] \in Artifact /\ (i = refresh \/ i \in 1 .. refresh - 1)
        BY <2>2, IndexNames
      <4>. QED BY <3>1, <4>1 DEF TypeOK
    <3>3. refresh' > 0 /\ refresh' - 1 = refresh
      BY <2>2, <3>1
    <3>. QED BY <2>1, <3>2, <3>3
  <2>3. CASE refresh = 5
    <3>1. refresh' = 0 /\ file' = file
      BY <1>23, <2>3, IndexNames DEF RefreshStep
    <3>2. 1 \in 1 .. refresh - 1 /\ 2 \in 1 .. refresh - 1 /\ 4 \in 1 .. refresh - 1 /\ refresh > 0
      BY <2>3
    <3>3. Agree(file)
      BY <3>2, IndexNames DEF Agree
    <3>. QED BY <2>1, <3>1, <3>3
  <2>. QED BY <2>1, <2>2, <2>3
<1>24. CASE UNCHANGED vars
  <2>1. UNCHANGED <<file, journal, pc, at, refresh, base, cmd, count>>
    BY <1>24 DEF vars
  <2>. QED BY <2>1 DEF Agree, Final, Written
<1>. QED
  BY Calm, <1>1, <1>2, <1>3, <1>4, <1>5, <1>6, <1>7, <1>8, <1>9, <1>10, <1>11, <1>12,
     <1>13, <1>14, <1>15, <1>16, <1>17, <1>18, <1>19, <1>20, <1>21, <1>22, <1>23, <1>24 DEF Next, Work, Settle

UndisturbedInv == JournalledInv /\ OursInv /\ ExpectedInv /\ LeaseInv /\ IndexInv

\* When nothing runs, database, sidecar and index state are of one generation,
\* although a refresh by another process looks at no journal: the command holds the
\* refresh lease from its start to its end (AtlasService._refresh_lease), and as long
\* as it is not killed, no repository file is edited and at most one step raises,
\* there is no recovery, which does not.
THEOREM RefreshesApart ==
  ASSUME Undisturbed
  PROVE  Spec => []OneIndexGeneration
<1>1. ASSUME Init PROVE UndisturbedInv
  <2>1. /\ pc = "idle" /\ refresh = 0 /\ lease = "none" /\ ~root /\ journal = NoJournal /\ base = file
        /\ file = [a \in Artifact |-> IF a \in Missing THEN 0 ELSE 1]
    BY <1>1 DEF Init
  <2>2. OursInv
    BY <2>1, Kinds DEF OursInv, NoJournal, User, Merged
  <2>3. ExpectedInv /\ LeaseInv
    BY <2>1 DEF ExpectedInv, LeaseInv, AtWork, Undoing, Journalled, NoJournal
  <2>4. Agree(file)
    BY <2>1, IndexNames DEF Agree, Indexed, Undisturbed
  <2>5. IndexInv
    BY <2>1, <2>4 DEF IndexInv, AtWork, NoJournal
  <2>. QED BY <1>1, <2>2, <2>3, <2>5, Begins DEF UndisturbedInv
<1>2. ASSUME UndisturbedInv, [Next]_vars PROVE UndisturbedInv'
  <2>1. JournalledInv /\ JournalledInv'
    BY <1>2, Continues DEF UndisturbedInv
  <2>2. TypeOK /\ PlaceInv /\ TxInv /\ JournalInv /\ OwnInv /\ PlaceInv' /\ JournalInv' /\ OwnInv'
    BY <2>1 DEF JournalledInv, BaseInv
  <2>3. OursInv' /\ ExpectedInv'
    BY <1>2, <2>2, OursNext, ExpectedNext DEF UndisturbedInv
  <2>4. LeaseInv'
    BY <1>2, <2>2, <2>3, LeaseNext DEF UndisturbedInv
  <2>5. IndexInv'
    BY <1>2, <2>2, <2>4, IndexNext DEF UndisturbedInv
  <2>. QED BY <2>1, <2>3, <2>4, <2>5 DEF UndisturbedInv
<1>3. UndisturbedInv => OneIndexGeneration
  BY DEF UndisturbedInv, IndexInv, Agree, OneIndexGeneration
<1>. QED BY <1>1, <1>2, <1>3, PTL DEF Spec
=============================================================================
