---------------------- MODULE RegistrationUpdate_proofs ----------------------
(***************************************************************************)
(* Theorems about RegistrationUpdate, for any files, functions, modules    *)
(* and lines, and any number of edits and damages.                         *)
(***************************************************************************)
EXTENDS RegistrationUpdate, WellFoundedInduction, TLAPS

\* No two files are one module.  Python looks a package a/ up before a module
\* a.py, the document knows both by the name a.
OneFilePerModule == \A f, g \in Files : ModuleOf[f] = ModuleOf[g] => f = g

-----------------------------------------------------------------------------
(* The last index of a sequence that passes a test.                        *)

\* A set of natural numbers has a smallest element.
LEMMA SmallestOfNat ==
  ASSUME NEW T, T \subseteq Nat, T # {} PROVE \E x \in T : \A y \in T : x <= y
<1>1. \E x \in T : \A y \in T : ~ (<<y, x>> \in OpToRel(<, Nat))
  BY NatLessThanWellFounded, WFMin, Zenon
<1>2. PICK x \in T : \A y \in T : ~ (<<y, x>> \in OpToRel(<, Nat))
  BY <1>1
<1>3. \A y \in T : ~ (y < x)
  BY <1>2, Zenon DEF OpToRel
<1> QED
  BY <1>3

\* A set of indices has a largest element, and Max is it.
LEMMA LargestIndex ==
  ASSUME NEW n \in Nat, NEW I, I \subseteq 1..n, I # {} PROVE Max(I) \in I
<1> DEFINE T == {n - i : i \in I}
<1>1. \A i \in I : i \in 1..n
  OBVIOUS
<1>2. \A i \in I : n - i \in Nat
  BY <1>1
<1>3. T \subseteq Nat /\ T # {}
  BY <1>2
<1>4. PICK x \in T : \A y \in T : x <= y
  BY <1>3, SmallestOfNat
<1>5. PICK i \in I : x = n - i
  OBVIOUS
<1>6. ASSUME NEW j \in I PROVE i >= j
  <2>1. n - i <= n - j
    BY <1>4, <1>5
  <2> QED
    BY <2>1, <1>1
<1> QED
  BY <1>6, Zenon DEF Max

-----------------------------------------------------------------------------
(* What a scan finds.                                                      *)

\* A definition is of the file it was collected from.
LEMMA DefinitionOf ==
  ASSUME NEW t, NEW f, NEW d \in Definitions(t, f) PROVE d.file = f
BY DEF Definitions

\* A file's definitions depend on that file alone.
LEMMA DefinitionsOfSame ==
  ASSUME NEW t, NEW u, NEW f, t[f] = u[f] PROVE Definitions(t, f) = Definitions(u, f)
BY DEF Definitions

\* A name resolves to the definitions of a scanned file that has some, and to
\* those known before when none has.
LEMMA DefinedCases ==
  ASSUME NEW t, NEW S, NEW K, NEW m, NEW n
  PROVE  \/ \E g \in Files \cap S :
               /\ ModuleOf[g] = m /\ {d \in Definitions(t, g) : d.name = n} # {}
               /\ Defined(t, S, K, m, n) = {d \in Definitions(t, g) : d.name = n}
         \/ /\ \A g \in Files \cap S :
                  ModuleOf[g] = m => {d \in Definitions(t, g) : d.name = n} = {}
            /\ Defined(t, S, K, m, n) = {d \in K : ModuleOf[d.file] = m /\ d.name = n}
<1> DEFINE Of(f) == {d \in Definitions(t, f) : d.name = n}
           Test(f) == f \in S /\ ModuleOf[f] = m /\ Of(f) # {}
           I == {i \in 1..Len(Paths) : Test(Paths[i])}
           last == SelectLastInSeq(Paths, LAMBDA f : f \in S /\ ModuleOf[f] = m /\ Of(f) # {})
<1>1. Len(Paths) \in Nat /\ I \subseteq 1..Len(Paths)
  BY ConstantsOK
<1>2. last = IF I # {} THEN Max(I) ELSE 0
  BY DEF SelectLastInSeq
<1>3. Files = {Paths[i] : i \in 1..Len(Paths)}
  BY ConstantsOK DEF Files, ToSet
<1>4. Defined(t, S, K, m, n) = IF last > 0 THEN Of(Paths[last])
                               ELSE {d \in K : ModuleOf[d.file] = m /\ d.name = n}
  BY DEF Defined
<1>5. CASE I = {}
  <2>1. \A i \in 1..Len(Paths) : ~ Test(Paths[i])
    BY <1>5
  <2>2. \A g \in Files : ~ Test(g)
    BY <1>3, <2>1
  <2>3. last = 0
    BY <1>2, <1>5
  <2> HIDE DEF last, I
  <2> QED
    BY <1>4, <2>2, <2>3
<1>6. CASE I # {}
  <2>1. Max(I) \in I
    <3> HIDE DEF I
    <3> QED
      BY <1>1, <1>6, LargestIndex
  <2>2. Max(I) \in 1..Len(Paths) /\ Test(Paths[Max(I)])
    BY <2>1
  <2>3. last = Max(I)
    BY <1>2, <1>6
  <2> HIDE DEF last, I
  <2>4. last > 0 /\ Paths[last] \in Files /\ Test(Paths[last])
    BY <1>1, <1>3, <2>2, <2>3
  <2> QED
    BY <1>4, <2>4
<1> QED
  BY <1>5, <1>6

\* The calls of a file name a module and a function.
LEMMA CallType ==
  ASSUME NEW t \in Trees, NEW f \in Files, NEW c \in t[f].calls
  PROVE  c = <<c[1], c[2]>> /\ f \in Present(t)
<1>1. t[f] \in Contents \cup {NoFile} /\ t[f].calls # {}
  BY DEF Trees
<1>2. t[f] \in Contents
  BY <1>1 DEF NoFile
<1>3. t[f].exists /\ t[f].calls \in {{}} \cup {{x} : x \in Modules \X Names}
  BY <1>2 DEF Contents
<1>4. c \in Modules \X Names
  BY <1>1, <1>3
<1> QED
  BY <1>3, <1>4 DEF Present

\* What a scan finds is a call of a scanned file, to a definition of a scanned
\* file or a known one.
LEMMA ScanSound ==
  ASSUME NEW t \in Trees, NEW S, S \subseteq Files, NEW K, NEW r \in ScanFiles(t, S, K)
  PROVE  /\ r = [source |-> r.source, target |-> r.target]
         /\ r.source \in S
         /\ <<ModuleOf[r.target.file], r.target.name>> \in t[r.source].calls
         /\ \/ r.target \in K
            \/ r.target.file \in S /\ r.target \in Definitions(t, r.target.file)
<1>1. PICK f \in S : \E c \in t[f].calls : \E d \in Targets(t, S, K, f, c) :
                       r = [source |-> f, target |-> d]
  BY DEF ScanFiles
<1>2. PICK c \in t[f].calls : \E d \in Targets(t, S, K, f, c) :
                                  r = [source |-> f, target |-> d]
  BY <1>1
<1>3. PICK d \in Targets(t, S, K, f, c) : r = [source |-> f, target |-> d]
  BY <1>2
<1>4. c = <<c[1], c[2]>>
  BY CallType
<1>5. CASE d \in Definitions(t, f) /\ ModuleOf[f] = c[1] /\ d.name = c[2]
  BY <1>3, <1>4, <1>5, DefinitionOf
<1>6. CASE d \in Defined(t, S, K, c[1], c[2])
  <2>1. CASE \E g \in Files \cap S :
               /\ ModuleOf[g] = c[1] /\ {e \in Definitions(t, g) : e.name = c[2]} # {}
               /\ Defined(t, S, K, c[1], c[2]) = {e \in Definitions(t, g) : e.name = c[2]}
    <3>1. PICK g \in Files \cap S : ModuleOf[g] = c[1] /\ d \in Definitions(t, g) /\ d.name = c[2]
      BY <1>6, <2>1
    <3>2. d.file = g
      BY <3>1, DefinitionOf
    <3> QED
      BY <1>3, <1>4, <3>1, <3>2
  <2>2. CASE Defined(t, S, K, c[1], c[2]) = {e \in K : ModuleOf[e.file] = c[1] /\ e.name = c[2]}
    BY <1>3, <1>4, <1>6, <2>2
  <2> QED
    BY <2>1, <2>2, DefinedCases
<1> QED
  BY <1>5, <1>6 DEF Targets

\* A call of a scanned file to one of its own definitions is found.
LEMMA ScanOwn ==
  ASSUME NEW t, NEW S, NEW K, NEW f \in S, NEW d \in Definitions(t, f),
         <<ModuleOf[f], d.name>> \in t[f].calls
  PROVE  [source |-> f, target |-> d] \in ScanFiles(t, S, K)
<1> DEFINE c == <<ModuleOf[f], d.name>>
<1>1. c[1] = ModuleOf[f] /\ c[2] = d.name /\ c \in t[f].calls
  OBVIOUS
<1> HIDE DEF c
<1>2. d \in Targets(t, S, K, f, c)
  BY <1>1 DEF Targets
<1> QED
  BY <1>1, <1>2 DEF ScanFiles

\* So is one to a definition of any scanned file, if it is the only file of
\* its module.
LEMMA ScanComplete ==
  ASSUME OneFilePerModule, NEW t, NEW S, NEW K, NEW f \in S, NEW g \in Files \cap S,
         S \subseteq Files, NEW d \in Definitions(t, g),
         <<ModuleOf[g], d.name>> \in t[f].calls
  PROVE  [source |-> f, target |-> d] \in ScanFiles(t, S, K)
<1>1. CASE f = g
  BY <1>1, ScanOwn
<1>2. CASE f # g
  <2> DEFINE c == <<ModuleOf[g], d.name>>
  <2>1. c[1] = ModuleOf[g] /\ c[2] = d.name /\ c \in t[f].calls
    OBVIOUS
  <2>2. ModuleOf[f] # ModuleOf[g]
    BY <1>2 DEF OneFilePerModule
  <2> HIDE DEF c
  <2>3. Targets(t, S, K, f, c) = Defined(t, S, K, c[1], c[2])
    BY <2>1, <2>2 DEF Targets
  <2>4. d \in {e \in Definitions(t, g) : e.name = c[2]}
    BY <2>1
  <2>5. \A h \in Files \cap S : ModuleOf[h] = c[1] => h = g
    BY <2>1 DEF OneFilePerModule
  <2>6. d \in Defined(t, S, K, c[1], c[2])
    BY <2>1, <2>4, <2>5, DefinedCases
  <2> QED
    BY <2>1, <2>3, <2>6 DEF ScanFiles
<1> QED
  BY <1>1, <1>2

\* A known definition is found when its file is not scanned itself.
LEMMA ScanKnown ==
  ASSUME OneFilePerModule, NEW t, NEW S, NEW K, NEW f \in S, S \subseteq Files,
         NEW d \in K, d.file \in Files \ S,
         <<ModuleOf[d.file], d.name>> \in t[f].calls
  PROVE  [source |-> f, target |-> d] \in ScanFiles(t, S, K)
<1> DEFINE c == <<ModuleOf[d.file], d.name>>
<1>1. c[1] = ModuleOf[d.file] /\ c[2] = d.name /\ c \in t[f].calls
  OBVIOUS
<1> HIDE DEF c
<1>2. \A h \in S : ModuleOf[h] # c[1]
  BY <1>1 DEF OneFilePerModule
<1>3. Targets(t, S, K, f, c) = Defined(t, S, K, c[1], c[2])
  BY <1>2 DEF Targets
<1>4. d \in Defined(t, S, K, c[1], c[2])
  BY <1>1, <1>2, DefinedCases
<1> QED
  BY <1>1, <1>3, <1>4 DEF ScanFiles

\* What a whole scan finds: the calls of files that are there to definitions
\* of files that are there.
LEMMA ScanIs ==
  ASSUME OneFilePerModule, NEW t \in Trees, NEW r
  PROVE  r \in Scan(t) <=>
           /\ r = [source |-> r.source, target |-> r.target]
           /\ r.source \in Present(t) /\ r.target.file \in Present(t)
           /\ r.target \in Definitions(t, r.target.file)
           /\ <<ModuleOf[r.target.file], r.target.name>> \in t[r.source].calls
<1>1. Present(t) \subseteq Files
  BY DEF Present
<1>2. ASSUME r \in Scan(t)
      PROVE  /\ r = [source |-> r.source, target |-> r.target]
             /\ r.source \in Present(t) /\ r.target.file \in Present(t)
             /\ r.target \in Definitions(t, r.target.file)
             /\ <<ModuleOf[r.target.file], r.target.name>> \in t[r.source].calls
  BY <1>1, <1>2, ScanSound DEF Scan
<1>3. ASSUME /\ r = [source |-> r.source, target |-> r.target]
             /\ r.source \in Present(t) /\ r.target.file \in Present(t)
             /\ r.target \in Definitions(t, r.target.file)
             /\ <<ModuleOf[r.target.file], r.target.name>> \in t[r.source].calls
      PROVE  r \in Scan(t)
  <2>1. [source |-> r.source, target |-> r.target] \in ScanFiles(t, Present(t), {})
    BY <1>1, <1>3, ScanComplete
  <2> QED
    BY <1>3, <2>1 DEF Scan
<1> QED
  BY <1>2, <1>3

-----------------------------------------------------------------------------
(* An update: from a document that is right for the files it lists to one  *)
(* for the files whose hashes were read.                                   *)

\* The affected files are there, and among them is every changed one.
LEMMA AffectedFiles ==
  ASSUME NEW old, NEW h
  PROVE  /\ Affected(old, h) \subseteq Present(h)
         /\ Changed(old, h) \cap Present(h) \subseteq Affected(old, h)
         /\ Present(h) \subseteq Files
BY DEF Affected, Present

\* A record is kept when neither of its files changed.
LEMMA RetainedUnchanged ==
  ASSUME NEW old, NEW h, NEW r \in Retained(old, h),
         r.source \in Present(old.files), r.target.file \in Files
  PROVE  /\ r \in old.regs /\ r.source \in Present(h)
         /\ old.files[r.source] = h[r.source]
         /\ old.files[r.target.file] = h[r.target.file]
<1>1. r \in old.regs /\ r.source \in Present(h) /\ r.source \notin Affected(old, h)
  BY DEF Retained
<1>2. r.source \notin Changed(old, h)
  BY <1>1, AffectedFiles
<1>3. Dependencies(old, r.source) \cap Changed(old, h) = {}
  BY <1>1 DEF Affected
<1>4. r.target.file \in Dependencies(old, r.source)
  BY <1>1 DEF Dependencies
<1>5. r.source \in Files
  BY <1>1, AffectedFiles
<1> QED
  BY <1>1, <1>2, <1>3, <1>4, <1>5 DEF Changed

\* No record of the updated document is stale.
LEMMA UpdateIsSound ==
  ASSUME OneFilePerModule, NEW old, NEW h \in Trees, old.files \in Trees,
         old.regs \subseteq Scan(old.files)
  PROVE  Incremental(old, h, h) \subseteq Scan(h)
<1> SUFFICES ASSUME NEW r \in Incremental(old, h, h) PROVE r \in Scan(h)
  OBVIOUS
<1>1. Present(old.files) \subseteq Files /\ Present(h) \subseteq Files
  BY DEF Present
<1>2. CASE r \in Retained(old, h)
  <2>1. r \in Scan(old.files)
    BY <1>2 DEF Retained
  <2>2. /\ r = [source |-> r.source, target |-> r.target]
        /\ r.source \in Present(old.files) /\ r.target.file \in Present(old.files)
        /\ r.target \in Definitions(old.files, r.target.file)
        /\ <<ModuleOf[r.target.file], r.target.name>> \in old.files[r.source].calls
    BY <2>1, ScanIs
  <2>3. /\ r.source \in Present(h)
        /\ old.files[r.source] = h[r.source]
        /\ old.files[r.target.file] = h[r.target.file]
    BY <1>1, <1>2, <2>2, RetainedUnchanged
  <2>4. r.target.file \in Present(h)
    BY <2>2, <2>3 DEF Present
  <2>5. r.target \in Definitions(h, r.target.file)
    BY <2>2, <2>3, DefinitionsOfSame
  <2> QED
    BY <2>2, <2>3, <2>4, <2>5, ScanIs
<1>3. CASE r \in ScanFiles(h, Affected(old, h) \cap Present(h), KnownNodes(old, h))
  <2> DEFINE S == Affected(old, h) \cap Present(h)
  <2>1. S \subseteq Present(h)
    OBVIOUS
  <2>2. /\ r = [source |-> r.source, target |-> r.target]
        /\ r.source \in S
        /\ <<ModuleOf[r.target.file], r.target.name>> \in h[r.source].calls
        /\ \/ r.target \in KnownNodes(old, h)
           \/ r.target.file \in S /\ r.target \in Definitions(h, r.target.file)
    BY <1>1, <1>3, ScanSound
  <2>3. CASE r.target.file \in S /\ r.target \in Definitions(h, r.target.file)
    BY <2>1, <2>2, <2>3, ScanIs
  <2>4. CASE r.target \in KnownNodes(old, h)
    <3>1. PICK q \in old.regs : r.target = q.target /\ q.target.file \notin Changed(old, h)
      BY <2>4 DEF KnownNodes
    <3>2. /\ q.target.file \in Present(old.files)
          /\ q.target \in Definitions(old.files, q.target.file)
      BY <3>1, ScanIs
    <3>3. old.files[q.target.file] = h[q.target.file]
      BY <1>1, <3>1, <3>2 DEF Changed
    <3>4. q.target.file \in Present(h) /\ q.target \in Definitions(h, q.target.file)
      BY <3>2, <3>3, DefinitionsOfSame DEF Present
    <3> QED
      BY <2>1, <2>2, <3>1, <3>4, ScanIs
  <2> QED
    BY <2>2, <2>3, <2>4
<1> QED
  BY <1>2, <1>3 DEF Incremental

\* A record of a file that refers to itself is in its scan whatever the scan
\* of the other files finds: one file per module is not needed.
LEMMA OwnRecord ==
  ASSUME NEW t \in Trees, NEW r \in Scan(t), r.target.file = r.source
  PROVE  /\ r = [source |-> r.source, target |-> r.target]
         /\ r.source \in Present(t)
         /\ r.target \in Definitions(t, r.source)
         /\ <<ModuleOf[r.source], r.target.name>> \in t[r.source].calls
<1>1. Present(t) \subseteq Files
  BY DEF Present
<1>2. r \in ScanFiles(t, Present(t), {})
  BY DEF Scan
<1> QED
  BY <1>1, <1>2, ScanSound, SMTT(20)

\* What a file registers of its own is in the updated document.
LEMMA UpdateKeepsOwn ==
  ASSUME NEW old, NEW h \in Trees, old.files \in Trees,
         {r \in Scan(old.files) : r.target.file = r.source} \subseteq old.regs
  PROVE  {r \in Scan(h) : r.target.file = r.source} \subseteq Incremental(old, h, h)
<1> SUFFICES ASSUME NEW r \in Scan(h), r.target.file = r.source
             PROVE  r \in Incremental(old, h, h)
  OBVIOUS
<1>1. /\ r = [source |-> r.source, target |-> r.target]
      /\ r.source \in Present(h)
      /\ r.target \in Definitions(h, r.source)
      /\ <<ModuleOf[r.source], r.target.name>> \in h[r.source].calls
  BY OwnRecord
<1>2. CASE r.source \in Affected(old, h)
  <2>1. r.source \in Affected(old, h) \cap Present(h)
    BY <1>1, <1>2
  <2>2. [source |-> r.source, target |-> r.target]
          \in ScanFiles(h, Affected(old, h) \cap Present(h), KnownNodes(old, h))
    BY <1>1, <2>1, ScanOwn
  <2> QED
    BY <1>1, <2>2 DEF Incremental
<1>3. CASE r.source \notin Affected(old, h)
  <2>1. r.source \in Files /\ r.source \notin Changed(old, h)
    BY <1>1, <1>3, AffectedFiles
  <2>2. old.files[r.source] = h[r.source]
    BY <2>1 DEF Changed
  <2>3. r.source \in Present(old.files)
    BY <1>1, <2>2 DEF Present
  <2>4. r.target \in Definitions(old.files, r.source)
    BY <1>1, <2>2, DefinitionsOfSame
  <2>5. [source |-> r.source, target |-> r.target]
          \in ScanFiles(old.files, Present(old.files), {})
    BY <1>1, <2>2, <2>3, <2>4, ScanOwn
  <2>6. r \in old.regs
    BY <1>1, <2>5 DEF Scan
  <2>7. r \in Retained(old, h)
    BY <1>1, <1>3, <2>6 DEF Retained
  <2> QED
    BY <2>7 DEF Incremental
<1> QED
  BY <1>2, <1>3

\* A record that still holds is in the updated document.
LEMMA UpdateRemembers ==
  ASSUME OneFilePerModule, NEW old, NEW h \in Trees,
         NEW r \in old.regs, r \in Scan(h)
  PROVE  r \in Incremental(old, h, h)
<1> DEFINE S == Affected(old, h) \cap Present(h)
           K == KnownNodes(old, h)
<1>1. /\ r = [source |-> r.source, target |-> r.target]
      /\ r.source \in Present(h) /\ r.target.file \in Present(h)
      /\ r.target \in Definitions(h, r.target.file)
      /\ <<ModuleOf[r.target.file], r.target.name>> \in h[r.source].calls
  BY ScanIs
<1>2. S \subseteq Files /\ Present(h) \subseteq Files
  BY AffectedFiles
<1>3. CASE r.source \notin Affected(old, h)
  BY <1>1, <1>3 DEF Incremental, Retained
<1>4. CASE r.source \in S /\ r.target.file \in S
  <2>1. [source |-> r.source, target |-> r.target] \in ScanFiles(h, S, K)
    <3> HIDE DEF S, K
    <3> QED
      BY <1>1, <1>2, <1>4, ScanComplete
  <2> QED
    BY <1>1, <2>1 DEF Incremental
<1>5. CASE r.source \in S /\ r.target.file \notin S
  <2>1. r.target.file \in Files \ S
    BY <1>1, <1>2, <1>5
  <2>2. r.target.file \notin Changed(old, h)
    BY <1>1, <1>5, AffectedFiles
  <2>3. r.target \in K
    BY <2>2 DEF KnownNodes
  <2>4. [source |-> r.source, target |-> r.target] \in ScanFiles(h, S, K)
    <3> HIDE DEF S, K
    <3> QED
      BY <1>1, <1>2, <1>5, <2>1, <2>3, ScanKnown
  <2> QED
    BY <1>1, <2>4 DEF Incremental
<1> QED
  BY <1>1, <1>3, <1>4, <1>5

-----------------------------------------------------------------------------
(* Types.                                                                  *)

Nodes == [file : Files, name : Names, line : 1..MaxLine]

\* Definitions and records are well typed.
LEMMA DefinitionType ==
  ASSUME NEW t \in Trees, NEW f \in Files PROVE Definitions(t, f) \subseteq Nodes
<1>1. t[f] \in Contents \/ t[f] = NoFile
  BY DEF Trees
<1>2. CASE t[f] \in Contents
  <2>1. t[f].line \in [Names -> 0..MaxLine]
    BY <1>2 DEF Contents
  <2> QED
    BY <2>1, ConstantsOK DEF Definitions, Nodes
<1>3. CASE t[f] = NoFile
  BY <1>3 DEF NoFile, Definitions
<1> QED
  BY <1>1, <1>2, <1>3

LEMMA ScanType ==
  ASSUME NEW t \in Trees, NEW S, S \subseteq Files, NEW K, K \subseteq Nodes
  PROVE  ScanFiles(t, S, K) \subseteq Registrations
<1> SUFFICES ASSUME NEW r \in ScanFiles(t, S, K) PROVE r \in Registrations
  OBVIOUS
<1>1. /\ r = [source |-> r.source, target |-> r.target] /\ r.source \in S
      /\ \/ r.target \in K
         \/ r.target.file \in S /\ r.target \in Definitions(t, r.target.file)
  BY ScanSound
<1>2. r.target \in Nodes
  BY <1>1, DefinitionType
<1> QED
  BY <1>1, <1>2 DEF Registrations, Nodes

\* What is staged is well typed, whatever was edited in between.
LEMMA StagedType ==
  ASSUME NEW h \in Trees, NEW regs, regs \subseteq Registrations
  PROVE  LET d == Document(h, regs)
         IN d \in DocumentType /\ \A r \in d.regs : r.source \in Present(d.files)
BY DEF Document, DocumentType

\* There may be no file and no document at all.
LEMMA EmptyType ==
  /\ NoDocument \in DocumentType /\ NoDocument.regs = {} /\ NoDocument.files \in Trees
  /\ Idle.pc = "idle" /\ Idle.new = NoDocument
  /\ Idle \in [pc : {"idle", "hash", "scan", "publish"},
               before : Trees, hashes : Trees, new : DocumentType]
BY DEF NoDocument, Trees, DocumentType, Idle

\* Types hold initially.
LEMMA InitType == Init => TypeOK
BY EmptyType, ConstantsOK DEF Init, TypeOK

\* And in every step.
LEMMA NextType == TypeOK /\ [Next]_vars => TypeOK'
<1> SUFFICES ASSUME TypeOK, [Next]_vars PROVE TypeOK'
  OBVIOUS
<1> USE ConstantsOK
<1>1. CASE Begin
  BY <1>1, EmptyType DEF TypeOK, Begin
<1>2. CASE Hash
  BY <1>2 DEF TypeOK, Hash
<1>3. CASE Stage
  <2> DEFINE regs == IF document.is = "whole"
                     THEN Incremental(document, run.hashes, tree) ELSE Scan(tree)
             K == KnownNodes(document, run.hashes)
             S == Affected(document, run.hashes) \cap Present(tree)
  <2>1. tree \in Trees /\ run.hashes \in Trees /\ document.regs \subseteq Registrations
    BY DEF TypeOK, DocumentType
  <2>2. Present(tree) \subseteq Files /\ S \subseteq Files
    BY DEF Present
  <2>3. K \subseteq Nodes
    BY <2>1 DEF KnownNodes, Registrations, Nodes
  <2>4. Scan(tree) \subseteq Registrations
    BY <2>1, <2>2, ScanType DEF Scan
  <2>5. ScanFiles(tree, S, K) \subseteq Registrations
    <3> HIDE DEF S, K
    <3> QED
      BY <2>1, <2>2, <2>3, ScanType
  <2>6. Incremental(document, run.hashes, tree) \subseteq Registrations
    BY <2>1, <2>5 DEF Incremental, Retained
  <2>7. regs \subseteq Registrations
    BY <2>4, <2>6
  <2>8. run' = [run EXCEPT !.pc = "publish", !.new = Document(run.hashes, regs)]
    BY <1>3 DEF Stage
  <2> HIDE DEF regs
  <2>9. LET d == Document(run.hashes, regs)
        IN d \in DocumentType /\ \A r \in d.regs : r.source \in Present(d.files)
    BY <2>1, <2>7, StagedType
  <2> QED
    BY <1>3, <2>1, <2>8, <2>9 DEF TypeOK, Stage
<1>4. CASE Publish
  BY <1>4, EmptyType DEF TypeOK, Publish
<1>5. CASE Edit
  BY <1>5 DEF TypeOK, Edit, Trees
<1>6. CASE Damage
  BY <1>6, EmptyType DEF TypeOK, Damage
<1>7. CASE UNCHANGED vars
  BY <1>7 DEF TypeOK, vars
<1> QED
  BY <1>1, <1>2, <1>3, <1>4, <1>5, <1>6, <1>7 DEF Next

(* Every variable keeps its type.                                          *)
THEOREM TypeCorrect == Spec => []TypeOK
BY InitType, NextType, PTL DEF Spec

-----------------------------------------------------------------------------
(* The inductive invariant: what a refresh has staged is good, as long as  *)
(* the repository is still as it was when the refresh began.  Its hashes   *)
(* are then those of the tree it scans, and the document it updates is     *)
(* good for the files that one lists.                                      *)
OwnKept(d) ==
  d.is = "whole" => {r \in Scan(d.files) : r.target.file = r.source} \subseteq d.regs

Unedited == tree = run.before

HashesRead == run.pc = "scan" /\ Unedited => run.hashes = tree
StagedSound ==
  run.pc = "publish" /\ Unedited => run.new.regs \subseteq Scan(run.new.files)
StagedOwn == run.pc = "publish" /\ Unedited => OwnKept(run.new)
StagedRemembers ==
  run.pc = "publish" /\ Unedited /\ document.is = "whole" =>
    document.regs \cap Scan(run.new.files) \subseteq run.new.regs

RegistrationInv ==
  /\ TypeOK /\ OwnComplete /\ HashesRead /\ StagedOwn
  /\ OneFilePerModule => NothingStale /\ StagedSound /\ StagedRemembers

\* A whole scan finds records of the files it scanned.
LEMMA ScanOfPresent ==
  ASSUME NEW t \in Trees PROVE \A r \in Scan(t) : r.source \in Present(t)
<1>1. Present(t) \subseteq Files
  BY DEF Present
<1> QED
  BY <1>1, ScanSound DEF Scan

\* The invariant holds initially.
LEMMA InitRegistration == Init => RegistrationInv
BY InitType, EmptyType
   DEF Init, RegistrationInv, OwnComplete, HashesRead, StagedOwn, NothingStale,
       StagedSound, StagedRemembers, NoDocument, Idle

\* Staging makes a good document from a good one, or from none.
LEMMA StageKeeps ==
  ASSUME RegistrationInv, Stage
  PROVE  StagedOwn' /\ (OneFilePerModule => StagedSound' /\ StagedRemembers')
<1> DEFINE regs == IF document.is = "whole"
                   THEN Incremental(document, run.hashes, tree) ELSE Scan(tree)
           new == Document(run.hashes, regs)
<1>1. /\ tree \in Trees /\ document.files \in Trees
      /\ run \in [pc : {"idle", "hash", "scan", "publish"},
                  before : Trees, hashes : Trees, new : DocumentType]
  BY DEF RegistrationInv, TypeOK, DocumentType
<1>2. /\ run' = [run EXCEPT !.pc = "publish", !.new = new]
      /\ run.pc = "scan" /\ UNCHANGED <<tree, document>>
  BY DEF Stage
<1>3. run'.new = new /\ run'.before = run.before /\ new.is = "whole" /\ new.files = run.hashes
      /\ new.regs = {r \in regs : r.source \in Present(run.hashes)}
  <2>1. new.is = "whole" /\ new.files = run.hashes
        /\ new.regs = {r \in regs : r.source \in Present(run.hashes)}
    BY DEF Document
  <2> HIDE DEF new, regs
  <2> QED
    BY <1>1, <1>2, <2>1
<1> SUFFICES ASSUME Unedited'
             PROVE  /\ OwnKept(new)
                    /\ OneFilePerModule =>
                         /\ new.regs \subseteq Scan(new.files)
                         /\ document.is = "whole" =>
                              document.regs \cap Scan(new.files) \subseteq new.regs
  <2> HIDE DEF new
  <2> QED
    BY <1>2, <1>3 DEF StagedOwn, StagedSound, StagedRemembers, Unedited, OwnKept
<1>4. run.hashes = tree
  BY <1>2, <1>3 DEF RegistrationInv, HashesRead, Unedited
<1>5. \A r \in Scan(tree) : r.source \in Present(tree)
  BY <1>1, ScanOfPresent
<1>6. {r \in Scan(tree) : r.target.file = r.source} \subseteq regs
  <2>1. CASE document.is = "whole"
    <3>1. {r \in Scan(document.files) : r.target.file = r.source} \subseteq document.regs
      BY <2>1 DEF RegistrationInv, OwnComplete
    <3> QED
      BY <1>1, <1>4, <2>1, <3>1, UpdateKeepsOwn
  <2>2. CASE document.is # "whole"
    BY <2>2
  <2> QED
    BY <2>1, <2>2
<1>7. OneFilePerModule => regs \subseteq Scan(tree)
  <2>1. CASE OneFilePerModule /\ document.is = "whole"
    <3>1. document.regs \subseteq Scan(document.files)
      BY <2>1 DEF RegistrationInv, NothingStale
    <3> QED
      BY <1>1, <1>4, <2>1, <3>1, UpdateIsSound
  <2>2. CASE document.is # "whole"
    BY <2>2
  <2> QED
    BY <2>1, <2>2
<1>8. OneFilePerModule /\ document.is = "whole" => document.regs \cap Scan(tree) \subseteq regs
  BY <1>1, <1>4, UpdateRemembers
<1> HIDE DEF regs, new
<1> QED
  BY <1>3, <1>4, <1>5, <1>6, <1>7, <1>8 DEF OwnKept

\* Every step keeps the invariant.
LEMMA NextRegistration ==
  ~ Reverts /\ RegistrationInv /\ [Next]_vars => RegistrationInv'
<1> SUFFICES ASSUME ~ Reverts, RegistrationInv, [Next]_vars PROVE RegistrationInv'
  OBVIOUS
<1>0. /\ TypeOK' /\ TypeOK
      /\ run \in [pc : {"idle", "hash", "scan", "publish"},
                  before : Trees, hashes : Trees, new : DocumentType]
  BY NextType DEF RegistrationInv, TypeOK
<1> USE <1>0 DEF RegistrationInv, OwnComplete, HashesRead, StagedOwn, NothingStale,
                 StagedSound, StagedRemembers, Unedited
<1>1. CASE Begin
  <2>1. run'.pc = "hash" /\ UNCHANGED document
    BY <1>1 DEF Begin, Idle
  <2> QED
    BY <2>1
<1>2. CASE Hash
  <2>1. run'.pc = "scan" /\ run'.hashes = tree /\ UNCHANGED <<tree, document>>
    BY <1>2 DEF Hash
  <2> QED
    BY <2>1
<1>3. CASE Stage
  <2>1. run'.pc = "publish" /\ UNCHANGED document
    BY <1>3 DEF Stage
  <2> QED
    BY <1>3, <2>1, StageKeeps
<1>4. CASE Publish
  <2>1. run'.pc = "idle"
    BY <1>4, EmptyType DEF Publish
  <2>2. document' = document \/ (Unedited /\ document' = run.new /\ run.pc = "publish")
    BY <1>4 DEF Publish
  <2> QED
    BY <2>1, <2>2 DEF OwnKept
<1>5. CASE Edit
  <2>1. UNCHANGED <<document, run>> /\ (run.pc = "idle" \/ tree' # run.before)
    BY <1>5 DEF Edit
  <2> QED
    BY <2>1
<1>6. CASE Damage
  <2>1. document' = NoDocument /\ UNCHANGED <<tree, run>>
    BY <1>6 DEF Damage
  <2>2. NoDocument.is = "none" /\ NoDocument.regs = {}
    BY DEF NoDocument
  <2> HIDE DEF RegistrationInv
  <2> QED
    BY <2>1, <2>2 DEF RegistrationInv, OwnKept
<1>7. CASE UNCHANGED vars
  BY <1>7 DEF vars, OwnKept
<1> QED
  BY <1>1, <1>2, <1>3, <1>4, <1>5, <1>6, <1>7 DEF Next

\* It holds throughout.
LEMMA RegistrationInvariant == ASSUME ~ Reverts PROVE Spec => []RegistrationInv
BY InitRegistration, NextRegistration, PTL DEF Spec

-----------------------------------------------------------------------------
(* However often a document was updated incrementally, no record in it     *)
(* outlives the file, the call or the definition it was read from.         *)
THEOREM RecordsAreCurrent ==
  ASSUME ~ Reverts, OneFilePerModule PROVE Spec => []NothingStale
<1>1. RegistrationInv => NothingStale
  BY DEF RegistrationInv
<1> QED
  BY <1>1, RegistrationInvariant, PTL

(* What a file registers of its own is never missing, even with several    *)
(* files of one module.                                                    *)
THEOREM OwnRecordsKept == ASSUME ~ Reverts PROVE Spec => []OwnComplete
<1>1. RegistrationInv => OwnComplete
  BY DEF RegistrationInv
<1> QED
  BY <1>1, RegistrationInvariant, PTL

(* No update loses a recorded registration that still holds.               *)
THEOREM UpdatesRemember ==
  ASSUME ~ Reverts, OneFilePerModule PROVE Spec => NeverForgets
<1>1. RegistrationInv /\ [Next]_vars => [Remembers]_vars
  <2> SUFFICES ASSUME RegistrationInv, [Next]_vars, document.is = "whole",
                      document'.is = "whole"
               PROVE  document.regs \cap Scan(document'.files) \subseteq document'.regs
    BY DEF Remembers
  <2>1. CASE document' = document
    BY <2>1
  <2>2. CASE document' # document
    <3>1. ~ Begin /\ ~ Hash /\ ~ Stage /\ ~ Edit /\ ~ Damage /\ ~ UNCHANGED vars
      BY <2>2 DEF Begin, Hash, Stage, Edit, Damage, NoDocument, vars
    <3>2. Publish
      BY <3>1 DEF Next
    <3>3. run.pc = "publish" /\ Unedited /\ document' = run.new
      BY <2>2, <3>2 DEF Publish, Unedited
    <3> QED
      BY <3>3 DEF RegistrationInv, StagedRemembers
  <2> QED
    BY <2>1, <2>2
<1> QED
  BY <1>1, RegistrationInvariant, PTL DEF Spec, NeverForgets
=============================================================================
