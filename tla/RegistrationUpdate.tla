------------------------ MODULE RegistrationUpdate ------------------------
(* The document of exact Python registrations (python_registration_store.py)
   and how a refresh brings it up to date: unchanged files keep their record,
   and only the affected ones are parsed again, against the definitions found
   in them and the targets the previous document knew.

   A file is what the analyzer gets out of it: the line each of its functions
   is defined at, and the functions it registers somewhere, by qualified name
   (providers/python_registrations.py).  A content hash is the content itself,
   the source fingerprint is the whole tree.  How a name is bound inside a
   file is abstracted: a file's own functions resolve directly, those of
   another one by their qualified name.                                     *)
EXTENDS Integers, Sequences, SequencesExt, FiniteSets

CONSTANTS
    Paths,              \* the Python files that may exist, a sequence in path order
    Names,              \* function names
    ModuleOf,           \* [path -> the dotted name of its module]
    Reverts,            \* an edit may restore the tree a running refresh began with
    MaxLine, MaxEdits, MaxDamage    \* bounds of the exploration

Files == ToSet(Paths)

ASSUME ConstantsOK ==
    /\ Paths \in Seq(Files) /\ Reverts \in BOOLEAN
    /\ MaxLine \in Nat /\ MaxEdits \in Nat /\ MaxDamage \in Nat

Modules == {ModuleOf[f] : f \in Files}
NoFile == [line |-> [n \in Names |-> 0], calls |-> {}, exists |-> FALSE]
Contents == [line : [Names -> 0..MaxLine],
             calls : {{}} \cup {{c} : c \in Modules \X Names}, exists : {TRUE}]
Trees == [Files -> Contents \cup {NoFile}]

NoDocument == [is |-> "none", files |-> [f \in Files |-> NoFile], regs |-> {}]
Idle == [pc |-> "idle", before |-> NoDocument.files, hashes |-> NoDocument.files, new |-> NoDocument]

VARIABLES
    tree,       \* the repository's Python files
    document,   \* python-registrations-v1.json
    run,        \* the refresh in progress: its first snapshot, the hashes it read, its document
    edits, damages

vars == <<tree, document, run, edits, damages>>

Init ==
    /\ tree \in Trees /\ document = NoDocument /\ run = Idle /\ edits = 0 /\ damages = 0

----------------------------------------------------------------------------
(* python_registrations.py: what a scan of files finds. *)
Present(t) == {f \in Files : t[f].exists}
Definitions(t, f) ==
    {[file |-> f, name |-> n, line |-> t[f].line[n]] : n \in {m \in Names : t[f].line[m] > 0}}

\* The definitions of the scanned files replace those known before, a later
\* file's those of an earlier one.
Defined(t, scanned, known, m, n) ==
    LET Of(f) == {d \in Definitions(t, f) : d.name = n}
        last == SelectLastInSeq(Paths, LAMBDA f : f \in scanned /\ ModuleOf[f] = m /\ Of(f) # {})
    IN IF last > 0 THEN Of(Paths[last])
       ELSE {d \in known : ModuleOf[d.file] = m /\ d.name = n}

Targets(t, scanned, known, f, call) ==
    LET own == {d \in Definitions(t, f) : ModuleOf[f] = call[1] /\ d.name = call[2]}
    IN IF own # {} THEN own ELSE Defined(t, scanned, known, call[1], call[2])

ScanFiles(t, scanned, known) ==
    UNION {{[source |-> f, target |-> d] :
               d \in UNION {Targets(t, scanned, known, f, c) : c \in t[f].calls}} : f \in scanned}

Scan(t) == ScanFiles(t, Present(t), {})

----------------------------------------------------------------------------
(* build_incremental_registration_document: what changed since the previous
   document, and what depends on it.                                        *)
ChangedInBoth(old, hashes) ==               \* Variant: an added file is not a change
    {f \in Present(old.files) : old.files[f] # hashes[f]}
Changed(old, hashes) == {f \in Files : old.files[f] # hashes[f]}

DependenciesOwn(old, f) == {f}              \* Variant: the targets' files are forgotten
Dependencies(old, f) == UNION {{r.source, r.target.file} : r \in {q \in old.regs : q.source = f}}

Affected(old, hashes) ==
    LET changed == Changed(old, hashes)
    IN (changed \cup {f \in Present(old.files) : Dependencies(old, f) \cap changed # {}})
        \cap Present(hashes)

Retained(old, hashes) ==
    {r \in old.regs : r.source \in Present(hashes) \ Affected(old, hashes)}

KnownNone(old, hashes) == {}                \* Variant: affected files are scanned alone
KnownNodes(old, hashes) ==
    {r.target : r \in {q \in old.regs : q.target.file \notin Changed(old, hashes)}}

\* What is staged holds the records of the files whose hashes were read.
Document(hashes, regs) ==
    [is |-> "whole", files |-> hashes, regs |-> {r \in regs : r.source \in Present(hashes)}]

Incremental(old, hashes, t) ==
    Retained(old, hashes)
        \cup ScanFiles(t, Affected(old, hashes) \cap Present(t), KnownNodes(old, hashes))

----------------------------------------------------------------------------
(* stage_registration_index in a refresh, under the project's lease. *)
Begin ==
    /\ run.pc = "idle"
    /\ run' = [Idle EXCEPT !.pc = "hash", !.before = tree]
    /\ UNCHANGED <<tree, document, edits, damages>>

Hash ==
    /\ run.pc = "hash"
    /\ run' = [run EXCEPT !.pc = "scan", !.hashes = tree]
    /\ UNCHANGED <<tree, document, edits, damages>>

\* The previous document is used if it is whole; otherwise everything is scanned.
Stage ==
    /\ run.pc = "scan"
    /\ run' = [run EXCEPT !.pc = "publish", !.new =
           Document(run.hashes, IF document.is = "whole"
                                THEN Incremental(document, run.hashes, tree) ELSE Scan(tree))]
    /\ UNCHANGED <<tree, document, edits, damages>>

\* The refresh compares the source with its first snapshot after everything
\* was built; a difference ends it and removes what was staged.
Publish ==
    /\ run.pc = "publish" /\ run' = Idle
    /\ document' = IF tree = run.before THEN run.new ELSE document
    /\ UNCHANGED <<tree, edits, damages>>

----------------------------------------------------------------------------
(* Whoever edits the repository, and whatever damages the document on disk. *)
Edit ==
    /\ edits < MaxEdits /\ edits' = edits + 1
    /\ \E f \in Files, c \in Contents \cup {NoFile} :
           c # tree[f] /\ tree' = [tree EXCEPT ![f] = c]
    /\ Reverts \/ run.pc = "idle" \/ tree' # run.before
    /\ UNCHANGED <<document, run, damages>>

Damage ==
    /\ damages < MaxDamage /\ document.is = "whole"
    /\ document' = NoDocument /\ damages' = damages + 1
    /\ UNCHANGED <<tree, run, edits>>

Next == Begin \/ Hash \/ Stage \/ Publish \/ Edit \/ Damage

Spec == Init /\ [][Next]_vars

----------------------------------------------------------------------------
Registrations == [source : Files, target : [file : Files, name : Names, line : 1..MaxLine]]

DocumentType == [is : {"none", "whole"}, files : Trees, regs : SUBSET Registrations]

\* A document has records only of the files it lists.
TypeOK ==
    /\ tree \in Trees /\ edits \in 0..MaxEdits /\ damages \in 0..MaxDamage
    /\ document \in DocumentType
    /\ run \in [pc : {"idle", "hash", "scan", "publish"},
                before : Trees, hashes : Trees, new : DocumentType]
    /\ \A d \in {document, run.new} : \A r \in d.regs : r.source \in Present(d.files)

(* Every recorded registration is there in the source the document is for,  *)
(* its target at the recorded line: after any number of incremental updates *)
(* no record outlives the file, the call or the definition it was read from.*)
NothingStale == document.regs \subseteq Scan(document.files)

(* What a file registers of its own is never missing from the document.     *)
OwnComplete ==
    document.is = "whole" =>
        {r \in Scan(document.files) : r.target.file = r.source} \subseteq document.regs

(* An update never loses a registration that was recorded and still holds,  *)
(* whichever of its two files was edited.                                   *)
Remembers ==
    document.is = "whole" /\ document'.is = "whole" =>
        document.regs \cap Scan(document'.files) \subseteq document'.regs
NeverForgets == [][Remembers]_vars

(* "test_incremental_generation_matches_clean_rebuild": the document is the *)
(* one a clean rebuild of the same source would be.                         *)
IncrementalIsClean == document.is = "whole" => document.regs = Scan(document.files)
=============================================================================
