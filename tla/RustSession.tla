----------------------------- MODULE RustSession -----------------------------
(***************************************************************************)
(* The rust-analyzer session of a service (providers/rust_analyzer.py,     *)
(* service.py): started with the first Rust query, bound to one            *)
(* generation, asked over LSP and reused until it fails.  The analyzer     *)
(* loads the workspace while it is already asked; files are edited and the *)
(* analyzer notices in its own time; it crashes.                           *)
(*                                                                         *)
(* Source is two numbers: the content of the file a query names and of the *)
(* file its answer depends on; the generation of the session has 0 and 0.  *)
(***************************************************************************)
EXTENDS Integers

CONSTANTS
    SlowLoad,       \* BOOLEAN: queries are answered emptily for a while after the load
    EditsInQuery,   \* BOOLEAN: files are edited while a query runs
    Reverts,        \* BOOLEAN: an edit may bring the source of the generation back
    MaxEdits, MaxCrashes, MaxQueries, MaxTries    \* bounds of the exploration

VARIABLES
    disk,           \* [asked, other]: the contents of the two files
    child,          \* [alive, loaded, answers, view]: the analyzer process
    started,        \* AtlasService._rust_started
    process,        \* BOOLEAN: RustAnalyzerProvider._process is set
    opened, ready,  \* the file was opened; _semantic_ready
    pc, query,      \* where the query is; [id, exists]: its symbol is in the source
    sawEmpty, tries,
    expired,        \* history: a query waited for this analyzer to settle until its deadline
    answer,         \* [id, is, view, exists]: the last answer
    edits, crashes, asked       \* bounded counters

vars == <<disk, child, started, process, opened, ready, pc, query, sawEmpty, tries,
          expired, answer, edits, crashes, asked>>

Generation == [asked |-> 0, other |-> 0]
NoChild == [alive |-> FALSE, loaded |-> FALSE, answers |-> FALSE, view |-> 0]
NoQuery == [id |-> 0, exists |-> FALSE]

Init ==
    /\ disk = Generation /\ child = NoChild
    /\ started = FALSE /\ process = FALSE /\ opened = FALSE /\ ready = FALSE
    /\ pc = "idle" /\ query = NoQuery /\ sawEmpty = FALSE /\ tries = 0
    /\ expired = FALSE
    /\ answer = [id |-> 0, is |-> "none", view |-> 0, exists |-> FALSE]
    /\ edits = 0 /\ crashes = 0 /\ asked = 0

world == <<disk, edits, crashes>>
provider == <<child, process, opened, ready, expired>>
session == <<started, provider>>

Running == process /\ child.alive

(* _terminate: the process tree is gone and so is all that was known of it. *)
Terminated ==
    /\ child' = NoChild /\ process' = FALSE /\ opened' = FALSE
    /\ ready' = FALSE /\ expired' = FALSE

Tells(is, view) ==
    /\ answer' = [id |-> query.id, is |-> is, view |-> view, exists |-> query.exists]
    /\ pc' = "idle" /\ UNCHANGED <<query, sawEmpty, tries, asked>>

(* A TimeoutError is answered partially and forgets that Rust was started; *)
(* any other exception passes through the service, which keeps its flag.   *)
TimedOut == Terminated /\ started' = FALSE /\ Tells("partial", 0)
Raises == started' = started /\ Tells("error", 0)

----------------------------------------------------------------------------
(* The analyzer loads, reads edited files again, or crashes. *)
LoadDone ==
    /\ child.alive /\ ~child.loaded
    /\ child' = [child EXCEPT !.loaded = TRUE, !.answers = ~SlowLoad, !.view = disk.other]
    /\ UNCHANGED <<world, started, process, opened, ready, expired, pc, query, sawEmpty, tries, answer, asked>>

Settle ==
    /\ child.alive /\ child.loaded /\ ~child.answers
    /\ child' = [child EXCEPT !.answers = TRUE]
    /\ UNCHANGED <<world, started, process, opened, ready, expired, pc, query, sawEmpty, tries, answer, asked>>

Watch ==
    /\ child.alive /\ child.loaded /\ child.view # disk.other
    /\ child' = [child EXCEPT !.view = disk.other]
    /\ UNCHANGED <<world, started, process, opened, ready, expired, pc, query, sawEmpty, tries, answer, asked>>

Crash ==
    /\ child.alive /\ crashes < MaxCrashes /\ crashes' = crashes + 1
    /\ child' = NoChild
    /\ UNCHANGED <<disk, edits, started, process, opened, ready, expired, pc, query, sawEmpty, tries, answer, asked>>

Edit ==
    /\ edits < MaxEdits /\ (EditsInQuery \/ pc = "idle")
    /\ \E file \in {"asked", "other"}, v \in {edits + 1} \cup (IF Reverts THEN {0} ELSE {}) :
           disk' = [disk EXCEPT ![file] = v]
    /\ edits' = edits + 1
    /\ UNCHANGED <<crashes, session, pc, query, sawEmpty, tries, answer, asked>>

----------------------------------------------------------------------------
(* _query_rust and _ensure_rust: the provider is started unless it was. *)
Query ==
    /\ pc = "idle" /\ asked < MaxQueries /\ asked' = asked + 1
    /\ \E exists \in BOOLEAN : query' = [id |-> asked + 1, exists |-> exists]
    /\ pc' = IF started THEN "fresh" ELSE "start"
    /\ UNCHANGED <<world, session, sawEmpty, tries, answer>>

(* start, of a service that holds no running process: it would be used as it is, *)
(* but whatever makes the service forget its start has terminated the process.    *)
Refuse ==      \* no binary, an unsafe one, another version
    /\ pc = "start" /\ ~Running
    /\ UNCHANGED <<world, provider>> /\ Raises

Launch ==
    /\ pc = "start" /\ ~Running
    /\ child' = [NoChild EXCEPT !.alive = TRUE]
    /\ process' = TRUE /\ opened' = FALSE /\ ready' = FALSE /\ expired' = FALSE
    /\ pc' = "initialize"
    /\ UNCHANGED <<world, started, query, sawEmpty, tries, answer, asked>>

(* Anything raised between the launch and readiness terminates the process. *)
StartFails == Terminated /\ started' = FALSE

Initialize ==
    /\ pc = "initialize" /\ child.alive
    /\ pc' = "ready"
    /\ UNCHANGED <<world, session, query, sawEmpty, tries, answer, asked>>

(* _wait_ready: polled until the analyzer reports a workspace and crates. *)
WaitReady ==
    /\ pc = "ready" /\ child.alive /\ child.loaded
    /\ started' = TRUE /\ pc' = "fresh"
    /\ UNCHANGED <<world, provider, query, sawEmpty, tries, answer, asked>>

StartTimeout ==
    /\ pc \in {"initialize", "ready"} /\ StartFails /\ Tells("partial", 0)
    /\ UNCHANGED world

StartDead ==
    /\ pc \in {"initialize", "ready"} /\ ~child.alive
    /\ StartFails /\ Tells("error", 0)
    /\ UNCHANGED world

----------------------------------------------------------------------------
(* Variant: the snapshot of the repository is not compared. *)
FreshUnread == TRUE

(* _assert_fresh: the repository still is what the generation was built from. *)
Fresh == disk = Generation

AssertFresh ==
    /\ pc = "fresh" /\ UNCHANGED world
    /\ \/ /\ Fresh /\ pc' = "open"
          /\ UNCHANGED <<session, query, sawEmpty, tries, answer, asked>>
       \/ ~Fresh /\ UNCHANGED provider /\ Raises

(* _open: the file must be the generation's; the analyzer is told it once. *)
Open ==
    /\ pc = "open" /\ UNCHANGED world
    /\ IF disk.asked = Generation.asked /\ (opened \/ Running)
       THEN /\ opened' = TRUE /\ pc' = "ask" /\ sawEmpty' = FALSE /\ tries' = 0
            /\ UNCHANGED <<child, started, process, ready, expired, query, answer, asked>>
       ELSE /\ UNCHANGED provider /\ started' = started
            /\ Tells(IF disk.asked = Generation.asked THEN "not running" ELSE "error", 0)

(* _request: a dead process is noticed before anything is written. *)
Send ==
    /\ pc = "ask" /\ Running /\ tries < MaxTries
    /\ tries' = tries + 1 /\ pc' = "wait"
    /\ UNCHANGED <<world, session, query, sawEmpty, answer, asked>>

NotRunning ==
    /\ pc = "ask" /\ ~Running
    /\ started' = started /\ Tells("not running", 0)
    /\ UNCHANGED <<world, provider>>

----------------------------------------------------------------------------
(* The answer of the analyzer, and what query makes of it. *)
Located ==
    /\ pc = "wait" /\ child.alive /\ child.answers /\ query.exists
    /\ ready' = TRUE /\ Tells("nodes", child.view)
    /\ UNCHANGED <<world, child, started, process, opened, expired>>

(* Variant: the first empty answer counts as a settled analyzer. *)
EmptyReadies ==
    /\ pc = "wait" /\ child.alive /\ ~(child.answers /\ query.exists)
    /\ ready' = TRUE
    /\ IF ready
       THEN Tells("empty", child.view)
       ELSE sawEmpty' = TRUE /\ pc' = "ask" /\ UNCHANGED <<query, tries, answer, asked>>
    /\ UNCHANGED <<world, child, started, process, opened, expired>>

Empty ==
    /\ pc = "wait" /\ child.alive /\ ~(child.answers /\ query.exists)
    /\ IF ready
       THEN Tells("empty", child.view) /\ ready' = TRUE
       ELSE /\ sawEmpty' = TRUE /\ pc' = "ask"
            /\ UNCHANGED <<ready, query, tries, answer, asked>>
    /\ UNCHANGED <<world, child, started, process, opened, expired>>

Retryable ==   \* ContentModified, preload_file_not_found
    /\ pc = "wait" /\ child.alive /\ ~child.answers
    /\ pc' = "ask"
    /\ UNCHANGED <<world, session, query, sawEmpty, tries, answer, asked>>

OtherError ==  \* another LSP error, or a location outside the generation's scope
    /\ pc = "wait" /\ child.alive
    /\ UNCHANGED <<world, provider>> /\ Raises

TransportFails ==
    /\ pc = "wait" /\ ~child.alive
    /\ Terminated /\ Raises
    /\ UNCHANGED world

RequestTimeout == pc = "wait" /\ TimedOut /\ UNCHANGED world

(* Variant: the deadline is looked at only after an empty answer. *)
DeadlineOnlyEmpty ==
    /\ pc = "ask" /\ sawEmpty /\ UNCHANGED world
    /\ ready' = TRUE /\ expired' = TRUE /\ Tells("empty", child.view)
    /\ UNCHANGED <<child, started, process, opened>>

(* The deadline of the retries: an empty answer seen before is the answer, *)
(* and the analyzer counts as settled from here on.                        *)
Deadline ==
    /\ pc = "ask" /\ UNCHANGED world
    /\ IF sawEmpty
       THEN /\ ready' = TRUE /\ expired' = TRUE /\ Tells("empty", child.view)
            /\ UNCHANGED <<child, started, process, opened>>
       ELSE TimedOut

(* close: the session is shut down if it counts as started. *)
Close ==
    /\ pc = "idle" /\ pc' = "closed" /\ started' = FALSE
    /\ IF started THEN Terminated ELSE UNCHANGED provider
    /\ UNCHANGED <<world, query, sawEmpty, tries, answer, asked>>

----------------------------------------------------------------------------
Steps ==
    \/ Refuse \/ Launch \/ Initialize \/ WaitReady \/ StartTimeout \/ StartDead
    \/ AssertFresh \/ Open \/ Send \/ NotRunning
    \/ Located \/ Empty \/ Retryable \/ OtherError \/ TransportFails \/ RequestTimeout
    \/ Deadline

Next == LoadDone \/ Settle \/ Watch \/ Crash \/ Edit \/ Query \/ Steps \/ Close

(* The provider's code goes on, and each of its waits has a deadline. *)
Spec == Init /\ [][Next]_vars /\ WF_vars(Steps)

----------------------------------------------------------------------------
TypeOK ==
    /\ disk \in [asked : 0..MaxEdits, other : 0..MaxEdits]
    /\ child \in [alive : BOOLEAN, loaded : BOOLEAN, answers : BOOLEAN, view : 0..MaxEdits]
    /\ {started, process, opened, ready, sawEmpty, expired} \subseteq BOOLEAN
    /\ pc \in {"idle", "start", "initialize", "ready", "fresh", "open", "ask", "wait", "closed"}
    /\ query \in [id : 0..MaxQueries, exists : BOOLEAN]
    /\ answer.is \in {"none", "nodes", "empty", "partial", "error", "not running"}
    /\ edits \in 0..MaxEdits /\ crashes \in 0..MaxCrashes
    /\ asked \in 0..MaxQueries /\ tries \in 0..MaxTries

(* An analyzer that is still loading answers emptily after it has reported  *)
(* a workspace.  That nothing was found is told of a symbol that exists     *)
(* only by an analyzer of which some query awaited an answer until its      *)
(* deadline: the retries of the first queries go on until then, whatever    *)
(* failed or was restarted in between.                                      *)
EmptyAfterDeadline == pc = "idle" /\ answer.is = "empty" /\ answer.exists => expired

(* Stronger, and not kept by a slow analyzer: an empty answer means that    *)
(* there is nothing to find.                                                *)
EmptyMeansNone == answer.is = "empty" => ~answer.exists

(* The locations of an answer were computed from the source of the          *)
(* generation they are labelled with.                                       *)
AnswersOfGeneration == answer.is = "nodes" => answer.view = Generation.other

(* A service that was closed, after whatever went wrong, leaves no analyzer *)
(* running.                                                                 *)
NoOrphan == pc = "closed" => ~child.alive

(* No analyzer runs that the provider does not hold: nothing could ever     *)
(* terminate it.                                                            *)
Held == child.alive => process

(* A query is never refused for want of a running analyzer: the service     *)
(* starts one on demand.                                                    *)
StartedOnDemand == answer.is # "not running"

(* Every query ends, whatever the analyzer does. *)
QueriesEnd == (pc \notin {"idle", "closed"}) ~> (pc \in {"idle", "closed"})
=============================================================================
