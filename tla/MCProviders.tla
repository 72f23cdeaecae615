---------------------------- MODULE MCProviders -----------------------------
(***************************************************************************)
(* RustRefresh and instances of ProviderTransport, RustSession,            *)
(* SerenaSession and RustRefresh for TLC.                                  *)
(*                                                                         *)
(* A behaviour follows one scenario, chosen in its initial state: one of   *)
(* the components with bounds of its own. A project has one language and   *)
(* one provider for it, and the index of Rust facts is refreshed under the *)
(* project's exclusive lease, when no query runs: the variables of those   *)
(* that are not at work are Absent, and those of RustRefresh as they begin.*)
(***************************************************************************)
EXTENDS RustRefresh

CONSTANT Absent      \* the value of the variables that no component uses

VARIABLES
    scenario,
    lock, tr, child, result,
    contents, started, process, opened, ready, pc, query, sawEmpty, tries, expired, answer,
    changes, crashes, asked,        \* contents, changes: disk and edits of RustSession
    responses, request, noise

TransportLate == INSTANCE ProviderTransport WITH
    Sessions <- {"s1"},
    Exclusive <- FALSE, Lingers <- TRUE, IdleExits <- TRUE, MaxCalls <- 2,
    MaxChildren <- 2

TransportExclusive == INSTANCE ProviderTransport WITH
    Sessions <- {"s1", "s2"}, Exclusive <- TRUE, Lingers <- FALSE,
    IdleExits <- FALSE, MaxCalls <- 2, MaxChildren <- 2

TransportShared == INSTANCE ProviderTransport WITH
    Sessions <- {"s1", "s2"}, Exclusive <- FALSE, Lingers <- FALSE,
    IdleExits <- TRUE, MaxCalls <- 1, MaxChildren <- 1

RustAnswers == INSTANCE RustSession WITH
    disk <- contents, edits <- changes, SlowLoad <- FALSE,
    EditsInQuery <- FALSE, Reverts <- FALSE, MaxEdits <- 2, MaxCrashes <- 1,
    MaxQueries <- 3, MaxTries <- 2

RustEnds == INSTANCE RustSession WITH
    disk <- contents, edits <- changes, SlowLoad <- TRUE,
    EditsInQuery <- TRUE, Reverts <- TRUE, MaxEdits <- 2, MaxCrashes <- 1,
    MaxQueries <- 3, MaxTries <- 2

\* Two kills, but not of a rollback, and one process.
RustSettles == INSTANCE RustRefresh WITH
    MaxGenerations <- 2, MaxEdits <- 0, MaxKills <- 2, KilledUndoing <- FALSE

SerenaAnswers == INSTANCE SerenaSession WITH
    MaxNoise <- 0,
    MaxCrashes <- 2, MaxQueries <- 4

SerenaHeld == INSTANCE SerenaSession WITH
    MaxNoise <- 1, MaxCrashes <- 1,
    MaxQueries <- 3

mcVars == <<vars, scenario, lock, tr, child, result, contents, started, process, opened,
             ready, pc, query, sawEmpty, tries, expired, answer, changes, crashes, asked,
             responses, request, noise>>

\* Not of ProviderTransport, and without a value while it is at work.
NotProviderTransport == <<vars, contents, started, process, opened, ready, pc, query,
        sawEmpty, tries, expired, answer, changes, crashes, asked, responses, request, noise>>
OnlyProviderTransport ==
    /\ Init
    /\ contents = Absent /\ started = Absent /\ process = Absent
    /\ opened = Absent /\ ready = Absent /\ pc = Absent /\ query = Absent
    /\ sawEmpty = Absent /\ tries = Absent /\ expired = Absent /\ answer = Absent
    /\ changes = Absent /\ crashes = Absent /\ asked = Absent
    /\ responses = Absent /\ request = Absent /\ noise = Absent

\* Not of RustSession, and without a value while it is at work.
NotRustSession == <<vars, lock, tr, result, responses, request, noise>>
OnlyRustSession ==
    /\ Init
    /\ lock = Absent /\ tr = Absent /\ result = Absent
    /\ responses = Absent /\ request = Absent /\ noise = Absent

\* Not of RustRefresh, and without a value while it is at work.
NotRustRefresh == <<lock, tr, child, result, contents, started, process, opened, ready, pc,
        query, sawEmpty, tries, expired, answer, changes, crashes, asked, responses, request, noise>>
OnlyRustRefresh ==
    /\ lock = Absent /\ tr = Absent /\ child = Absent /\ result = Absent
    /\ contents = Absent /\ started = Absent /\ process = Absent /\ opened = Absent
    /\ ready = Absent /\ pc = Absent /\ query = Absent /\ sawEmpty = Absent
    /\ tries = Absent /\ expired = Absent /\ answer = Absent /\ changes = Absent /\ crashes = Absent
    /\ asked = Absent /\ responses = Absent /\ request = Absent /\ noise = Absent

\* Not of SerenaSession, and without a value while it is at work.
NotSerenaSession == <<vars, lock, tr, result, contents, opened, ready, query, sawEmpty,
        tries, expired, changes, asked>>
OnlySerenaSession ==
    /\ Init
    /\ lock = Absent /\ tr = Absent /\ result = Absent /\ contents = Absent
    /\ opened = Absent /\ ready = Absent /\ query = Absent
    /\ sawEmpty = Absent /\ tries = Absent /\ expired = Absent
    /\ changes = Absent /\ asked = Absent

In(s, Action, others) == scenario = s /\ Action /\ UNCHANGED <<scenario, others>>

mcInit ==
    \/ scenario = "TransportLate" /\ TransportLate!Init /\ OnlyProviderTransport
    \/ scenario = "TransportExclusive" /\ TransportExclusive!Init /\ OnlyProviderTransport
    \/ scenario = "TransportShared" /\ TransportShared!Init /\ OnlyProviderTransport
    \/ scenario = "RustAnswers" /\ RustAnswers!Init /\ OnlyRustSession
    \/ scenario = "RustEnds" /\ RustEnds!Init /\ OnlyRustSession
    \/ scenario = "RustPublish" /\ Init /\ OnlyRustRefresh
    \/ scenario = "RustSettles" /\ RustSettles!Init /\ OnlyRustRefresh
    \/ scenario = "RustFacts" /\ Init /\ OnlyRustRefresh
    \/ scenario = "SerenaAnswers" /\ SerenaAnswers!Init /\ OnlySerenaSession
    \/ scenario = "SerenaHeld" /\ SerenaHeld!Init /\ OnlySerenaSession

\* The second process does nothing.
OneProcess == run'["q"] = Idle

mcNext ==
    \/ In("TransportLate", TransportLate!Next, NotProviderTransport)
    \/ In("TransportExclusive", TransportExclusive!Next, NotProviderTransport)
    \/ In("TransportShared", TransportShared!Next, NotProviderTransport)
    \/ In("RustAnswers", RustAnswers!Next, NotRustSession)
    \/ In("RustEnds", RustEnds!Next, NotRustSession)
    \/ In("RustPublish", Next /\ edits' = 0, NotRustRefresh)
    \/ In("RustSettles", RustSettles!Next /\ OneProcess, NotRustRefresh)
    \/ In("RustFacts", Next /\ OneProcess /\ kills' = 0 /\ faults' = 0 /\ Len(made') < 3,
          NotRustRefresh)
    \/ In("SerenaAnswers", SerenaAnswers!Next, NotSerenaSession)
    \/ In("SerenaHeld", SerenaHeld!Next, NotSerenaSession)

MCSpec ==
    /\ mcInit /\ [][mcNext]_mcVars
    /\ \A s \in {"s1", "s2"} : WF_mcVars(In("TransportShared", TransportShared!Session(s), NotProviderTransport))
    /\ \A s \in {"s1", "s2"} : WF_mcVars(In("TransportShared", TransportShared!Reader(s), NotProviderTransport))
    /\ WF_mcVars(In("RustEnds", RustEnds!Steps, NotRustSession))
    /\ WF_mcVars(In("SerenaHeld", SerenaHeld!Steps, NotSerenaSession))
    /\ WF_mcVars(In("RustSettles", RustSettles!Step("p"), NotRustRefresh))
    /\ WF_mcVars(In("RustSettles", RustSettles!Enter("p", "recover"), NotRustRefresh))

-----------------------------------------------------------------------------
(* Of RustRefresh itself RestIsLastAccepted, AcceptedStays and             *)
(* FactsOfTheirSource are checked in every scenario.                       *)

(* A call is answered by the child it was sent to, with its own answer, and *)
(* does not fail for what an earlier child did; a query of a session is     *)
(* answered with what was computed for it.                                  *)
OwnAnswers ==
    /\ scenario = "TransportLate" => TransportLate!AnsweredByOwnChild
    /\ scenario = "TransportExclusive" => TransportExclusive!FailsForOwnReason
    /\ scenario = "SerenaAnswers" => SerenaAnswers!OwnAnswers

(* The machine-wide Provider lock goes with the child, a closed service     *)
(* leaves no analyzer, and the one child that runs is the one held.         *)
NothingLeftBehind ==
    /\ scenario = "TransportExclusive" => TransportExclusive!LockGoesWithChild
    /\ scenario = "TransportShared" => TransportShared!LockGoesWithChild
    /\ scenario = "RustAnswers" => RustAnswers!NoOrphan /\ RustAnswers!Held
    /\ scenario = "RustEnds" => RustEnds!NoOrphan /\ RustEnds!Held
    /\ scenario = "SerenaAnswers" => SerenaAnswers!OneChild /\ SerenaAnswers!StartedIsHeld
    /\ scenario = "SerenaHeld" => SerenaHeld!OneChild /\ SerenaHeld!StartedIsHeld

(* The locations of an answer are of the generation it is labelled with.    *)
(* The shard the pointer names exists at every instant, and what refresh()  *)
(* answers of the files is true when it answers.                            *)
AnswersOfGeneration ==
    /\ scenario = "RustAnswers" => RustAnswers!AnswersOfGeneration
    /\ scenario = "RustPublish" => PointerHasShard /\ AnswersTrue

(* That nothing was found is told of a symbol that exists only after some   *)
(* query waited for the analyzer to settle until its deadline.              *)
EmptyAfterDeadline == scenario = "RustEnds" => RustEnds!EmptyAfterDeadline

(* Every call and query ends, whatever the child does and whoever holds the *)
(* lock, and a journal left behind is settled by the next recovery.         *)
QueriesEnd ==
    /\ \A s \in {"s1", "s2"} :
        (scenario = "TransportShared" /\ tr[s].pc # "idle")
            ~> (scenario = "TransportShared" => tr[s].pc = "idle")
    /\ (scenario \in {"RustEnds", "SerenaHeld"} /\ pc \notin {"idle", "closed"})
        ~> (scenario \in {"RustEnds", "SerenaHeld"} => pc \in {"idle", "closed"})
    /\ (scenario = "RustSettles" /\ journal # NoJournal)
        ~> (scenario = "RustSettles" => journal = NoJournal)
=============================================================================
