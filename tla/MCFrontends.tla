---------------------------- MODULE MCFrontends -----------------------------
(***************************************************************************)
(* QuerySession, ReloadingMcp and ContinuationCache for TLC.               *)
(*                                                                         *)
(* A behaviour follows one scenario, chosen in its initial state.  In      *)
(* "Session" the extended module is at work, with the constants of the     *)
(* configuration; in the others its variables stay as they begin and an    *)
(* instance over variables of its own is, with bounds of its own: another  *)
(* session, the bootstrap in front of the service or the cache of pages in *)
(* it.  The variables of an instance that is not at work are Absent.       *)
(***************************************************************************)
EXTENDS QuerySession, Sequences

CONSTANT Absent      \* the value of the variables that no component uses

VARIABLES
    scenario,
    \* pc, request, source, edits of the instances,
    place, query, content, changed,
    \* the rest of an instance of ReloadingMcp,
    config, life, changes, exits, asked, sel, backend, fp, procs, waited, answer,
    \* of one of QuerySession: manifest, lease, other, bound, fresh,
    \* registrations, view, exact, complete, callers, structural, semantic,
    \* scan, response and requests,
    published, holder, theirs, named, current, loaded, connected,
    kept, whole, called, graph, runner, scanned, reply, tally,
    \* and of one of ContinuationCache.
    secret, epoch, cache, index, bytes, stores, tokens, page

\* What a backend takes for its work: an initialization within the wait, or one
\* behind a session-start update.
Prompt == [query |-> 1, refresh |-> 4, initialize |-> 1]
SlowStart == [query |-> 1, refresh |-> 4, initialize |-> 4]

\* k1 has more than one page in both sources, k2 only in the first.
Lengths == [k1 |-> [s1 |-> 3, s2 |-> 2], k2 |-> [s1 |-> 2, s2 |-> 1]]

ReloadSelects == INSTANCE ReloadingMcp WITH
    Patience <- 2,
    MaxRequests <- 3, Kinds <- {"query", "meta"}, Takes <- Prompt,
    MaxChanges <- 2, MaxExits <- 1,
    pc <- place, request <- query

ReloadLate == INSTANCE ReloadingMcp WITH
    Patience <- 2, MaxRequests <- 3,
    Kinds <- {"query", "refresh"}, Takes <- Prompt, MaxChanges <- 1,
    MaxExits <- 1,
    pc <- place, request <- query

ReloadEnds == INSTANCE ReloadingMcp WITH
    Patience <- 2, MaxRequests <- 2,
    Kinds <- {"query", "refresh", "notification"}, Takes <- SlowStart,
    MaxChanges <- 1, MaxExits <- 1,
    pc <- place, request <- query

SessionRetry == INSTANCE QuerySession WITH
    Sources <- {"a", "b"},
    StalePolicy <- "warn", Tools <- {"references", "refresh_index"},
    AutoUpdate <- "on-query", Failures <- TRUE, MaxEdits <- 2,
    MaxGenerations <- 3, MaxRequests <- 2,
    source <- content, edits <- changed, pc <- place, request <- query,
    manifest <- published, lease <- holder, other <- theirs, bound <- named,
    fresh <- current, registrations <- loaded, view <- connected, exact <- kept,
    complete <- whole, callers <- called, structural <- graph, semantic <- runner,
    scan <- scanned, response <- reply, requests <- tally

SessionCaches == INSTANCE QuerySession WITH
    Sources <- {"a", "b"},
    StalePolicy <- "error", Tools <- {"references", "callers"},
    AutoUpdate <- "off", Failures <- FALSE, MaxEdits <- 1,
    MaxGenerations <- 2, MaxRequests <- 3,
    source <- content, edits <- changed, pc <- place, request <- query,
    manifest <- published, lease <- holder, other <- theirs, bound <- named,
    fresh <- current, registrations <- loaded, view <- connected, exact <- kept,
    complete <- whole, callers <- called, structural <- graph, semantic <- runner,
    scan <- scanned, response <- reply, requests <- tally

Pages == INSTANCE ContinuationCache WITH
    Keys <- {"k1", "k2"},
    Sources <- {"s1", "s2"}, AnswerLen <- Lengths, PageSizes <- {1, 2},
    MaxEntries <- 2, MaxBytes <- 4, MaxEntryBytes <- 3, MaxEdits <- 1,
    MaxStores <- 3, MaxEpochs <- 1,
    source <- content, edits <- changed, request <- query, session <- secret

Clears == INSTANCE ContinuationCache WITH
    Keys <- {"k1", "k2"},
    Sources <- {"s1", "s2"}, AnswerLen <- Lengths, PageSizes <- {1},
    MaxEntries <- 2, MaxBytes <- 4, MaxEntryBytes <- 3, MaxEdits <- 1,
    MaxStores <- 2, MaxEpochs <- 3,
    source <- content, edits <- changed, request <- query, session <- secret

shared == <<place, query, content, changed>>
ofReloading == <<config, life, changes, exits, asked, sel, backend, fp, procs, waited, answer>>
ofSession == <<published, holder, theirs, named, current, loaded, connected, kept, whole,
               called, graph, runner, scanned, reply, tally>>
ofPages == <<secret, epoch, cache, index, bytes, stores, tokens, page>>
all == <<vars, scenario, shared, ofReloading, ofSession, ofPages>>

NoReloading ==
    /\ config = Absent /\ life = Absent /\ changes = Absent /\ exits = Absent
    /\ asked = Absent /\ sel = Absent /\ backend = Absent /\ fp = Absent
    /\ procs = Absent /\ waited = Absent /\ answer = Absent
NoSession ==
    /\ published = Absent /\ holder = Absent /\ theirs = Absent /\ named = Absent
    /\ current = Absent /\ loaded = Absent /\ connected = Absent /\ kept = Absent
    /\ whole = Absent /\ called = Absent /\ graph = Absent /\ runner = Absent
    /\ scanned = Absent /\ reply = Absent /\ tally = Absent
NoPages ==
    /\ secret = Absent /\ epoch = Absent /\ cache = Absent /\ index = Absent
    /\ bytes = Absent /\ stores = Absent /\ tokens = Absent /\ page = Absent
OnlyReloading == content = Absent /\ changed = Absent /\ NoSession /\ NoPages
OnlySession == NoReloading /\ NoPages
OnlyPages == place = Absent /\ NoReloading /\ NoSession

\* Of two sessions that begin with different sources one is looked at.
One == source = "a"

MCInit ==
    /\ Init
    /\ \/ /\ scenario = "Session"
          /\ place = Absent /\ query = Absent /\ content = Absent /\ changed = Absent
          /\ NoReloading /\ NoSession /\ NoPages
       \/ scenario = "ReloadSelects" /\ One /\ ReloadSelects!Init /\ OnlyReloading
       \/ scenario = "ReloadLate" /\ One /\ ReloadLate!Init /\ OnlyReloading
       \/ scenario = "ReloadEnds" /\ One /\ ReloadEnds!Init /\ OnlyReloading
       \/ scenario = "SessionRetry" /\ One /\ SessionRetry!Init /\ OnlySession
       \/ scenario = "SessionCaches" /\ One /\ SessionCaches!Init /\ OnlySession
       \/ scenario = "Pages" /\ One /\ Pages!Init /\ OnlyPages
       \/ scenario = "Clears" /\ One /\ Clears!Init /\ OnlyPages

In(s, Action, others) == scenario = s /\ Action /\ UNCHANGED <<vars, scenario, others>>
NotReloading == <<content, changed, ofSession, ofPages>>
NotSession == <<ofReloading, ofPages>>
NotPages == <<place, ofReloading, ofSession>>

MCNext ==
    \/ scenario = "Session" /\ Next
       /\ UNCHANGED <<scenario, shared, ofReloading, ofSession, ofPages>>
    \/ In("ReloadSelects", ReloadSelects!Next, NotReloading)
    \/ In("ReloadLate", ReloadLate!Next, NotReloading)
    \/ In("ReloadEnds", ReloadEnds!Next, NotReloading)
    \/ In("SessionRetry", SessionRetry!Next, NotSession)
    \/ In("SessionCaches", SessionCaches!Next, NotSession)
    \/ In("Pages", Pages!Next, NotPages)
    \/ In("Clears", Clears!Next, NotPages)

MCSpec ==
    /\ MCInit /\ [][MCNext]_all
    /\ WF_all(In("ReloadEnds", ReloadEnds!Bootstrap, NotReloading))
    /\ WF_all(In("ReloadEnds", ReloadEnds!Tick, NotReloading))
    /\ \A b \in 1..2 :
          WF_all(In("ReloadEnds", b <= Len(procs) /\ ReloadEnds!Backend(b), NotReloading))
    /\ WF_all(In("SessionRetry", SessionRetry!Step, NotSession))
    /\ WF_all(In("SessionRetry", SessionRetry!Deadline, NotSession))

-----------------------------------------------------------------------------
(* A result is of a backend started for the lifecycle state of its request, *)
(* with one backend at a time and none while the project is not ready; a    *)
(* request fails only because its backend died; and what the bootstrap      *)
(* reads after a request was written belongs to that request.               *)
AnsweredBySelected ==
    /\ scenario = "ReloadSelects" =>
        /\ ReloadSelects!AnsweredBySelected
        /\ ReloadSelects!OneBackend
        /\ ReloadSelects!FailsForCause
    /\ scenario = "ReloadLate" => ReloadLate!PipeEmptyAtSend
(* What the service keeps between two queries is whole and its own: the     *)
(* pages a client follows are one complete answer, each served while the    *)
(* source is as it was checked; tokens of an earlier session or generation  *)
(* are rejected; the entries, the key index and the byte counter of the     *)
(* cache agree; supplements cut short by the clock are not cached; and a    *)
(* session that keeps its evidence, or retries a failed refresh, is bound   *)
(* as one that does not.                                                    *)
KeptIsWhole ==
    /\ [](scenario = "Pages" => Pages!PagesOfOneAnswer /\ Pages!CacheAccounted)
    /\ [](scenario = "Clears" => Clears!TokensOfTheirEpoch /\ Clears!CacheAccounted)
    /\ [][scenario = "Clears" => Clears!Revalidated]_all
    /\ [](scenario = "SessionCaches" =>
            SessionCaches!QueryOfOneGeneration /\ SessionCaches!WholeEvidenceCached)
    /\ [](scenario = "SessionRetry" => SessionRetry!AcceptedWasCurrent)
(* Every request ends: the bootstrap's, and the service's behind another    *)
(* process's refresh.                                                       *)
EveryRequestEnds ==
    (scenario \in {"ReloadEnds", "SessionRetry"} /\ place # "idle")
        ~> (scenario \in {"ReloadEnds", "SessionRetry"} => place = "idle")
=============================================================================
