-------------------------- MODULE LifecycleCommands --------------------------
(***************************************************************************)
(* The lifecycle commands of one configured project running side by side   *)
(* (simple_cli.py, project_lifecycle.py): atlas enable, stop, update and   *)
(* verify, among the queries and refreshes of connected sessions.          *)
(*                                                                         *)
(* A command that writes holds the operation lease, then the refresh lease *)
(* exclusively; a query holds the refresh lease shared.  A one-shot query  *)
(* of the advanced CLI and verify hold neither.  Every request looks at    *)
(* the lifecycle state first.                                              *)
(*                                                                         *)
(* Abstractions.  The lifecycle state keeps status, operation generation   *)
(* and Atlas version; the index is a generation number.  The ten artifacts *)
(* of the lifecycle journal are LifecycleJournal, a refresh's artifacts    *)
(* RefreshTransaction, removal is Removal; here the journal holds the      *)
(* lifecycle state only and each of the three is one step.                 *)
(***************************************************************************)
EXTENDS Naturals

CONSTANTS
  Users,     \* processes that run lifecycle commands
  Clients,   \* sessions and one-shot processes that send requests
  Kinds,     \* the requests they send
  MaxOps, MaxRequests, MaxReleases, MaxRaises, MaxKills  \* bounds

ASSUME ConstantsOK ==
  /\ Users \cap Clients = {} /\ "free" \notin Users \cup Clients
  /\ Kinds \subseteq {"query", "refresh", "cli", "verify"}
  /\ {MaxOps, MaxRequests, MaxReleases, MaxRaises, MaxKills} \subseteq Nat

VARIABLES
  life,       \* lifecycle-state.json
  journal,    \* the state a begun operation goes back to, or NoState
  opLock,     \* the operation lease's holder
  exclusive,  \* the refresh lease's exclusive holder
  shared,     \* its shared holders
  index,      \* the published index generation
  latest,     \* the stable release
  cmd,        \* cmd[u]: u's command
  req,        \* req[c]: c's request
  count       \* how often each bounded thing happened

vars == <<life, journal, opLock, exclusive, shared, index, latest, cmd, req, count>>

NoState == [status |-> "none", gen |-> 0, version |-> 0]
NoCmd == [op |-> "none", pc |-> "idle", seen |-> NoState, base |-> NoState, target |-> 0]
NoReq == [kind |-> "none", pc |-> "idle", gen |-> 0, life |-> NoState]

Init ==
  /\ life \in [status : {"ready", "stopped"}, gen : {0}, version : {1}]
  /\ journal = NoState /\ opLock = "free" /\ exclusive = "free" /\ shared = {}
  /\ index = 1 /\ latest = 1
  /\ cmd = [u \in Users |-> NoCmd] /\ req = [c \in Clients |-> NoReq]
  /\ count = [ops |-> 0, requests |-> 0, raises |-> 0, kills |-> 0]

Count(what) == count' = [count EXCEPT ![what] = @ + 1]
\* ProjectLifecycleState.transition
Transition(s, status, version) ==
  [status |-> status, gen |-> s.gen + 1, version |-> version]
At(u, pc) == cmd[u].pc = pc
Goto(u, pc) == cmd' = [cmd EXCEPT ![u].pc = pc]
End(u) == cmd' = [cmd EXCEPT ![u] = NoCmd]
Leave(u) == /\ opLock' = IF opLock = u THEN "free" ELSE opLock
            /\ exclusive' = IF exclusive = u THEN "free" ELSE exclusive

-----------------------------------------------------------------------------
(* The commands.                                                           *)

\* Variant: an interrupted operation is forgotten.
BeginForgets(u, op) ==
  /\ At(u, "idle") /\ opLock = "free" /\ count.ops < MaxOps /\ Count("ops")
  /\ journal' = NoState
  /\ \E v \in 1..latest :
       /\ op = "enable" \/ v = latest
       /\ cmd' = [cmd EXCEPT ![u] = [NoCmd EXCEPT
            !.op = op, !.target = v, !.pc = IF op = "update" THEN "prepare" ELSE "lock"]]
  /\ UNCHANGED <<life, opLock, exclusive, shared, index, latest, req>>

\* main() has found a release for enable: the latest or, offline, the one it
\* runs.  Then _recover_before_mutation takes and gives back the operation
\* lease; a command that finds it held ends as blocked.
Begin(u, op) ==
  /\ At(u, "idle") /\ opLock = "free" /\ count.ops < MaxOps /\ Count("ops")
  /\ IF journal = NoState THEN UNCHANGED <<life, journal>>
     ELSE life' = journal /\ journal' = NoState
  /\ \E v \in 1..latest :
       /\ op = "enable" \/ v = latest
       /\ cmd' = [cmd EXCEPT ![u] = [NoCmd EXCEPT
            !.op = op, !.target = v, !.pc = IF op = "update" THEN "prepare" ELSE "lock"]]
  /\ UNCHANGED <<opLock, exclusive, shared, index, latest, req>>

\* update reads the state without a lease, then downloads and installs.
Prepare(u) ==
  /\ At(u, "prepare")
  /\ IF life.status \in {"ready", "stopped"} /\ latest > life.version
     THEN cmd' = [cmd EXCEPT ![u].pc = "lock", ![u].seen = life, ![u].target = latest]
     ELSE End(u)
  /\ UNCHANGED <<life, journal, opLock, exclusive, shared, index, latest, req, count>>

\* The operation lease is not waited for.  stop has nothing to do for a
\* stopped project.
Lock(u) ==
  /\ At(u, "lock")
  /\ IF opLock # "free" \/ (cmd[u].op = "stop" /\ life.status = "stopped")
     THEN End(u) /\ UNCHANGED opLock
     ELSE /\ opLock' = u
          /\ cmd' = [cmd EXCEPT ![u].pc = "lease",
                     ![u].seen = IF cmd[u].op = "update" THEN @ ELSE life]
  /\ UNCHANGED <<life, journal, exclusive, shared, index, latest, req, count>>

\* Variant: readers are not waited for.
LeaseOverReaders(u) ==
  /\ At(u, "lease") /\ exclusive = "free"
  /\ exclusive' = u /\ Goto(u, "check")
  /\ UNCHANGED <<life, journal, opLock, shared, index, latest, req, count>>

\* _acquire_refresh: polls until its deadline ...
Lease(u) ==
  /\ At(u, "lease") /\ exclusive = "free" /\ shared = {}
  /\ exclusive' = u /\ Goto(u, "check")
  /\ UNCHANGED <<life, journal, opLock, shared, index, latest, req, count>>

\* ... then the command gives up.
LeaseTimeout(u) ==
  /\ At(u, "lease") /\ (exclusive # "free" \/ shared # {})
  /\ Leave(u) /\ End(u)
  /\ UNCHANGED <<life, journal, shared, index, latest, req, count>>

\* Variant: update goes on with the state it read before the download.
CheckStale(u) ==
  /\ At(u, "check")
  /\ IF journal = NoState
     THEN /\ cmd' = [cmd EXCEPT ![u].pc = "first", ![u].base = cmd[u].seen]
          /\ journal' = life /\ UNCHANGED <<opLock, exclusive>>
     ELSE Leave(u) /\ End(u) /\ UNCHANGED journal
  /\ UNCHANGED <<life, shared, index, latest, req, count>>

\* update loads the state again and compares the generation;
\* LifecycleRecoveryJournal.begin refuses while another journal waits.
Check(u) ==
  /\ At(u, "check")
  /\ IF journal = NoState /\ (cmd[u].op = "update" => life.gen = cmd[u].seen.gen)
     THEN /\ cmd' = [cmd EXCEPT ![u].pc = "first",
                     ![u].base = IF cmd[u].op = "update" THEN life ELSE cmd[u].seen]
          /\ journal' = life /\ UNCHANGED <<opLock, exclusive>>
     ELSE Leave(u) /\ End(u) /\ UNCHANGED journal
  /\ UNCHANGED <<life, shared, index, latest, req, count>>

Publish(u, status, version, pc) ==
  /\ life' = Transition(cmd[u].base, status, version)
  /\ cmd' = [cmd EXCEPT ![u].pc = pc, ![u].base = life']

\* stopping, updating or enabling; a ready project is enabled as it is.
First(u) ==
  /\ At(u, "first")
  /\ IF cmd[u].op = "enable" /\ cmd[u].base.status = "ready"
     THEN Goto(u, "work") /\ UNCHANGED life
     ELSE Publish(u, [stop |-> "stopping", update |-> "updating",
                      enable |-> "enabling"][cmd[u].op], cmd[u].base.version, "work")
  /\ UNCHANGED <<journal, opLock, exclusive, shared, index, latest, req, count>>

\* Configuration and Codex block (LifecycleJournal); enable indexes what is not
\* current.
WorkOn(u) ==
  /\ At(u, "work")
  /\ index' \in IF cmd[u].op = "enable" THEN {index, index + 1} ELSE {index}
  /\ Goto(u, IF cmd[u].op = "stop" THEN "final" ELSE "accept")
  /\ UNCHANGED <<life, journal, opLock, exclusive, shared, latest, req, count>>

\* Variant: the acceptance query takes the refresh lease shared.
AcceptBound(u) ==
  /\ At(u, "accept") /\ exclusive = "free"
  /\ Publish(u, "ready", cmd[u].target, "final")
  /\ UNCHANGED <<journal, opLock, exclusive, shared, index, latest, req, count>>

\* The state becomes ready so that the acceptance query passes the gate.
Accept(u) ==
  /\ At(u, "accept")
  /\ IF cmd[u].op = "enable" /\ life.status = "ready"
     THEN Goto(u, "final") /\ UNCHANGED life
     ELSE Publish(u, "ready", cmd[u].target, "final")
  /\ UNCHANGED <<journal, opLock, exclusive, shared, index, latest, req, count>>

\* After the acceptance: enable records version and index generation, update
\* puts a project it had found stopped back.
Final(u) ==
  /\ At(u, "final")
  /\ CASE cmd[u].op = "stop" -> Publish(u, "stopped", cmd[u].base.version, "commit")
       [] cmd[u].op = "update" /\ cmd[u].seen.status = "stopped" ->
            Publish(u, "stopped", cmd[u].target, "commit")
       [] cmd[u].op = "update" /\ cmd[u].seen.status # "stopped" ->
            Goto(u, "commit") /\ UNCHANGED life
       [] cmd[u].op = "enable" ->
            \/ Publish(u, "ready", cmd[u].target, "commit")
            \/ life.version = cmd[u].target /\ Goto(u, "commit") /\ UNCHANGED life
  /\ UNCHANGED <<journal, opLock, exclusive, shared, index, latest, req, count>>

\* durable.commit() and the finally clause.
Commit(u) ==
  /\ At(u, "commit") /\ journal' = NoState /\ Leave(u) /\ End(u)
  /\ UNCHANGED <<life, shared, index, latest, req, count>>

Begun == {"first", "work", "accept", "final", "commit"}

\* Any step after the journal raises; acceptance fails.
Raise(u) ==
  /\ cmd[u].pc \in Begun /\ count.raises < MaxRaises /\ Count("raises")
  /\ Goto(u, "undo")
  /\ UNCHANGED <<life, journal, opLock, exclusive, shared, index, latest, req>>

\* The rollback in the except clause, under both leases.
Undo(u) ==
  /\ At(u, "undo") /\ life' = journal /\ journal' = NoState /\ Leave(u) /\ End(u)
  /\ UNCHANGED <<shared, index, latest, req, count>>

\* The process dies: the system gives its leases back, the journal stays.
Kill(u) ==
  /\ ~At(u, "idle") /\ count.kills < MaxKills /\ Count("kills")
  /\ Leave(u) /\ End(u)
  /\ UNCHANGED <<life, journal, shared, index, latest, req>>

Release ==
  /\ latest < MaxReleases /\ latest' = latest + 1
  /\ UNCHANGED <<life, journal, opLock, exclusive, shared, index, cmd, req, count>>

-----------------------------------------------------------------------------
(* Requests.                                                               *)

\* operational_lifecycle_status: the gate of every request.  A one-shot query
\* goes on to read the index it found; verify to its checks.
Gate(c) ==
  /\ req[c].pc = "idle" /\ life.status = "ready"
  /\ count.requests < MaxRequests /\ Count("requests")
  /\ \E k \in Kinds :
       req' = [req EXCEPT ![c] = [kind |-> k, gen |-> index, life |-> NoState,
                 pc |-> CASE k = "cli" -> "reading" [] k = "verify" -> "snapshot"
                          [] OTHER -> "waiting"]]
  /\ UNCHANGED <<life, journal, opLock, exclusive, shared, index, latest, cmd>>

\* RefreshCoordinator.query_snapshot, or the lease of a refresh.  The gate is
\* not looked at again.
Acquire(c) ==
  /\ req[c].pc = "waiting" /\ exclusive = "free"
  /\ \/ /\ req[c].kind = "query" /\ shared' = shared \cup {c} /\ UNCHANGED exclusive
     \/ /\ req[c].kind = "refresh" /\ shared = {} /\ exclusive' = c /\ UNCHANGED shared
  /\ req' = [req EXCEPT ![c].pc = "reading", ![c].gen = index]
  /\ UNCHANGED <<life, journal, opLock, index, latest, cmd, count>>

WaitTimeout(c) ==
  /\ req[c].pc = "waiting"
  /\ exclusive # "free" \/ (req[c].kind = "refresh" /\ shared # {})
  /\ req' = [req EXCEPT ![c] = NoReq]
  /\ UNCHANGED <<life, journal, opLock, exclusive, shared, index, latest, cmd, count>>

\* The answer leaves, the lease is given back; a refresh publishes.
Answer(c) ==
  /\ req[c].pc = "reading" /\ req' = [req EXCEPT ![c] = NoReq]
  /\ index' = IF req[c].kind = "refresh" THEN index + 1 ELSE index
  /\ shared' = shared \ {c}
  /\ exclusive' = IF exclusive = c THEN "free" ELSE exclusive
  /\ UNCHANGED <<life, journal, opLock, latest, cmd, count>>

\* verify_project: protected_snapshot, the query of an owned Provider, again
\* the snapshot.  PASS when they agree.
Snapshot(c) ==
  /\ req[c].pc = "snapshot"
  /\ req' = [req EXCEPT ![c].pc = "compare", ![c].gen = index, ![c].life = life]
  /\ UNCHANGED <<life, journal, opLock, exclusive, shared, index, latest, cmd, count>>

Compare(c) ==
  /\ req[c].pc = "compare"
  /\ req' = [req EXCEPT ![c].pc = IF req[c].gen = index /\ req[c].life = life
                                  THEN "pass" ELSE "incomplete"]
  /\ UNCHANGED <<life, journal, opLock, exclusive, shared, index, latest, cmd, count>>

Verdict(c) ==
  /\ req[c].pc \in {"pass", "incomplete"} /\ req' = [req EXCEPT ![c] = NoReq]
  /\ UNCHANGED <<life, journal, opLock, exclusive, shared, index, latest, cmd, count>>

Step(u) == Prepare(u) \/ Lock(u) \/ Lease(u) \/ LeaseTimeout(u) \/ Check(u) \/ First(u)
           \/ WorkOn(u) \/ Accept(u) \/ Final(u) \/ Commit(u) \/ Undo(u)
Serve(c) == Acquire(c) \/ WaitTimeout(c) \/ Answer(c) \/ Snapshot(c) \/ Compare(c)
            \/ Verdict(c)

Next == \/ \E u \in Users : \/ \E op \in {"enable", "stop", "update"} : Begin(u, op)
                            \/ Step(u) \/ Raise(u) \/ Kill(u)
        \/ \E c \in Clients : Gate(c) \/ Serve(c)
        \/ Release

Spec == Init /\ [][Next]_vars
\* A process that runs goes on to its answer.
FairSpec == Spec /\ (\A u \in Users : WF_vars(Step(u))) /\ (\A c \in Clients : WF_vars(Serve(c)))

-----------------------------------------------------------------------------
Status == {"ready", "stopped", "enabling", "stopping", "updating"}
State == [status : Status, gen : Nat, version : Nat]

\* Type correctness; the holder of a lease is at a step that holds it.
TypeOK ==
  /\ life \in State /\ journal \in State \cup {NoState} /\ {index, latest} \subseteq Nat
  /\ opLock \in Users \cup {"free"} /\ exclusive \in Users \cup Clients \cup {"free"}
  /\ shared \subseteq Clients
  /\ cmd \in [Users -> [op : {"none", "enable", "stop", "update"},
                        pc : {"idle", "prepare", "lock", "lease", "check", "undo"} \cup Begun,
                        seen : State \cup {NoState}, base : State \cup {NoState}, target : Nat]]
  /\ req \in [Clients -> [kind : Kinds \cup {"none"}, gen : Nat, life : State \cup {NoState},
               pc : {"idle", "waiting", "reading", "snapshot", "compare", "pass", "incomplete"}]]
  /\ count \in [{"ops", "requests", "raises", "kills"} -> Nat]
  /\ \A u \in Users : opLock = u <=> cmd[u].pc \in {"lease", "check", "undo"} \cup Begun
  /\ \A u \in Users : exclusive = u <=> cmd[u].pc \in {"check", "undo"} \cup Begun

\* A query or refresh of a session works on one published generation: no other
\* session, and no command that indexes, publishes while it holds its lease.
OneGeneration ==
  \A c \in Clients : (req[c].pc = "reading" /\ req[c].kind # "cli") => req[c].gen = index

\* A state in transition has a live owner or a journal to go back to: there is
\* no way to leave a project between two states for good.
TransitionIsOwned ==
  life.status \in {"enabling", "stopping", "updating"} => journal # NoState

\* What a command publishes follows the state it replaces, and only a rollback
\* or recovery goes back, to the state the journal holds.
Follows == life' # life => life'.gen = life.gen + 1 \/ life' = journal

\* An update never publishes an older Atlas than the one the project uses,
\* whatever it read before it downloaded the release.
Upgrades ==
  \A u \in Users : (cmd[u].op = "update" /\ ~At(u, "undo") /\ cmd'[u] # cmd[u]
                    /\ opLock = u /\ opLock' = u)
    => life'.version >= life.version

\* A project that was stopped when an update took it over is stopped when the
\* update commits, a ready one is ready.
UpdateKeepsStatus ==
  \A u \in Users : cmd[u].op = "update" /\ At(u, "commit") => life.status = journal.status

\* No command has failed or died.  One that did puts an older state back, and
\* another command may then count up to the generation an update has read.
Unfailing == count.raises = 0 /\ count.kills = 0

\* Nobody's change to the lifecycle state is lost under a command that began
\* before it; and as long as no command fails, an update that others get in
\* the way of keeps the version and the status the project has come to.
NothingOverwritten ==
  [][Follows /\ (Unfailing => Upgrades /\ UpdateKeepsStatus)]_vars

\* Every command comes to its end and gives both leases back, whoever else
\* runs: commands, queries and refreshes never wait for each other in a circle.
CommandsEnd ==
  /\ \A u \in Users : ~At(u, "idle") ~> At(u, "idle")
  /\ \A c \in Clients : req[c].pc # "idle" ~> req[c].pc = "idle"

\* docs/ATLAS_SIMPLE_LIFECYCLE_DESIGN.md:109: a project that was stopped
\* before an update is stopped after it.
StoppedStays ==
  \A u \in Users : cmd[u].op = "update" /\ At(u, "commit") /\ journal.status = "stopped"
                  => life.status = "stopped"

\* docs/ATLAS_SIMPLE_LIFECYCLE_DESIGN.md:80: once stop has published its state
\* no query is executed.
StoppedIsQuiet ==
  \A c \in Clients : (req[c].pc = "reading" /\ req[c].kind = "query") => life.status # "stopped"

\* docs/LIFECYCLE_CONTRACT.md:15: a stopped project's verify is BLOCKED, never PASS.
PassMeansReady ==
  [][\A c \in Clients : req'[c].pc = "pass" => life.status # "stopped"]_vars

\* docs/ATLAS_SIMPLE_LIFECYCLE_DESIGN.md: ready is published only after the
\* acceptance, so requests are admitted by an accepted state.
ReadyIsAccepted ==
  (life.status = "ready" /\ journal # NoState) => journal.status = "ready"
=============================================================================
