---------------------------- MODULE ReloadingMcp ----------------------------
(***************************************************************************)
(* The stable MCP bootstrap of a host connection (reloadable_mcp.py): at   *)
(* each request it reads the project's config and lifecycle again, keeps   *)
(* one backend process for what it read, and replaces it when that         *)
(* changes.  A backend answers on a pipe; a thread of the bootstrap queues *)
(* what it reads there.  Beside it somebody edits the config, stops,       *)
(* resumes and updates the project, and backends crash.                    *)
(*                                                                         *)
(* A config and a lifecycle state are numbers that grow with each change;  *)
(* a tick is a part of the 65 s the bootstrap waits for an answer.         *)
(***************************************************************************)
EXTENDS Integers, Sequences, FiniteSets

CONSTANTS
    Kinds,              \* the requests of the host: see Working
    Patience,           \* ticks until a response is given up
    Takes,              \* [kind -> the most ticks a backend works on it]
    MaxChanges, MaxExits, MaxRequests   \* bounds of the exploration

VARIABLES
    config,         \* the identity of the config file
    life,           \* [gen, ok]: the lifecycle state
    changes, exits, asked,      \* bounded counters
    pc,             \* the bootstrap: where it is in the request
    request,        \* [id, kind, config, life]: it, and the project when it arrived
    sel,            \* the config and lifecycle read for it
    backend, fp,    \* the backend in use, 0 for none, and its fingerprint
    procs,          \* every backend process started
    waited,         \* ticks spent in the current wait
    answer          \* the last answer to the host

vars == <<config, life, changes, exits, asked, pc, request, sel, backend, fp, procs,
          waited, answer>>

InitializeId == 0
NoId == -1
NoWork == [id |-> NoId, kind |-> "none", spent |-> 0]
NoRequest == [id |-> NoId, kind |-> "none", config |-> 0, life |-> 0]
NoAnswer == [id |-> NoId, is |-> "none", config |-> 0, life |-> 0, cause |-> "none"]
Nothing == [config |-> 0, life |-> 0]

Init ==
    /\ config = 1 /\ life = [gen |-> 1, ok |-> TRUE]
    /\ changes = 0 /\ exits = 0 /\ asked = 0
    /\ pc = "idle" /\ request = NoRequest /\ sel = Nothing
    /\ backend = 0 /\ fp = Nothing /\ procs = <<>> /\ waited = 0 /\ answer = NoAnswer

project == <<config, life, changes>>
host == <<asked, request>>

Live(b) == b > 0 /\ procs[b].alive
Closed(b) == IF b = 0 THEN procs ELSE [procs EXCEPT ![b].alive = FALSE]
Tells(is, c, l, cause) ==
    answer' = [id |-> request.id, is |-> is, config |-> c, life |-> l, cause |-> cause]

----------------------------------------------------------------------------
(* The project changes: a config edit, or an enable, stop, resume, update. *)
ChangeConfig ==
    /\ changes < MaxChanges /\ changes' = changes + 1 /\ config' = config + 1
    /\ UNCHANGED <<life, exits, host, pc, sel, backend, fp, procs, waited, answer>>

ChangeLife ==
    /\ changes < MaxChanges /\ changes' = changes + 1
    /\ \E ok \in BOOLEAN : life' = [gen |-> life.gen + 1, ok |-> ok]
    /\ UNCHANGED <<config, exits, host, pc, sel, backend, fp, procs, waited, answer>>

----------------------------------------------------------------------------
(* One request after the other (run_stdio): it is selected for anew. *)
Receive(kind) ==
    /\ pc = "idle" /\ asked < MaxRequests
    /\ asked' = asked + 1
    /\ request' = [id |-> asked + 1, kind |-> kind, config |-> config, life |-> life.gen]
    /\ pc' = "resolve"
    /\ UNCHANGED <<project, exits, sel, backend, fp, procs, waited, answer>>

(* _selection: the identity of the config before and after it is loaded,
   then the lifecycle.  A config replaced in between makes it unavailable. *)
Resolve ==
    /\ pc = "resolve"
    /\ sel' = [sel EXCEPT !.config = config]
    /\ pc' = "load"
    /\ UNCHANGED <<project, exits, host, backend, fp, procs, waited, answer>>

Unavailable(cause) ==
    /\ procs' = Closed(backend) /\ backend' = 0 /\ fp' = Nothing
    /\ Tells(IF request.kind = "meta" THEN "local" ELSE "unavailable", 0, 0, cause)
    /\ pc' = "idle"

Load ==
    /\ pc = "load"
    /\ IF config = sel.config
         THEN pc' = "read_life" /\ UNCHANGED <<procs, backend, fp, answer>>
         ELSE Unavailable("config_changed")
    /\ UNCHANGED <<project, exits, host, sel, waited>>

ReadLife ==
    /\ pc = "read_life"
    /\ sel' = [sel EXCEPT !.life = life.gen]
    /\ IF life.ok
         THEN pc' = "selected" /\ UNCHANGED <<procs, backend, fp, answer>>
         ELSE Unavailable("not_ready")
    /\ UNCHANGED <<project, exits, host, waited>>

(* initialize, ping and tools/list are answered by the bootstrap itself. *)
Meta ==
    /\ pc = "selected" /\ request.kind = "meta"
    /\ IF backend # 0 /\ fp # sel
         THEN procs' = Closed(backend) /\ backend' = 0 /\ fp' = Nothing
         ELSE UNCHANGED <<procs, backend, fp>>
    /\ Tells("local", 0, 0, "none")
    /\ pc' = "idle"
    /\ UNCHANGED <<project, exits, host, sel, waited>>

(* Variant: a backend is kept whatever was read. *)
ReuseAny ==
    /\ pc = "selected" /\ request.kind # "meta"
    /\ backend # 0
    /\ pc' = "send"
    /\ UNCHANGED <<project, exits, host, sel, backend, fp, procs, waited, answer>>

Reuse ==
    /\ pc = "selected" /\ request.kind # "meta"
    /\ backend # 0 /\ fp = sel
    /\ pc' = "send"
    /\ UNCHANGED <<project, exits, host, sel, backend, fp, procs, waited, answer>>

(* The old backend is closed (stdin, 3 s, terminate, 3 s, kill) before the
   new one is started for the selected version and told to initialize.     *)
Start ==
    /\ pc = "selected" /\ request.kind # "meta"
    /\ backend = 0 \/ fp # sel
    /\ procs' = Append(Closed(backend), [alive |-> TRUE, config |-> 0, life |-> sel.life,
                   inbox |-> <<[id |-> InitializeId, kind |-> "initialize", spent |-> 0]>>,
                   work |-> NoWork, out |-> <<>>])
    /\ backend' = 0 /\ fp' = Nothing
    /\ waited' = 0 /\ pc' = "start"
    /\ UNCHANGED <<project, exits, host, sel, answer>>

Started ==
    /\ pc = "start" /\ procs[Len(procs)].out # <<>>
    /\ procs' = [procs EXCEPT ![Len(procs)].out = Tail(@)]
    /\ backend' = Len(procs) /\ fp' = sel
    /\ pc' = "send"
    /\ UNCHANGED <<project, exits, host, sel, waited, answer>>

(* A constructor that raises returns no session: nothing closes the child. *)
StartFails ==
    /\ pc = "start" /\ procs[Len(procs)].out = <<>>
    /\ \/ waited = Patience /\ Live(Len(procs)) /\ Tells("failure", 0, 0, "start_late")
       \/ ~Live(Len(procs)) /\ Tells("failure", 0, 0, "died")
    /\ pc' = "idle"
    /\ UNCHANGED <<project, exits, host, sel, backend, fp, procs, waited>>

(* A notification is written and not waited for. *)
Send ==
    /\ pc = "send" /\ Live(backend)
    /\ procs' = [procs EXCEPT ![backend].inbox =
                    Append(@, [id |-> IF request.kind = "notification" THEN NoId ELSE request.id,
                               kind |-> request.kind, spent |-> 0])]
    /\ pc' = IF request.kind = "notification" THEN "idle" ELSE "wait"
    /\ waited' = 0
    /\ UNCHANGED <<project, exits, host, sel, backend, fp, answer>>

(* Whatever handle raises: the backend is closed and the error returned. *)
Fail(cause) ==
    /\ procs' = Closed(backend) /\ backend' = 0 /\ fp' = Nothing
    /\ Tells("failure", 0, 0, cause)
    /\ pc' = "idle"

SendFails ==
    /\ pc = "send" /\ ~Live(backend)
    /\ Fail("died")
    /\ UNCHANGED <<project, exits, host, sel, waited>>

Answered ==
    /\ pc = "wait" /\ procs[backend].out # <<>>
    /\ IF Head(procs[backend].out) = request.id
         THEN /\ procs' = [procs EXCEPT ![backend].out = Tail(@)]
              /\ Tells("result", procs[backend].config, procs[backend].life, "none")
              /\ pc' = "idle"
              /\ UNCHANGED <<backend, fp>>
         ELSE Fail("mismatch")
    /\ UNCHANGED <<project, exits, host, sel, waited>>

(* Variant: the end of the pipe is not noticed. *)
NotAnsweredUnmarked ==
    /\ pc = "wait" /\ procs[backend].out = <<>>
    /\ waited = Patience /\ Live(backend) /\ Fail("late")
    /\ UNCHANGED <<project, exits, host, sel, waited>>

NotAnswered ==
    /\ pc = "wait" /\ procs[backend].out = <<>>
    /\ \/ waited = Patience /\ Live(backend) /\ Fail("late")
       \/ ~Live(backend) /\ Fail("died")
    /\ UNCHANGED <<project, exits, host, sel, waited>>

----------------------------------------------------------------------------
(* A backend (run_stdio of McpServer): it reads its config when it starts  *)
(* and works on one message after the other.  A method it does not know is *)
(* answered with an error, in a notification too, which has no id.         *)
Takers(b) == Live(b) /\ procs[b].work = NoWork /\ procs[b].inbox # <<>>

Take(b) ==
    LET message == Head(procs[b].inbox) IN
    /\ Takers(b)
    /\ procs' = [procs EXCEPT
         ![b].inbox = Tail(@),
         ![b].work = IF message.kind = "notification" THEN NoWork ELSE message,
         ![b].out = IF message.kind = "notification" THEN Append(@, NoId) ELSE @,
         ![b].config = IF message.id = InitializeId THEN config ELSE @]
    /\ UNCHANGED <<project, exits, host, pc, sel, backend, fp, waited, answer>>

Finish(b) ==
    /\ Live(b) /\ procs[b].work # NoWork
    /\ procs' = [procs EXCEPT ![b].out = Append(@, procs[b].work.id), ![b].work = NoWork]
    /\ UNCHANGED <<project, exits, host, pc, sel, backend, fp, waited, answer>>

Exit(b) ==
    /\ Live(b) /\ exits < MaxExits
    /\ exits' = exits + 1
    /\ procs' = [procs EXCEPT ![b].alive = FALSE]
    /\ UNCHANGED <<project, host, pc, sel, backend, fp, waited, answer>>

(* Time passes where nothing is due: a wait is not over, a backend takes a
   message at once and ends its work within Takes.                         *)
Waiting == pc \in {"start", "wait"}
Tick ==
    /\ Waiting /\ waited < Patience
    /\ \A b \in 1..Len(procs) :
         /\ ~Takers(b)
         /\ Live(b) /\ procs[b].work # NoWork =>
               procs[b].work.spent < Takes[procs[b].work.kind]
    /\ waited' = waited + 1
    /\ procs' = [b \in DOMAIN procs |->
                    IF Live(b) /\ procs[b].work # NoWork
                      THEN [procs[b] EXCEPT !.work.spent = @ + 1] ELSE procs[b]]
    /\ UNCHANGED <<project, exits, host, pc, sel, backend, fp, answer>>

----------------------------------------------------------------------------
Bootstrap ==
    \/ Resolve \/ Load \/ ReadLife \/ Meta \/ Reuse \/ Start \/ Started \/ StartFails
    \/ Send \/ SendFails \/ Answered \/ NotAnswered

Backend(b) == Take(b) \/ Finish(b)

Next ==
    \/ ChangeConfig \/ ChangeLife
    \/ \E kind \in Kinds : Receive(kind)
    \/ Bootstrap
    \/ \E b \in 1..Len(procs) : Backend(b) \/ Exit(b)
    \/ Tick

(* The bootstrap does not stop in a request, a backend takes what it is
   sent and ends its work, and time passes.                                *)
Spec == /\ Init /\ [][Next]_vars
        /\ WF_vars(Bootstrap) /\ WF_vars(Tick)
        /\ \A b \in 1..MaxRequests : WF_vars(b <= Len(procs) /\ Backend(b))

----------------------------------------------------------------------------
TypeOK ==
    /\ config \in 1..(MaxChanges + 1) /\ life \in [gen : 1..(MaxChanges + 1), ok : BOOLEAN]
    /\ changes \in 0..MaxChanges /\ exits \in 0..MaxExits /\ asked \in 0..MaxRequests
    /\ waited \in 0..Patience /\ Len(procs) <= asked
    /\ backend \in 0..Len(procs) /\ (fp = Nothing <=> backend = 0)
    /\ pc \in {"idle", "resolve", "load", "read_life", "selected", "start", "send", "wait"}

(* A result comes from a backend that was started for the lifecycle state  *)
(* read at that request, and has read a config no older than the one there *)
(* was when the request arrived: a stop, a switch of the version or an     *)
(* edit of the config is seen by the very next request.                    *)
AnsweredBySelected ==
    answer.is = "result" /\ answer.id = request.id =>
        /\ answer.life = sel.life /\ answer.life >= request.life
        /\ answer.config >= request.config

(* What is in the pipe when a request is written is no answer: what the    *)
(* bootstrap reads next belongs to that request, whatever was given up     *)
(* before it.                                                              *)
PipeEmptyAtSend ==
    pc = "send" /\ Live(backend) => /\ procs[backend].out = <<>>
                                    /\ procs[backend].work = NoWork

(* One backend at a time, and none once the project was found not ready:   *)
(* two would compete for the Provider and its lock.                        *)
OneBackend ==
    /\ Cardinality({b \in 1..Len(procs) : Live(b)}) <= 1
    /\ answer.is = "unavailable" /\ pc = "idle" => \A b \in 1..Len(procs) : ~Live(b)

(* A request fails only because its backend died, never for what the host  *)
(* asked before it and never while the backend was within its time.        *)
FailsForCause == answer.is = "failure" => answer.cause = "died"

(* Every request ends, with a result or an error. *)
RequestsEnd == pc # "idle" ~> pc = "idle"
=============================================================================
