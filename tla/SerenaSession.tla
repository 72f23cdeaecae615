---------------------------- MODULE SerenaSession ----------------------------
(***************************************************************************)
(* The Serena session of a service (providers/serena.py, service.py and    *)
(* the loop of scripts/serena_runner.py): a child process that reads one   *)
(* JSON request a line and writes one JSON answer a line, without ids; a   *)
(* thread of the provider queues the lines, a query takes the next one.    *)
(* The child is slow, crashes, and its libraries may print a line.         *)
(***************************************************************************)
EXTENDS Integers, Sequences

CONSTANTS
    MaxNoise, MaxCrashes, MaxQueries    \* bounds of the exploration

VARIABLES
    started,        \* AtlasService._semantic_started
    process,        \* the child the provider holds, 0 for none
    child,          \* every child: [alive, ready, inbox]
    responses,      \* what the reader thread queued
    pc, request,    \* where the query is, and its id
    answer,         \* [id, is, of]: the last answer and the request it is of
    noise, crashes  \* bounded counters

vars == <<started, process, child, responses, pc, request, answer, noise, crashes>>

Ready == [is |-> "ready", of |-> 0]
Eof == [is |-> "eof", of |-> 0]
Noise == [is |-> "noise", of |-> 0]

Init ==
    /\ started = FALSE /\ process = 0 /\ child = <<>> /\ responses = <<>>
    /\ pc = "idle" /\ request = 0
    /\ answer = [id |-> 0, is |-> "none", of |-> 0]
    /\ noise = 0 /\ crashes = 0

Live(p) == p > 0 /\ child[p].alive

Tells(is, of) == answer' = [id |-> request, is |-> is, of |-> of] /\ pc' = "idle"

(* _terminate: the child is gone, and the queue of its lines with it: the *)
(* next start makes a new one.                                            *)
Terminated ==
    /\ child' = IF process = 0 THEN child ELSE [child EXCEPT ![process].alive = FALSE]
    /\ process' = 0

----------------------------------------------------------------------------
(* The runner's main: ready, then an answer or an error for each request.  *)
(* What a child prints is queued while the provider holds it.              *)
BecomeReady ==
    /\ Live(process) /\ ~child[process].ready
    /\ child' = [child EXCEPT ![process].ready = TRUE]
    /\ responses' = Append(responses, Ready)
    /\ UNCHANGED <<started, process, pc, request, answer, noise, crashes>>

Respond ==
    /\ Live(process) /\ child[process].ready /\ child[process].inbox # <<>>
    /\ \E is \in {"ok", "error"} :
           responses' = Append(responses, [is |-> is, of |-> Head(child[process].inbox)])
    /\ child' = [child EXCEPT ![process].inbox = Tail(@)]
    /\ UNCHANGED <<started, process, pc, request, answer, noise, crashes>>

Chatter ==
    /\ Live(process) /\ noise < MaxNoise /\ noise' = noise + 1
    /\ responses' = Append(responses, Noise)
    /\ UNCHANGED <<started, process, child, pc, request, answer, crashes>>

Crash ==
    /\ Live(process) /\ crashes < MaxCrashes /\ crashes' = crashes + 1
    /\ child' = [child EXCEPT ![process].alive = FALSE]
    /\ responses' = Append(responses, Eof)
    /\ UNCHANGED <<started, process, pc, request, answer, noise>>

----------------------------------------------------------------------------
(* _ensure_semantic and start: a child that was started is not looked at. *)
Ensure ==
    /\ pc = "idle" /\ request < MaxQueries /\ request' = request + 1
    /\ IF started \/ process # 0
       THEN started' = TRUE /\ pc' = "write" /\ UNCHANGED <<process, child, responses>>
       ELSE /\ child' = Append(child, [alive |-> TRUE, ready |-> FALSE, inbox |-> <<>>])
            /\ process' = Len(child) + 1 /\ responses' = <<>>
            /\ pc' = "start" /\ UNCHANGED started
    /\ UNCHANGED <<answer, noise, crashes>>

(* The first line must say ready; a timeout is answered partially, anything *)
(* else raises, and both terminate the child.                               *)
Started ==
    /\ pc = "start" /\ responses # <<>> /\ Head(responses) = Ready
    /\ responses' = Tail(responses) /\ started' = TRUE /\ pc' = "write"
    /\ UNCHANGED <<process, child, request, answer, noise, crashes>>

NotStarted ==
    /\ pc = "start"
    /\ \/ responses # <<>> /\ Head(responses) # Ready /\ Tells("error", 0)
       \/ Tells("partial", 0)
    /\ Terminated /\ UNCHANGED <<started, responses, request, noise, crashes>>

(* query: the request is written; the pipe of a dead child is broken. *)
Write ==
    /\ pc = "write" /\ Live(process)
    /\ child' = [child EXCEPT ![process].inbox = Append(@, request)]
    /\ pc' = "read"
    /\ UNCHANGED <<started, process, responses, request, answer, noise, crashes>>

WriteFails ==
    /\ pc = "write" /\ ~Live(process)
    /\ Tells("error", 0)
    /\ UNCHANGED <<started, process, child, responses, request, noise, crashes>>

(* The next line is the answer; one that is none raises and leaves the     *)
(* child, and whatever it still is to answer, as it was.                   *)
Read ==
    /\ pc = "read" /\ responses # <<>>
    /\ responses' = Tail(responses)
    /\ IF Head(responses).is = "ok"
       THEN Tells("ok", Head(responses).of)
       ELSE Tells("error", Head(responses).of)
    /\ UNCHANGED <<started, process, child, request, noise, crashes>>

(* A late answer: the child is terminated and the service starts another. *)
ReadTimeout ==
    /\ pc = "read" /\ responses = <<>>
    /\ Terminated /\ started' = FALSE /\ Tells("partial", 0)
    /\ UNCHANGED <<responses, request, noise, crashes>>

(* close: the shutdown handshake and, failing it, terminate and kill.  A     *)
(* stray line read in place of the acknowledgement raises ValueError past   *)
(* all of that: the child lives on, and the service is closed all the same. *)
ReadsStray == Live(process) /\ responses # <<>> /\ Head(responses) = Noise

Close ==
    /\ pc = "idle" /\ pc' = "closed" /\ started' = FALSE
    /\ IF started /\ ~ReadsStray THEN Terminated ELSE UNCHANGED <<process, child>>
    /\ UNCHANGED <<responses, request, answer, noise, crashes>>

----------------------------------------------------------------------------
Steps == Started \/ NotStarted \/ Write \/ WriteFails \/ Read \/ ReadTimeout

Next == BecomeReady \/ Respond \/ Chatter \/ Crash \/ Ensure \/ Steps \/ Close

(* The query goes on, and each of its waits has a timeout. *)
Spec == Init /\ [][Next]_vars /\ WF_vars(Steps)

----------------------------------------------------------------------------
Item == [is : {"ready", "ok", "error", "eof", "noise"}, of : 0..MaxQueries]

TypeOK ==
    /\ started \in BOOLEAN /\ process \in 0..Len(child)
    /\ \A p \in 1..Len(child) :
           child[p].alive \in BOOLEAN /\ child[p].inbox \in Seq(1..MaxQueries)
    /\ responses \in Seq(Item)
    /\ pc \in {"idle", "start", "write", "read", "closed"} /\ request \in 0..MaxQueries
    /\ answer \in [id : 0..MaxQueries, is : {"none", "ok", "error", "partial"}, of : 0..MaxQueries]

(* The answer a query returns was computed for that query: nothing in the   *)
(* protocol says so, only that each line is read by the query it answers.   *)
OwnAnswers == answer.is = "ok" => answer.of = answer.id

(* At most one child runs, the one the provider holds, and none after the   *)
(* service was closed unless a stray line was printed.                      *)
OneChild ==
    /\ \A p \in 1..Len(child) : child[p].alive => p = process
    /\ pc = "closed" /\ noise = 0 => \A p \in 1..Len(child) : ~child[p].alive

(* What the service believes started is a child the provider holds: the     *)
(* next query would otherwise find none, and no child would be started.     *)
StartedIsHeld == pc = "idle" /\ started => process # 0

(* Every query ends, whatever the child does. *)
QueriesEnd == (pc \notin {"idle", "closed"}) ~> (pc \in {"idle", "closed"})
=============================================================================
