-------------------------- MODULE ProviderTransport --------------------------
(***************************************************************************)
(* The Provider transport (provider_transport.py): a session owns one      *)
(* Provider child, sends it one request at a time and reads its answers    *)
(* through a reader thread and a queue.  Sessions of several processes are *)
(* admitted by the global Provider lock (lifecycle.py), which an exclusive *)
(* layout keeps for as long as its child lives.                            *)
(*                                                                         *)
(* The reader thread of a child puts what it reads into the queue the      *)
(* transport has at that moment, be it the queue of a later child; a       *)
(* shutdown joins the thread for a second and then forgets it.             *)
(*                                                                         *)
(* Abstractions.  An answer is the id it carries and the child it comes    *)
(* from; framing faults, the end of the stream and tool errors are items   *)
(* that make the request fail.  The child (external) answers in order, or  *)
(* not at all, or dies.  One thread at a time uses a transport, which is   *)
(* how the service uses it.                                                *)
(***************************************************************************)
EXTENDS Naturals, Sequences

CONSTANTS
  Sessions,   \* processes with a transport
  Exclusive,  \* the legacy layout: one Provider child on the machine
  Lingers,    \* may a reader thread outlive the second it is joined for?
  IdleExits,  \* may a child die while no request waits for it?
  MaxCalls, MaxChildren  \* bounds, per session

VARIABLES
  lock,    \* the holder of the global Provider lock
  tr,      \* tr[s]: the transport of session s
  child,   \* child[s]: the children it started, in order
  result   \* result[s]: how the last call ended

vars == <<lock, tr, child, result>>

Idle == [pc |-> "idle", proc |-> 0, nextId |-> 1, id |-> 0, method |-> "none",
         queue |-> <<>>, calls |-> 0, outcome |-> "none"]
NewChild == [alive |-> TRUE, asked |-> 0, out |-> <<>>, closed |-> FALSE, reading |-> TRUE]
NoResult == [outcome |-> "none", by |-> 0, of |-> 0]

Init ==
  /\ lock = "free" /\ tr = [s \in Sessions |-> Idle]
  /\ child = [s \in Sessions |-> <<>>] /\ result = [s \in Sessions |-> NoResult]

Alive(s) == tr[s].proc # 0 /\ child[s][tr[s].proc].alive
Goto(s, pc) == tr' = [tr EXCEPT ![s].pc = pc]
Fail(s, outcome) == tr' = [tr EXCEPT ![s].pc = "kill", ![s].outcome = outcome]

-----------------------------------------------------------------------------
(* call() in the session's thread.                                         *)

\* start(): a running child is used as it is.
Call(s) ==
  /\ tr[s].pc = "idle" /\ tr[s].calls < MaxCalls
  /\ tr' = [tr EXCEPT ![s].pc = IF Alive(s) THEN "send" ELSE "admit",
                      ![s].method = IF Alive(s) THEN "tools/call" ELSE "initialize",
                      ![s].calls = @ + 1, ![s].outcome = "none"]
  /\ UNCHANGED <<lock, child, result>>

\* GlobalCbmLock.acquire: polls until its deadline; a lock it has is enough ...
Admit(s) ==
  /\ tr[s].pc = "admit" /\ lock \in {"free", s}
  /\ lock' = s /\ Goto(s, "spawn") /\ UNCHANGED <<child, result>>

\* ... and gives up without touching the rest of the transport.
AdmitTimeout(s) ==
  /\ tr[s].pc = "admit" /\ lock \notin {"free", s}
  /\ Goto(s, "idle") /\ result' = [result EXCEPT ![s] = [NoResult EXCEPT !.outcome = "busy"]]
  /\ UNCHANGED <<lock, child>>

\* Variant: request ids start again with every child.
SpawnRenumbered(s) ==
  /\ tr[s].pc = "spawn" /\ Len(child[s]) < MaxChildren
  /\ child' = [child EXCEPT ![s] = Append(@, NewChild)]
  /\ tr' = [tr EXCEPT ![s].pc = "send", ![s].proc = Len(child'[s]), ![s].queue = <<>>,
                      ![s].nextId = 1]
  /\ UNCHANGED <<lock, result>>

\* A child, a new queue and a reader thread.
Spawn(s) ==
  /\ tr[s].pc = "spawn" /\ Len(child[s]) < MaxChildren
  /\ child' = [child EXCEPT ![s] = Append(@, NewChild)]
  /\ tr' = [tr EXCEPT ![s].pc = "send", ![s].proc = Len(child'[s]), ![s].queue = <<>>]
  /\ UNCHANGED <<lock, result>>

\* The cache configuration or Popen raises (here also: no child is left in the
\* bound).
SpawnFails(s) ==
  /\ tr[s].pc = "spawn" /\ Fail(s, "start") /\ UNCHANGED <<lock, child, result>>

\* The request is written.  A dead child is noticed by poll(), outside the try
\* of a plain call, or by the broken pipe.
Send(s) ==
  /\ tr[s].pc = "send"
  /\ IF Alive(s)
     THEN /\ tr' = [tr EXCEPT ![s].pc = "wait", ![s].id = tr[s].nextId, ![s].nextId = @ + 1]
          /\ child' = [child EXCEPT ![s][tr[s].proc].asked = tr[s].nextId]
          /\ UNCHANGED result
     ELSE /\ \/ Fail(s, "dead") /\ UNCHANGED result
             \/ /\ tr[s].method = "tools/call" /\ Goto(s, "idle")
                /\ result' = [result EXCEPT ![s] = [NoResult EXCEPT !.outcome = "dead"]]
          /\ UNCHANGED child
  /\ UNCHANGED lock

\* The next item of the queue.  After initialize a shared layout gives the
\* lock back and the call itself is sent.
Receive(s) ==
  /\ tr[s].pc = "wait" /\ tr[s].queue # <<>>
  /\ LET item == Head(tr[s].queue)
         rest == [tr EXCEPT ![s].queue = Tail(@)] IN
     IF item.kind = "answer" /\ item.id = tr[s].id
     THEN IF tr[s].method = "initialize"
          THEN /\ tr' = [rest EXCEPT ![s].pc = "send", ![s].method = "tools/call"]
               /\ lock' = IF Exclusive THEN lock ELSE "free"
               /\ UNCHANGED result
          ELSE /\ tr' = [rest EXCEPT ![s].pc = "idle"]
               /\ result' = [result EXCEPT ![s] =
                     [outcome |-> "ok", by |-> item.from, of |-> tr[s].proc]]
               /\ UNCHANGED lock
     ELSE /\ tr' = [rest EXCEPT ![s].pc = "kill", ![s].outcome = "error"]
          /\ UNCHANGED <<lock, result>>
  /\ UNCHANGED child

Timeout(s) ==
  /\ tr[s].pc = "wait" /\ tr[s].queue = <<>>
  /\ Fail(s, "timeout") /\ UNCHANGED <<lock, child, result>>

\* close(), also when another process published a generation.
Close(s) ==
  /\ tr[s].pc = "idle" /\ tr[s].proc # 0
  /\ Fail(s, "closed") /\ UNCHANGED <<lock, child, result>>

\* Variant: the lock is given back before the child is gone.
ShutdownEarly(s) ==
  /\ tr[s].pc = "kill" /\ Goto(s, "join")
  /\ lock' = IF lock = s THEN "free" ELSE lock
  /\ UNCHANGED <<child, result>>

\* _shutdown: end of input, terminate, kill; then the streams are closed.
Shutdown(s) ==
  /\ tr[s].pc = "kill" /\ Goto(s, "join")
  /\ child' = IF tr[s].proc = 0 THEN child
              ELSE [child EXCEPT ![s][tr[s].proc].alive = FALSE,
                                 ![s][tr[s].proc].closed = TRUE]
  /\ UNCHANGED <<lock, result>>

\* The reader is joined, the lock given back; a call raises its error.
Join(s) ==
  /\ tr[s].pc = "join"
  /\ (tr[s].proc # 0 /\ ~Lingers) => ~child[s][tr[s].proc].reading
  /\ tr' = [tr EXCEPT ![s].pc = "idle", ![s].proc = 0]
  /\ child' = IF tr[s].proc = 0 THEN child
              ELSE [child EXCEPT ![s][tr[s].proc].alive = FALSE]
  /\ lock' = IF lock = s THEN "free" ELSE lock
  /\ result' = [result EXCEPT ![s] =
       [outcome |-> tr[s].outcome, by |-> 0, of |-> tr[s].proc]]

-----------------------------------------------------------------------------
(* The reader threads (_drain_stdout).                                     *)

Put(s, k, item) == tr' = [tr EXCEPT ![s].queue = Append(@, item)]

Read(s, k) ==
  /\ child[s][k].reading /\ child[s][k].out # <<>>
  /\ child' = [child EXCEPT ![s][k].out = Tail(@)]
  /\ Put(s, k, Head(child[s][k].out))
  /\ UNCHANGED <<lock, result>>

\* End of the stream, a stream closed under the reader, a malformed frame.
ReadFails(s, k) ==
  /\ child[s][k].reading
  /\ child[s][k].closed \/ (~child[s][k].alive /\ child[s][k].out = <<>>)
  /\ child' = [child EXCEPT ![s][k].reading = FALSE]
  /\ Put(s, k, [kind |-> "error", id |-> 0, from |-> k])
  /\ UNCHANGED <<lock, result>>

-----------------------------------------------------------------------------
(* The Provider child (external).                                          *)

Reply(s, k) ==
  /\ child[s][k].alive /\ child[s][k].asked # 0
  /\ \E kind \in {"answer", "toolerror"} :
       child' = [child EXCEPT ![s][k].asked = 0,
                   ![s][k].out = Append(@, [kind |-> kind, id |-> child[s][k].asked, from |-> k])]
  /\ UNCHANGED <<lock, tr, result>>

Exit(s, k) ==
  /\ child[s][k].alive /\ (IdleExits \/ (tr[s].pc = "wait" /\ child[s][k].asked # 0))
  /\ child' = [child EXCEPT ![s][k].alive = FALSE]
  /\ UNCHANGED <<lock, tr, result>>

Session(s) == Admit(s) \/ AdmitTimeout(s) \/ Spawn(s) \/ SpawnFails(s) \/ Send(s)
              \/ Receive(s) \/ Timeout(s) \/ Shutdown(s) \/ Join(s)
Reader(s) == \E k \in 1..Len(child[s]) : Read(s, k) \/ ReadFails(s, k)

Next == \E s \in Sessions :
          \/ Call(s) \/ Session(s) \/ Close(s) \/ Reader(s)
          \/ \E k \in 1..Len(child[s]) : Reply(s, k) \/ Exit(s, k)

Spec == Init /\ [][Next]_vars
\* Threads that can go on do; nothing is asked of the child.
FairSpec == Spec /\ \A s \in Sessions : WF_vars(Session(s)) /\ WF_vars(Reader(s))

-----------------------------------------------------------------------------
Pc == {"idle", "admit", "spawn", "send", "wait", "kill", "join"}
Outcome == {"none", "ok", "busy", "start", "dead", "error", "timeout", "closed"}
Item == [kind : {"answer", "toolerror", "error"}, id : Nat, from : Nat]

\* Type correctness; a request waits only with the latest child, and at rest
\* that child owes no answer.
TypeOK ==
  /\ lock \in Sessions \cup {"free"}
  /\ \A s \in Sessions :
       /\ tr[s] \in [pc : Pc, proc : 0..Len(child[s]), nextId : Nat, id : Nat,
                     method : {"none", "initialize", "tools/call"}, queue : Seq(Item),
                     calls : 0..MaxCalls, outcome : Outcome]
       /\ tr[s].pc \in {"send", "wait"} => tr[s].proc = Len(child[s])
       /\ (tr[s].pc = "idle" /\ tr[s].proc # 0) => child[s][tr[s].proc].asked = 0
       /\ \A k \in 1..Len(child[s]) : child[s][k].out \in Seq(Item)
  /\ result \in [Sessions -> [outcome : Outcome, by : Nat, of : Nat]]

\* A call is answered by the child it was sent to, with the answer to this very
\* request: what a child still had to say when its request timed out, or what
\* the reader of an earlier child puts into the queue late, is never taken for
\* the answer.
AnsweredByOwnChild ==
  \A s \in Sessions : result[s].outcome = "ok" => result[s].by = result[s].of

\* A call is not made to fail by an earlier child: it sees an error item only
\* when its own child died, closed its stream or reported an error.
FailsForOwnReason ==
  \A s \in Sessions : \A i \in 1..Len(tr[s].queue) :
    tr[s].pc \in {"send", "wait"} => tr[s].queue[i].from = tr[s].proc

\* The lock goes with the child: an exclusive layout has at most one live
\* Provider child on the machine, a shared one holds the lock only while it
\* starts; a session at rest without a child holds nothing.
LockGoesWithChild ==
  \A s \in Sessions :
    /\ (Exclusive /\ \E k \in 1..Len(child[s]) : child[s][k].alive) => lock = s
    /\ (lock = s /\ tr[s].pc = "idle") => Exclusive /\ tr[s].proc # 0

\* Every call ends, with an answer or an error, whatever the child does, and
\* whoever holds the lock.
CallsEnd == \A s \in Sessions : tr[s].pc # "idle" ~> tr[s].pc = "idle"
=============================================================================
