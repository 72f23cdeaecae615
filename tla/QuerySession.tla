---------------------------- MODULE QuerySession ----------------------------
(***************************************************************************)
(* One MCP session answering queries (mcp.py, service.py) through its      *)
(* RefreshCoordinator, beside another process that refreshes the same      *)
(* project.  A query is a refresh with retries (refresh_with_retry), the   *)
(* binding to a published generation under the shared lease                *)
(* (query_snapshot), and the evidence: the Provider's graph, the semantic  *)
(* runner and the exact scan, the last two on a thread of their own when   *)
(* callers are asked, with three caches kept until the next generation.    *)
(*                                                                         *)
(* A source stands for the content of the repository and its fingerprint.  *)
(* The steps of a refresh inside its lease are those of                    *)
(* RefreshTransaction; here it publishes or fails as a whole.              *)
(***************************************************************************)
EXTENDS Integers, FiniteSets

CONSTANTS
    Sources,
    Tools,              \* subset of {"references", "callers", "locate_files", "refresh_index"}
    AutoUpdate,         \* "on-query" or "off"
    StalePolicy,        \* "warn" or "error"
    Failures,           \* may the session's own refresh fail?
    MaxEdits, MaxGenerations, MaxRequests       \* bounds of the exploration

ASSUME ConstantsOK ==
    /\ Tools \subseteq {"references", "callers", "locate_files", "refresh_index"}
    /\ AutoUpdate \in {"on-query", "off"} /\ StalePolicy \in {"warn", "error"}
    /\ Failures \in BOOLEAN
    /\ MaxEdits \in Nat /\ MaxGenerations \in Nat \ {0} /\ MaxRequests \in Nat

None == "none"
(* A piece of evidence: the sources it was read from, and whether all of it
   was; Unread stands for none yet, and for an empty cache.                *)
Unread == [read |-> FALSE, of |-> {}, whole |-> FALSE]

VARIABLES
    source, edits,      \* the repository, and how often it was edited
    manifest,           \* the published generation [gen, source]
    lease,              \* "free", "other" or "own": the exclusive holder
    other,              \* source the other process binds its refresh to
    bound, fresh,       \* generation_id and ok of index_status
    registrations,      \* generation of the registration index in memory
    view,               \* generation the started frontend sees; 0: not started
    exact, complete, callers,   \* the caches, each evidence or Unread
    pc, request,        \* where the request is, and what it has seen
    structural, semantic, scan, \* the evidence collected so far
    response, requests  \* the last response, and how many were asked

session == <<bound, fresh, registrations, view, exact, complete, callers>>
evidence == <<structural, semantic, scan>>
vars == <<source, edits, manifest, lease, other, session, pc, request, evidence,
          response, requests>>

NoRequest == [tool |-> None, seen |-> {}, edits |-> 0, before |-> 0, bind |-> None,
              accepted |-> None]
NoResponse == [ok |-> FALSE, fresh |-> FALSE, whole |-> FALSE, of |-> {}, quiet |-> FALSE]

Init ==
    /\ source \in Sources /\ edits = 0
    /\ manifest = [gen |-> 1, source |-> source]
    /\ lease = "free" /\ other = None
    /\ bound = 1 /\ fresh = TRUE /\ registrations = 1 /\ view = 0
    /\ exact = Unread /\ complete = Unread /\ callers = Unread
    /\ pc = "idle" /\ request = NoRequest
    /\ structural = Unread /\ semantic = Unread /\ scan = Unread
    /\ response = NoResponse /\ requests = 0

-----------------------------------------------------------------------------
(* The world around the session. *)

Edit ==
    /\ edits < MaxEdits
    /\ edits' = edits + 1
    /\ source' \in Sources \ {source}
    /\ request' = [request EXCEPT !.seen = @ \union {source'}]
    /\ UNCHANGED <<manifest, lease, other, session, pc, evidence, response, requests>>

OtherBegins ==
    /\ lease = "free" /\ pc # "querying" /\ manifest.gen < MaxGenerations
    /\ lease' = "other" /\ other' = source
    /\ UNCHANGED <<source, edits, manifest, session, pc, request, evidence, response, requests>>

OtherPublishes ==
    /\ lease = "other" /\ other = source
    /\ manifest' = [gen |-> manifest.gen + 1, source |-> other]
    /\ lease' = "free" /\ other' = None
    /\ UNCHANGED <<source, edits, session, pc, request, evidence, response, requests>>

OtherFails ==
    /\ lease = "other"
    /\ lease' = "free" /\ other' = None
    /\ UNCHANGED <<source, edits, manifest, session, pc, request, evidence, response, requests>>

-----------------------------------------------------------------------------
(* index_status follows the source and the published generation. *)

IsFresh == manifest.source = source

(* _replace_status and activate_generation: registrations and caches are of
   the given generation; the frontend is closed when another process
   published it.                                                           *)
ActivateKeepsView(gen, reset) ==                   \* Variant: the frontend stays connected
    /\ bound' = gen /\ registrations' = gen
    /\ view' = view
    /\ exact' = Unread /\ complete' = Unread /\ callers' = Unread
Activate(gen, reset) ==
    /\ bound' = gen /\ registrations' = gen
    /\ view' = IF reset THEN 0 ELSE gen
    /\ exact' = Unread /\ complete' = Unread /\ callers' = Unread

(* The body of query_snapshot: adopt a generation published elsewhere, else
   look at the source again.                                               *)
AdoptUnread ==                                     \* Variant: a known generation is not compared
    IF bound # manifest.gen THEN fresh' = IsFresh /\ Activate(manifest.gen, TRUE)
    ELSE UNCHANGED session
Adopt ==
    /\ fresh' = IsFresh
    /\ IF bound # manifest.gen THEN Activate(manifest.gen, TRUE)
       ELSE UNCHANGED <<bound, registrations, view, exact, complete, callers>>

Answer(r) ==
    /\ response' = r /\ pc' = "idle" /\ request' = NoRequest
    /\ structural' = Unread /\ semantic' = Unread /\ scan' = Unread
Refuse == Answer(NoResponse)

-----------------------------------------------------------------------------
(* A request of the client.  project_status takes a snapshot and answers. *)

(* _refresh_before_query: the policy on-query refreshes before each query. *)
RefreshFirst(tool) == tool = "refresh_index" \/ AutoUpdate = "on-query"

Ask(tool) ==
    /\ pc = "idle" /\ requests < MaxRequests
    /\ requests' = requests + 1
    /\ request' = [NoRequest EXCEPT !.tool = tool, !.seen = {source}, !.edits = edits]
    /\ pc' = IF RefreshFirst(tool) THEN "refreshing" ELSE "snapshot"
    /\ UNCHANGED <<source, edits, manifest, lease, other, session, evidence, response>>

(* The project is not enabled: the lifecycle gate refuses the tool. *)
AskUnavailable(tool) ==
    /\ pc = "idle" /\ requests < MaxRequests
    /\ requests' = requests + 1
    /\ response' = NoResponse
    /\ UNCHANGED <<source, edits, manifest, lease, other, session, pc, request, evidence>>

ProjectStatus ==
    /\ pc = "idle" /\ lease # "other"
    /\ Adopt
    /\ UNCHANGED <<source, edits, manifest, lease, other, pc, request, evidence, response, requests>>

(* refresh_with_retry: one attempt.  Another owner is waited for, a current
   generation is accepted, a changed source is indexed, and the deadline
   ends the loop.                                                          *)
Accept ==
    /\ pc' = IF request.tool = "refresh_index" THEN "done" ELSE "snapshot"
    /\ request' = [request EXCEPT !.accepted = manifest'.source]

RefreshCurrent ==
    /\ pc = "refreshing" /\ lease = "free" /\ IsFresh
    /\ IF bound # manifest.gen \/ ~fresh
       THEN Activate(manifest.gen, TRUE) /\ fresh' = TRUE
       ELSE UNCHANGED session
    /\ UNCHANGED <<source, edits, manifest, lease, other, evidence, response, requests>>
    /\ Accept

RefreshBegins ==
    /\ pc = "refreshing" /\ lease = "free" /\ ~IsFresh /\ manifest.gen < MaxGenerations
    /\ pc' = "owning" /\ lease' = "own"
    /\ request' = [request EXCEPT !.bind = source]
    /\ UNCHANGED <<source, edits, manifest, other, session, evidence, response, requests>>

RefreshPublishes ==
    /\ pc = "owning" /\ source = request.bind
    /\ manifest' = [gen |-> manifest.gen + 1, source |-> source]
    /\ lease' = "free"
    /\ fresh' = TRUE
    /\ Activate(manifest.gen + 1, FALSE)
    /\ Accept
    /\ UNCHANGED <<source, edits, other, evidence, response, requests>>

(* The except path: the files are restored and the status is that of the
   published generation, which the session may not have activated.  A source
   found changed is retried, anything else is reported.                    *)
RefreshFails ==
    /\ Failures /\ pc = "owning"
    /\ lease' = "free" /\ bound' = manifest.gen /\ fresh' = IsFresh
    /\ UNCHANGED <<registrations, view, exact, complete, callers>>
    /\ IF source # request.bind THEN pc' = "refreshing" /\ UNCHANGED <<request, evidence, response>>
       ELSE Refuse
    /\ UNCHANGED <<source, edits, manifest, other, requests>>

RefreshOwnedElsewhere ==
    /\ pc = "refreshing" /\ lease = "other"
    /\ pc' = "waiting" /\ request' = [request EXCEPT !.before = bound]
    /\ UNCHANGED <<source, edits, manifest, lease, other, session, evidence, response, requests>>

(* The owner is gone: its generation is the answer when it is another one
   and of the present source; else the loop goes on.                       *)
CoalesceUnread ==                                  \* Variant: any new generation will do
    /\ pc = "waiting" /\ lease # "other"
    /\ Adopt
    /\ UNCHANGED <<source, edits, manifest, lease, other, evidence, response, requests>>
    /\ IF manifest.gen # request.before THEN Accept
       ELSE pc' = "refreshing" /\ UNCHANGED request
Coalesce ==
    /\ pc = "waiting" /\ lease # "other"
    /\ Adopt
    /\ UNCHANGED <<source, edits, manifest, lease, other, evidence, response, requests>>
    /\ IF IsFresh /\ manifest.gen # request.before THEN Accept
       ELSE pc' = "refreshing" /\ UNCHANGED request

(* The deadline of the refresh, or of the wait for the lease. *)
Deadline ==
    /\ pc \in {"refreshing", "waiting", "snapshot"}
    /\ Refuse
    /\ UNCHANGED <<source, edits, manifest, lease, other, session, requests>>

RefreshDone ==
    /\ pc = "done"
    /\ Answer([NoResponse EXCEPT !.ok = TRUE])
    /\ UNCHANGED <<source, edits, manifest, lease, other, session, requests>>

-----------------------------------------------------------------------------
(* The query proper, under the shared lease from here to its answer. *)

Snapshot ==
    /\ pc = "snapshot" /\ lease # "other"
    /\ Adopt
    /\ IF StalePolicy = "error" /\ ~IsFresh THEN Refuse
       ELSE pc' = "querying" /\ UNCHANGED <<request, evidence, response>>
    /\ UNCHANGED <<source, edits, manifest, lease, other, requests>>

Now == [read |-> TRUE, of |-> {source}, whole |-> TRUE]
Join(e1, e2) == [read |-> TRUE, of |-> e1.of \union e2.of, whole |-> e1.whole /\ e2.whole]
Nothing == [read |-> TRUE, of |-> {}, whole |-> FALSE]

Querying(tool) == pc = "querying" /\ request.tool = tool
Rest == <<source, edits, manifest, lease, other, bound, fresh, registrations, pc, request,
          response, requests>>

(* _python_exact_references: the scan of the sources, through its cache. *)
Scan ==
    /\ \/ Querying("references") /\ complete = Unread /\ scan = Unread
       \/ Querying("callers") /\ callers = Unread /\ semantic # Unread /\ scan = Unread
    /\ IF exact # Unread THEN scan' = exact /\ UNCHANGED exact
       ELSE \/ scan' = Now /\ exact' = Now
            \/ scan' = Nothing /\ UNCHANGED exact
    /\ UNCHANGED <<Rest, view, complete, callers, structural, semantic>>

(* The semantic runner; late when it is not started in time, or does not
   answer and is terminated.                                               *)
Semantic ==
    /\ \/ Querying("references") /\ complete = Unread /\ scan # Unread /\ scan.whole
       \/ Querying("callers") /\ callers = Unread
    /\ semantic = Unread
    /\ semantic' \in {Now, Nothing}
    /\ UNCHANGED <<Rest, view, exact, complete, callers, structural, scan>>

(* The Provider's graph, of the generation the frontend sees.  A frontend
   that cannot be started in time leaves the answer empty.                 *)
Structural ==
    /\ \/ Querying("callers")
       \/ Querying("locate_files") /\ fresh
    /\ structural = Unread
    /\ \/ /\ view' = IF view = 0 THEN manifest.gen ELSE view
          /\ structural' = [read |-> TRUE, of |-> {manifest.source}, whole |-> TRUE]
       \/ structural' = Nothing /\ UNCHANGED view
    /\ UNCHANGED <<Rest, exact, complete, callers, semantic, scan>>

Response(e) == [ok |-> TRUE, fresh |-> fresh, whole |-> e.whole, of |-> e.of,
                quiet |-> edits = request.edits]

(* references: a complete answer is kept. *)
References ==
    /\ Querying("references")
    /\ \/ complete # Unread /\ Answer(Response(complete)) /\ UNCHANGED complete
       \/ complete = Unread /\ scan # Unread /\ ~scan.whole /\ Answer(Response(scan)) /\ UNCHANGED complete
       \/ /\ complete = Unread /\ scan # Unread /\ semantic # Unread
          /\ Answer(Response(Join(scan, semantic)))
          /\ complete' = IF semantic.whole THEN Join(scan, semantic) ELSE Unread
    /\ UNCHANGED <<source, edits, manifest, lease, other, bound, fresh, registrations, view,
                   exact, callers, requests>>

(* callers: the graph and the thread's evidence are joined, and the evidence
   kept unless a part of it was late.  The graph alone is the answer when
   the time is used up, or the symbol has no single definition.            *)
Callers ==
    /\ Querying("callers") /\ structural # Unread
    /\ \/ callers # Unread /\ Answer(Response(Join(structural, callers))) /\ UNCHANGED callers
       \/ /\ callers = Unread /\ semantic # Unread /\ scan # Unread
          /\ \/ Answer(Response(structural)) /\ UNCHANGED callers
             \/ /\ Answer(Response(Join(structural, Join(scan, semantic))))
                /\ callers' = IF semantic.whole /\ scan.whole THEN Join(scan, semantic)
                              ELSE Unread
    /\ UNCHANGED <<source, edits, manifest, lease, other, bound, fresh, registrations, view,
                   exact, complete, requests>>

(* locate_files: the graph alone, and only of a current index. *)
LocateFiles ==
    /\ Querying("locate_files") /\ (fresh => structural # Unread)
    /\ Answer(IF fresh /\ structural.whole THEN Response(structural) ELSE NoResponse)
    /\ UNCHANGED <<source, edits, manifest, lease, other, session, requests>>

Step ==
    \/ RefreshCurrent \/ RefreshBegins \/ RefreshPublishes \/ RefreshFails
    \/ RefreshOwnedElsewhere \/ Coalesce \/ Deadline \/ RefreshDone
    \/ Snapshot \/ Scan \/ Semantic \/ Structural \/ References \/ Callers
    \/ LocateFiles
Next ==
    \/ Edit \/ OtherBegins \/ OtherPublishes \/ OtherFails \/ ProjectStatus
    \/ \E tool \in Tools : Ask(tool) \/ AskUnavailable(tool)
    \/ Step

(* The session's thread runs, and deadlines pass; the other process, the
   editor and the client owe nothing.                                      *)
Spec == Init /\ [][Next]_vars /\ WF_vars(Step) /\ WF_vars(Deadline)

-----------------------------------------------------------------------------

(* The state has the shape the code gives it; no evidence is left over from
   an earlier request.                                                     *)
TypeOK ==
    /\ source \in Sources /\ edits \in 0..MaxEdits
    /\ manifest \in [gen : 1..MaxGenerations, source : Sources]
    /\ lease \in {"free", "other", "own"} /\ (lease = "own" <=> pc = "owning")
    /\ {bound, registrations} \subseteq 1..manifest.gen /\ view \in 0..manifest.gen
    /\ pc # "querying" => <<structural, semantic, scan>> = <<Unread, Unread, Unread>>
    /\ response.of \subseteq Sources

(* A query is answered out of one generation: the published one, which does
   not change before the answer is given, is the one the status names, the
   one the registrations were loaded from and the one the frontend sees.   *)
QueryOfOneGeneration ==
    pc = "querying" =>
        /\ lease # "other"
        /\ bound = manifest.gen /\ registrations = bound /\ view \in {0, bound}

(* "Time-truncated supplements are never cached." *)
WholeEvidenceCached ==
    \A c \in {exact, complete, callers} : c # Unread => c.whole

(* A refresh that is answered "current" or "refreshed", waited for elsewhere
   or done here, names a generation whose source the repository held at some
   moment since the request was made.                                      *)
AcceptedWasCurrent == request.accepted \in request.seen \union {None}

(* "A successful query belongs to one fresh, fully published generation ...
   never a stale success": with no edit while the query runs, an answer
   labelled fresh is evidence of the source as it is.                      *)
NeverStaleSuccess ==
    [][response' # response /\ response'.ok /\ response'.fresh /\ response'.quiet
          => response'.of \subseteq {source}]_vars

(* What a cache may add to the answer of a tool. *)
Cached(tool) == IF tool = "locate_files" THEN {} ELSE exact.of \union complete.of \union callers.of

(* With no edit while the query runs, whatever an answer labelled fresh says
   of another source than the present one comes from a cached supplement:
   never from the graph, from a scan or from the semantic runner.           *)
StaleOnlyFromCache ==
    [][response' # response /\ response'.ok /\ response'.fresh /\ response'.quiet
          => response'.of \subseteq {source} \union Cached(request.tool)]_vars

(* Every request is answered, whatever the other process does. *)
RequestsEnd == (pc # "idle") ~> (pc = "idle")
=============================================================================
