------------------------ MODULE Frontends_proofs -------------------------
(***************************************************************************)
(* Theorems about what stands between a host and the index.                *)
(*                                                                         *)
(* First QuerySession, for any sources, tools, policies, edits,            *)
(* generations and requests.                                               *)
(*                                                                         *)
(* A query runs under the shared lease, so the published generation stays  *)
(* what it is from the snapshot to the answer (BindInv); what the request  *)
(* remembers of the repository says what its evidence can be of (SeenInv,  *)
(* EvidenceInv); and the caches are of what was read completely            *)
(* (CacheInv).  The generation of the registrations in memory and of the   *)
(* frontend follow the one the status names only while no refresh fails    *)
(* (ViewInv): the except path of a failed refresh names the published      *)
(* generation without activating it.                                       *)
(*                                                                         *)
(* Then ReloadingMcp, for any requests, changes and crashes, as the        *)
(* instance Reloading over variables of its own.  A backend is used for    *)
(* the state it was started for (BackendInv) and owes the answer to the    *)
(* present request and no other (PipeInv); the clock of the wait and that  *)
(* of the work run together (TimeInv), so one that answers in time is not  *)
(* given up and stays the only one (OnlyInv).                              *)
(*                                                                         *)
(* And ContinuationCache, for any queries, answers, limits and edits, as   *)
(* the instance Pages.  What is kept is a whole answer of one source       *)
(* (EntryInv), a token stands at a beginning of one, and of no other than  *)
(* the entry with its id, since ids are not given twice (TokenInv).        *)
(***************************************************************************)
EXTENDS QuerySession, Integers, Sequences, FiniteSetTheorems, SequenceTheorems, TLAPS

-----------------------------------------------------------------------------
(* The inductive invariant. *)

Evidence == [read : BOOLEAN, of : SUBSET Sources, whole : BOOLEAN]
Requests == [tool : Tools \union {None}, seen : SUBSET Sources, edits : 0..MaxEdits,
             before : Nat, bind : Sources \union {None}, accepted : Sources \union {None}]
Responses == [ok : BOOLEAN, fresh : BOOLEAN, whole : BOOLEAN, of : SUBSET Sources,
              quiet : BOOLEAN]
Places == {"idle", "refreshing", "owning", "waiting", "snapshot", "querying", "done"}

\* The values of the variables.
DataInv ==
  /\ source \in Sources /\ edits \in 0..MaxEdits
  /\ manifest \in [gen : 1..MaxGenerations, source : Sources]
  /\ lease \in {"free", "other", "own"} /\ other \in Sources \union {None}
  /\ fresh \in BOOLEAN /\ pc \in Places
  /\ request \in Requests /\ response \in Responses
CachesInv == exact \in Evidence /\ complete \in Evidence /\ callers \in Evidence
CollectedInv ==
  /\ structural \in Evidence /\ semantic \in Evidence /\ scan \in Evidence
  /\ pc # "querying" => structural = Unread /\ semantic = Unread /\ scan = Unread

\* The lease is the session's while its refresh runs, nobody else's while it
\* queries, and who has it may publish once more.
BindInv ==
  /\ lease = "own" <=> pc = "owning"
  /\ lease # "free" => manifest.gen < MaxGenerations
  /\ pc = "querying" => lease # "other" /\ bound = manifest.gen

\* What the session names is a generation there is.
NamedInv ==
  /\ bound \in 1..manifest.gen /\ registrations \in 1..manifest.gen
  /\ view \in 0..manifest.gen

\* A request has seen the present source, and no other if nobody edited since.
SeenInv ==
  /\ pc = "idle" => request.accepted = None
  /\ pc # "idle" => source \in request.seen
  /\ pc # "idle" /\ edits = request.edits => request.seen = {source}
  /\ request.edits <= edits
  /\ AcceptedWasCurrent
  /\ pc = "querying" /\ fresh => manifest.source \in request.seen

\* Where the evidence of a running query is from.
EvidenceInv ==
  /\ structural.of \subseteq {manifest.source}
  /\ semantic.of \subseteq request.seen
  /\ scan.of \subseteq request.seen \union exact.of

\* What is cached is whole; a reference search asks the semantic runner only
\* after a whole scan.
CacheInv ==
  /\ WholeEvidenceCached
  /\ pc = "querying" /\ request.tool = "references" /\ semantic # Unread => scan.whole

\* The registrations and the frontend are of the generation the status names.
ViewInv == registrations = bound /\ view \in {0, bound}

Inv == DataInv /\ CachesInv /\ CollectedInv /\ BindInv /\ NamedInv /\ SeenInv /\ EvidenceInv /\ CacheInv

-----------------------------------------------------------------------------
(* Evidence. *)

LEMMA EvidenceTypes ==
  ASSUME source \in Sources, manifest.source \in Sources
  PROVE  /\ Unread \in Evidence /\ Now \in Evidence /\ Nothing \in Evidence
         /\ [read |-> TRUE, of |-> {manifest.source}, whole |-> TRUE] \in Evidence
  BY DEF Unread, Now, Nothing, Evidence

LEMMA JoinType ==
  ASSUME NEW e1 \in Evidence, NEW e2 \in Evidence
  PROVE  Join(e1, e2) \in Evidence
  BY DEF Join, Evidence

LEMMA ResponseType ==
  ASSUME DataInv, NEW e \in Evidence
  PROVE  Response(e) \in Responses
  BY DEF DataInv, Response, Responses, Requests, Evidence

\* What a response, an accepted refresh and an adopted generation leave.
LEMMA RequestTypes ==
  ASSUME ConstantsOK, DataInv
  PROVE  /\ NoRequest \in Requests /\ NoResponse \in Responses
         /\ [NoResponse EXCEPT !.ok = TRUE] \in Responses
<1>1. NoRequest \in Requests
  BY ConstantsOK DEF NoRequest, Requests
<1>2. NoResponse \in Responses
  BY DEF NoResponse, Responses
<1>3. [NoResponse EXCEPT !.ok = TRUE] \in Responses
  BY <1>2 DEF Responses
<1>. QED
  BY <1>1, <1>2, <1>3

-----------------------------------------------------------------------------
(* Each part is kept by each step. *)

LEMMA DataKept ==
  ASSUME DataInv, CachesInv, CollectedInv, BindInv, NamedInv, [Next]_vars
  PROVE  DataInv'
<1>1. CASE Edit
  BY <1>1, ConstantsOK, RequestTypes, JoinType, ResponseType DEF Edit, DataInv,
     CachesInv, CollectedInv, BindInv, NamedInv, Requests, Places, session,
     evidence
<1>2. CASE OtherBegins
  BY <1>2, ConstantsOK, RequestTypes, JoinType, ResponseType DEF OtherBegins,
     DataInv, CachesInv, CollectedInv, BindInv, NamedInv, Requests, Places,
     session, evidence
<1>3. CASE OtherPublishes
  BY <1>3, ConstantsOK, RequestTypes, JoinType, ResponseType
     DEF OtherPublishes, DataInv, CachesInv, CollectedInv, BindInv, NamedInv,
     Requests, Places, session, evidence
<1>4. CASE OtherFails
  BY <1>4, ConstantsOK, RequestTypes, JoinType, ResponseType DEF OtherFails,
     DataInv, CachesInv, CollectedInv, BindInv, NamedInv, Requests, Places,
     session, evidence
<1>5. CASE ProjectStatus
  BY <1>5, ConstantsOK, RequestTypes, JoinType, ResponseType DEF ProjectStatus,
     Adopt, Activate, IsFresh, DataInv, CachesInv, CollectedInv, BindInv,
     NamedInv, Requests, Places, session, evidence
<1>6. ASSUME NEW tool \in Tools, Ask(tool) PROVE DataInv'
  BY <1>6, ConstantsOK, RequestTypes, JoinType, ResponseType DEF Ask,
     NoRequest, RefreshFirst, DataInv, CachesInv, CollectedInv, BindInv,
     NamedInv, Requests, Places, session, evidence
<1>7. ASSUME NEW tool \in Tools, AskUnavailable(tool) PROVE DataInv'
  BY <1>7, ConstantsOK, RequestTypes, JoinType, ResponseType
     DEF AskUnavailable, NoResponse, DataInv, CachesInv, CollectedInv, BindInv,
     NamedInv, Requests, Places, session, evidence
<1>8. CASE RefreshCurrent
  BY <1>8, ConstantsOK, RequestTypes, JoinType, ResponseType
     DEF RefreshCurrent, Activate, Accept, IsFresh, DataInv, CachesInv,
     CollectedInv, BindInv, NamedInv, Requests, Places, session, evidence
<1>9. CASE RefreshBegins
  BY <1>9, ConstantsOK, RequestTypes, JoinType, ResponseType DEF RefreshBegins,
     IsFresh, DataInv, CachesInv, CollectedInv, BindInv, NamedInv, Requests,
     Places, session, evidence
<1>10. CASE RefreshPublishes
  BY <1>10, ConstantsOK, RequestTypes, JoinType, ResponseType
     DEF RefreshPublishes, Activate, Accept, DataInv, CachesInv, CollectedInv,
     BindInv, NamedInv, Requests, Places, session, evidence
<1>11. CASE RefreshFails
  BY <1>11, ConstantsOK, RequestTypes, JoinType, ResponseType DEF RefreshFails,
     Refuse, Answer, NoRequest, NoResponse, IsFresh, DataInv, CachesInv,
     CollectedInv, BindInv, NamedInv, Requests, Places, session, evidence
<1>12. CASE RefreshOwnedElsewhere
  BY <1>12, ConstantsOK, RequestTypes, JoinType, ResponseType
     DEF RefreshOwnedElsewhere, DataInv, CachesInv, CollectedInv, BindInv,
     NamedInv, Requests, Places, session, evidence
<1>13. CASE Coalesce
  BY <1>13, ConstantsOK, RequestTypes, JoinType, ResponseType DEF Coalesce,
     Adopt, Activate, Accept, IsFresh, DataInv, CachesInv, CollectedInv,
     BindInv, NamedInv, Requests, Places, session, evidence
<1>14. CASE Deadline
  BY <1>14, ConstantsOK, RequestTypes, JoinType, ResponseType DEF Deadline,
     Refuse, Answer, NoRequest, NoResponse, DataInv, CachesInv, CollectedInv,
     BindInv, NamedInv, Requests, Places, session, evidence
<1>15. CASE RefreshDone
  BY <1>15, ConstantsOK, RequestTypes, JoinType, ResponseType DEF RefreshDone,
     Answer, NoRequest, NoResponse, DataInv, CachesInv, CollectedInv, BindInv,
     NamedInv, Requests, Places, session, evidence
<1>16. CASE Snapshot
  BY <1>16, ConstantsOK, RequestTypes, JoinType, ResponseType DEF Snapshot,
     Adopt, Activate, IsFresh, Refuse, Answer, NoRequest, NoResponse, DataInv,
     CachesInv, CollectedInv, BindInv, NamedInv, Requests, Places, session,
     evidence
<1>17. CASE Scan
  BY <1>17, ConstantsOK, RequestTypes, JoinType, ResponseType DEF Scan,
     Querying, Rest, DataInv, CachesInv, CollectedInv, BindInv, NamedInv,
     Requests, Places, session, evidence
<1>18. CASE Semantic
  BY <1>18, ConstantsOK, RequestTypes, JoinType, ResponseType DEF Semantic,
     Querying, Rest, DataInv, CachesInv, CollectedInv, BindInv, NamedInv,
     Requests, Places, session, evidence
<1>19. CASE Structural
  BY <1>19, ConstantsOK, RequestTypes, JoinType, ResponseType DEF Structural,
     Querying, Rest, DataInv, CachesInv, CollectedInv, BindInv, NamedInv,
     Requests, Places, session, evidence
<1>20. CASE References
  BY <1>20, ConstantsOK, RequestTypes, JoinType, ResponseType DEF References,
     Querying, Response, Answer, NoRequest, DataInv, CachesInv, CollectedInv,
     BindInv, NamedInv, Requests, Places, session, evidence
<1>21. CASE Callers
  BY <1>21, ConstantsOK, RequestTypes, JoinType, ResponseType DEF Callers,
     Querying, Response, Answer, NoRequest, DataInv, CachesInv, CollectedInv,
     BindInv, NamedInv, Requests, Places, session, evidence
<1>22. CASE LocateFiles
  BY <1>22, ConstantsOK, RequestTypes, JoinType, ResponseType DEF LocateFiles,
     Querying, Response, Answer, NoRequest, NoResponse, DataInv, CachesInv,
     CollectedInv, BindInv, NamedInv, Requests, Places, session, evidence
<1>23. CASE UNCHANGED vars
  BY <1>23, ConstantsOK, RequestTypes, JoinType, ResponseType DEF vars,
     session, evidence, DataInv, CachesInv, CollectedInv, BindInv, NamedInv,
     Requests, Places
<1>. QED
  BY <1>1, <1>2, <1>3, <1>4, <1>5, <1>6, <1>7, <1>8, <1>9, <1>10, <1>11, <1>12,
     <1>13, <1>14, <1>15, <1>16, <1>17, <1>18, <1>19, <1>20, <1>21, <1>22,
     <1>23 DEF Next, Step

LEMMA CachesKept ==
  ASSUME DataInv, CachesInv, CollectedInv, [Next]_vars
  PROVE  CachesInv'
<1>1. CASE Edit
  BY <1>1, EvidenceTypes, JoinType DEF Edit, DataInv, CachesInv, CollectedInv,
     session, evidence
<1>2. CASE OtherBegins
  BY <1>2, EvidenceTypes, JoinType DEF OtherBegins, DataInv, CachesInv,
     CollectedInv, session, evidence
<1>3. CASE OtherPublishes
  BY <1>3, EvidenceTypes, JoinType DEF OtherPublishes, DataInv, CachesInv,
     CollectedInv, session, evidence
<1>4. CASE OtherFails
  BY <1>4, EvidenceTypes, JoinType DEF OtherFails, DataInv, CachesInv,
     CollectedInv, session, evidence
<1>5. CASE ProjectStatus
  BY <1>5, EvidenceTypes, JoinType DEF ProjectStatus, Adopt, Activate, IsFresh,
     DataInv, CachesInv, CollectedInv, session, evidence
<1>6. ASSUME NEW tool \in Tools, Ask(tool) PROVE CachesInv'
  BY <1>6, EvidenceTypes, JoinType DEF Ask, NoRequest, RefreshFirst, DataInv,
     CachesInv, CollectedInv, session, evidence
<1>7. ASSUME NEW tool \in Tools, AskUnavailable(tool) PROVE CachesInv'
  BY <1>7, EvidenceTypes, JoinType DEF AskUnavailable, NoResponse, DataInv,
     CachesInv, CollectedInv, session, evidence
<1>8. CASE RefreshCurrent
  BY <1>8, EvidenceTypes, JoinType DEF RefreshCurrent, Activate, Accept,
     IsFresh, DataInv, CachesInv, CollectedInv, session, evidence
<1>9. CASE RefreshBegins
  BY <1>9, EvidenceTypes, JoinType DEF RefreshBegins, IsFresh, DataInv,
     CachesInv, CollectedInv, session, evidence
<1>10. CASE RefreshPublishes
  BY <1>10, EvidenceTypes, JoinType DEF RefreshPublishes, Activate, Accept,
     DataInv, CachesInv, CollectedInv, session, evidence
<1>11. CASE RefreshFails
  BY <1>11, EvidenceTypes, JoinType DEF RefreshFails, Refuse, Answer,
     NoRequest, NoResponse, IsFresh, DataInv, CachesInv, CollectedInv, session,
     evidence
<1>12. CASE RefreshOwnedElsewhere
  BY <1>12, EvidenceTypes, JoinType DEF RefreshOwnedElsewhere, DataInv,
     CachesInv, CollectedInv, session, evidence
<1>13. CASE Coalesce
  BY <1>13, EvidenceTypes, JoinType DEF Coalesce, Adopt, Activate, Accept,
     IsFresh, DataInv, CachesInv, CollectedInv, session, evidence
<1>14. CASE Deadline
  BY <1>14, EvidenceTypes, JoinType DEF Deadline, Refuse, Answer, NoRequest,
     NoResponse, DataInv, CachesInv, CollectedInv, session, evidence
<1>15. CASE RefreshDone
  BY <1>15, EvidenceTypes, JoinType DEF RefreshDone, Answer, NoRequest,
     NoResponse, DataInv, CachesInv, CollectedInv, session, evidence
<1>16. CASE Snapshot
  BY <1>16, EvidenceTypes, JoinType DEF Snapshot, Adopt, Activate, IsFresh,
     Refuse, Answer, NoRequest, NoResponse, DataInv, CachesInv, CollectedInv,
     session, evidence
<1>17. CASE Scan
  BY <1>17, EvidenceTypes, JoinType DEF Scan, Querying, Rest, DataInv,
     CachesInv, CollectedInv, session, evidence
<1>18. CASE Semantic
  BY <1>18, EvidenceTypes, JoinType DEF Semantic, Querying, Rest, DataInv,
     CachesInv, CollectedInv, session, evidence
<1>19. CASE Structural
  BY <1>19, EvidenceTypes, JoinType DEF Structural, Querying, Rest, DataInv,
     CachesInv, CollectedInv, session, evidence
<1>20. CASE References
  BY <1>20, EvidenceTypes, JoinType DEF References, Querying, Response, Answer,
     NoRequest, DataInv, CachesInv, CollectedInv, session, evidence
<1>21. CASE Callers
  BY <1>21, EvidenceTypes, JoinType DEF Callers, Querying, Response, Answer,
     NoRequest, DataInv, CachesInv, CollectedInv, session, evidence
<1>22. CASE LocateFiles
  BY <1>22, EvidenceTypes, JoinType DEF LocateFiles, Querying, Response,
     Answer, NoRequest, NoResponse, DataInv, CachesInv, CollectedInv, session,
     evidence
<1>23. CASE UNCHANGED vars
  BY <1>23, EvidenceTypes, JoinType DEF vars, session, evidence, DataInv,
     CachesInv, CollectedInv
<1>. QED
  BY <1>1, <1>2, <1>3, <1>4, <1>5, <1>6, <1>7, <1>8, <1>9, <1>10, <1>11, <1>12,
     <1>13, <1>14, <1>15, <1>16, <1>17, <1>18, <1>19, <1>20, <1>21, <1>22,
     <1>23 DEF Next, Step

LEMMA CollectedKept ==
  ASSUME DataInv, CachesInv, CollectedInv, [Next]_vars
  PROVE  CollectedInv'
<1>1. CASE Edit
  BY <1>1, EvidenceTypes DEF Edit, DataInv, CachesInv, CollectedInv, session,
     evidence
<1>2. CASE OtherBegins
  BY <1>2, EvidenceTypes DEF OtherBegins, DataInv, CachesInv, CollectedInv,
     session, evidence
<1>3. CASE OtherPublishes
  BY <1>3, EvidenceTypes DEF OtherPublishes, DataInv, CachesInv, CollectedInv,
     session, evidence
<1>4. CASE OtherFails
  BY <1>4, EvidenceTypes DEF OtherFails, DataInv, CachesInv, CollectedInv,
     session, evidence
<1>5. CASE ProjectStatus
  BY <1>5, EvidenceTypes DEF ProjectStatus, Adopt, Activate, IsFresh, DataInv,
     CachesInv, CollectedInv, session, evidence
<1>6. ASSUME NEW tool \in Tools, Ask(tool) PROVE CollectedInv'
  BY <1>6, EvidenceTypes DEF Ask, NoRequest, RefreshFirst, DataInv, CachesInv,
     CollectedInv, session, evidence
<1>7. ASSUME NEW tool \in Tools, AskUnavailable(tool) PROVE CollectedInv'
  BY <1>7, EvidenceTypes DEF AskUnavailable, NoResponse, DataInv, CachesInv,
     CollectedInv, session, evidence
<1>8. CASE RefreshCurrent
  BY <1>8, EvidenceTypes DEF RefreshCurrent, Activate, Accept, IsFresh,
     DataInv, CachesInv, CollectedInv, session, evidence
<1>9. CASE RefreshBegins
  BY <1>9, EvidenceTypes DEF RefreshBegins, IsFresh, DataInv, CachesInv,
     CollectedInv, session, evidence
<1>10. CASE RefreshPublishes
  BY <1>10, EvidenceTypes DEF RefreshPublishes, Activate, Accept, DataInv,
     CachesInv, CollectedInv, session, evidence
<1>11. CASE RefreshFails
  BY <1>11, EvidenceTypes DEF RefreshFails, Refuse, Answer, NoRequest,
     NoResponse, IsFresh, DataInv, CachesInv, CollectedInv, session, evidence
<1>12. CASE RefreshOwnedElsewhere
  BY <1>12, EvidenceTypes DEF RefreshOwnedElsewhere, DataInv, CachesInv,
     CollectedInv, session, evidence
<1>13. CASE Coalesce
  BY <1>13, EvidenceTypes DEF Coalesce, Adopt, Activate, Accept, IsFresh,
     DataInv, CachesInv, CollectedInv, session, evidence
<1>14. CASE Deadline
  BY <1>14, EvidenceTypes DEF Deadline, Refuse, Answer, NoRequest, NoResponse,
     DataInv, CachesInv, CollectedInv, session, evidence
<1>15. CASE RefreshDone
  BY <1>15, EvidenceTypes DEF RefreshDone, Answer, NoRequest, NoResponse,
     DataInv, CachesInv, CollectedInv, session, evidence
<1>16. CASE Snapshot
  BY <1>16, EvidenceTypes DEF Snapshot, Adopt, Activate, IsFresh, Refuse,
     Answer, NoRequest, NoResponse, DataInv, CachesInv, CollectedInv, session,
     evidence
<1>17. CASE Scan
  BY <1>17, EvidenceTypes DEF Scan, Querying, Rest, DataInv, CachesInv,
     CollectedInv, session, evidence
<1>18. CASE Semantic
  BY <1>18, EvidenceTypes DEF Semantic, Querying, Rest, DataInv, CachesInv,
     CollectedInv, session, evidence
<1>19. CASE Structural
  BY <1>19, EvidenceTypes DEF Structural, Querying, Rest, DataInv, CachesInv,
     CollectedInv, session, evidence
<1>20. CASE References
  BY <1>20, EvidenceTypes DEF References, Querying, Response, Answer,
     NoRequest, DataInv, CachesInv, CollectedInv, session, evidence
<1>21. CASE Callers
  BY <1>21, EvidenceTypes DEF Callers, Querying, Response, Answer, NoRequest,
     DataInv, CachesInv, CollectedInv, session, evidence
<1>22. CASE LocateFiles
  BY <1>22, EvidenceTypes DEF LocateFiles, Querying, Response, Answer,
     NoRequest, NoResponse, DataInv, CachesInv, CollectedInv, session, evidence
<1>23. CASE UNCHANGED vars
  BY <1>23, EvidenceTypes DEF vars, session, evidence, DataInv, CachesInv,
     CollectedInv
<1>. QED
  BY <1>1, <1>2, <1>3, <1>4, <1>5, <1>6, <1>7, <1>8, <1>9, <1>10, <1>11, <1>12,
     <1>13, <1>14, <1>15, <1>16, <1>17, <1>18, <1>19, <1>20, <1>21, <1>22,
     <1>23 DEF Next, Step

LEMMA BindKept ==
  ASSUME DataInv, BindInv, NamedInv, [Next]_vars
  PROVE  BindInv'
<1>1. CASE Edit
  BY <1>1, ConstantsOK DEF Edit, DataInv, BindInv, NamedInv, session, evidence
<1>2. CASE OtherBegins
  BY <1>2, ConstantsOK DEF OtherBegins, DataInv, BindInv, NamedInv, session,
     evidence
<1>3. CASE OtherPublishes
  BY <1>3, ConstantsOK DEF OtherPublishes, DataInv, BindInv, NamedInv, session,
     evidence
<1>4. CASE OtherFails
  BY <1>4, ConstantsOK DEF OtherFails, DataInv, BindInv, NamedInv, session,
     evidence
<1>5. CASE ProjectStatus
  BY <1>5, ConstantsOK DEF ProjectStatus, Adopt, Activate, IsFresh, DataInv,
     BindInv, NamedInv, session, evidence
<1>6. ASSUME NEW tool \in Tools, Ask(tool) PROVE BindInv'
  BY <1>6, ConstantsOK DEF Ask, NoRequest, RefreshFirst, DataInv, BindInv,
     NamedInv, session, evidence
<1>7. ASSUME NEW tool \in Tools, AskUnavailable(tool) PROVE BindInv'
  BY <1>7, ConstantsOK DEF AskUnavailable, NoResponse, DataInv, BindInv,
     NamedInv, session, evidence
<1>8. CASE RefreshCurrent
  BY <1>8, ConstantsOK DEF RefreshCurrent, Activate, Accept, IsFresh, DataInv,
     BindInv, NamedInv, session, evidence
<1>9. CASE RefreshBegins
  BY <1>9, ConstantsOK DEF RefreshBegins, IsFresh, DataInv, BindInv, NamedInv,
     session, evidence
<1>10. CASE RefreshPublishes
  BY <1>10, ConstantsOK DEF RefreshPublishes, Activate, Accept, DataInv,
     BindInv, NamedInv, session, evidence
<1>11. CASE RefreshFails
  BY <1>11, ConstantsOK DEF RefreshFails, Refuse, Answer, NoRequest,
     NoResponse, IsFresh, DataInv, BindInv, NamedInv, session, evidence
<1>12. CASE RefreshOwnedElsewhere
  BY <1>12, ConstantsOK DEF RefreshOwnedElsewhere, DataInv, BindInv, NamedInv,
     session, evidence
<1>13. CASE Coalesce
  BY <1>13, ConstantsOK DEF Coalesce, Adopt, Activate, Accept, IsFresh,
     DataInv, BindInv, NamedInv, session, evidence
<1>14. CASE Deadline
  BY <1>14, ConstantsOK DEF Deadline, Refuse, Answer, NoRequest, NoResponse,
     DataInv, BindInv, NamedInv, session, evidence
<1>15. CASE RefreshDone
  BY <1>15, ConstantsOK DEF RefreshDone, Answer, NoRequest, NoResponse,
     DataInv, BindInv, NamedInv, session, evidence
<1>16. CASE Snapshot
  BY <1>16, ConstantsOK DEF Snapshot, Adopt, Activate, IsFresh, Refuse, Answer,
     NoRequest, NoResponse, DataInv, BindInv, NamedInv, session, evidence
<1>17. CASE Scan
  BY <1>17, ConstantsOK DEF Scan, Querying, Rest, DataInv, BindInv, NamedInv,
     session, evidence
<1>18. CASE Semantic
  BY <1>18, ConstantsOK DEF Semantic, Querying, Rest, DataInv, BindInv,
     NamedInv, session, evidence
<1>19. CASE Structural
  BY <1>19, ConstantsOK DEF Structural, Querying, Rest, DataInv, BindInv,
     NamedInv, session, evidence
<1>20. CASE References
  BY <1>20, ConstantsOK DEF References, Querying, Response, Answer, NoRequest,
     DataInv, BindInv, NamedInv, session, evidence
<1>21. CASE Callers
  BY <1>21, ConstantsOK DEF Callers, Querying, Response, Answer, NoRequest,
     DataInv, BindInv, NamedInv, session, evidence
<1>22. CASE LocateFiles
  BY <1>22, ConstantsOK DEF LocateFiles, Querying, Response, Answer, NoRequest,
     NoResponse, DataInv, BindInv, NamedInv, session, evidence
<1>23. CASE UNCHANGED vars
  BY <1>23, ConstantsOK DEF vars, session, evidence, DataInv, BindInv, NamedInv
<1>. QED
  BY <1>1, <1>2, <1>3, <1>4, <1>5, <1>6, <1>7, <1>8, <1>9, <1>10, <1>11, <1>12,
     <1>13, <1>14, <1>15, <1>16, <1>17, <1>18, <1>19, <1>20, <1>21, <1>22,
     <1>23 DEF Next, Step

LEMMA NamedKept ==
  ASSUME DataInv, BindInv, NamedInv, [Next]_vars
  PROVE  NamedInv'
<1>1. CASE Edit
  BY <1>1, ConstantsOK DEF Edit, DataInv, BindInv, NamedInv, session, evidence
<1>2. CASE OtherBegins
  BY <1>2, ConstantsOK DEF OtherBegins, DataInv, BindInv, NamedInv, session,
     evidence
<1>3. CASE OtherPublishes
  BY <1>3, ConstantsOK DEF OtherPublishes, DataInv, BindInv, NamedInv, session,
     evidence
<1>4. CASE OtherFails
  BY <1>4, ConstantsOK DEF OtherFails, DataInv, BindInv, NamedInv, session,
     evidence
<1>5. CASE ProjectStatus
  BY <1>5, ConstantsOK DEF ProjectStatus, Adopt, Activate, IsFresh, DataInv,
     BindInv, NamedInv, session, evidence
<1>6. ASSUME NEW tool \in Tools, Ask(tool) PROVE NamedInv'
  BY <1>6, ConstantsOK DEF Ask, NoRequest, RefreshFirst, DataInv, BindInv,
     NamedInv, session, evidence
<1>7. ASSUME NEW tool \in Tools, AskUnavailable(tool) PROVE NamedInv'
  BY <1>7, ConstantsOK DEF AskUnavailable, NoResponse, DataInv, BindInv,
     NamedInv, session, evidence
<1>8. CASE RefreshCurrent
  BY <1>8, ConstantsOK DEF RefreshCurrent, Activate, Accept, IsFresh, DataInv,
     BindInv, NamedInv, session, evidence
<1>9. CASE RefreshBegins
  BY <1>9, ConstantsOK DEF RefreshBegins, IsFresh, DataInv, BindInv, NamedInv,
     session, evidence
<1>10. CASE RefreshPublishes
  BY <1>10, ConstantsOK DEF RefreshPublishes, Activate, Accept, DataInv,
     BindInv, NamedInv, session, evidence
<1>11. CASE RefreshFails
  BY <1>11, ConstantsOK DEF RefreshFails, Refuse, Answer, NoRequest,
     NoResponse, IsFresh, DataInv, BindInv, NamedInv, session, evidence
<1>12. CASE RefreshOwnedElsewhere
  BY <1>12, ConstantsOK DEF RefreshOwnedElsewhere, DataInv, BindInv, NamedInv,
     session, evidence
<1>13. CASE Coalesce
  BY <1>13, ConstantsOK DEF Coalesce, Adopt, Activate, Accept, IsFresh,
     DataInv, BindInv, NamedInv, session, evidence
<1>14. CASE Deadline
  BY <1>14, ConstantsOK DEF Deadline, Refuse, Answer, NoRequest, NoResponse,
     DataInv, BindInv, NamedInv, session, evidence
<1>15. CASE RefreshDone
  BY <1>15, ConstantsOK DEF RefreshDone, Answer, NoRequest, NoResponse,
     DataInv, BindInv, NamedInv, session, evidence
<1>16. CASE Snapshot
  BY <1>16, ConstantsOK DEF Snapshot, Adopt, Activate, IsFresh, Refuse, Answer,
     NoRequest, NoResponse, DataInv, BindInv, NamedInv, session, evidence
<1>17. CASE Scan
  BY <1>17, ConstantsOK DEF Scan, Querying, Rest, DataInv, BindInv, NamedInv,
     session, evidence
<1>18. CASE Semantic
  BY <1>18, ConstantsOK DEF Semantic, Querying, Rest, DataInv, BindInv,
     NamedInv, session, evidence
<1>19. CASE Structural
  BY <1>19, ConstantsOK DEF Structural, Querying, Rest, DataInv, BindInv,
     NamedInv, session, evidence
<1>20. CASE References
  BY <1>20, ConstantsOK DEF References, Querying, Response, Answer, NoRequest,
     DataInv, BindInv, NamedInv, session, evidence
<1>21. CASE Callers
  BY <1>21, ConstantsOK DEF Callers, Querying, Response, Answer, NoRequest,
     DataInv, BindInv, NamedInv, session, evidence
<1>22. CASE LocateFiles
  BY <1>22, ConstantsOK DEF LocateFiles, Querying, Response, Answer, NoRequest,
     NoResponse, DataInv, BindInv, NamedInv, session, evidence
<1>23. CASE UNCHANGED vars
  BY <1>23, ConstantsOK DEF vars, session, evidence, DataInv, BindInv, NamedInv
<1>. QED
  BY <1>1, <1>2, <1>3, <1>4, <1>5, <1>6, <1>7, <1>8, <1>9, <1>10, <1>11, <1>12,
     <1>13, <1>14, <1>15, <1>16, <1>17, <1>18, <1>19, <1>20, <1>21, <1>22,
     <1>23 DEF Next, Step

LEMMA SeenKept ==
  ASSUME DataInv, SeenInv, [Next]_vars
  PROVE  SeenInv'
<1>1. CASE Edit
  BY <1>1, ConstantsOK DEF Edit, DataInv, Requests, SeenInv,
     AcceptedWasCurrent, session, evidence
<1>2. CASE OtherBegins
  BY <1>2, ConstantsOK DEF OtherBegins, DataInv, Requests, SeenInv,
     AcceptedWasCurrent, session, evidence
<1>3. CASE OtherPublishes
  BY <1>3, ConstantsOK DEF OtherPublishes, DataInv, Requests, SeenInv,
     AcceptedWasCurrent, session, evidence
<1>4. CASE OtherFails
  BY <1>4, ConstantsOK DEF OtherFails, DataInv, Requests, SeenInv,
     AcceptedWasCurrent, session, evidence
<1>5. CASE ProjectStatus
  BY <1>5, ConstantsOK DEF ProjectStatus, Adopt, Activate, IsFresh, DataInv,
     Requests, SeenInv, AcceptedWasCurrent, session, evidence
<1>6. ASSUME NEW tool \in Tools, Ask(tool) PROVE SeenInv'
  BY <1>6, ConstantsOK DEF Ask, NoRequest, RefreshFirst, DataInv, Requests,
     SeenInv, AcceptedWasCurrent, session, evidence
<1>7. ASSUME NEW tool \in Tools, AskUnavailable(tool) PROVE SeenInv'
  BY <1>7, ConstantsOK DEF AskUnavailable, NoResponse, DataInv, Requests,
     SeenInv, AcceptedWasCurrent, session, evidence
<1>8. CASE RefreshCurrent
  BY <1>8, ConstantsOK DEF RefreshCurrent, Activate, Accept, IsFresh, DataInv,
     Requests, SeenInv, AcceptedWasCurrent, session, evidence
<1>9. CASE RefreshBegins
  BY <1>9, ConstantsOK DEF RefreshBegins, IsFresh, DataInv, Requests, SeenInv,
     AcceptedWasCurrent, session, evidence
<1>10. CASE RefreshPublishes
  BY <1>10, ConstantsOK DEF RefreshPublishes, Activate, Accept, DataInv,
     Requests, SeenInv, AcceptedWasCurrent, session, evidence
<1>11. CASE RefreshFails
  BY <1>11, ConstantsOK DEF RefreshFails, Refuse, Answer, NoRequest,
     NoResponse, IsFresh, DataInv, Requests, SeenInv, AcceptedWasCurrent,
     session, evidence
<1>12. CASE RefreshOwnedElsewhere
  BY <1>12, ConstantsOK DEF RefreshOwnedElsewhere, DataInv, Requests, SeenInv,
     AcceptedWasCurrent, session, evidence
<1>13. CASE Coalesce
  BY <1>13, ConstantsOK DEF Coalesce, Adopt, Activate, Accept, IsFresh,
     DataInv, Requests, SeenInv, AcceptedWasCurrent, session, evidence
<1>14. CASE Deadline
  BY <1>14, ConstantsOK DEF Deadline, Refuse, Answer, NoRequest, NoResponse,
     DataInv, Requests, SeenInv, AcceptedWasCurrent, session, evidence
<1>15. CASE RefreshDone
  BY <1>15, ConstantsOK DEF RefreshDone, Answer, NoRequest, NoResponse,
     DataInv, Requests, SeenInv, AcceptedWasCurrent, session, evidence
<1>16. CASE Snapshot
  <2>1. fresh' => manifest'.source = source
    BY <1>16 DEF Snapshot, Adopt, IsFresh
  <2>2. CASE StalePolicy = "error" /\ ~IsFresh
    BY <1>16, <2>2, ConstantsOK DEF Snapshot, Refuse, Answer, NoRequest, DataInv, SeenInv,
       AcceptedWasCurrent
  <2>3. CASE ~(StalePolicy = "error" /\ ~IsFresh)
    BY <1>16, <2>1, <2>3 DEF Snapshot, DataInv, SeenInv, AcceptedWasCurrent
  <2>. QED
    BY <2>2, <2>3
<1>17. CASE Scan
  BY <1>17, ConstantsOK DEF Scan, Querying, Rest, DataInv, Requests, SeenInv,
     AcceptedWasCurrent, session, evidence
<1>18. CASE Semantic
  BY <1>18, ConstantsOK DEF Semantic, Querying, Rest, DataInv, Requests,
     SeenInv, AcceptedWasCurrent, session, evidence
<1>19. CASE Structural
  BY <1>19, ConstantsOK DEF Structural, Querying, Rest, DataInv, Requests,
     SeenInv, AcceptedWasCurrent, session, evidence
<1>20. CASE References
  BY <1>20, ConstantsOK DEF References, Querying, Response, Answer, NoRequest,
     DataInv, Requests, SeenInv, AcceptedWasCurrent, session, evidence
<1>21. CASE Callers
  BY <1>21, ConstantsOK DEF Callers, Querying, Response, Answer, NoRequest,
     DataInv, Requests, SeenInv, AcceptedWasCurrent, session, evidence
<1>22. CASE LocateFiles
  BY <1>22, ConstantsOK DEF LocateFiles, Querying, Response, Answer, NoRequest,
     NoResponse, DataInv, Requests, SeenInv, AcceptedWasCurrent, session,
     evidence
<1>23. CASE UNCHANGED vars
  BY <1>23, ConstantsOK DEF vars, session, evidence, DataInv, Requests,
     SeenInv, AcceptedWasCurrent
<1>. QED
  BY <1>1, <1>2, <1>3, <1>4, <1>5, <1>6, <1>7, <1>8, <1>9, <1>10, <1>11, <1>12,
     <1>13, <1>14, <1>15, <1>16, <1>17, <1>18, <1>19, <1>20, <1>21, <1>22,
     <1>23 DEF Next, Step

LEMMA EvidenceKept ==
  ASSUME DataInv, CachesInv, CollectedInv, SeenInv, BindInv, EvidenceInv, [Next]_vars
  PROVE  EvidenceInv'
<1>1. CASE Edit
  BY <1>1 DEF Edit, DataInv, CachesInv, CollectedInv, SeenInv, BindInv,
     EvidenceInv, Requests, Evidence, Unread, Now, Nothing, session, evidence
<1>2. CASE OtherBegins
  BY <1>2 DEF OtherBegins, DataInv, CachesInv, CollectedInv, SeenInv, BindInv,
     EvidenceInv, Requests, Evidence, Unread, Now, Nothing, session, evidence
<1>3. CASE OtherPublishes
  BY <1>3 DEF OtherPublishes, DataInv, CachesInv, CollectedInv, SeenInv,
     BindInv, EvidenceInv, Requests, Evidence, Unread, Now, Nothing, session,
     evidence
<1>4. CASE OtherFails
  BY <1>4 DEF OtherFails, DataInv, CachesInv, CollectedInv, SeenInv, BindInv,
     EvidenceInv, Requests, Evidence, Unread, Now, Nothing, session, evidence
<1>5. CASE ProjectStatus
  BY <1>5 DEF ProjectStatus, Adopt, Activate, IsFresh, DataInv, CachesInv,
     CollectedInv, SeenInv, BindInv, EvidenceInv, Requests, Evidence, Unread,
     Now, Nothing, session, evidence
<1>6. ASSUME NEW tool \in Tools, Ask(tool) PROVE EvidenceInv'
  BY <1>6 DEF Ask, NoRequest, RefreshFirst, DataInv, CachesInv, CollectedInv,
     SeenInv, BindInv, EvidenceInv, Requests, Evidence, Unread, Now, Nothing,
     session, evidence
<1>7. ASSUME NEW tool \in Tools, AskUnavailable(tool) PROVE EvidenceInv'
  BY <1>7 DEF AskUnavailable, NoResponse, DataInv, CachesInv, CollectedInv,
     SeenInv, BindInv, EvidenceInv, Requests, Evidence, Unread, Now, Nothing,
     session, evidence
<1>8. CASE RefreshCurrent
  BY <1>8 DEF RefreshCurrent, Activate, Accept, IsFresh, DataInv, CachesInv,
     CollectedInv, SeenInv, BindInv, EvidenceInv, Requests, Evidence, Unread,
     Now, Nothing, session, evidence
<1>9. CASE RefreshBegins
  BY <1>9 DEF RefreshBegins, IsFresh, DataInv, CachesInv, CollectedInv,
     SeenInv, BindInv, EvidenceInv, Requests, Evidence, Unread, Now, Nothing,
     session, evidence
<1>10. CASE RefreshPublishes
  BY <1>10 DEF RefreshPublishes, Activate, Accept, DataInv, CachesInv,
     CollectedInv, SeenInv, BindInv, EvidenceInv, Requests, Evidence, Unread,
     Now, Nothing, session, evidence
<1>11. CASE RefreshFails
  BY <1>11 DEF RefreshFails, Refuse, Answer, NoRequest, NoResponse, IsFresh,
     DataInv, CachesInv, CollectedInv, SeenInv, BindInv, EvidenceInv, Requests,
     Evidence, Unread, Now, Nothing, session, evidence
<1>12. CASE RefreshOwnedElsewhere
  BY <1>12 DEF RefreshOwnedElsewhere, DataInv, CachesInv, CollectedInv,
     SeenInv, BindInv, EvidenceInv, Requests, Evidence, Unread, Now, Nothing,
     session, evidence
<1>13. CASE Coalesce
  BY <1>13 DEF Coalesce, Adopt, Activate, Accept, IsFresh, DataInv, CachesInv,
     CollectedInv, SeenInv, BindInv, EvidenceInv, Requests, Evidence, Unread,
     Now, Nothing, session, evidence
<1>14. CASE Deadline
  BY <1>14 DEF Deadline, Refuse, Answer, NoRequest, NoResponse, DataInv,
     CachesInv, CollectedInv, SeenInv, BindInv, EvidenceInv, Requests,
     Evidence, Unread, Now, Nothing, session, evidence
<1>15. CASE RefreshDone
  BY <1>15 DEF RefreshDone, Answer, NoRequest, NoResponse, DataInv, CachesInv,
     CollectedInv, SeenInv, BindInv, EvidenceInv, Requests, Evidence, Unread,
     Now, Nothing, session, evidence
<1>16. CASE Snapshot
  BY <1>16 DEF Snapshot, Adopt, Activate, IsFresh, Refuse, Answer, NoRequest,
     NoResponse, DataInv, CachesInv, CollectedInv, SeenInv, BindInv,
     EvidenceInv, Requests, Evidence, Unread, Now, Nothing, session, evidence
<1>17. CASE Scan
  BY <1>17 DEF Scan, Querying, Rest, DataInv, CachesInv, CollectedInv, SeenInv,
     BindInv, EvidenceInv, Requests, Evidence, Unread, Now, Nothing, session,
     evidence
<1>18. CASE Semantic
  BY <1>18 DEF Semantic, Querying, Rest, DataInv, CachesInv, CollectedInv,
     SeenInv, BindInv, EvidenceInv, Requests, Evidence, Unread, Now, Nothing,
     session, evidence
<1>19. CASE Structural
  BY <1>19 DEF Structural, Querying, Rest, DataInv, CachesInv, CollectedInv,
     SeenInv, BindInv, EvidenceInv, Requests, Evidence, Unread, Now, Nothing,
     session, evidence
<1>20. CASE References
  BY <1>20 DEF References, Querying, Response, Answer, NoRequest, DataInv,
     CachesInv, CollectedInv, SeenInv, BindInv, EvidenceInv, Requests,
     Evidence, Unread, Now, Nothing, session, evidence
<1>21. CASE Callers
  BY <1>21 DEF Callers, Querying, Response, Answer, NoRequest, DataInv,
     CachesInv, CollectedInv, SeenInv, BindInv, EvidenceInv, Requests,
     Evidence, Unread, Now, Nothing, session, evidence
<1>22. CASE LocateFiles
  BY <1>22 DEF LocateFiles, Querying, Response, Answer, NoRequest, NoResponse,
     DataInv, CachesInv, CollectedInv, SeenInv, BindInv, EvidenceInv, Requests,
     Evidence, Unread, Now, Nothing, session, evidence
<1>23. CASE UNCHANGED vars
  BY <1>23 DEF vars, session, evidence, DataInv, CachesInv, CollectedInv,
     SeenInv, BindInv, EvidenceInv, Requests, Evidence, Unread, Now, Nothing
<1>. QED
  BY <1>1, <1>2, <1>3, <1>4, <1>5, <1>6, <1>7, <1>8, <1>9, <1>10, <1>11, <1>12,
     <1>13, <1>14, <1>15, <1>16, <1>17, <1>18, <1>19, <1>20, <1>21, <1>22,
     <1>23 DEF Next, Step

LEMMA CacheKept ==
  ASSUME DataInv, CachesInv, CollectedInv, CacheInv, [Next]_vars
  PROVE  CacheInv'
<1>1. CASE Edit
  BY <1>1 DEF Edit, DataInv, CachesInv, CollectedInv, CacheInv,
     WholeEvidenceCached, Requests, Evidence, Unread, Now, Nothing, Join,
     session, evidence
<1>2. CASE OtherBegins
  BY <1>2 DEF OtherBegins, DataInv, CachesInv, CollectedInv, CacheInv,
     WholeEvidenceCached, Requests, Evidence, Unread, Now, Nothing, Join,
     session, evidence
<1>3. CASE OtherPublishes
  BY <1>3 DEF OtherPublishes, DataInv, CachesInv, CollectedInv, CacheInv,
     WholeEvidenceCached, Requests, Evidence, Unread, Now, Nothing, Join,
     session, evidence
<1>4. CASE OtherFails
  BY <1>4 DEF OtherFails, DataInv, CachesInv, CollectedInv, CacheInv,
     WholeEvidenceCached, Requests, Evidence, Unread, Now, Nothing, Join,
     session, evidence
<1>5. CASE ProjectStatus
  BY <1>5 DEF ProjectStatus, Adopt, Activate, IsFresh, DataInv, CachesInv,
     CollectedInv, CacheInv, WholeEvidenceCached, Requests, Evidence, Unread,
     Now, Nothing, Join, session, evidence
<1>6. ASSUME NEW tool \in Tools, Ask(tool) PROVE CacheInv'
  BY <1>6 DEF Ask, NoRequest, RefreshFirst, DataInv, CachesInv, CollectedInv,
     CacheInv, WholeEvidenceCached, Requests, Evidence, Unread, Now, Nothing,
     Join, session, evidence
<1>7. ASSUME NEW tool \in Tools, AskUnavailable(tool) PROVE CacheInv'
  BY <1>7 DEF AskUnavailable, NoResponse, DataInv, CachesInv, CollectedInv,
     CacheInv, WholeEvidenceCached, Requests, Evidence, Unread, Now, Nothing,
     Join, session, evidence
<1>8. CASE RefreshCurrent
  BY <1>8 DEF RefreshCurrent, Activate, Accept, IsFresh, DataInv, CachesInv,
     CollectedInv, CacheInv, WholeEvidenceCached, Requests, Evidence, Unread,
     Now, Nothing, Join, session, evidence
<1>9. CASE RefreshBegins
  BY <1>9 DEF RefreshBegins, IsFresh, DataInv, CachesInv, CollectedInv,
     CacheInv, WholeEvidenceCached, Requests, Evidence, Unread, Now, Nothing,
     Join, session, evidence
<1>10. CASE RefreshPublishes
  BY <1>10 DEF RefreshPublishes, Activate, Accept, DataInv, CachesInv,
     CollectedInv, CacheInv, WholeEvidenceCached, Requests, Evidence, Unread,
     Now, Nothing, Join, session, evidence
<1>11. CASE RefreshFails
  BY <1>11 DEF RefreshFails, Refuse, Answer, NoRequest, NoResponse, IsFresh,
     DataInv, CachesInv, CollectedInv, CacheInv, WholeEvidenceCached, Requests,
     Evidence, Unread, Now, Nothing, Join, session, evidence
<1>12. CASE RefreshOwnedElsewhere
  BY <1>12 DEF RefreshOwnedElsewhere, DataInv, CachesInv, CollectedInv,
     CacheInv, WholeEvidenceCached, Requests, Evidence, Unread, Now, Nothing,
     Join, session, evidence
<1>13. CASE Coalesce
  BY <1>13 DEF Coalesce, Adopt, Activate, Accept, IsFresh, DataInv, CachesInv,
     CollectedInv, CacheInv, WholeEvidenceCached, Requests, Evidence, Unread,
     Now, Nothing, Join, session, evidence
<1>14. CASE Deadline
  BY <1>14 DEF Deadline, Refuse, Answer, NoRequest, NoResponse, DataInv,
     CachesInv, CollectedInv, CacheInv, WholeEvidenceCached, Requests,
     Evidence, Unread, Now, Nothing, Join, session, evidence
<1>15. CASE RefreshDone
  BY <1>15 DEF RefreshDone, Answer, NoRequest, NoResponse, DataInv, CachesInv,
     CollectedInv, CacheInv, WholeEvidenceCached, Requests, Evidence, Unread,
     Now, Nothing, Join, session, evidence
<1>16. CASE Snapshot
  BY <1>16 DEF Snapshot, Adopt, Activate, IsFresh, Refuse, Answer, NoRequest,
     NoResponse, DataInv, CachesInv, CollectedInv, CacheInv,
     WholeEvidenceCached, Requests, Evidence, Unread, Now, Nothing, Join,
     session, evidence
<1>17. CASE Scan
  BY <1>17 DEF Scan, Querying, Rest, DataInv, CachesInv, CollectedInv,
     CacheInv, WholeEvidenceCached, Requests, Evidence, Unread, Now, Nothing,
     Join, session, evidence
<1>18. CASE Semantic
  BY <1>18 DEF Semantic, Querying, Rest, DataInv, CachesInv, CollectedInv,
     CacheInv, WholeEvidenceCached, Requests, Evidence, Unread, Now, Nothing,
     Join, session, evidence
<1>19. CASE Structural
  BY <1>19 DEF Structural, Querying, Rest, DataInv, CachesInv, CollectedInv,
     CacheInv, WholeEvidenceCached, Requests, Evidence, Unread, Now, Nothing,
     Join, session, evidence
<1>20. CASE References
  BY <1>20 DEF References, Querying, Response, Answer, NoRequest, DataInv,
     CachesInv, CollectedInv, CacheInv, WholeEvidenceCached, Requests,
     Evidence, Unread, Now, Nothing, Join, session, evidence
<1>21. CASE Callers
  BY <1>21 DEF Callers, Querying, Response, Answer, NoRequest, DataInv,
     CachesInv, CollectedInv, CacheInv, WholeEvidenceCached, Requests,
     Evidence, Unread, Now, Nothing, Join, session, evidence
<1>22. CASE LocateFiles
  BY <1>22 DEF LocateFiles, Querying, Response, Answer, NoRequest, NoResponse,
     DataInv, CachesInv, CollectedInv, CacheInv, WholeEvidenceCached, Requests,
     Evidence, Unread, Now, Nothing, Join, session, evidence
<1>23. CASE UNCHANGED vars
  BY <1>23 DEF vars, session, evidence, DataInv, CachesInv, CollectedInv,
     CacheInv, WholeEvidenceCached, Requests, Evidence, Unread, Now, Nothing,
     Join
<1>. QED
  BY <1>1, <1>2, <1>3, <1>4, <1>5, <1>6, <1>7, <1>8, <1>9, <1>10, <1>11, <1>12,
     <1>13, <1>14, <1>15, <1>16, <1>17, <1>18, <1>19, <1>20, <1>21, <1>22,
     <1>23 DEF Next, Step

LEMMA ViewKept ==
  ASSUME ~Failures, DataInv, BindInv, NamedInv, ViewInv, [Next]_vars
  PROVE  ViewInv'
<1>1. CASE Edit
  BY <1>1 DEF Edit, DataInv, BindInv, NamedInv, ViewInv, session, evidence
<1>2. CASE OtherBegins
  BY <1>2 DEF OtherBegins, DataInv, BindInv, NamedInv, ViewInv, session,
     evidence
<1>3. CASE OtherPublishes
  BY <1>3 DEF OtherPublishes, DataInv, BindInv, NamedInv, ViewInv, session,
     evidence
<1>4. CASE OtherFails
  BY <1>4 DEF OtherFails, DataInv, BindInv, NamedInv, ViewInv, session, evidence
<1>5. CASE ProjectStatus
  BY <1>5 DEF ProjectStatus, Adopt, Activate, IsFresh, DataInv, BindInv,
     NamedInv, ViewInv, session, evidence
<1>6. ASSUME NEW tool \in Tools, Ask(tool) PROVE ViewInv'
  BY <1>6 DEF Ask, NoRequest, RefreshFirst, DataInv, BindInv, NamedInv,
     ViewInv, session, evidence
<1>7. ASSUME NEW tool \in Tools, AskUnavailable(tool) PROVE ViewInv'
  BY <1>7 DEF AskUnavailable, NoResponse, DataInv, BindInv, NamedInv, ViewInv,
     session, evidence
<1>8. CASE RefreshCurrent
  BY <1>8 DEF RefreshCurrent, Activate, Accept, IsFresh, DataInv, BindInv,
     NamedInv, ViewInv, session, evidence
<1>9. CASE RefreshBegins
  BY <1>9 DEF RefreshBegins, IsFresh, DataInv, BindInv, NamedInv, ViewInv,
     session, evidence
<1>10. CASE RefreshPublishes
  BY <1>10 DEF RefreshPublishes, Activate, Accept, DataInv, BindInv, NamedInv,
     ViewInv, session, evidence
<1>11. CASE RefreshFails
  BY <1>11 DEF RefreshFails, Refuse, Answer, NoRequest, NoResponse, IsFresh,
     DataInv, BindInv, NamedInv, ViewInv, session, evidence
<1>12. CASE RefreshOwnedElsewhere
  BY <1>12 DEF RefreshOwnedElsewhere, DataInv, BindInv, NamedInv, ViewInv,
     session, evidence
<1>13. CASE Coalesce
  BY <1>13 DEF Coalesce, Adopt, Activate, Accept, IsFresh, DataInv, BindInv,
     NamedInv, ViewInv, session, evidence
<1>14. CASE Deadline
  BY <1>14 DEF Deadline, Refuse, Answer, NoRequest, NoResponse, DataInv,
     BindInv, NamedInv, ViewInv, session, evidence
<1>15. CASE RefreshDone
  BY <1>15 DEF RefreshDone, Answer, NoRequest, NoResponse, DataInv, BindInv,
     NamedInv, ViewInv, session, evidence
<1>16. CASE Snapshot
  BY <1>16 DEF Snapshot, Adopt, Activate, IsFresh, Refuse, Answer, NoRequest,
     NoResponse, DataInv, BindInv, NamedInv, ViewInv, session, evidence
<1>17. CASE Scan
  BY <1>17 DEF Scan, Querying, Rest, DataInv, BindInv, NamedInv, ViewInv,
     session, evidence
<1>18. CASE Semantic
  BY <1>18 DEF Semantic, Querying, Rest, DataInv, BindInv, NamedInv, ViewInv,
     session, evidence
<1>19. CASE Structural
  BY <1>19 DEF Structural, Querying, Rest, DataInv, BindInv, NamedInv, ViewInv,
     session, evidence
<1>20. CASE References
  BY <1>20 DEF References, Querying, Response, Answer, NoRequest, DataInv,
     BindInv, NamedInv, ViewInv, session, evidence
<1>21. CASE Callers
  BY <1>21 DEF Callers, Querying, Response, Answer, NoRequest, DataInv,
     BindInv, NamedInv, ViewInv, session, evidence
<1>22. CASE LocateFiles
  BY <1>22 DEF LocateFiles, Querying, Response, Answer, NoRequest, NoResponse,
     DataInv, BindInv, NamedInv, ViewInv, session, evidence
<1>23. CASE UNCHANGED vars
  BY <1>23 DEF vars, session, evidence, DataInv, BindInv, NamedInv, ViewInv
<1>. QED
  BY <1>1, <1>2, <1>3, <1>4, <1>5, <1>6, <1>7, <1>8, <1>9, <1>10, <1>11, <1>12,
     <1>13, <1>14, <1>15, <1>16, <1>17, <1>18, <1>19, <1>20, <1>21, <1>22,
     <1>23 DEF Next, Step

-----------------------------------------------------------------------------
(* What an answer labelled fresh is of. *)

\* The step of StaleOnlyFromCache.
FreshAnswer ==
  response' # response /\ response'.ok /\ response'.fresh /\ response'.quiet
    => response'.of \subseteq {source} \union Cached(request.tool)

\* With no edit since it was asked, a query whose index is fresh has seen the
\* present source only, which is the published one.
LEMMA QuietQuery ==
  ASSUME DataInv, SeenInv, EvidenceInv, pc = "querying", fresh, edits = request.edits
  PROVE  /\ structural.of \subseteq {source}
         /\ semantic.of \subseteq {source}
         /\ scan.of \subseteq {source} \union exact.of
  BY DEF DataInv, SeenInv, EvidenceInv

LEMMA FreshAnswers ==
  ASSUME DataInv, SeenInv, EvidenceInv, [Next]_vars
  PROVE  FreshAnswer
<1>1. CASE Edit
  BY <1>1 DEF Edit, FreshAnswer, session, evidence
<1>2. CASE OtherBegins
  BY <1>2 DEF OtherBegins, FreshAnswer, session, evidence
<1>3. CASE OtherPublishes
  BY <1>3 DEF OtherPublishes, FreshAnswer, session, evidence
<1>4. CASE OtherFails
  BY <1>4 DEF OtherFails, FreshAnswer, session, evidence
<1>5. CASE ProjectStatus
  BY <1>5 DEF ProjectStatus, Adopt, Activate, IsFresh, FreshAnswer, session,
     evidence
<1>6. ASSUME NEW tool \in Tools, Ask(tool) PROVE FreshAnswer
  BY <1>6 DEF Ask, NoRequest, RefreshFirst, FreshAnswer, session, evidence
<1>7. ASSUME NEW tool \in Tools, AskUnavailable(tool) PROVE FreshAnswer
  BY <1>7 DEF AskUnavailable, NoResponse, FreshAnswer, session, evidence
<1>8. CASE RefreshCurrent
  BY <1>8 DEF RefreshCurrent, Activate, Accept, IsFresh, FreshAnswer, session,
     evidence
<1>9. CASE RefreshBegins
  BY <1>9 DEF RefreshBegins, IsFresh, FreshAnswer, session, evidence
<1>10. CASE RefreshPublishes
  BY <1>10 DEF RefreshPublishes, Activate, Accept, FreshAnswer, session,
     evidence
<1>11. CASE RefreshFails
  BY <1>11 DEF RefreshFails, Refuse, Answer, NoRequest, NoResponse, IsFresh,
     FreshAnswer, session, evidence
<1>12. CASE RefreshOwnedElsewhere
  BY <1>12 DEF RefreshOwnedElsewhere, FreshAnswer, session, evidence
<1>13. CASE Coalesce
  BY <1>13 DEF Coalesce, Adopt, Activate, Accept, IsFresh, FreshAnswer,
     session, evidence
<1>14. CASE Deadline
  BY <1>14 DEF Deadline, Refuse, Answer, NoRequest, NoResponse, FreshAnswer,
     session, evidence
<1>15. CASE RefreshDone
  BY <1>15 DEF RefreshDone, Answer, NoRequest, NoResponse, FreshAnswer,
     session, evidence
<1>16. CASE Snapshot
  BY <1>16 DEF Snapshot, Adopt, Activate, IsFresh, Refuse, Answer, NoRequest,
     NoResponse, FreshAnswer, session, evidence
<1>17. CASE Scan
  BY <1>17 DEF Scan, Querying, Rest, FreshAnswer, session, evidence
<1>18. CASE Semantic
  BY <1>18 DEF Semantic, Querying, Rest, FreshAnswer, session, evidence
<1>19. CASE Structural
  BY <1>19 DEF Structural, Querying, Rest, FreshAnswer, session, evidence
<1>20. CASE References
  <2>. SUFFICES ASSUME response'.fresh, response'.quiet
       PROVE  response'.of \subseteq {source} \union Cached(request.tool)
    BY DEF FreshAnswer
  <2>1. PICK e : response' = Response(e) /\ e.of \in {complete.of, scan.of, scan.of \union semantic.of}
    BY <1>20 DEF References, Answer, Join
  <2>2. fresh /\ edits = request.edits /\ response'.of = e.of
    BY <2>1 DEF Response
  <2>. QED
    BY <1>20, <2>1, <2>2, QuietQuery DEF References, Querying, Cached
<1>21. CASE Callers
  <2>. SUFFICES ASSUME response'.fresh, response'.quiet
       PROVE  response'.of \subseteq {source} \union Cached(request.tool)
    BY DEF FreshAnswer
  <2>1. PICK e :
          /\ response' = Response(e)
          /\ e.of \in {structural.of, structural.of \union callers.of,
                       structural.of \union (scan.of \union semantic.of)}
    BY <1>21 DEF Callers, Answer, Join
  <2>2. fresh /\ edits = request.edits /\ response'.of = e.of
    BY <2>1 DEF Response
  <2>. QED
    BY <1>21, <2>1, <2>2, QuietQuery DEF Callers, Querying, Cached
<1>22. CASE LocateFiles
  <2>. SUFFICES ASSUME response'.ok, response'.fresh, response'.quiet
       PROVE  response'.of \subseteq {source} \union Cached(request.tool)
    BY DEF FreshAnswer
  <2>1. response' = Response(structural)
    BY <1>22 DEF LocateFiles, Answer, NoResponse
  <2>2. fresh /\ edits = request.edits /\ response'.of = structural.of
    BY <2>1 DEF Response
  <2>. QED
    BY <1>22, <2>2, QuietQuery DEF LocateFiles, Querying, Cached
<1>23. CASE UNCHANGED vars
  BY <1>23 DEF vars, session, evidence, FreshAnswer
<1>. QED
  BY <1>1, <1>2, <1>3, <1>4, <1>5, <1>6, <1>7, <1>8, <1>9, <1>10, <1>11, <1>12,
     <1>13, <1>14, <1>15, <1>16, <1>17, <1>18, <1>19, <1>20, <1>21, <1>22,
     <1>23 DEF Next, Step

-----------------------------------------------------------------------------
(* The theorems. *)

LEMMA InitInv ==
  ASSUME Init
  PROVE  Inv
<1>1. DataInv /\ BindInv /\ NamedInv
  BY ConstantsOK, RequestTypes
  DEF Init, DataInv, BindInv, NamedInv, Requests, Responses, NoRequest, NoResponse, Places
<1>2. CachesInv /\ CollectedInv /\ EvidenceInv /\ CacheInv
  BY DEF Init, CachesInv, CollectedInv, EvidenceInv, CacheInv, WholeEvidenceCached,
         Evidence, Unread
<1>3. SeenInv
  BY ConstantsOK DEF Init, SeenInv, AcceptedWasCurrent, NoRequest
<1>. QED
  BY <1>1, <1>2, <1>3 DEF Inv

LEMMA NextInv ==
  ASSUME Inv, [Next]_vars
  PROVE  Inv'
  BY DataKept, CachesKept, CollectedKept, BindKept, NamedKept, SeenKept, EvidenceKept,
     CacheKept DEF Inv

(* Every reachable state satisfies the invariant. *)
THEOREM Invariant == Spec => []Inv
<1>1. Init => Inv
  BY InitInv
<1>2. Inv /\ [Next]_vars => Inv'
  BY NextInv
<1>. QED
  BY <1>1, <1>2, PTL DEF Spec

(* The variables have the values the code gives them, and no evidence is    *)
(* left over from an earlier request.                                       *)
THEOREM TypeCorrect == Spec => []TypeOK
<1>1. Inv => TypeOK
  BY DEF Inv, DataInv, CollectedInv, BindInv, NamedInv, TypeOK, Responses
<1>. QED
  BY <1>1, Invariant, PTL

(* A refresh that is answered "current" or "refreshed" names a source that  *)
(* the repository held since the request was made: whoever refreshed it,    *)
(* whatever was edited meanwhile, and if refreshes fail.                    *)
THEOREM RefreshedIsCurrent == Spec => []AcceptedWasCurrent
<1>1. Inv => AcceptedWasCurrent
  BY DEF Inv, SeenInv
<1>. QED
  BY <1>1, Invariant, PTL

(* Evidence the clock cut short is never cached.                            *)
THEOREM TruncatedNeverCached == Spec => []WholeEvidenceCached
<1>1. Inv => WholeEvidenceCached
  BY DEF Inv, CacheInv
<1>. QED
  BY <1>1, Invariant, PTL

\* The part of QueryOfOneGeneration that holds after failed refreshes too.
BoundWhileQuerying == pc = "querying" => lease # "other" /\ bound = manifest.gen

(* A query that runs is bound to the published generation, which nobody     *)
(* replaces before it answers, also after refreshes that failed.            *)
THEOREM QueryIsBound == Spec => []BoundWhileQuerying
<1>1. Inv => BoundWhileQuerying
  BY DEF Inv, BindInv, BoundWhileQuerying
<1>. QED
  BY <1>1, Invariant, PTL

(* Where no refresh of the session fails, its registrations and the graph   *)
(* it sees are of that generation too.  Without the assumption they need    *)
(* not be: RegistrationBound of RefreshTransaction is violated.             *)
THEOREM OneGenerationPerQuery ==
  ASSUME ~Failures
  PROVE  Spec => []QueryOfOneGeneration
<1>1. Init => ViewInv
  BY DEF Init, ViewInv
<1>2. Inv /\ ViewInv /\ [Next]_vars => ViewInv'
  BY ViewKept DEF Inv
<1>3. Inv /\ ViewInv => QueryOfOneGeneration
  BY DEF Inv, BindInv, ViewInv, QueryOfOneGeneration
<1>. QED
  BY <1>1, <1>2, <1>3, Invariant, PTL DEF Spec

(* With no edit while a query runs, an answer labelled fresh is of the      *)
(* present source but for what a cache adds, and locate_files has no cache. *)
THEOREM FreshButForCaches == Spec => StaleOnlyFromCache
<1>1. Inv /\ [Next]_vars => [FreshAnswer]_vars
  BY FreshAnswers DEF Inv
<1>. QED
  BY <1>1, Invariant, PTL DEF Spec, StaleOnlyFromCache, FreshAnswer

-----------------------------------------------------------------------------
(* ReloadingMcp: its constants and variables, and an instance of it that   *)
(* has these for its own.                                                  *)
CONSTANTS Kinds, Patience, Takes, MaxChanges, MaxExits, MaxAsked
VARIABLES config, life, changes, exits, asked, place, query, sel, backend, fp, procs, waited,
          answer
Reloading == INSTANCE ReloadingMcp WITH
    pc <- place, request <- query, MaxRequests <- MaxAsked

\* The bounds of the exploration are numbers.
Bounds == Patience \in Nat /\ MaxChanges \in Nat /\ MaxExits \in Nat /\ MaxAsked \in Nat

Message == [id : Int, kind : Kinds \cup {"none", "initialize"}, spent : Nat]
Process == [alive : BOOLEAN, config : Nat, life : Nat, inbox : Seq(Message), work : Message,
            out : Seq(Int)]
Selection == [config : Nat, life : Nat]

\* A backend that has the message to initialize and has not taken it.
Fresh(b) ==
  /\ procs[b].inbox = <<[id |-> Reloading!InitializeId, kind |-> "initialize", spent |-> 0]>>
  /\ procs[b].work = Reloading!NoWork /\ procs[b].out = <<>>

\* Where the bootstrap is once it has read the config, and the lifecycle too.
Chosen == {"selected", "start", "send", "wait"}
Looked == {"load", "read_life"} \cup Chosen

Ends == {"local", "unavailable", "failure", "result"}
Cause == {"none", "config_changed", "not_ready", "start_late", "died", "mismatch", "late"}
Said == [id : Int, is : Ends \cup {"none"}, config : Nat, life : Nat, cause : Cause]
Asked == [id : Int, kind : Kinds \cup {"none"}, config : Nat, life : Nat]

Typed ==
  /\ config \in 1..(MaxChanges + 1) /\ life \in [gen : 1..(MaxChanges + 1), ok : BOOLEAN]
  /\ changes \in 0..MaxChanges /\ config <= changes + 1 /\ life.gen <= changes + 1
  /\ exits \in 0..MaxExits /\ asked \in 0..MaxAsked /\ waited \in 0..Patience
  /\ place \in {"idle", "resolve"} \cup Looked
  /\ query \in Asked
  /\ sel \in Selection /\ fp \in Selection
  /\ procs \in Seq(Process) /\ backend \in 0..Len(procs)
  /\ answer \in Said

\* Each request starts one backend at most.
CountInv ==
  /\ Len(procs) <= asked /\ (place \in {"resolve", "load", "read_life", "selected"} => Len(procs) < asked)
  /\ answer.id <= asked /\ query.id <= asked
  /\ place # "idle" => answer.id # query.id

\* What was read for a request is no older than the request.
OrderInv ==
  /\ query.config <= config /\ query.life <= life.gen
  /\ sel.config <= config /\ fp.config <= config
  /\ place \in Looked => query.config <= sel.config /\ sel.config > 0
  /\ place \in Chosen => query.life <= sel.life

\* The backend in use was started for the state it is used for.
BackendInv ==
  /\ fp = Reloading!Nothing <=> backend = 0
  /\ backend # 0 => procs[backend].life = fp.life /\ procs[backend].config >= fp.config
  /\ place = "start" =>
       /\ Len(procs) > 0 /\ procs[Len(procs)].life = sel.life /\ backend = 0
       /\ Fresh(Len(procs)) \/ procs[Len(procs)].config >= sel.config
  /\ place \in {"send", "wait"} => backend # 0 /\ fp = sel

SelectedInv == Typed /\ CountInv /\ OrderInv /\ BackendInv /\ Reloading!AnsweredBySelected

-----------------------------------------------------------------------------
(* The processes. *)

\* Another value for one process.
LEMMA OneProcess ==
  ASSUME Typed, NEW b \in 1..Len(procs), NEW p \in Process
  PROVE  LET d == [procs EXCEPT ![b] = p] IN
         /\ d \in Seq(Process) /\ Len(d) = Len(procs) /\ d[b] = p
         /\ \A c \in 1..Len(procs) : c # b => d[c] = procs[c]
  BY DEF Typed

\* A backend that is closed, and nothing else of it changes.
SameButAlive(b) ==
  /\ procs'[b].config = procs[b].config /\ procs'[b].life = procs[b].life
  /\ procs'[b].inbox = procs[b].inbox /\ procs'[b].work = procs[b].work
  /\ procs'[b].out = procs[b].out

\* Closing the backend ends it and leaves the rest of it, and the other processes, as
\* they are.
LEMMA ClosedIs ==
  ASSUME Typed, procs' = Reloading!Closed(backend)
  PROVE  /\ procs' \in Seq(Process) /\ Len(procs') = Len(procs)
         /\ \A b \in 1..Len(procs) : /\ SameButAlive(b)
                                     /\ procs'[b].alive => procs[b].alive /\ b # backend
<1>1. procs \in Seq(Process) /\ backend \in 0..Len(procs)
  BY DEF Typed
<1>2. \A b \in 1..Len(procs) : procs[b] \in Process
  BY <1>1
<1>3. CASE backend = 0
  BY <1>1, <1>3 DEF Reloading!Closed, SameButAlive
<1>4. CASE backend # 0
  <2> DEFINE p == [procs[backend] EXCEPT !.alive = FALSE]
  <2>1. /\ p \in Process /\ ~p.alive /\ p.config = procs[backend].config
        /\ p.life = procs[backend].life /\ p.inbox = procs[backend].inbox
        /\ p.work = procs[backend].work /\ p.out = procs[backend].out
    <3>1. procs[backend] \in Process
      BY <1>1, <1>2, <1>4
    <3>. QED
      BY <3>1 DEF Process
  <2>2. procs' = [procs EXCEPT ![backend] = p]
    BY <1>4 DEF Reloading!Closed
  <2>3. /\ procs' \in Seq(Process) /\ Len(procs') = Len(procs) /\ procs'[backend] = p
        /\ \A c \in 1..Len(procs) : c # backend => procs'[c] = procs[c]
    <3> HIDE DEF p
    <3>. QED
      BY <1>1, <1>4, <2>1, <2>2, OneProcess
  <2>. QED
    BY <2>1, <2>3 DEF SameButAlive
<1>. QED
  BY <1>3, <1>4

\* A step that changes one process, and not the state it was started for.
OthersSame(b) ==
  /\ procs' \in Seq(Process) /\ Len(procs') = Len(procs)
  /\ \A c \in 1..Len(procs) : c # b => procs'[c] = procs[c]
  /\ procs'[b].life = procs[b].life

\* What the steps of a backend do to it: it takes a message ...
LEMMA TakeDoes ==
  ASSUME Typed, NEW b \in 1..Len(procs), Reloading!Take(b)
  PROVE  /\ OthersSame(b) /\ procs'[b].alive = procs[b].alive
         /\ procs[b].work = Reloading!NoWork /\ procs[b].inbox # <<>>
         /\ procs'[b].inbox = Tail(procs[b].inbox)
         /\ LET m == Head(procs[b].inbox) IN
            /\ m \in Message
            /\ procs'[b].config = IF m.id = Reloading!InitializeId THEN config ELSE procs[b].config
            /\ m.kind # "notification" => procs'[b].work = m /\ procs'[b].out = procs[b].out
<1>1. procs \in Seq(Process) /\ config \in Nat
  BY DEF Typed
<1>2. procs[b] \in Process
  BY <1>1
<1>3. procs[b].work = Reloading!NoWork /\ procs[b].inbox # <<>> /\ procs[b].inbox \in Seq(Message)
      /\ procs[b].out \in Seq(Int)
  BY <1>2 DEF Reloading!Take, Reloading!Takers, Process
<1> DEFINE m == Head(procs[b].inbox)
           w == IF m.kind = "notification" THEN Reloading!NoWork ELSE m
           o == IF m.kind = "notification" THEN Append(procs[b].out, Reloading!NoId) ELSE procs[b].out
           c == IF m.id = Reloading!InitializeId THEN config ELSE procs[b].config
           p == [procs[b] EXCEPT !.inbox = Tail(procs[b].inbox), !.work = w, !.out = o, !.config = c]
<1>4. m \in Message /\ Tail(procs[b].inbox) \in Seq(Message)
  BY <1>3
<1>5. Reloading!NoWork \in Message /\ Reloading!NoId \in Int
  BY DEF Reloading!NoWork, Reloading!NoId, Message
<1>6. w \in Message /\ o \in Seq(Int) /\ c \in Nat
  <2>1. Append(procs[b].out, Reloading!NoId) \in Seq(Int) /\ procs[b].config \in Nat
    BY <1>2, <1>3, <1>5 DEF Process
  <2>. QED
    BY <1>1, <1>3, <1>4, <1>5, <2>1
<1>7. /\ p \in Process /\ p.inbox = Tail(procs[b].inbox) /\ p.work = w /\ p.out = o /\ p.config = c
      /\ p.alive = procs[b].alive /\ p.life = procs[b].life
  <2> HIDE DEF w, o, c
  <2>. QED
    BY <1>2, <1>4, <1>6 DEF Process
<1>8. procs' = [procs EXCEPT ![b] = p]
  BY DEF Reloading!Take
<1>9. /\ procs' \in Seq(Process) /\ Len(procs') = Len(procs) /\ procs'[b] = p
      /\ \A d \in 1..Len(procs) : d # b => procs'[d] = procs[d]
  <2> HIDE DEF p
  <2>. QED
    BY <1>7, <1>8, OneProcess
<1>. QED
  BY <1>3, <1>4, <1>7, <1>9 DEF OthersSame

\* ... it answers the one it works on ...
LEMMA FinishDoes ==
  ASSUME Typed, NEW b \in 1..Len(procs), Reloading!Finish(b)
  PROVE  /\ OthersSame(b) /\ procs'[b].alive = procs[b].alive
         /\ procs[b].work # Reloading!NoWork /\ procs'[b].work = Reloading!NoWork
         /\ procs'[b].inbox = procs[b].inbox /\ procs'[b].config = procs[b].config
         /\ procs'[b].out = Append(procs[b].out, procs[b].work.id)
<1>1. procs \in Seq(Process)
  BY DEF Typed
<1>2. procs[b] \in Process
  BY <1>1
<1> DEFINE o == Append(procs[b].out, procs[b].work.id)
           p == [procs[b] EXCEPT !.out = o, !.work = Reloading!NoWork]
<1>3. o \in Seq(Int) /\ Reloading!NoWork \in Message
  <2>1. procs[b].out \in Seq(Int) /\ procs[b].work.id \in Int
    BY <1>2 DEF Process, Message
  <2>. QED
    BY <2>1 DEF Reloading!NoWork, Reloading!NoId, Message
<1>4. /\ p \in Process /\ p.out = o /\ p.work = Reloading!NoWork /\ p.inbox = procs[b].inbox
      /\ p.config = procs[b].config /\ p.alive = procs[b].alive /\ p.life = procs[b].life
  <2> HIDE DEF o
  <2>. QED
    BY <1>2, <1>3 DEF Process
<1>5. procs' = [procs EXCEPT ![b] = p]
  BY DEF Reloading!Finish
<1>6. /\ procs' \in Seq(Process) /\ Len(procs') = Len(procs) /\ procs'[b] = p
      /\ \A d \in 1..Len(procs) : d # b => procs'[d] = procs[d]
  <2> HIDE DEF p
  <2>. QED
    BY <1>4, <1>5, OneProcess
<1>. QED
  BY <1>4, <1>6 DEF Reloading!Finish, OthersSame

\* ... and it dies.
LEMMA ExitDoes ==
  ASSUME Typed, NEW b \in 1..Len(procs), Reloading!Exit(b)
  PROVE  OthersSame(b) /\ SameButAlive(b) /\ ~procs'[b].alive
<1>1. procs \in Seq(Process)
  BY DEF Typed
<1>2. procs[b] \in Process
  BY <1>1
<1> DEFINE p == [procs[b] EXCEPT !.alive = FALSE]
<1>3. /\ p \in Process /\ ~p.alive /\ p.config = procs[b].config /\ p.life = procs[b].life
      /\ p.inbox = procs[b].inbox /\ p.work = procs[b].work /\ p.out = procs[b].out
  BY <1>2 DEF Process
<1>4. procs' = [procs EXCEPT ![b] = p]
  BY DEF Reloading!Exit
<1>5. /\ procs' \in Seq(Process) /\ Len(procs') = Len(procs) /\ procs'[b] = p
      /\ \A d \in 1..Len(procs) : d # b => procs'[d] = procs[d]
  <2> HIDE DEF p
  <2>. QED
    BY <1>3, <1>4, OneProcess
<1>. QED
  BY <1>3, <1>5 DEF OthersSame, SameButAlive

\* The bootstrap writes to the backend in use ...
LEMMA SendDoes ==
  ASSUME Typed, Reloading!Send, backend # 0
  PROVE  /\ OthersSame(backend) /\ procs'[backend].alive = procs[backend].alive
         /\ procs'[backend].config = procs[backend].config
         /\ procs'[backend].work = procs[backend].work /\ procs'[backend].out = procs[backend].out
         /\ procs'[backend].inbox = Append(procs[backend].inbox,
              [id |-> IF query.kind = "notification" THEN Reloading!NoId ELSE query.id,
               kind |-> query.kind, spent |-> 0])
<1>1. procs \in Seq(Process) /\ backend \in 1..Len(procs)
  BY DEF Typed
<1>2. procs[backend] \in Process
  BY <1>1
<1> DEFINE m == [id |-> IF query.kind = "notification" THEN Reloading!NoId ELSE query.id,
                 kind |-> query.kind, spent |-> 0]
           i == Append(procs[backend].inbox, m)
           p == [procs[backend] EXCEPT !.inbox = i]
<1>3. m \in Message
  BY DEF Typed, Asked, Message, Reloading!NoId
<1>4. i \in Seq(Message)
  <2> HIDE DEF m
  <2>. QED
    BY <1>2, <1>3 DEF Process
<1>5. /\ p \in Process /\ p.inbox = i /\ p.config = procs[backend].config
      /\ p.life = procs[backend].life /\ p.alive = procs[backend].alive
      /\ p.work = procs[backend].work /\ p.out = procs[backend].out
  <2> HIDE DEF i
  <2>. QED
    BY <1>2, <1>4 DEF Process
<1>6. procs' = [procs EXCEPT ![backend] = p]
  BY DEF Reloading!Send
<1>7. /\ procs' \in Seq(Process) /\ Len(procs') = Len(procs) /\ procs'[backend] = p
      /\ \A d \in 1..Len(procs) : d # backend => procs'[d] = procs[d]
  <2> HIDE DEF p
  <2>. QED
    BY <1>1, <1>5, <1>6, OneProcess
<1>. QED
  BY <1>5, <1>7 DEF OthersSame

\* ... and one answer is read from a pipe that has one.
LEMMA PipeRead ==
  ASSUME Typed, NEW b \in 1..Len(procs), procs[b].out # <<>>,
         procs' = [procs EXCEPT ![b].out = Tail(@)]
  PROVE  /\ OthersSame(b) /\ procs'[b].alive = procs[b].alive
         /\ procs'[b].config = procs[b].config /\ procs'[b].inbox = procs[b].inbox
         /\ procs'[b].work = procs[b].work /\ procs'[b].out = Tail(procs[b].out)
<1>1. procs \in Seq(Process)
  BY DEF Typed
<1>2. procs[b] \in Process
  BY <1>1
<1> DEFINE o == Tail(procs[b].out)
           p == [procs[b] EXCEPT !.out = o]
<1>3. o \in Seq(Int)
  BY <1>2 DEF Process
<1>4. /\ p \in Process /\ p.out = o /\ p.work = procs[b].work /\ p.inbox = procs[b].inbox
      /\ p.config = procs[b].config /\ p.alive = procs[b].alive /\ p.life = procs[b].life
  <2> HIDE DEF o
  <2>. QED
    BY <1>2, <1>3 DEF Process
<1>5. procs' = [procs EXCEPT ![b] = p]
  OBVIOUS
<1>6. /\ procs' \in Seq(Process) /\ Len(procs') = Len(procs) /\ procs'[b] = p
      /\ \A d \in 1..Len(procs) : d # b => procs'[d] = procs[d]
  <2>1. p \in Process
    BY <1>4
  <2> HIDE DEF p
  <2>. QED
    <3>1. Len([procs EXCEPT ![b] = p]) = Len(procs) /\ [procs EXCEPT ![b] = p] \in Seq(Process)
      BY <1>1, <2>1
    <3>2. /\ [procs EXCEPT ![b] = p][b] = p
          /\ \A d \in 1..Len(procs) : d # b => [procs EXCEPT ![b] = p][d] = procs[d]
      BY <1>1
    <3>. QED
      BY <1>5, <3>1, <3>2
<1>. QED
  BY <1>4, <1>6 DEF OthersSame

\* A new backend, with a message to initialize and nothing else; the one before it is
\* closed.
LEMMA StartDoes ==
  ASSUME Typed, Reloading!Start
  PROVE  /\ procs' \in Seq(Process) /\ Len(procs') = Len(procs) + 1 /\ Len(procs) \in Nat
         /\ procs'[Len(procs')].alive /\ procs'[Len(procs')].life = sel.life
         /\ Fresh(Len(procs))'
         /\ \A b \in 1..Len(procs) : procs'[b].alive => procs[b].alive /\ b # backend
<1> DEFINE m == [id |-> Reloading!InitializeId, kind |-> "initialize", spent |-> 0]
           n == [alive |-> TRUE, config |-> 0, life |-> sel.life, inbox |-> <<m>>,
                 work |-> Reloading!NoWork, out |-> <<>>]
<1>1. m \in Message /\ Reloading!NoWork \in Message
  BY DEF Message, Reloading!NoWork, Reloading!NoId, Reloading!InitializeId
<1>2. <<m>> \in Seq(Message)
  BY <1>1
<1>3. sel.life \in Nat
  BY DEF Typed, Selection
<1>4. n \in Process /\ n.alive /\ n.life = sel.life /\ n.inbox = <<m>> /\ n.work = Reloading!NoWork /\ n.out = <<>>
  <2> HIDE DEF m
  <2>. QED
    BY <1>1, <1>2, <1>3 DEF Process
<1>5. /\ Reloading!Closed(backend) \in Seq(Process) /\ Len(Reloading!Closed(backend)) = Len(procs) /\ Len(procs) \in Nat
      /\ \A b \in 1..Len(procs) : Reloading!Closed(backend)[b].alive => procs[b].alive /\ b # backend
  <2>1. procs \in Seq(Process) /\ backend \in 0..Len(procs)
    BY DEF Typed
  <2>2. \A b \in 1..Len(procs) : procs[b] \in Process
    BY <2>1
  <2>3. CASE backend = 0
    BY <2>1, <2>3 DEF Reloading!Closed
  <2>4. CASE backend # 0
    <3> DEFINE p == [procs[backend] EXCEPT !.alive = FALSE]
    <3>. procs[backend] \in Process
      BY <2>1, <2>2, <2>4
    <3>1. p \in Process /\ ~p.alive
      BY DEF Process
    <3>2. Reloading!Closed(backend) = [procs EXCEPT ![backend] = p]
      BY <2>4 DEF Reloading!Closed
    <3> HIDE DEF p
    <3>. QED
      BY <2>1, <2>4, <3>1, <3>2, OneProcess
  <2>. QED
    BY <2>3, <2>4
<1>6. procs' = Append(Reloading!Closed(backend), n)
  BY DEF Reloading!Start
<1>7. /\ procs' \in Seq(Process) /\ Len(procs') = Len(procs) + 1
      /\ procs'[Len(procs) + 1] = n
      /\ \A b \in 1..Len(procs) : procs'[b] = Reloading!Closed(backend)[b]
  <2> HIDE DEF n
  <2>. QED
    BY <1>4, <1>5, <1>6
<1>. QED
  BY <1>4, <1>5, <1>7 DEF Fresh

\* Time passes only in what a backend works on.
LEMMA TickDoes ==
  ASSUME Typed, Reloading!Tick
  PROVE  /\ procs' \in Seq(Process) /\ Len(procs') = Len(procs)
         /\ \A b \in 1..Len(procs) :
              /\ procs'[b].alive = procs[b].alive /\ procs'[b].config = procs[b].config
              /\ procs'[b].life = procs[b].life /\ procs'[b].inbox = procs[b].inbox
              /\ procs'[b].out = procs[b].out
              /\ IF procs[b].alive /\ procs[b].work # Reloading!NoWork
                 THEN /\ procs'[b].work.id = procs[b].work.id /\ procs'[b].work.kind = procs[b].work.kind
                      /\ procs'[b].work.spent = procs[b].work.spent + 1
                 ELSE procs'[b].work = procs[b].work
<1>1. procs \in Seq(Process) /\ DOMAIN procs = 1..Len(procs) /\ Len(procs) \in Nat
  BY DEF Typed
<1>2. ASSUME NEW b \in 1..Len(procs)
      PROVE  /\ procs'[b] \in Process
             /\ procs'[b].alive = procs[b].alive /\ procs'[b].config = procs[b].config
             /\ procs'[b].life = procs[b].life /\ procs'[b].inbox = procs[b].inbox
             /\ procs'[b].out = procs[b].out
             /\ IF procs[b].alive /\ procs[b].work # Reloading!NoWork
                THEN /\ procs'[b].work.id = procs[b].work.id /\ procs'[b].work.kind = procs[b].work.kind
                     /\ procs'[b].work.spent = procs[b].work.spent + 1
                ELSE procs'[b].work = procs[b].work
  <2>1. procs[b] \in Process
    BY <1>1
  <2>2. CASE procs[b].alive /\ procs[b].work # Reloading!NoWork
    <3> DEFINE w == [procs[b].work EXCEPT !.spent = procs[b].work.spent + 1]
    <3>. procs[b].work \in Message
      BY <2>1 DEF Process
    <3>1. /\ w \in Message /\ w.id = procs[b].work.id /\ w.kind = procs[b].work.kind
          /\ w.spent = procs[b].work.spent + 1
      BY DEF Message
    <3>2. procs'[b] = [procs[b] EXCEPT !.work = w]
      BY <1>1, <2>2 DEF Reloading!Tick, Reloading!Live
    <3> HIDE DEF w
    <3>. QED
      BY <2>1, <2>2, <3>1, <3>2 DEF Process
  <2>3. CASE ~(procs[b].alive /\ procs[b].work # Reloading!NoWork)
    <3>1. procs'[b] = procs[b]
      BY <1>1, <2>3 DEF Reloading!Tick, Reloading!Live
    <3>. QED
      BY <2>1, <2>3, <3>1
  <2>. QED
    BY <2>2, <2>3
<1>3. procs' = [b \in 1..Len(procs) |-> procs'[b]]
  BY <1>1 DEF Reloading!Tick
<1>4. procs' \in Seq(Process) /\ Len(procs') = Len(procs)
  BY <1>1, <1>2, <1>3
<1>. QED
  BY <1>2, <1>4
-----------------------------------------------------------------------------
(* The steps. *)
BackendStep == \/ \E c \in 1..Len(procs) : Reloading!Take(c) \/ Reloading!Finish(c) \/ Reloading!Exit(c)
               \/ Reloading!Tick
Acts == \/ Reloading!ChangeConfig \/ Reloading!ChangeLife \/ Reloading!Bootstrap \/ BackendStep
        \/ \E kind \in Kinds : Reloading!Receive(kind)

\* The types of a process ...
LEMMA Plain ==
  ASSUME Typed, NEW b \in 1..Len(procs)
  PROVE  /\ procs[b] \in Process /\ procs[b].config \in Nat /\ procs[b].life \in Nat
         /\ procs[b].inbox \in Seq(Message) /\ procs[b].out \in Seq(Int) /\ procs[b].work \in Message
<1>1. procs[b] \in Process
  BY DEF Typed
<1>. QED
  BY <1>1 DEF Process

\* ... and of the rest, one by one.
LEMMA Numbers ==
  ASSUME Typed, Bounds
  PROVE  /\ config \in Nat /\ config > 0 /\ life.gen \in Nat /\ life.gen > 0 /\ life.ok \in BOOLEAN
         /\ changes \in Nat /\ exits \in Nat /\ asked \in Nat /\ waited \in Nat
         /\ query.id \in Int /\ query.config \in Nat /\ query.life \in Nat
         /\ query.kind \in Kinds \cup {"none"}
         /\ sel.config \in Nat /\ sel.life \in Nat /\ fp.config \in Nat /\ fp.life \in Nat
         /\ sel = [config |-> sel.config, life |-> sel.life]
         /\ fp = [config |-> fp.config, life |-> fp.life]
         /\ Len(procs) \in Nat /\ backend \in Nat /\ backend <= Len(procs)
         /\ answer.id \in Int /\ answer.config \in Nat /\ answer.life \in Nat
<1>1. config \in Nat /\ config > 0 /\ changes \in Nat /\ exits \in Nat /\ asked \in Nat /\ waited \in Nat
      /\ Len(procs) \in Nat /\ backend \in Nat /\ backend <= Len(procs)
  BY DEF Typed, Bounds
<1>2. life.gen \in Nat /\ life.gen > 0 /\ life.ok \in BOOLEAN
  BY DEF Typed, Bounds
<1>3. /\ query.id \in Int /\ query.config \in Nat /\ query.life \in Nat
      /\ query.kind \in Kinds \cup {"none"}
  BY DEF Typed, Asked
<1>4. /\ sel.config \in Nat /\ sel.life \in Nat /\ fp.config \in Nat /\ fp.life \in Nat
      /\ sel = [config |-> sel.config, life |-> sel.life]
      /\ fp = [config |-> fp.config, life |-> fp.life]
  BY DEF Typed, Selection
<1>5. answer.id \in Int /\ answer.config \in Nat /\ answer.life \in Nat
  BY DEF Typed, Said
<1>. QED
  BY <1>1, <1>2, <1>3, <1>4, <1>5

\* The answer to the host is what was told, for the request it was told of.
LEMMA Told ==
  ASSUME Typed, Bounds, NEW is \in Ends, NEW c \in Nat, NEW l \in Nat, NEW cause \in Cause,
         Reloading!Tells(is, c, l, cause)
  PROVE  /\ answer' \in Said /\ answer'.id = query.id /\ answer'.is = is
         /\ answer'.config = c /\ answer'.life = l /\ answer'.cause = cause
<1>1. query.id \in Int
  BY Numbers
<1>. QED
  BY <1>1 DEF Reloading!Tells, Said

\* An end of the request that is no result, with the backend closed or kept.
Closes == procs' = Reloading!Closed(backend) /\ backend' = 0 /\ fp' = Reloading!Nothing
Keeps == procs' = procs /\ backend' = backend /\ fp' = fp
Says(is, causes) ==
  /\ answer' \in Said /\ answer'.id = query.id /\ answer'.is = is /\ answer'.cause \in causes
Still == /\ config' = config /\ life' = life /\ changes' = changes /\ exits' = exits
         /\ asked' = asked /\ query' = query

\* What each step of the bootstrap does to the rest of the state.
LEMMA BootDoes ==
  ASSUME Typed, Bounds
  PROVE  /\ Reloading!Resolve => /\ Still /\ Keeps /\ answer' = answer /\ waited' = waited
                                 /\ place = "resolve" /\ place' = "load"
                                 /\ sel' \in Selection /\ sel'.config = config /\ sel'.life = sel.life
         /\ Reloading!Load => /\ Still /\ waited' = waited /\ place = "load" /\ sel' = sel
                              /\ \/ Keeps /\ answer' = answer /\ place' = "read_life"
                                 \/ /\ Closes /\ place' = "idle" /\ \E is \in {"local", "unavailable"} : Says(is, {"config_changed"})
         /\ Reloading!ReadLife => /\ Still /\ waited' = waited /\ place = "read_life"
                                  /\ sel' \in Selection /\ sel'.config = sel.config /\ sel'.life = life.gen
                                  /\ \/ Keeps /\ answer' = answer /\ place' = "selected"
                                     \/ /\ Closes /\ place' = "idle" /\ \E is \in {"local", "unavailable"} : Says(is, {"not_ready"})
         /\ Reloading!Meta => /\ Still /\ waited' = waited /\ place = "selected" /\ sel' = sel /\ place' = "idle"
                              /\ query.kind = "meta"
                              /\ Keeps \/ Closes
                              /\ Says("local", {"none"})
         /\ Reloading!Reuse => /\ Still /\ Keeps /\ answer' = answer /\ waited' = waited /\ sel' = sel
                               /\ place = "selected" /\ place' = "send" /\ backend # 0 /\ fp = sel /\ query.kind # "meta"
         /\ Reloading!Start => /\ Still /\ answer' = answer /\ waited' = 0 /\ sel' = sel
                               /\ place = "selected" /\ place' = "start" /\ backend' = 0 /\ fp' = Reloading!Nothing
                               /\ query.kind # "meta"
         /\ Reloading!Started => /\ Still /\ answer' = answer /\ waited' = waited /\ sel' = sel
                                 /\ place = "start" /\ place' = "send" /\ backend' = Len(procs) /\ fp' = sel
         /\ Reloading!StartFails => /\ Still /\ Keeps /\ waited' = waited /\ sel' = sel
                                    /\ place = "start" /\ place' = "idle" /\ procs[Len(procs)].out = <<>>
                                    /\ \/ Says("failure", {"start_late"}) /\ waited = Patience /\ Reloading!Live(Len(procs))
                                       \/ Says("failure", {"died"}) /\ ~Reloading!Live(Len(procs))
         /\ Reloading!Send => /\ Still /\ answer' = answer /\ waited' = 0 /\ sel' = sel
                              /\ backend' = backend /\ fp' = fp /\ place = "send"
                              /\ place' = IF query.kind = "notification" THEN "idle" ELSE "wait"
         /\ Reloading!SendFails => /\ Still /\ Closes /\ waited' = waited /\ sel' = sel
                                   /\ place = "send" /\ place' = "idle" /\ Says("failure", {"died"})
         /\ Reloading!NotAnswered => /\ Still /\ Closes /\ waited' = waited /\ sel' = sel
                                     /\ place = "wait" /\ place' = "idle" /\ procs[backend].out = <<>>
                                     /\ \/ Says("failure", {"late"}) /\ waited = Patience /\ Reloading!Live(backend)
                                        \/ Says("failure", {"died"}) /\ ~Reloading!Live(backend)
         /\ Reloading!Answered => /\ Still /\ waited' = waited /\ sel' = sel
                                  /\ place = "wait" /\ place' = "idle" /\ procs[backend].out # <<>>
<1>1. Reloading!Resolve => /\ Still /\ Keeps /\ answer' = answer /\ waited' = waited
                           /\ place = "resolve" /\ place' = "load"
                           /\ sel' \in Selection /\ sel'.config = config /\ sel'.life = sel.life
  <2>1. config \in Nat /\ sel.life \in Nat /\ sel = [config |-> sel.config, life |-> sel.life]
    BY Numbers
  <2>2. Reloading!Resolve => sel' = [config |-> config, life |-> sel.life]
    BY <2>1 DEF Reloading!Resolve
  <2>. QED
    BY <2>1, <2>2 DEF Reloading!Resolve, Still, Keeps, Reloading!project, Reloading!host,
       Selection
<1>2. Reloading!Load => /\ Still /\ waited' = waited /\ place = "load" /\ sel' = sel
                        /\ \/ Keeps /\ answer' = answer /\ place' = "read_life"
                           \/ /\ Closes /\ place' = "idle" /\ \E is \in {"local", "unavailable"} : Says(is, {"config_changed"})
  <2>1. ASSUME Reloading!Unavailable("config_changed")
        PROVE  Closes /\ place' = "idle" /\ \E is \in {"local", "unavailable"} : Says(is, {"config_changed"})
    <3> DEFINE is == IF query.kind = "meta" THEN "local" ELSE "unavailable"
    <3>1. Reloading!Tells(is, 0, 0, "config_changed") /\ Closes /\ place' = "idle"
      BY <2>1 DEF Reloading!Unavailable, Closes
    <3>2. is \in {"local", "unavailable"}
      OBVIOUS
    <3> HIDE DEF is
    <3>3. is \in Ends /\ "config_changed" \in Cause /\ 0 \in Nat
      BY <3>2 DEF Ends, Cause
    <3>4. Says(is, {"config_changed"})
      BY <3>1, <3>3, Told DEF Says
    <3>. QED
      BY <3>1, <3>2, <3>4
  <2>. QED
    BY <2>1 DEF Reloading!Load, Still, Keeps, Reloading!project, Reloading!host
<1>3. Reloading!ReadLife => /\ Still /\ waited' = waited /\ place = "read_life"
                            /\ sel' \in Selection /\ sel'.config = sel.config /\ sel'.life = life.gen
                            /\ \/ Keeps /\ answer' = answer /\ place' = "selected"
                               \/ /\ Closes /\ place' = "idle" /\ \E is \in {"local", "unavailable"} : Says(is, {"not_ready"})
  <2>1. ASSUME Reloading!Unavailable("not_ready")
        PROVE  Closes /\ place' = "idle" /\ \E is \in {"local", "unavailable"} : Says(is, {"not_ready"})
    <3> DEFINE is == IF query.kind = "meta" THEN "local" ELSE "unavailable"
    <3>1. Reloading!Tells(is, 0, 0, "not_ready") /\ Closes /\ place' = "idle"
      BY <2>1 DEF Reloading!Unavailable, Closes
    <3>2. is \in {"local", "unavailable"}
      OBVIOUS
    <3> HIDE DEF is
    <3>3. is \in Ends /\ "not_ready" \in Cause /\ 0 \in Nat
      BY <3>2 DEF Ends, Cause
    <3>4. Says(is, {"not_ready"})
      BY <3>1, <3>3, Told DEF Says
    <3>. QED
      BY <3>1, <3>2, <3>4
  <2>2. life.gen \in Nat /\ sel.config \in Nat /\ sel = [config |-> sel.config, life |-> sel.life]
    BY Numbers
  <2>3. Reloading!ReadLife => sel' = [config |-> sel.config, life |-> life.gen]
    BY <2>2 DEF Reloading!ReadLife
  <2>4. Reloading!ReadLife => sel' \in Selection /\ sel'.config = sel.config /\ sel'.life = life.gen
    BY <2>2, <2>3 DEF Selection
  <2>. QED
    BY <2>1, <2>4 DEF Reloading!ReadLife, Still, Keeps, Reloading!project, Reloading!host
<1>4. ASSUME NEW is \in Ends, NEW cause \in Cause, Reloading!Tells(is, 0, 0, cause)
      PROVE  Says(is, {cause})
  BY <1>4, Told DEF Says
<1>5. /\ {"none", "died", "late", "start_late"} \subseteq Cause
      /\ {"local", "failure"} \subseteq Ends
  BY DEF Cause, Ends
<1>6. Reloading!Meta => /\ Still /\ waited' = waited /\ place = "selected" /\ sel' = sel /\ place' = "idle"
                        /\ query.kind = "meta" /\ (Keeps \/ Closes) /\ Says("local", {"none"})
  BY <1>4, <1>5 DEF Reloading!Meta, Still, Keeps, Closes, Reloading!project, Reloading!host
<1>7. Reloading!Reuse => /\ Still /\ Keeps /\ answer' = answer /\ waited' = waited /\ sel' = sel
                         /\ place = "selected" /\ place' = "send" /\ backend # 0 /\ fp = sel /\ query.kind # "meta"
  BY DEF Reloading!Reuse, Still, Keeps, Reloading!project, Reloading!host
<1>8. /\ Reloading!Start => /\ Still /\ answer' = answer /\ waited' = 0 /\ sel' = sel
                            /\ place = "selected" /\ place' = "start" /\ backend' = 0 /\ fp' = Reloading!Nothing
                            /\ query.kind # "meta"
      /\ Reloading!Started => /\ Still /\ answer' = answer /\ waited' = waited /\ sel' = sel
                              /\ place = "start" /\ place' = "send" /\ backend' = Len(procs) /\ fp' = sel
      /\ Reloading!Send => /\ Still /\ answer' = answer /\ waited' = 0 /\ sel' = sel
                           /\ backend' = backend /\ fp' = fp /\ place = "send"
                           /\ place' = IF query.kind = "notification" THEN "idle" ELSE "wait"
  BY DEF Reloading!Start, Reloading!Started, Reloading!Send, Still, Reloading!project,
     Reloading!host
<1>9. Reloading!StartFails => /\ Still /\ Keeps /\ waited' = waited /\ sel' = sel
                              /\ place = "start" /\ place' = "idle" /\ procs[Len(procs)].out = <<>>
                              /\ \/ Says("failure", {"start_late"}) /\ waited = Patience /\ Reloading!Live(Len(procs))
                                 \/ Says("failure", {"died"}) /\ ~Reloading!Live(Len(procs))
  BY <1>4, <1>5 DEF Reloading!StartFails, Still, Keeps, Reloading!project, Reloading!host
<1>10. Reloading!SendFails => /\ Still /\ Closes /\ waited' = waited /\ sel' = sel
                              /\ place = "send" /\ place' = "idle" /\ Says("failure", {"died"})
  BY <1>4, <1>5 DEF Reloading!SendFails, Reloading!Fail, Still, Closes, Reloading!project,
     Reloading!host
<1>11. Reloading!NotAnswered => /\ Still /\ Closes /\ waited' = waited /\ sel' = sel
                                /\ place = "wait" /\ place' = "idle" /\ procs[backend].out = <<>>
                                /\ \/ Says("failure", {"late"}) /\ waited = Patience /\ Reloading!Live(backend)
                                   \/ Says("failure", {"died"}) /\ ~Reloading!Live(backend)
  BY <1>4, <1>5 DEF Reloading!NotAnswered, Reloading!Fail, Still, Closes, Reloading!project,
     Reloading!host
<1>12. Reloading!Answered => /\ Still /\ waited' = waited /\ sel' = sel
                             /\ place = "wait" /\ place' = "idle" /\ procs[backend].out # <<>>
  BY DEF Reloading!Answered, Reloading!Fail, Still, Reloading!project, Reloading!host
<1>. QED
  BY <1>1, <1>2, <1>3, <1>6, <1>7, <1>8, <1>9, <1>10, <1>11, <1>12

\* The answer read is of the backend in use, or the backend is closed.
LEMMA AnsweredDoes ==
  ASSUME Typed, Bounds, backend # 0, Reloading!Answered
  PROVE  IF Head(procs[backend].out) = query.id
         THEN /\ OthersSame(backend) /\ procs'[backend].alive = procs[backend].alive
              /\ procs'[backend].config = procs[backend].config
              /\ procs'[backend].inbox = procs[backend].inbox
              /\ procs'[backend].work = procs[backend].work
              /\ procs'[backend].out = Tail(procs[backend].out)
              /\ backend' = backend /\ fp' = fp /\ Says("result", {"none"})
              /\ answer'.config = procs[backend].config /\ answer'.life = procs[backend].life
         ELSE Closes /\ Says("failure", {"mismatch"})
<1>1. backend \in 1..Len(procs)
  BY DEF Typed
<1>2. /\ "result" \in Ends /\ "none" \in Cause /\ "failure" \in Ends /\ "mismatch" \in Cause
      /\ procs[backend].config \in Nat /\ procs[backend].life \in Nat
  BY <1>1, Plain DEF Ends, Cause
<1>3. CASE Head(procs[backend].out) = query.id
  <2>1. /\ procs' = [procs EXCEPT ![backend].out = Tail(@)] /\ backend' = backend /\ fp' = fp
        /\ Reloading!Tells("result", procs[backend].config, procs[backend].life, "none")
        /\ procs[backend].out # <<>>
    BY <1>3 DEF Reloading!Answered
  <2>2. /\ Says("result", {"none"})
        /\ answer'.config = procs[backend].config /\ answer'.life = procs[backend].life
    BY <1>2, <2>1, Told DEF Says
  <2>. QED
    BY <1>1, <1>3, <2>1, <2>2, PipeRead
<1>4. CASE Head(procs[backend].out) # query.id
  <2>1. Closes /\ Reloading!Tells("failure", 0, 0, "mismatch")
    BY <1>4 DEF Reloading!Answered, Reloading!Fail, Closes
  <2>. QED
    BY <1>2, <1>4, <2>1, Told DEF Says
<1>. QED
  BY <1>3, <1>4

\* A request comes with a new id, and remembers the project as it finds it.
LEMMA ReceiveDoes ==
  ASSUME Typed, Bounds, NEW kind \in Kinds, Reloading!Receive(kind)
  PROVE  /\ place = "idle" /\ place' = "resolve" /\ Keeps /\ sel' = sel /\ waited' = waited
         /\ config' = config /\ life' = life /\ changes' = changes /\ exits' = exits
         /\ answer' = answer
         /\ asked < MaxAsked /\ asked' = asked + 1 /\ query' \in Asked
         /\ query'.id = asked + 1 /\ query'.kind = kind
         /\ query'.config = config /\ query'.life = life.gen
<1>1. asked \in Nat /\ config \in Nat /\ life.gen \in Nat
  BY Numbers
<1>2. query' = [id |-> asked + 1, kind |-> kind, config |-> config, life |-> life.gen]
  BY DEF Reloading!Receive
<1>3. /\ query' \in Asked
      /\ query'.id = asked + 1 /\ query'.kind = kind
      /\ query'.config = config /\ query'.life = life.gen
  BY <1>1, <1>2 DEF Asked
<1>. QED
  BY <1>3 DEF Reloading!Receive, Keeps, Reloading!project

\* The project changes: its config or its lifecycle state grows by one.
LEMMA ProjectDoes ==
  ASSUME Typed, Bounds, Reloading!ChangeConfig \/ Reloading!ChangeLife
  PROVE  /\ place' = place /\ Keeps /\ sel' = sel /\ waited' = waited /\ exits' = exits
         /\ answer' = answer /\ query' = query /\ asked' = asked
         /\ changes < MaxChanges /\ changes' = changes + 1
         /\ config' \in Nat /\ config <= config' /\ config' <= config + 1
         /\ life' \in [gen : 1..(MaxChanges + 1), ok : BOOLEAN]
         /\ life.gen <= life'.gen /\ life'.gen <= life.gen + 1
<1>1. /\ config \in Nat /\ life.gen \in 1..(MaxChanges + 1) /\ life.gen <= changes + 1
      /\ changes \in 0..MaxChanges /\ MaxChanges \in Nat /\ life \in [gen : 1..(MaxChanges + 1), ok : BOOLEAN]
  BY DEF Typed, Bounds
<1>2. CASE Reloading!ChangeConfig
  BY <1>1, <1>2 DEF Reloading!ChangeConfig, Keeps, Reloading!host
<1>3. CASE Reloading!ChangeLife
  <2>1. PICK ok \in BOOLEAN : life' = [gen |-> life.gen + 1, ok |-> ok]
    BY <1>3 DEF Reloading!ChangeLife
  <2>2. changes < MaxChanges
    BY <1>3 DEF Reloading!ChangeLife
  <2>3. life.gen + 1 \in 1..(MaxChanges + 1)
    BY <1>1, <2>2
  <2>4. life' \in [gen : 1..(MaxChanges + 1), ok : BOOLEAN] /\ life'.gen = life.gen + 1
    BY <2>1, <2>3
  <2>. QED
    BY <1>1, <1>3, <2>4 DEF Reloading!ChangeLife, Keeps, Reloading!host
<1>. QED
  BY <1>2, <1>3

\* A step of a backend leaves the bootstrap where it is; what it may read is the
\* present config.
LEMMA BackendDoes ==
  ASSUME Typed, BackendStep
  PROVE  /\ config' = config /\ life' = life /\ changes' = changes /\ asked' = asked
         /\ query' = query /\ place' = place /\ sel' = sel /\ backend' = backend /\ fp' = fp
         /\ answer' = answer
         /\ exits' \in {exits, exits + 1} /\ (exits' # exits => exits < MaxExits)
         /\ IF Reloading!Tick THEN exits' = exits /\ waited < Patience /\ waited' = waited + 1 ELSE waited' = waited
         /\ Len(procs') = Len(procs) /\ procs' \in Seq(Process)
         /\ \A b \in 1..Len(procs) :
              /\ procs'[b].life = procs[b].life /\ (procs'[b].alive => procs[b].alive)
              /\ procs'[b].config = procs[b].config \/ procs'[b].config = config

<1>1. CASE Reloading!Tick
  BY <1>1, TickDoes DEF Reloading!Tick, Reloading!project, Reloading!host
<1>2. ASSUME NEW b \in 1..Len(procs), Reloading!Take(b)
      PROVE  /\ Len(procs') = Len(procs) /\ procs' \in Seq(Process)
             /\ \A c \in 1..Len(procs) :
                  /\ procs'[c].life = procs[c].life /\ (procs'[c].alive => procs[c].alive)
                  /\ procs'[c].config = procs[c].config \/ procs'[c].config = config
  BY <1>2, TakeDoes DEF OthersSame
<1>3. ASSUME NEW b \in 1..Len(procs), Reloading!Finish(b)
      PROVE  /\ Len(procs') = Len(procs) /\ procs' \in Seq(Process)
             /\ \A c \in 1..Len(procs) :
                  /\ procs'[c].life = procs[c].life /\ (procs'[c].alive => procs[c].alive)
                  /\ procs'[c].config = procs[c].config \/ procs'[c].config = config
  BY <1>3, FinishDoes DEF OthersSame
<1>4. ASSUME NEW b \in 1..Len(procs), Reloading!Exit(b)
      PROVE  /\ Len(procs') = Len(procs) /\ procs' \in Seq(Process)
             /\ \A c \in 1..Len(procs) :
                  /\ procs'[c].life = procs[c].life /\ (procs'[c].alive => procs[c].alive)
                  /\ procs'[c].config = procs[c].config \/ procs'[c].config = config
  BY <1>4, ExitDoes DEF OthersSame, SameButAlive
<1>5. CASE BackendStep /\ ~Reloading!Tick
  <2>1. /\ config' = config /\ life' = life /\ changes' = changes /\ asked' = asked
        /\ query' = query /\ place' = place /\ sel' = sel /\ backend' = backend /\ fp' = fp
        /\ answer' = answer /\ waited' = waited
        /\ exits' \in {exits, exits + 1} /\ (exits' # exits => exits < MaxExits)
    BY <1>5 DEF BackendStep, Reloading!Take, Reloading!Finish, Reloading!Exit,
       Reloading!project, Reloading!host
  <2>. QED
    BY <1>2, <1>3, <1>4, <1>5, <2>1 DEF BackendStep
<1>. QED
  BY <1>1, <1>5

-----------------------------------------------------------------------------
(* What they keep. *)

\* Every step keeps the types.
LEMMA TypedKept ==
  ASSUME Bounds, Typed, BackendInv, Acts
  PROVE  Typed'
<1>. config \in Nat /\ life.gen \in Nat /\ changes \in Nat /\ exits \in Nat /\ asked \in Nat
      /\ waited \in Nat /\ sel.config \in Nat /\ sel.life \in Nat /\ fp.config \in Nat
      /\ query.config \in Nat /\ query.life \in Nat /\ config > 0
  BY Numbers
<1>1. CASE Reloading!ChangeConfig \/ Reloading!ChangeLife
  <2>1. config' \in 1..(MaxChanges + 1) /\ changes' \in 0..MaxChanges /\ config' <= changes' + 1
        /\ life'.gen <= changes' + 1
    <3>1. life'.gen \in Nat
      BY <1>1, ProjectDoes
    <3>2. /\ config <= changes + 1 /\ life.gen <= changes + 1 /\ MaxChanges \in Nat
      BY DEF Typed, Bounds
    <3>3. /\ config' \in Nat /\ config <= config' /\ config' <= config + 1
          /\ life'.gen <= life.gen + 1 /\ changes < MaxChanges /\ changes' = changes + 1
      BY <1>1, ProjectDoes
    <3>. QED
      BY <3>1, <3>2, <3>3
  <2>. QED
    BY <1>1, <2>1, ProjectDoes DEF Typed, Keeps
<1>2. ASSUME NEW kind \in Kinds, Reloading!Receive(kind) PROVE Typed'
  <2>1. asked' \in 0..MaxAsked
    <3>1. MaxAsked \in Nat /\ asked < MaxAsked /\ asked' = asked + 1
      BY <1>2, ReceiveDoes DEF Bounds
    <3>. QED
      BY <3>1
  <2>. QED
    BY <1>2, <2>1, ReceiveDoes DEF Typed, Keeps
<1>3. CASE BackendStep
  <2>1. exits' \in 0..MaxExits /\ waited' \in 0..Patience
    <3>1. /\ exits' \in {exits, exits + 1} /\ (exits' # exits => exits < MaxExits)
          /\ waited' = waited \/ (waited < Patience /\ waited' = waited + 1)
      BY <1>3, BackendDoes
    <3>2. /\ exits \in 0..MaxExits /\ waited \in 0..Patience /\ MaxExits \in Nat /\ Patience \in Nat
      BY DEF Typed, Bounds
    <3>. QED
      BY <3>1, <3>2
  <2>. QED
    BY <1>3, <2>1, BackendDoes DEF Typed
<1>4. CASE Reloading!Bootstrap
  <2>1. ASSUME Closes
        PROVE  procs' \in Seq(Process) /\ Len(procs') = Len(procs) /\ backend' \in 0..Len(procs')
               /\ fp' \in Selection
    BY <2>1, ClosedIs, Numbers DEF Closes, Reloading!Nothing, Selection
  <2>2. ASSUME Keeps
        PROVE  procs' \in Seq(Process) /\ Len(procs') = Len(procs) /\ backend' \in 0..Len(procs')
               /\ fp' \in Selection
    BY <2>2 DEF Keeps, Typed
  <2>3. Reloading!Nothing \in Selection /\ 0 \in 0..Patience
    BY DEF Reloading!Nothing, Selection, Bounds
  <2>4. Still => /\ config' \in 1..(MaxChanges + 1) /\ life' \in [gen : 1..(MaxChanges + 1), ok : BOOLEAN]
                 /\ changes' \in 0..MaxChanges /\ config' <= changes' + 1 /\ life'.gen <= changes' + 1
                 /\ exits' \in 0..MaxExits /\ asked' \in 0..MaxAsked /\ query' \in Asked
    BY DEF Still, Typed
  <2>5. /\ waited' = waited => waited' \in 0..Patience
        /\ sel' = sel => sel' \in Selection
        /\ answer' = answer => answer' \in Said
    BY DEF Typed
  <2>6. {"idle", "load", "read_life", "selected", "send", "start", "wait"} \subseteq {"idle", "resolve"} \cup Looked
    BY DEF Looked, Chosen
  <2>7. CASE Reloading!Resolve \/ Reloading!Reuse
    BY <2>7, <2>1, <2>2, <2>4, <2>5, <2>6, BootDoes DEF Typed
  <2>8. CASE Reloading!Load
    BY <2>8, <2>1, <2>2, <2>4, <2>5, <2>6, BootDoes DEF Typed, Says
  <2>9. CASE Reloading!ReadLife
    BY <2>9, <2>1, <2>2, <2>4, <2>5, <2>6, BootDoes DEF Typed, Says
  <2>10. CASE Reloading!Meta
    BY <2>10, <2>1, <2>2, <2>4, <2>5, <2>6, BootDoes DEF Typed, Says
  <2>11. CASE Reloading!StartFails
    BY <2>11, <2>1, <2>2, <2>4, <2>5, <2>6, BootDoes DEF Typed, Says
  <2>12. CASE Reloading!SendFails \/ Reloading!NotAnswered
    BY <2>12, <2>1, <2>2, <2>4, <2>5, <2>6, BootDoes DEF Typed, Says
  <2>13. CASE Reloading!Start
    <3>1. /\ Still /\ answer' = answer /\ waited' = 0 /\ sel' = sel /\ place' = "start"
          /\ backend' = 0 /\ fp' = Reloading!Nothing
      BY <2>13, BootDoes
    <3>2. procs' \in Seq(Process) /\ backend' \in 0..Len(procs')
      BY <2>13, <3>1, StartDoes
    <3>. QED
      BY <2>3, <2>4, <2>5, <2>6, <3>1, <3>2 DEF Typed
  <2>14. CASE Reloading!Started
    <3>1. Len(procs) \in 1..Len(procs) /\ Len(procs) \in Nat
      BY <2>14, BootDoes, Numbers DEF BackendInv
    <3>2. /\ procs[Len(procs)].out # <<>>
          /\ procs' = [procs EXCEPT ![Len(procs)].out = Tail(@)]
      BY <2>14 DEF Reloading!Started
    <3>3. procs' \in Seq(Process) /\ Len(procs') = Len(procs)
      BY <3>1, <3>2, PipeRead DEF OthersSame
    <3>. QED
      BY SMTT(20), <2>14, <2>4, <2>5, <2>6, <3>1, <3>3, BootDoes DEF Typed
  <2>15. CASE Reloading!Send
    <3>1. backend # 0
      BY <2>15 DEF Reloading!Send, Reloading!Live
    <3>. QED
      BY <2>15, <2>3, <2>4, <2>5, <2>6, <3>1, BootDoes, SendDoes DEF Typed, OthersSame
  <2>16. CASE Reloading!Answered
    <3>1. backend # 0
      BY <2>16, BootDoes DEF BackendInv
    <3>2. answer' \in Said
      BY <2>16, <3>1, AnsweredDoes DEF Says
    <3>3. CASE Head(procs[backend].out) = query.id
      BY <2>16, <3>1, <3>2, <3>3, <2>4, <2>5, <2>6, BootDoes, AnsweredDoes DEF Typed, OthersSame
    <3>4. CASE Head(procs[backend].out) # query.id
      BY <2>16, <3>1, <3>2, <3>4, <2>1, <2>4, <2>5, <2>6, BootDoes, AnsweredDoes DEF Typed
    <3>. QED
      BY <3>3, <3>4
  <2>. QED
    BY <1>4, <2>7, <2>8, <2>9, <2>10, <2>11, <2>12, <2>13, <2>14, <2>15,
       <2>16 DEF Reloading!Bootstrap
<1>. QED
  BY <1>1, <1>2, <1>3, <1>4 DEF Acts

\* Only a start adds a process.
LEMMA Lengths ==
  ASSUME Bounds, Typed, BackendInv, Acts
  PROVE  Len(procs') = IF place = "selected" /\ place' = "start" THEN Len(procs) + 1 ELSE Len(procs)
<1>1. CASE Reloading!ChangeConfig \/ Reloading!ChangeLife
  BY <1>1, ProjectDoes DEF Keeps
<1>2. ASSUME NEW kind \in Kinds, Reloading!Receive(kind)
      PROVE Len(procs') = Len(procs) /\ place = "idle"
  BY <1>2, ReceiveDoes DEF Keeps
<1>3. CASE BackendStep
  BY <1>3, BackendDoes
<1>4. CASE Reloading!Bootstrap
  <2>1. Closes \/ Keeps => Len(procs') = Len(procs)
    BY ClosedIs DEF Closes, Keeps
  <2>2. CASE Reloading!Start
    BY <2>2, StartDoes, BootDoes
  <2>3. CASE Reloading!Started
    <3>1. Len(procs) \in 1..Len(procs) /\ Len(procs) \in Nat
      BY <2>3, BootDoes, Numbers DEF BackendInv
    <3>2. /\ procs[Len(procs)].out # <<>>
          /\ procs' = [procs EXCEPT ![Len(procs)].out = Tail(@)]
      BY <2>3 DEF Reloading!Started
    <3>. QED
      BY <2>3, <3>1, <3>2, PipeRead, BootDoes DEF OthersSame
  <2>4. CASE Reloading!Send
    BY <2>4, BootDoes, SendDoes DEF OthersSame, Reloading!Send, Reloading!Live
  <2>5. CASE Reloading!Answered
    <3>1. backend # 0
      BY <2>5, BootDoes DEF BackendInv
    <3>. QED
      BY <2>1, <2>5, <3>1, BootDoes, AnsweredDoes DEF OthersSame
  <2>6. CASE \/ Reloading!Resolve \/ Reloading!Reuse \/ Reloading!Load \/ Reloading!ReadLife
            \/ Reloading!Meta \/ Reloading!StartFails \/ Reloading!SendFails \/ Reloading!NotAnswered
    BY <2>1, <2>6, BootDoes
  <2>. QED
    BY <1>4, <2>2, <2>3, <2>4, <2>5, <2>6 DEF Reloading!Bootstrap
<1>. QED
  BY <1>1, <1>2, <1>3, <1>4 DEF Acts

\* A request starts one backend at most, and has not been answered before it ends.
LEMMA CountKept ==
  ASSUME Bounds, Typed, BackendInv, CountInv, Acts
  PROVE  CountInv'
<1>1. Len(procs) \in Nat /\ asked \in Nat /\ answer.id \in Int /\ query.id \in Int
  BY Numbers
<1>2. CASE Reloading!ChangeConfig \/ Reloading!ChangeLife
  BY <1>1, <1>2, ProjectDoes DEF Keeps, CountInv
<1>3. ASSUME NEW kind \in Kinds, Reloading!Receive(kind) PROVE CountInv'
  BY <1>1, <1>3, ReceiveDoes DEF Keeps, CountInv
<1>4. CASE BackendStep
  BY <1>1, <1>4, BackendDoes DEF CountInv
<1>5. CASE Reloading!Bootstrap
  <2>1. CASE Reloading!Resolve \/ Reloading!Reuse \/ Reloading!Start \/ Reloading!Started \/ Reloading!Send
    BY <1>1, <1>5, <2>1, Lengths, BootDoes DEF CountInv, Still, Acts
  <2>2. CASE Reloading!Load \/ Reloading!ReadLife
    BY <1>1, <1>5, <2>2, Lengths, BootDoes DEF CountInv, Still, Says, Acts
  <2>3. CASE Reloading!Meta \/ Reloading!StartFails \/ Reloading!SendFails \/ Reloading!NotAnswered
    BY <1>1, <1>5, <2>3, Lengths, BootDoes DEF CountInv, Still, Says, Acts
  <2>4. CASE Reloading!Answered
    <3>1. backend # 0
      BY <2>4, BootDoes DEF BackendInv
    <3>2. answer'.id = query.id
      BY <2>4, <3>1, AnsweredDoes DEF Says
    <3>. QED
      BY <1>1, <1>5, <2>4, <3>2, Lengths, BootDoes DEF CountInv, Still, Acts
  <2>. QED
    BY <1>5, <2>1, <2>2, <2>3, <2>4 DEF Reloading!Bootstrap
<1>. QED
  BY <1>2, <1>3, <1>4, <1>5 DEF Acts

\* What is read for a request is no older than the request.
LEMMA OrderKept ==
  ASSUME Bounds, Typed, BackendInv, OrderInv, Acts
  PROVE  OrderInv'
<1>. config \in Nat /\ life.gen \in Nat /\ changes \in Nat /\ exits \in Nat /\ asked \in Nat
      /\ waited \in Nat /\ sel.config \in Nat /\ sel.life \in Nat /\ fp.config \in Nat
      /\ query.config \in Nat /\ query.life \in Nat /\ config > 0
  BY Numbers
<1>1. CASE Reloading!ChangeConfig \/ Reloading!ChangeLife
  <2>1. life'.gen \in Nat
    BY <1>1, ProjectDoes
  <2>. QED
    BY <1>1, <2>1, ProjectDoes DEF Keeps, OrderInv
<1>2. ASSUME NEW kind \in Kinds, Reloading!Receive(kind) PROVE OrderInv'
  BY <1>2, ReceiveDoes DEF Keeps, OrderInv, Looked, Chosen
<1>3. CASE BackendStep
  BY <1>3, BackendDoes DEF OrderInv
<1>4. CASE Reloading!Bootstrap
  <2>1. fp'.config <= config'
    <3>1. fp' = fp \/ fp' = Reloading!Nothing \/ (Reloading!Started /\ fp' = sel)
      <4>1. CASE Reloading!Answered
        BY <4>1, AnsweredDoes, BootDoes DEF BackendInv, Closes
      <4>. QED
        BY <1>4, <4>1, BootDoes DEF Reloading!Bootstrap, Keeps, Closes
    <3>2. config' = config
      BY <1>4, BootDoes DEF Reloading!Bootstrap, Still
    <3>. QED
      BY <3>1, <3>2 DEF OrderInv, Reloading!Nothing
  <2>2. config' = config /\ life' = life /\ query' = query
    BY <1>4, BootDoes DEF Reloading!Bootstrap, Still
  <2>3. CASE Reloading!Resolve \/ Reloading!ReadLife \/ Reloading!Load
    <3>1. CASE Reloading!Resolve
      BY <2>1, <2>2, <3>1, BootDoes DEF OrderInv, Looked, Chosen
    <3>2. CASE Reloading!ReadLife
      BY <2>1, <2>2, <3>2, BootDoes DEF OrderInv, Looked, Chosen
    <3>3. CASE Reloading!Load
      BY <2>1, <2>2, <3>3, BootDoes DEF OrderInv, Looked, Chosen
    <3>. QED
      BY <2>3, <3>1, <3>2, <3>3
  <2>4. CASE ~(Reloading!Resolve \/ Reloading!ReadLife \/ Reloading!Load)
    <3>1. sel' = sel /\ (place' \in Looked => place \in Looked) /\ (place' \in Chosen => place \in Chosen)
      BY <1>4, <2>4, BootDoes DEF Reloading!Bootstrap, Looked, Chosen
    <3>. QED
      BY <2>1, <2>2, <3>1 DEF OrderInv
  <2>. QED
    BY <2>3, <2>4
<1>. QED
  BY <1>1, <1>2, <1>3, <1>4 DEF Acts


\* A process that has not begun to initialize reads the config when it does.
LEMMA FreshReads ==
  ASSUME Typed, NEW b \in 1..Len(procs), Fresh(b), BackendStep
  PROVE  Fresh(b)' \/ procs'[b].config = config
<1>1. ASSUME NEW c \in 1..Len(procs), c # b, Reloading!Take(c) \/ Reloading!Finish(c) \/ Reloading!Exit(c)
      PROVE  Fresh(b)'
  <2>1. procs'[b] = procs[b]
    BY <1>1, TakeDoes, FinishDoes, ExitDoes DEF OthersSame
  <2>. QED
    BY <2>1 DEF Fresh
<1>2. CASE Reloading!Take(b)
  <2>1. Head(procs[b].inbox).id = Reloading!InitializeId
    BY DEF Fresh
  <2>. QED
    BY <1>2, <2>1, TakeDoes
<1>3. ~Reloading!Finish(b)
  BY DEF Fresh, Reloading!Finish
<1>4. CASE Reloading!Exit(b)
  BY <1>4, ExitDoes DEF SameButAlive, Fresh
<1>5. CASE Reloading!Tick
  BY <1>5, TickDoes DEF Fresh
<1>. QED
  BY <1>1, <1>2, <1>3, <1>4, <1>5 DEF BackendStep

\* A backend is in use only for the state it was started for.
LEMMA BackendKept ==
  ASSUME Bounds, Typed, OrderInv, BackendInv, Acts
  PROVE  BackendInv'
<1>. /\ config \in Nat /\ sel.config \in Nat /\ sel.life \in Nat /\ fp.config \in Nat
     /\ Len(procs) \in Nat /\ backend \in Nat /\ backend <= Len(procs)
     /\ procs \in Seq(Process)
  BY Numbers DEF Typed
<1>1. CASE Reloading!ChangeConfig \/ Reloading!ChangeLife
  BY <1>1, ProjectDoes DEF Keeps, BackendInv, Fresh
<1>2. ASSUME NEW kind \in Kinds, Reloading!Receive(kind) PROVE BackendInv'
  BY <1>2, ReceiveDoes DEF Keeps, BackendInv
<1>3. CASE BackendStep
  <2>1. /\ place' = place /\ sel' = sel /\ backend' = backend /\ fp' = fp /\ Len(procs') = Len(procs)
        /\ \A b \in 1..Len(procs) : /\ procs'[b].life = procs[b].life
                                    /\ (procs'[b].config = procs[b].config \/ procs'[b].config = config)
    <3>1. /\ place' = place /\ sel' = sel /\ backend' = backend /\ fp' = fp /\ Len(procs') = Len(procs)
      BY <1>3, BackendDoes
    <3>2. ASSUME NEW b \in 1..Len(procs)
          PROVE  procs'[b].life = procs[b].life /\ (procs'[b].config = procs[b].config \/ procs'[b].config = config)
      BY <1>3, BackendDoes
    <3>. QED
      BY <3>1, <3>2
  <2>2. backend # 0 => procs'[backend].life = fp.life /\ procs'[backend].config >= fp.config
    <3>1. backend # 0 => backend \in 1..Len(procs) /\ procs[backend].config \in Nat
      BY Plain
    <3>. QED
      BY <2>1, <3>1 DEF BackendInv, OrderInv
  <2>3. place = "start" => Fresh(Len(procs))' \/ procs'[Len(procs)].config >= sel.config
    <3>1. SUFFICES ASSUME place = "start" PROVE Fresh(Len(procs))' \/ procs'[Len(procs)].config >= sel.config
      OBVIOUS
    <3>2. Len(procs) \in 1..Len(procs)
      BY <3>1 DEF BackendInv
    <3>3. procs[Len(procs)].config \in Nat
      BY <3>2, Plain
    <3>4. CASE Fresh(Len(procs))
      <4>1. PICK b \in 1..Len(procs) : b = Len(procs)
        BY <3>2
      <4>2. Fresh(b)' \/ procs'[b].config = config
        <5>1. Fresh(b)
          BY <3>4, <4>1
        <5>. QED
          BY <1>3, <5>1, FreshReads
      <4>. QED
        BY <2>1, <4>1, <4>2 DEF OrderInv, Fresh
    <3>5. CASE procs[Len(procs)].config >= sel.config
      BY <2>1, <3>2, <3>3, <3>5 DEF OrderInv
    <3>. QED
      BY <3>1, <3>4, <3>5 DEF BackendInv
  <2>4. place = "start" => procs'[Len(procs)].life = sel.life
    BY <2>1 DEF BackendInv
  <2>5. Len(procs)' = Len(procs)
    BY <2>1
  <2>6. place = "start" => Fresh(Len(procs))' \/ procs'[Len(procs')].config >= sel'.config
    BY <2>1, <2>3
  <2>. QED
    BY <2>1, <2>2, <2>4, <2>6 DEF BackendInv, Fresh
<1>4. CASE Reloading!Bootstrap
  <2>1. CASE \/ Reloading!Resolve \/ Reloading!Load \/ Reloading!ReadLife \/ Reloading!Meta
            \/ Reloading!Reuse \/ Reloading!StartFails \/ Reloading!SendFails \/ Reloading!NotAnswered
    <3>1. /\ Keeps \/ Closes
          /\ place' # "start" /\ place' # "wait"
          /\ place' = "send" => sel' = sel /\ fp' = sel /\ backend' # 0
      BY <2>1, BootDoes DEF Keeps
    <3>2. CASE Keeps
      BY <3>1, <3>2 DEF BackendInv, Keeps
    <3>3. CASE Closes
      BY <3>1, <3>3 DEF BackendInv, Closes
    <3>. QED
      BY <3>1, <3>2, <3>3
  <2>2. CASE Reloading!Start
    <3>1. /\ Len(procs') = Len(procs) + 1 /\ procs'[Len(procs')].life = sel.life
          /\ Fresh(Len(procs))'
      BY <2>2, StartDoes
    <3>2. sel' = sel /\ place' = "start" /\ backend' = 0 /\ fp' = Reloading!Nothing
      BY <2>2, BootDoes
    <3>. QED
      BY <3>1, <3>2 DEF BackendInv
  <2>3. CASE Reloading!Started
    <3>1. /\ sel' = sel /\ place = "start" /\ place' = "send" /\ backend' = Len(procs) /\ fp' = sel
      BY <2>3, BootDoes
    <3>2. /\ Len(procs) \in 1..Len(procs) /\ procs[Len(procs)].life = sel.life
          /\ procs[Len(procs)].out # <<>>
          /\ procs' = [procs EXCEPT ![Len(procs)].out = Tail(@)]
      BY <2>3, <3>1 DEF BackendInv, Reloading!Started
    <3>3. procs[Len(procs)].config >= sel.config
      BY <3>1, <3>2 DEF BackendInv, Fresh
    <3>4. procs'[Len(procs)].life = sel.life /\ procs'[Len(procs)].config >= sel.config
      BY <3>2, <3>3, PipeRead DEF OthersSame
    <3>5. sel # Reloading!Nothing
      BY <3>1 DEF OrderInv, Looked, Chosen, Reloading!Nothing
    <3>. QED
      BY <3>1, <3>2, <3>4, <3>5 DEF BackendInv
  <2>4. CASE Reloading!Send
    <3>1. /\ place = "send" /\ sel' = sel /\ place' \in {"idle", "wait"} /\ backend' = backend /\ fp' = fp
          /\ backend # 0 /\ fp = sel
      BY <2>4, BootDoes DEF BackendInv
    <3>2. procs'[backend].life = procs[backend].life /\ procs'[backend].config = procs[backend].config
      BY <2>4, <3>1, SendDoes DEF OthersSame
    <3>. QED
      BY <3>1, <3>2 DEF BackendInv
  <2>5. CASE Reloading!Answered
    <3>1. /\ place = "wait" /\ sel' = sel /\ place' = "idle" /\ backend # 0
      BY <2>5, BootDoes DEF BackendInv
    <3>2. \/ Closes
          \/ /\ backend' = backend /\ fp' = fp /\ procs'[backend].life = procs[backend].life
             /\ procs'[backend].config = procs[backend].config
      BY <2>5, <3>1, AnsweredDoes DEF OthersSame
    <3>. QED
      BY <3>1, <3>2 DEF BackendInv, Closes
  <2>. QED
    BY <1>4, <2>1, <2>2, <2>3, <2>4, <2>5 DEF Reloading!Bootstrap
<1>. QED
  BY <1>1, <1>2, <1>3, <1>4 DEF Acts

\* What is answered is what was selected.
LEMMA AnswerKept ==
  ASSUME Bounds, Typed, CountInv, OrderInv, BackendInv, Reloading!AnsweredBySelected, Acts
  PROVE  Reloading!AnsweredBySelected'
<1>1. CASE Reloading!ChangeConfig \/ Reloading!ChangeLife
  BY <1>1, ProjectDoes DEF Reloading!AnsweredBySelected
<1>2. ASSUME NEW kind \in Kinds, Reloading!Receive(kind) PROVE Reloading!AnsweredBySelected'
  BY <1>2, ReceiveDoes, Numbers DEF Reloading!AnsweredBySelected, CountInv
<1>3. CASE BackendStep
  BY <1>3, BackendDoes DEF Reloading!AnsweredBySelected
<1>4. CASE Reloading!Bootstrap
  <2>1. CASE Reloading!Resolve \/ Reloading!Reuse \/ Reloading!Start \/ Reloading!Started \/ Reloading!Send
    <3>1. answer' = answer /\ query' = query /\ place # "idle"
      BY <2>1, BootDoes DEF Still
    <3>. QED
      BY <3>1 DEF Reloading!AnsweredBySelected, CountInv
  <2>2. CASE Reloading!Load \/ Reloading!ReadLife
    <3>1. query' = query /\ place # "idle" /\ (answer' = answer \/ answer'.is # "result")
      BY <2>2, BootDoes DEF Still, Says
    <3>. QED
      BY <3>1 DEF Reloading!AnsweredBySelected, CountInv
  <2>3. CASE Reloading!Meta \/ Reloading!StartFails \/ Reloading!SendFails \/ Reloading!NotAnswered
    <3>1. answer'.is # "result"
      BY <2>3, BootDoes DEF Says
    <3>. QED
      BY <3>1 DEF Reloading!AnsweredBySelected
  <2>4. CASE Reloading!Answered
    <3>1. /\ backend # 0 /\ fp = sel /\ sel' = sel /\ query' = query /\ place = "wait"
      BY <2>4, BootDoes DEF BackendInv, Still
    <3>2. \/ answer'.is # "result"
          \/ answer'.config = procs[backend].config /\ answer'.life = procs[backend].life
      BY <2>4, <3>1, AnsweredDoes DEF Says
    <3>3. procs[backend].life = sel.life /\ procs[backend].config >= sel.config
      BY <3>1 DEF BackendInv
    <3>4. query.config <= sel.config /\ query.life <= sel.life
      BY <3>1 DEF OrderInv, Looked, Chosen
    <3>5. /\ sel.config \in Nat /\ sel.life \in Nat /\ query.config \in Nat /\ query.life \in Nat
          /\ procs[backend].config \in Nat
      BY <3>1, Numbers, Plain, SMTT(20)
    <3>. QED
      BY <3>1, <3>2, <3>3, <3>4, <3>5 DEF Reloading!AnsweredBySelected
  <2>. QED
    BY <1>4, <2>1, <2>2, <2>3, <2>4 DEF Reloading!Bootstrap
<1>. QED
  BY <1>1, <1>2, <1>3, <1>4 DEF Acts

\* Nothing is selected before the first request.
LEMMA SelectedAtStart ==
  ASSUME Bounds, Reloading!Init
  PROVE  SelectedInv
<1>1. /\ config = 1 /\ life = [gen |-> 1, ok |-> TRUE] /\ changes = 0 /\ exits = 0 /\ asked = 0
      /\ place = "idle" /\ query = Reloading!NoRequest /\ sel = Reloading!Nothing
      /\ backend = 0 /\ fp = Reloading!Nothing /\ procs = <<>> /\ waited = 0 /\ answer = Reloading!NoAnswer
  BY DEF Reloading!Init
<1>2. Typed
  <2>1. query \in Asked /\ answer \in Said /\ sel \in Selection
    BY <1>1 DEF Reloading!NoRequest, Reloading!NoAnswer, Reloading!NoId, Asked, Said, Cause,
       Reloading!Nothing, Selection
  <2>2. procs \in Seq(Process) /\ backend \in 0..Len(procs)
    BY <1>1
  <2>3. life \in [gen : 1..(MaxChanges + 1), ok : BOOLEAN] /\ life.gen = 1
    BY <1>1 DEF Bounds
  <2>. QED
    BY <1>1, <2>1, <2>2, <2>3 DEF Typed, Bounds
<1>3. CountInv /\ OrderInv /\ BackendInv /\ Reloading!AnsweredBySelected
  BY <1>1 DEF CountInv, OrderInv, BackendInv, Reloading!AnsweredBySelected,
     Reloading!NoRequest, Reloading!NoAnswer, Reloading!NoId, Reloading!Nothing,
     Looked, Chosen
<1>. QED
  BY <1>2, <1>3 DEF SelectedInv

\* All of it together, step by step ...
LEMMA SelectedKept ==
  ASSUME Bounds, SelectedInv, [Reloading!Next]_Reloading!vars
  PROVE  SelectedInv'
<1>1. CASE UNCHANGED Reloading!vars
  BY <1>1 DEF Reloading!vars, SelectedInv, Typed, CountInv, OrderInv, BackendInv,
     Reloading!AnsweredBySelected, Fresh
<1>2. CASE Acts
  BY <1>2, TypedKept, CountKept, OrderKept, BackendKept, AnswerKept DEF SelectedInv
<1>3. Reloading!Next => Acts
  BY DEF Reloading!Next, Reloading!Backend, BackendStep, Acts
<1>. QED
  BY <1>1, <1>2, <1>3

\* ... and of the specification.
LEMMA Selects ==
  ASSUME Bounds
  PROVE  Reloading!Spec => []SelectedInv
<1>1. Reloading!Init => SelectedInv
  BY SelectedAtStart
<1>2. SelectedInv /\ [Reloading!Next]_Reloading!vars => SelectedInv'
  BY SelectedKept
<1>. QED
  BY <1>1, <1>2, PTL DEF Reloading!Spec

\* Every variable of the bootstrap has its type, no more backends are started than requests
\* come, and a backend is in use exactly when it has a fingerprint.
THEOREM ReloadingTypes ==
  ASSUME Bounds
  PROVE  Reloading!Spec => []Reloading!TypeOK
<1>1. SelectedInv => Reloading!TypeOK
  BY DEF SelectedInv, Typed, CountInv, BackendInv, Reloading!TypeOK, Looked, Chosen
<1>. QED
  BY <1>1, Selects, PTL

\* A result comes from a backend that was started for the lifecycle state read at that
\* request, and has read a config no older than the one there was when the request came:
\* a stop, a switch of the version or an edit of the config is seen by the very next
\* request (_selection and _ensure_backend), whatever the backends do and when they die.
THEOREM BySelected ==
  ASSUME Bounds
  PROVE  Reloading!Spec => []Reloading!AnsweredBySelected
<1>1. SelectedInv => Reloading!AnsweredBySelected
  BY DEF SelectedInv
<1>. QED
  BY <1>1, Selects, PTL

-----------------------------------------------------------------------------
(* The pipe. *)

\* A backend that owes nothing.
Empty(b) == procs[b].inbox = <<>> /\ procs[b].work = Reloading!NoWork /\ procs[b].out = <<>>

\* A backend owes one answer: the message is unread, in work, or answered.
Owes(b, id, kind) ==
  \/ /\ procs[b].inbox = <<[id |-> id, kind |-> kind, spent |-> 0]>>
     /\ procs[b].work = Reloading!NoWork /\ procs[b].out = <<>>
  \/ /\ procs[b].inbox = <<>> /\ procs[b].work.id = id /\ procs[b].work.kind = kind
     /\ procs[b].out = <<>>
  \/ procs[b].inbox = <<>> /\ procs[b].work = Reloading!NoWork /\ procs[b].out = <<id>>

\* The one waited for owes the answer waited for, the one in use nothing otherwise.
PipeInv ==
  /\ place # "idle" => query.id > 0 /\ query.kind \in Kinds
  /\ place \in {"start", "send", "wait"} => query.kind # "meta"
  /\ place \notin {"start", "wait"} /\ backend # 0 => Empty(backend)
  /\ place = "start" => Owes(Len(procs), Reloading!InitializeId, "initialize")
  /\ place = "wait" => Owes(backend, query.id, query.kind)

\* A backend that owes nothing goes on owing nothing.
LEMMA EmptyKept ==
  ASSUME Typed, NEW b \in 1..Len(procs), Empty(b), BackendStep
  PROVE  Empty(b)'
<1>1. ASSUME NEW c \in 1..Len(procs), c # b, Reloading!Take(c) \/ Reloading!Finish(c) \/ Reloading!Exit(c)
      PROVE  Empty(b)'
  <2>1. procs'[b] = procs[b]
    BY <1>1, TakeDoes, FinishDoes, ExitDoes DEF OthersSame
  <2>. QED
    BY <2>1 DEF Empty
<1>2. ~Reloading!Take(b) /\ ~Reloading!Finish(b)
  BY DEF Empty, Reloading!Take, Reloading!Takers, Reloading!Finish
<1>3. CASE Reloading!Exit(b)
  BY <1>3, ExitDoes DEF SameButAlive, Empty
<1>4. CASE Reloading!Tick
  BY <1>4, TickDoes DEF Empty
<1>. QED
  BY <1>1, <1>2, <1>3, <1>4 DEF BackendStep

\* A backend that owes one answer owes it until the bootstrap reads it.
LEMMA OwesKept ==
  ASSUME Typed, NEW b \in 1..Len(procs), NEW id \in Int, id # Reloading!NoId, NEW kind, kind # "notification",
         Owes(b, id, kind), BackendStep
  PROVE  Owes(b, id, kind)'
<1>0. Reloading!NoWork.id = Reloading!NoId
  BY DEF Reloading!NoWork
<1>1. ASSUME NEW c \in 1..Len(procs), c # b, Reloading!Take(c) \/ Reloading!Finish(c) \/ Reloading!Exit(c)
      PROVE  Owes(b, id, kind)'
  <2>1. procs'[b] = procs[b]
    BY <1>1, TakeDoes, FinishDoes, ExitDoes DEF OthersSame
  <2>. QED
    BY <2>1 DEF Owes
<1>2. CASE Reloading!Take(b)
  <2> DEFINE m == [id |-> id, kind |-> kind, spent |-> 0]
  <2>1. procs[b].inbox = <<m>> /\ procs[b].out = <<>>
    BY <1>2, TakeDoes DEF Owes
  <2>2. Head(procs[b].inbox) = m /\ Tail(procs[b].inbox) = <<>>
    BY <2>1
  <2>3. m.kind = kind /\ m.id = id
    OBVIOUS
  <2>4. procs'[b].inbox = <<>> /\ procs'[b].work = m /\ procs'[b].out = <<>>
    BY <1>2, <2>1, <2>2, <2>3, TakeDoes
  <2>. QED
    BY <2>3, <2>4 DEF Owes
<1>3. CASE Reloading!Finish(b)
  <2>1. procs[b].inbox = <<>> /\ procs[b].work.id = id /\ procs[b].out = <<>>
    BY <1>3, FinishDoes DEF Owes
  <2>2. procs'[b].out = <<id>>
    BY <1>3, <2>1, FinishDoes
  <2>. QED
    BY <1>3, <2>1, <2>2, FinishDoes DEF Owes
<1>4. CASE Reloading!Exit(b)
  BY <1>4, ExitDoes DEF SameButAlive, Owes
<1>5. CASE Reloading!Tick
  <2>1. /\ procs'[b].inbox = procs[b].inbox /\ procs'[b].out = procs[b].out
        /\ \/ procs'[b].work.id = procs[b].work.id /\ procs'[b].work.kind = procs[b].work.kind
              /\ procs[b].work # Reloading!NoWork
           \/ procs'[b].work = procs[b].work
    BY <1>5, TickDoes
  <2>. QED
    BY <2>1 DEF Owes
<1>. QED
  BY <1>1, <1>2, <1>3, <1>4, <1>5 DEF BackendStep

\* The backend in use owes the answer to the present request and no other.
LEMMA PipeKept ==
  ASSUME Bounds, "notification" \notin Kinds, Typed, CountInv, BackendInv, PipeInv, Acts
  PROVE  PipeInv'
<1>. /\ Len(procs) \in Nat /\ backend \in Nat /\ backend <= Len(procs) /\ asked \in Nat
     /\ query.id \in Int
  BY Numbers
<1>0. Reloading!NoId = -1 /\ Reloading!InitializeId = 0
  BY DEF Reloading!NoId, Reloading!InitializeId
<1>1. CASE Reloading!ChangeConfig \/ Reloading!ChangeLife
  BY <1>1, ProjectDoes DEF Keeps, PipeInv, Empty, Owes
<1>2. ASSUME NEW kind \in Kinds, Reloading!Receive(kind) PROVE PipeInv'
  BY <1>2, ReceiveDoes DEF Keeps, PipeInv, Empty
<1>3. CASE BackendStep
  <2>1. /\ query' = query /\ place' = place /\ backend' = backend /\ Len(procs') = Len(procs)
    BY <1>3, BackendDoes
  <2>2. ASSUME place \notin {"start", "wait"}, backend # 0
        PROVE  Empty(backend)'
    <3>1. PICK b \in 1..Len(procs) : b = backend
      BY <2>2
    <3>2. Empty(b)
      BY <2>2, <3>1 DEF PipeInv
    <3>3. Empty(b)'
      BY <1>3, <3>2, EmptyKept
    <3>. QED
      BY <2>1, <3>1, <3>3 DEF Empty
  <2>3. ASSUME place = "start"
        PROVE  Owes(Len(procs), Reloading!InitializeId, "initialize")'
    <3>1. PICK b \in 1..Len(procs) : b = Len(procs)
      BY <2>3 DEF BackendInv
    <3>2. Owes(b, 0, "initialize")
      BY <1>0, <2>3, <3>1 DEF PipeInv
    <3>3. Owes(b, 0, "initialize")'
      BY <1>0, <1>3, <3>2, OwesKept
    <3>. QED
      BY <1>0, <2>1, <3>1, <3>3 DEF Owes, Reloading!InitializeId
  <2>4. ASSUME place = "wait"
        PROVE  Owes(backend, query.id, query.kind)'
    <3>1. PICK b \in 1..Len(procs) : b = backend
      BY <2>4 DEF BackendInv
    <3>2. PICK id \in Int, kind \in Kinds : id = query.id /\ kind = query.kind
      BY <2>4 DEF PipeInv
    <3>3. Owes(b, id, kind) /\ id # Reloading!NoId /\ kind # "notification"
      BY <1>0, <2>4, <3>1, <3>2 DEF PipeInv
    <3>4. Owes(b, id, kind)'
      BY <1>3, <3>3, OwesKept
    <3>. QED
      BY <2>1, <3>1, <3>2, <3>4 DEF Owes
  <2>. QED
    BY <2>1, <2>2, <2>3, <2>4 DEF PipeInv
<1>4. CASE Reloading!Bootstrap
  <2>1. query' = query /\ place # "idle"
    BY <1>4, BootDoes DEF Reloading!Bootstrap, Still
  <2>2. /\ query.id > 0 /\ query.kind \in Kinds
        /\ place' \in {"start", "send", "wait"} => query.kind # "meta"
    BY <1>4, <2>1, BootDoes DEF Reloading!Bootstrap, PipeInv
  <2>3. CASE \/ Reloading!Resolve \/ Reloading!Load \/ Reloading!ReadLife \/ Reloading!Meta
            \/ Reloading!Reuse \/ Reloading!SendFails \/ Reloading!NotAnswered
    <3>1. /\ place' \notin {"start", "wait"} /\ place # "start"
          /\ Closes \/ (Keeps /\ place # "wait")
      BY <2>3, BootDoes
    <3>. QED
      BY <2>1, <2>2, <3>1 DEF PipeInv, Closes, Keeps, Empty
  <2>4. CASE Reloading!StartFails
    <3>1. place' = "idle" /\ Keeps /\ backend = 0
      BY <2>4, BootDoes DEF BackendInv
    <3>. QED
      BY <2>1, <2>2, <3>1 DEF PipeInv, Keeps
  <2>5. CASE Reloading!Start
    <3>1. /\ Len(procs') = Len(procs) + 1 /\ Fresh(Len(procs))' /\ place' = "start" /\ backend' = 0
      BY <2>5, StartDoes, BootDoes
    <3>. QED
      BY <2>1, <2>2, <3>1 DEF PipeInv, Owes, Fresh
  <2>6. CASE Reloading!Started
    <3>1. /\ place = "start" /\ place' = "send" /\ backend' = Len(procs)
      BY <2>6, BootDoes
    <3>2. /\ Len(procs) \in 1..Len(procs) /\ procs[Len(procs)].out # <<>>
          /\ procs' = [procs EXCEPT ![Len(procs)].out = Tail(@)]
      BY <2>6, <3>1 DEF BackendInv, Reloading!Started
    <3>3. /\ procs[Len(procs)].inbox = <<>> /\ procs[Len(procs)].work = Reloading!NoWork
          /\ procs[Len(procs)].out = <<Reloading!InitializeId>>
      BY <3>1, <3>2 DEF PipeInv, Owes
    <3>4. /\ procs'[Len(procs)].inbox = <<>> /\ procs'[Len(procs)].work = Reloading!NoWork
          /\ procs'[Len(procs)].out = <<>>
      BY <3>2, <3>3, PipeRead
    <3>. QED
      BY <2>1, <2>2, <3>1, <3>4 DEF PipeInv, Empty
  <2>7. CASE Reloading!Send
    <3>1. place = "send" /\ place' = "wait" /\ backend' = backend /\ backend # 0 /\ query.kind # "notification"
      BY <2>2, <2>7, BootDoes DEF BackendInv
    <3>2. Empty(backend)
      BY <3>1 DEF PipeInv
    <3>3. /\ procs'[backend].work = Reloading!NoWork /\ procs'[backend].out = <<>>
          /\ procs'[backend].inbox = <<[id |-> query.id, kind |-> query.kind, spent |-> 0]>>
      BY <2>7, <3>1, <3>2, SendDoes DEF Empty
    <3>. QED
      BY <2>1, <2>2, <3>1, <3>3 DEF PipeInv, Owes
  <2>8. CASE Reloading!Answered
    <3>1. place = "wait" /\ place' = "idle" /\ backend # 0 /\ procs[backend].out # <<>>
      BY <2>8, BootDoes DEF BackendInv
    <3>2. /\ procs[backend].inbox = <<>> /\ procs[backend].work = Reloading!NoWork
          /\ procs[backend].out = <<query.id>>
      BY <3>1 DEF PipeInv, Owes
    <3>3. Head(procs[backend].out) = query.id /\ Tail(procs[backend].out) = <<>>
      BY <3>2
    <3>4. /\ backend' = backend /\ procs'[backend].inbox = <<>> /\ procs'[backend].work = Reloading!NoWork
          /\ procs'[backend].out = <<>>
      BY <2>8, <3>1, <3>2, <3>3, AnsweredDoes
    <3>. QED
      BY <2>1, <2>2, <3>1, <3>4 DEF PipeInv, Empty
  <2>. QED
    BY <1>4, <2>3, <2>4, <2>5, <2>6, <2>7, <2>8 DEF Reloading!Bootstrap
<1>. QED
  BY <1>1, <1>2, <1>3, <1>4 DEF Acts

\* The invariant of the pipe, of the specification.
LEMMA Pipes ==
  ASSUME Bounds, "notification" \notin Kinds
  PROVE  Reloading!Spec => [](SelectedInv /\ PipeInv)
<1>1. Reloading!Init => SelectedInv /\ PipeInv
  BY SelectedAtStart DEF Reloading!Init, PipeInv
<1>2. SelectedInv /\ PipeInv /\ [Reloading!Next]_Reloading!vars => PipeInv'
  <2> SUFFICES ASSUME SelectedInv, PipeInv, [Reloading!Next]_Reloading!vars PROVE PipeInv'
    OBVIOUS
  <2>1. CASE UNCHANGED Reloading!vars
    BY <2>1 DEF Reloading!vars, PipeInv, Empty, Owes
  <2>2. CASE Reloading!Next
    BY <2>2, PipeKept DEF SelectedInv, Reloading!Next, Reloading!Backend, BackendStep, Acts
  <2>. QED
    BY <2>1, <2>2
<1>3. SelectedInv /\ PipeInv /\ [Reloading!Next]_Reloading!vars => SelectedInv'
  BY SelectedKept
<1>. QED
  BY <1>1, <1>2, <1>3, PTL DEF Reloading!Spec

\* What is in the pipe when a request is written is no answer, and no work is under way
\* that could become one, whatever was given up before: a bootstrap that gives up closes
\* the backend.  A notification is not waited for; one that the backend answers with an
\* error would leave that in the pipe.
THEOREM PipeIsEmpty ==
  ASSUME Bounds, "notification" \notin Kinds
  PROVE  Reloading!Spec => []Reloading!PipeEmptyAtSend
<1>1. SelectedInv /\ PipeInv => Reloading!PipeEmptyAtSend
  BY DEF PipeInv, Empty, Reloading!PipeEmptyAtSend, Reloading!Live, SelectedInv, BackendInv
<1>. QED
  BY <1>1, Pipes, PTL

-----------------------------------------------------------------------------
(* One backend in its time. *)

\* Requests are waited for, and answered within the time the bootstrap waits.
Timely ==
  /\ "notification" \notin Kinds
  /\ \A kind \in (Kinds \ {"meta"}) \cup {"initialize"} : Takes[kind] \in Nat /\ Takes[kind] < Patience

\* A living backend reads its message at once, and has worked on it since.
Counts(b, kind) ==
  procs[b].alive =>
    /\ procs[b].inbox # <<>> => waited = 0
    /\ procs[b].work # Reloading!NoWork => waited = procs[b].work.spent /\ procs[b].work.spent <= Takes[kind]

\* The clock of a wait is that of the work waited for.
TimeInv ==
  /\ place = "start" => Counts(Len(procs), "initialize")
  /\ place = "wait" => Counts(backend, query.kind)

\* The backend in use, or being started, is the only one alive.
OnlyInv ==
  /\ \A b \in 1..Len(procs) : procs[b].alive => b = (IF place = "start" THEN Len(procs) ELSE backend)
  /\ answer.is = "unavailable" /\ place = "idle" => backend = 0
  /\ answer.is = "failure" => answer.cause = "died"

\* Time that passes in a wait passes in the work waited for.
LEMMA CountsKept ==
  ASSUME Typed, Bounds, NEW b \in 1..Len(procs), NEW id, NEW kind, kind # "notification",
         Takes[kind] \in Nat, Owes(b, id, kind), Counts(b, kind), BackendStep
  PROVE  Counts(b, kind)'
<1>1. ASSUME NEW c \in 1..Len(procs), c # b, Reloading!Take(c) \/ Reloading!Finish(c) \/ Reloading!Exit(c)
      PROVE  Counts(b, kind)'
  <2>1. procs'[b] = procs[b] /\ waited' = waited
    BY <1>1, TakeDoes, FinishDoes, ExitDoes DEF OthersSame, Reloading!Take, Reloading!Finish,
       Reloading!Exit
  <2>. QED
    BY <2>1 DEF Counts
<1>2. CASE Reloading!Take(b)
  <2> DEFINE m == [id |-> id, kind |-> kind, spent |-> 0]
  <2>1. procs[b].inbox = <<m>> /\ procs[b].inbox # <<>> /\ procs'[b].alive = procs[b].alive
    BY <1>2, TakeDoes DEF Owes
  <2>2. Head(procs[b].inbox) = m /\ Tail(procs[b].inbox) = <<>>
    BY <2>1
  <2>3. m.kind = kind /\ m.spent = 0
    OBVIOUS
  <2>4. procs'[b].inbox = <<>> /\ procs'[b].work.spent = 0 /\ waited' = waited
    BY <1>2, <2>1, <2>2, <2>3, TakeDoes DEF Reloading!Take
  <2>. QED
    BY <2>1, <2>4 DEF Counts
<1>3. CASE Reloading!Finish(b)
  <2>1. /\ procs'[b].inbox = procs[b].inbox /\ procs'[b].work = Reloading!NoWork /\ waited' = waited
        /\ procs'[b].alive = procs[b].alive
    BY <1>3, FinishDoes DEF Reloading!Finish
  <2>. QED
    BY <2>1 DEF Counts
<1>4. CASE Reloading!Exit(b)
  BY <1>4, ExitDoes DEF Counts
<1>5. CASE Reloading!Tick
  <2>1. procs'[b].alive = procs[b].alive /\ procs'[b].inbox = procs[b].inbox /\ waited' = waited + 1
    BY <1>5, TickDoes DEF Reloading!Tick
  <2>2. SUFFICES ASSUME procs[b].alive PROVE Counts(b, kind)'
    BY <2>1 DEF Counts
  <2>3. Reloading!Live(b) /\ ~Reloading!Takers(b)
    BY <1>5, <2>2 DEF Reloading!Tick, Reloading!Live
  <2>4. procs[b].inbox = <<>>
    BY <2>3 DEF Reloading!Takers, Owes
  <2>5. CASE procs[b].work = Reloading!NoWork
    <3>1. procs'[b].work = Reloading!NoWork
      BY <1>5, <2>5, TickDoes
    <3>. QED
      BY <2>1, <2>4, <3>1 DEF Counts
  <2>6. CASE procs[b].work # Reloading!NoWork
    <3>1. procs[b].work.kind = kind /\ procs[b].work.spent < Takes[procs[b].work.kind]
      BY <1>5, <2>3, <2>6 DEF Reloading!Tick, Owes
    <3>2. procs'[b].work.spent = procs[b].work.spent + 1
      BY <1>5, <2>2, <2>6, TickDoes
    <3>3. procs[b].work.spent \in Nat
      <4>1. procs[b].work \in Message
        BY Plain
      <4>. QED
        BY <4>1 DEF Message
    <3>4. waited = procs[b].work.spent
      BY <2>2, <2>6 DEF Counts
    <3>. QED
      BY <2>1, <2>4, <3>1, <3>2, <3>3, <3>4 DEF Counts
  <2>. QED
    BY <2>5, <2>6
<1>. QED
  BY <1>1, <1>2, <1>3, <1>4, <1>5 DEF BackendStep

\* A wait that is over has an answer to read, or a dead backend.
LEMMA NeverLate ==
  ASSUME Typed, Bounds, NEW b \in 1..Len(procs), NEW id, id # Reloading!NoId, NEW kind,
         Takes[kind] \in Nat, Takes[kind] < Patience, Owes(b, id, kind), Counts(b, kind),
         procs[b].out = <<>>, waited = Patience
  PROVE  ~procs[b].alive
<1> SUFFICES ASSUME procs[b].alive PROVE FALSE
  OBVIOUS
<1>1. <<id>> # <<>>
  OBVIOUS
<1>2. CASE procs[b].work = Reloading!NoWork
  <2>1. procs[b].inbox = <<>>
    BY DEF Counts, Bounds
  <2>2. <<[id |-> id, kind |-> kind, spent |-> 0]>> # <<>> /\ Reloading!NoWork.id = Reloading!NoId
    BY DEF Reloading!NoWork
  <2>. QED
    BY <1>1, <1>2, <2>1, <2>2 DEF Owes
<1>3. CASE procs[b].work # Reloading!NoWork
  BY <1>3 DEF Counts, Bounds
<1>. QED
  BY <1>2, <1>3

\* The clock of the bootstrap and that of the backend run together.
LEMMA TimeKept ==
  ASSUME Bounds, Timely, Typed, BackendInv, PipeInv, TimeInv, Acts
  PROVE  TimeInv'
<1>. /\ Len(procs) \in Nat /\ backend \in Nat /\ backend <= Len(procs) /\ query.id \in Int
  BY Numbers
<1>0. Reloading!InitializeId # Reloading!NoId /\ \A id \in Int : id > 0 => id # Reloading!NoId
  BY DEF Reloading!NoId, Reloading!InitializeId
<1>1. CASE Reloading!ChangeConfig \/ Reloading!ChangeLife
  BY <1>1, ProjectDoes DEF Keeps, TimeInv, Counts
<1>2. ASSUME NEW kind \in Kinds, Reloading!Receive(kind) PROVE TimeInv'
  BY <1>2, ReceiveDoes DEF TimeInv
<1>3. CASE BackendStep
  <2>1. /\ query' = query /\ place' = place /\ backend' = backend /\ Len(procs') = Len(procs)
    BY <1>3, BackendDoes
  <2>2. ASSUME place = "start"
        PROVE  Counts(Len(procs), "initialize")'
    <3>1. PICK b \in 1..Len(procs) : b = Len(procs)
      BY <2>2 DEF BackendInv
    <3>2. Owes(b, Reloading!InitializeId, "initialize") /\ Counts(b, "initialize")
      BY <2>2, <3>1 DEF PipeInv, TimeInv
    <3>3. Counts(b, "initialize")'
      BY <1>3, <3>2, CountsKept DEF Timely
    <3>. QED
      BY <2>1, <3>1, <3>3 DEF Counts
  <2>3. ASSUME place = "wait"
        PROVE  Counts(backend, query.kind)'
    <3>1. PICK b \in 1..Len(procs) : b = backend
      BY <2>3 DEF BackendInv
    <3>2. PICK id \in Int, kind \in Kinds \ {"meta"} : id = query.id /\ kind = query.kind
      BY <2>3 DEF PipeInv
    <3>3. Owes(b, id, kind) /\ Counts(b, kind)
      BY <2>3, <3>1, <3>2 DEF PipeInv, TimeInv
    <3>4. Counts(b, kind)'
      BY <1>3, <3>3, CountsKept DEF Timely
    <3>. QED
      BY <2>1, <3>1, <3>2, <3>4 DEF Counts
  <2>. QED
    BY <2>1, <2>2, <2>3 DEF TimeInv
<1>4. CASE Reloading!Bootstrap
  <2>1. CASE Reloading!Start
    <3>1. /\ Len(procs') = Len(procs) + 1 /\ Fresh(Len(procs))' /\ place' = "start" /\ waited' = 0
      BY <2>1, StartDoes, BootDoes
    <3>. QED
      BY <3>1 DEF TimeInv, Counts, Fresh
  <2>2. CASE Reloading!Send
    <3>1. place = "send" /\ place' # "start" /\ backend' = backend /\ backend # 0 /\ waited' = 0
      BY <2>2, BootDoes DEF BackendInv
    <3>2. procs'[backend].work = Reloading!NoWork
      BY <2>2, <3>1, SendDoes DEF PipeInv, Empty
    <3>. QED
      BY <3>1, <3>2 DEF TimeInv, Counts
  <2>3. CASE ~Reloading!Start /\ ~Reloading!Send
    <3>1. place' \notin {"start", "wait"}
      BY <1>4, <2>3, BootDoes DEF Reloading!Bootstrap
    <3>. QED
      BY <3>1 DEF TimeInv
  <2>. QED
    BY <2>1, <2>2, <2>3
<1>. QED
  BY <1>1, <1>2, <1>3, <1>4 DEF Acts

\* The process waited for, or the backend in use, is the only one alive.
LEMMA OnlyKept ==
  ASSUME Bounds, Timely, Typed, BackendInv, PipeInv, TimeInv, OnlyInv, Acts
  PROVE  OnlyInv'
<1>. /\ Len(procs) \in Nat /\ backend \in Nat /\ backend <= Len(procs) /\ query.id \in Int
  BY Numbers
<1>0. Reloading!InitializeId # Reloading!NoId /\ \A id \in Int : id > 0 => id # Reloading!NoId
  BY DEF Reloading!NoId, Reloading!InitializeId
<1>1. CASE Reloading!ChangeConfig \/ Reloading!ChangeLife
  BY <1>1, ProjectDoes DEF Keeps, OnlyInv
<1>2. ASSUME NEW kind \in Kinds, Reloading!Receive(kind) PROVE OnlyInv'
  BY <1>2, ReceiveDoes DEF Keeps, OnlyInv
<1>3. CASE BackendStep
  <2>1. /\ place' = place /\ backend' = backend /\ Len(procs') = Len(procs) /\ answer' = answer
    BY <1>3, BackendDoes
  <2>2. ASSUME NEW b \in 1..Len(procs) PROVE procs'[b].alive => procs[b].alive
    BY <1>3, BackendDoes
  <2>. QED
    BY <2>1, <2>2 DEF OnlyInv
<1>4. CASE Reloading!Bootstrap
  <2>1. ASSUME Closes
        PROVE  Len(procs') = Len(procs) /\ \A b \in 1..Len(procs) : procs'[b].alive => place = "start"
    <3>1. procs' = Reloading!Closed(backend)
      BY <2>1 DEF Closes
    <3>2. Len(procs') = Len(procs) /\ \A b \in 1..Len(procs) : procs'[b].alive => procs[b].alive /\ b # backend
      BY <3>1, ClosedIs
    <3>. QED
      BY <3>2 DEF OnlyInv
  <2>2. CASE Reloading!Resolve \/ Reloading!Reuse
    <3>1. Keeps /\ answer' = answer /\ place # "start" /\ place' \notin {"start", "idle"}
      BY <2>2, BootDoes
    <3>. QED
      BY <3>1 DEF OnlyInv, Keeps
  <2>3. CASE Reloading!Load \/ Reloading!ReadLife \/ Reloading!Meta
    <3>1. /\ place # "start" /\ place' # "start"
          /\ answer' = answer \/ answer'.is # "failure"
      BY <2>3, BootDoes DEF Says
    <3>2. CASE Closes
      BY <2>1, <3>1, <3>2 DEF OnlyInv, Closes
    <3>3. CASE ~Closes
      <4>1. Keeps /\ (place' = "idle" => answer'.is = "local")
        BY <2>3, <3>3, BootDoes DEF Says
      <4>. QED
        BY <3>1, <4>1 DEF OnlyInv, Keeps
    <3>. QED
      BY <3>2, <3>3
  <2>4. CASE Reloading!SendFails
    <3>1. Closes /\ place = "send" /\ place' = "idle" /\ Says("failure", {"died"})
      BY <2>4, BootDoes
    <3>. QED
      BY <2>1, <3>1 DEF OnlyInv, Closes, Says
  <2>5. CASE Reloading!StartFails
    <3>1. /\ Keeps /\ place = "start" /\ place' = "idle" /\ procs[Len(procs)].out = <<>>
          /\ \/ Says("failure", {"start_late"}) /\ waited = Patience /\ Reloading!Live(Len(procs))
             \/ Says("failure", {"died"}) /\ ~Reloading!Live(Len(procs))
      BY <2>5, BootDoes
    <3>2. PICK b \in 1..Len(procs) : b = Len(procs)
      BY <3>1 DEF BackendInv
    <3>3. Owes(b, Reloading!InitializeId, "initialize") /\ Counts(b, "initialize")
      BY <3>1, <3>2 DEF PipeInv, TimeInv
    <3>4. waited = Patience => ~procs[b].alive
      BY <1>0, <3>1, <3>2, <3>3, NeverLate DEF Timely
    <3>5. Says("failure", {"died"}) /\ ~procs[Len(procs)].alive
      BY <3>1, <3>2, <3>4 DEF Reloading!Live
    <3>. QED
      BY <3>1, <3>5 DEF OnlyInv, Keeps, Says
  <2>6. CASE Reloading!NotAnswered
    <3>1. /\ Closes /\ place = "wait" /\ place' = "idle" /\ procs[backend].out = <<>>
          /\ \/ Says("failure", {"late"}) /\ waited = Patience /\ Reloading!Live(backend)
             \/ Says("failure", {"died"}) /\ ~Reloading!Live(backend)
      BY <2>6, BootDoes
    <3>2. PICK b \in 1..Len(procs) : b = backend
      BY <3>1 DEF BackendInv
    <3>3. PICK id \in Int, kind \in Kinds \ {"meta"} : id = query.id /\ kind = query.kind
      BY <3>1 DEF PipeInv
    <3>4. Owes(b, id, kind) /\ Counts(b, kind) /\ id # Reloading!NoId
      BY <1>0, <3>1, <3>2, <3>3 DEF PipeInv, TimeInv
    <3>5. waited = Patience => ~procs[b].alive
      BY <3>1, <3>2, <3>4, NeverLate DEF Timely
    <3>6. Says("failure", {"died"})
      BY <3>1, <3>2, <3>5 DEF Reloading!Live
    <3>. QED
      BY <2>1, <3>1, <3>6 DEF OnlyInv, Closes, Says
  <2>7. CASE Reloading!Start
    <3>1. /\ Len(procs') = Len(procs) + 1 /\ place = "selected" /\ place' = "start" /\ answer' = answer
      BY <2>7, StartDoes, BootDoes
    <3>2. \A b \in 1..Len(procs) : ~procs'[b].alive
      BY <2>7, <3>1, StartDoes DEF OnlyInv
    <3>. QED
      BY <3>1, <3>2 DEF OnlyInv
  <2>8. CASE Reloading!Started
    <3>1. /\ place = "start" /\ place' = "send" /\ backend' = Len(procs) /\ answer' = answer
      BY <2>8, BootDoes
    <3>2. /\ Len(procs) \in 1..Len(procs) /\ procs[Len(procs)].out # <<>>
          /\ procs' = [procs EXCEPT ![Len(procs)].out = Tail(@)]
      BY <2>8, <3>1 DEF BackendInv, Reloading!Started
    <3>3. /\ Len(procs') = Len(procs)
          /\ \A b \in 1..Len(procs) : b # Len(procs) => procs'[b] = procs[b]
      BY <3>2, PipeRead DEF OthersSame
    <3>. QED
      BY <3>1, <3>3 DEF OnlyInv
  <2>9. CASE Reloading!Send
    <3>1. place = "send" /\ place' = "wait" /\ backend' = backend /\ backend # 0 /\ answer' = answer
      BY <2>9, BootDoes DEF BackendInv, PipeInv, Timely
    <3>2. /\ Len(procs') = Len(procs)
          /\ \A b \in 1..Len(procs) : b # backend => procs'[b] = procs[b]
      BY <2>9, <3>1, SendDoes DEF OthersSame
    <3>. QED
      BY <3>1, <3>2 DEF OnlyInv
  <2>10. CASE Reloading!Answered
    <3>1. place = "wait" /\ place' = "idle" /\ backend # 0 /\ procs[backend].out # <<>>
      BY <2>10, BootDoes DEF BackendInv
    <3>2. procs[backend].out = <<query.id>>
      BY <3>1 DEF PipeInv, Owes
    <3>3. Head(procs[backend].out) = query.id
      BY <3>2
    <3>4. /\ backend' = backend /\ Len(procs') = Len(procs) /\ Says("result", {"none"})
          /\ \A b \in 1..Len(procs) : b # backend => procs'[b] = procs[b]
      BY <2>10, <3>1, <3>3, AnsweredDoes DEF OthersSame
    <3>. QED
      BY <3>1, <3>4 DEF OnlyInv, Says
  <2>. QED
    BY <1>4, <2>2, <2>3, <2>4, <2>5, <2>6, <2>7, <2>8, <2>9, <2>10 DEF Reloading!Bootstrap
<1>. QED
  BY <1>1, <1>2, <1>3, <1>4 DEF Acts

\* The invariant of one backend, of the specification.
LEMMA Served ==
  ASSUME Bounds, Timely
  PROVE  Reloading!Spec => [](SelectedInv /\ PipeInv /\ TimeInv /\ OnlyInv)
<1> DEFINE All == SelectedInv /\ PipeInv /\ TimeInv /\ OnlyInv
<1>1. Reloading!Init => TimeInv /\ OnlyInv
  BY DEF Reloading!Init, TimeInv, OnlyInv, Reloading!NoAnswer
<1>2. All /\ [Reloading!Next]_Reloading!vars => TimeInv' /\ OnlyInv'
  <2> SUFFICES ASSUME All, [Reloading!Next]_Reloading!vars PROVE TimeInv' /\ OnlyInv'
    OBVIOUS
  <2>1. CASE UNCHANGED Reloading!vars
    BY <2>1 DEF Reloading!vars, TimeInv, OnlyInv, Counts
  <2>2. CASE Reloading!Next
    <3>1. Acts
      BY <2>2 DEF Reloading!Next, Reloading!Backend, BackendStep, Acts
    <3>. QED
      BY <3>1, TimeKept, OnlyKept DEF SelectedInv
  <2>. QED
    BY <2>1, <2>2
<1>3. Reloading!Spec => [](SelectedInv /\ PipeInv)
  BY Pipes DEF Timely
<1>. QED
  BY <1>1, <1>2, <1>3, PTL DEF Reloading!Spec

\* One backend at a time, and none once the project was found not ready, when every
\* backend answers within the time the bootstrap waits: a constructor that gives up leaves
\* its process behind.
THEOREM OneAtATime ==
  ASSUME Bounds, Timely
  PROVE  Reloading!Spec => []Reloading!OneBackend
<1>1. SelectedInv /\ OnlyInv => Reloading!OneBackend
  <2> SUFFICES ASSUME SelectedInv, OnlyInv PROVE Reloading!OneBackend
    OBVIOUS
  <2> DEFINE the == IF place = "start" THEN Len(procs) ELSE backend
             L == {b \in 1..Len(procs) : Reloading!Live(b)}
  <2>1. L \subseteq {the}
    BY DEF OnlyInv, Reloading!Live
  <2>2. Cardinality(L) <= 1
    <3>1. IsFiniteSet({the}) /\ Cardinality({the}) = 1
      BY FS_Singleton
    <3>2. Cardinality(L) <= Cardinality({the})
      BY <2>1, <3>1, FS_Subset
    <3>. QED
      BY <3>1, <3>2
  <2>3. answer.is = "unavailable" /\ place = "idle" => \A b \in 1..Len(procs) : ~Reloading!Live(b)
    BY DEF OnlyInv, Reloading!Live
  <2>4. Reloading!Cardinality(L) = Cardinality(L)
    BY DEF Reloading!Cardinality, Cardinality
  <2>. QED
    BY <2>2, <2>3, <2>4 DEF Reloading!OneBackend
<1>. QED
  BY <1>1, Served, PTL

\* A request fails only because its backend died, when every backend answers within the
\* time the bootstrap waits: never for what the host asked before it.
THEOREM OnlyDeathFails ==
  ASSUME Bounds, Timely
  PROVE  Reloading!Spec => []Reloading!FailsForCause
<1>1. OnlyInv => Reloading!FailsForCause
  BY DEF OnlyInv, Reloading!FailsForCause
<1>. QED
  BY <1>1, Served, PTL

-----------------------------------------------------------------------------
(* ContinuationCache: its constants and variables, and an instance of it.  *)
CONSTANTS Keys, AnswerLen, PageSizes, MaxEntries, MaxBytes, MaxEntryBytes, MaxStores, MaxEpochs
VARIABLES content, changed, secret, epoch, cache, index, bytes, stores, ask, tokens, page
Pages == INSTANCE ContinuationCache WITH
    source <- content, edits <- changed, session <- secret, request <- ask

\* Every query has an answer of every source, pages are counted, and what stands
\* for no fingerprint is none.
AnswersAreFinite ==
  /\ AnswerLen \in [Keys -> [Sources -> Nat]] /\ PageSizes \subseteq Nat
  /\ Pages!None \notin Sources

Entries == [id : Nat, key : Keys, fp : Sources, of : Sources, nodes : Seq(Sources \X Nat)]

\* What is asked, and of which source the compiler answered.
AskInv == Pages!Asked => ask.key \in Keys /\ ask.max \in Nat /\ ask.of \in Sources \cup {Pages!None}

\* An entry is the whole answer to its query, of one source.
EntryInv ==
  /\ cache \in Seq(Entries) /\ stores \in Nat /\ content \in Sources
  /\ \A i \in 1..Len(cache) :
       /\ cache[i].id <= stores
       /\ cache[i].nodes = Pages!Nodes(cache[i].key, cache[i].of)
       /\ \A j \in 1..Len(cache) : cache[i].id = cache[j].id => cache[i] = cache[j]
  /\ AskInv

\* A token's way is the beginning of such an answer; of the answer that is kept under
\* its id if there is one, which is then of its epoch.
TokenInv ==
  /\ \A t \in tokens :
       /\ t.key \in Keys /\ t.offset \in Nat /\ t.id \in Nat /\ t.id <= stores
       /\ \E s \in Sources : t.seen = SubSeq(Pages!Nodes(t.key, s), 1, t.offset)
       /\ \A i \in 1..Len(cache) : cache[i].id = t.id =>
            /\ t.epoch = epoch /\ t.offset <= Len(cache[i].nodes)
            /\ t.seen = SubSeq(cache[i].nodes, 1, t.offset)

PageInv ==
  /\ page.done => \E s \in Sources : page.seen = Pages!Nodes(page.key, s)
  /\ Pages!TokensOfTheirEpoch

KeptInv == EntryInv /\ TokenInv /\ PageInv

\* Every entry of c is one of d.
OutOf(c, d) == c \in Seq(Entries) /\ \A i \in 1..Len(c) : \E j \in 1..Len(d) : c[i] = d[j]

\* The answer to a query is a sequence of nodes.
LEMMA NodesAre ==
  ASSUME AnswersAreFinite, NEW k \in Keys, NEW s \in Sources
  PROVE  Pages!Nodes(k, s) \in Seq(Sources \X Nat) /\ Len(Pages!Nodes(k, s)) = AnswerLen[k][s]
<1>1. AnswerLen[k][s] \in Nat
  BY DEF AnswersAreFinite
<1>. QED
  BY <1>1 DEF Pages!Nodes

\* The place of an entry is where it is.
LEMMA PlaceIs ==
  ASSUME NEW c \in Seq(Entries), NEW id, \E i \in 1..Len(c) : c[i].id = id
  PROVE  Pages!Place(c, id) \in 1..Len(c) /\ c[Pages!Place(c, id)].id = id
BY DEF Pages!Place

\* Leaving one entry out adds none.
LEMMA WithoutIs ==
  ASSUME NEW c \in Seq(Entries), NEW i \in 1..Len(c)
  PROVE  OutOf(Pages!Without(c, i), c)
<1> DEFINE w == Pages!Without(c, i)
<1>1. Len(c) \in Nat /\ Len(c) - 1 \in Nat
  OBVIOUS
<1>2. \A j \in 1..Len(c) - 1 : (IF j < i THEN j ELSE j + 1) \in 1..Len(c)
  BY <1>1
<1>3. \A j \in 1..Len(c) - 1 : c[IF j < i THEN j ELSE j + 1] \in Entries
  BY <1>2
<1>4. w \in Seq(Entries) /\ Len(w) = Len(c) - 1
  BY <1>1, <1>3 DEF Pages!Without
<1>5. \A j \in 1..Len(w) : w[j] = c[IF j < i THEN j ELSE j + 1]
  BY <1>4 DEF Pages!Without
<1>. QED
  BY <1>2, <1>4, <1>5 DEF OutOf

\* An id that is in the cache names an entry of it.
LEMMA EntryIs ==
  ASSUME EntryInv, NEW id, id \in Pages!Ids(cache)
  PROVE  /\ \E i \in 1..Len(cache) : cache[i] = Pages!Entry(id) /\ cache[i].id = id
         /\ Pages!Entry(id) \in Entries
<1>1. PICK i \in 1..Len(cache) : cache[i].id = id
  BY DEF Pages!Ids, EntryInv
<1>2. \E e \in Pages!Range(cache) : e.id = id
  BY <1>1 DEF Pages!Range, EntryInv
<1>3. Pages!Entry(id) \in Pages!Range(cache) /\ Pages!Entry(id).id = id
  BY <1>2 DEF Pages!Entry
<1>. QED
  BY <1>3 DEF Pages!Range, EntryInv

\* Moving an entry to the end adds none.
LEMMA TouchedIs ==
  ASSUME EntryInv, NEW id, id \in Pages!Ids(cache)
  PROVE  OutOf(Pages!Touched(id), cache)
<1>1. PICK i \in 1..Len(cache) : cache[i] = Pages!Entry(id) /\ cache[i].id = id
  BY EntryIs
<1>2. Pages!Place(cache, id) \in 1..Len(cache)
  BY <1>1, PlaceIs DEF EntryInv
<1> DEFINE w == Pages!Without(cache, Pages!Place(cache, id))
<1>3. OutOf(w, cache)
  BY <1>2, WithoutIs DEF EntryInv
<1>4. Pages!Touched(id) = Append(w, cache[i])
  BY <1>1 DEF Pages!Touched
<1>5. cache[i] \in Entries
  BY <1>1 DEF EntryInv
<1>. HIDE DEF w
<1>6. /\ Append(w, cache[i]) \in Seq(Entries) /\ Len(Append(w, cache[i])) = Len(w) + 1
      /\ Len(w) \in Nat
  BY <1>3, <1>5 DEF OutOf
<1>7. \A j \in 1..Len(w) + 1 : Append(w, cache[i])[j] = IF j = Len(w) + 1 THEN cache[i] ELSE w[j]
  BY <1>3, <1>5 DEF OutOf
<1>. QED
  BY <1>1, <1>3, <1>4, <1>6, <1>7 DEF OutOf

\* Leaving out entries, whatever they are, adds none: nothing,
LEMMA AllOf ==
  ASSUME NEW c \in Seq(Entries)
  PROVE  OutOf(c, c)
BY DEF OutOf

\* one of them,
LEMMA RemoveIs ==
  ASSUME NEW m, m.cache \in Seq(Entries), NEW id
  PROVE  OutOf(Pages!Remove(m, id).cache, m.cache)
<1>1. CASE id \notin Pages!Ids(m.cache)
  BY <1>1, AllOf DEF Pages!Remove
<1>2. CASE id \in Pages!Ids(m.cache)
  <2>1. PICK i \in 1..Len(m.cache) : m.cache[i].id = id
    BY <1>2 DEF Pages!Ids
  <2>2. Pages!Place(m.cache, id) \in 1..Len(m.cache)
    BY <2>1, PlaceIs
  <2>3. Pages!Remove(m, id).cache = Pages!Without(m.cache, Pages!Place(m.cache, id))
    BY <1>2 DEF Pages!Remove, Pages!Left
  <2>. QED
    BY <2>2, <2>3, WithoutIs
<1>. QED
  BY <1>1, <1>2

\* and as many as it takes to make room.
LEMMA EvictIs ==
  ASSUME NEW m, m.cache \in Seq(Entries), NEW w
  PROVE  OutOf(Pages!Evict(m, w).cache, m.cache)
<1> DEFINE l == Len(m.cache)
           A == 0..l - 1
           S == {n \in A : Pages!Full(Pages!Oldest(m, n), w)}
           n == Pages!Cardinality(S)
<1>1. n \in 0..l
  <2>1. l \in Nat
    OBVIOUS
  <2>. HIDE DEF l
  <2>2. IsFiniteSet(A) /\ Cardinality(A) = l
    BY <2>1, FS_Interval
  <2>. HIDE DEF A
  <2>3. S \subseteq A
    OBVIOUS
  <2>. HIDE DEF S
  <2>4. IsFiniteSet(S) /\ Cardinality(S) <= l
    BY <2>2, <2>3, FS_Subset
  <2>5. Cardinality(S) \in Nat
    BY <2>4, FS_CardinalityType
  <2>6. Pages!Cardinality(S) = Cardinality(S)
    BY DEF Pages!Cardinality, Cardinality
  <2>. QED
    BY <2>1, <2>4, <2>5, <2>6
<1> DEFINE s == SubSeq(m.cache, n + 1, Len(m.cache))
<1>2. Pages!Evict(m, w).cache = s
  BY DEF Pages!Evict, Pages!Oldest, Pages!Left
<1>. HIDE DEF n
<1>3. s \in Seq(Entries) /\ Len(s) = Len(m.cache) - n
  BY <1>1
<1>4. \A i \in 1..Len(s) : i + n \in 1..Len(m.cache) /\ s[i] = m.cache[i + n]
  BY <1>1, <1>3
<1>. QED
  BY <1>2, <1>3, <1>4 DEF OutOf

\* A beginning of an answer, and the page after it, are a beginning.
LEMMA OneMore ==
  ASSUME NEW nodes \in Seq(Sources \X Nat), NEW a \in 0..Len(nodes), NEW b \in a..Len(nodes)
  PROVE  SubSeq(nodes, 1, a) \o SubSeq(nodes, a + 1, b) = SubSeq(nodes, 1, b)
<1>1. 1 \in 1..Len(nodes) + 1 /\ a \in 0..Len(nodes) /\ b \in a..Len(nodes) /\ 1 - 1 = 0
  OBVIOUS
<1>. QED
  BY <1>1, ConcatAdjacentSubSeq

\* A token of a page of e that is not its last.
TokenOf(t, e) ==
  /\ t.id = e.id /\ t.key = e.key /\ t.epoch = epoch /\ t.offset \in 0..Len(e.nodes)
  /\ t.seen = SubSeq(e.nodes, 1, t.offset)

Whole(e) == e \in Entries /\ e.nodes = Pages!Nodes(e.key, e.of)

\* A page of a whole answer goes on where its token stands, and so does its own.
LEMMA PageDoes ==
  ASSUME NEW e, Whole(e), NEW offset \in 0..Len(e.nodes), NEW max \in Nat, NEW seen,
         seen = SubSeq(e.nodes, 1, offset), Pages!Page(e, offset, seen, max, epoch)
  PROVE  /\ PageInv' /\ page'.validated = e.fp
         /\ \A t \in tokens' : t \in tokens \/ TokenOf(t, e)
<1> DEFINE end == IF Len(e.nodes) < offset + max THEN Len(e.nodes) ELSE offset + max
           far == seen \o SubSeq(e.nodes, offset + 1, end)
<1>1. e.nodes \in Seq(Sources \X Nat) /\ e.key \in Keys /\ e.of \in Sources /\ Len(e.nodes) \in Nat
  BY DEF Whole, Entries
<1>2. end \in offset..Len(e.nodes)
  BY <1>1
<1>3. far = SubSeq(e.nodes, 1, end)
  <2>. HIDE DEF end
  <2>. QED
    BY <1>1, <1>2, OneMore
<1>4. /\ page' = [key |-> e.key, seen |-> far, done |-> end = Len(e.nodes), of |-> e.of,
                  validated |-> e.fp, issued |-> epoch, served |-> epoch]
      /\ tokens' = IF end < Len(e.nodes)
                   THEN tokens \cup {[session |-> secret, epoch |-> epoch, id |-> e.id,
                                      offset |-> end, key |-> e.key, seen |-> far]}
                   ELSE tokens
  BY DEF Pages!Page
<1>. HIDE DEF end, far
<1>5. end = Len(e.nodes) => far = Pages!Nodes(e.key, e.of)
  BY <1>1, <1>3, SubSeqFull DEF Whole
<1>6. PageInv'
  BY <1>1, <1>4, <1>5 DEF PageInv, Pages!TokensOfTheirEpoch
<1>7. end \in 0..Len(e.nodes)
  BY <1>1, <1>2
<1>8. ASSUME NEW t \in tokens' PROVE t \in tokens \/ TokenOf(t, e)
  BY <1>3, <1>4, <1>7, <1>8 DEF TokenOf
<1>. QED
  BY <1>4, <1>6, <1>8

\* A step that puts nothing into the cache.
LEMMA EntriesLeft ==
  ASSUME AnswersAreFinite, EntryInv, TokenInv, OutOf(cache', cache),
         stores' = stores, epoch' = epoch, content' \in Sources, AskInv',
         \A t \in tokens' : t \in tokens \/ \E i \in 1..Len(cache) : TokenOf(t, cache[i])
  PROVE  EntryInv' /\ TokenInv'
<1>1. /\ cache' \in Seq(Entries)
      /\ \A i \in 1..Len(cache') : \E j \in 1..Len(cache) : cache'[i] = cache[j]
  BY DEF OutOf
<1>2. EntryInv'
  <2>1. ASSUME NEW i \in 1..Len(cache'), NEW j \in 1..Len(cache')
        PROVE  /\ cache'[i].id <= stores
               /\ cache'[i].nodes = Pages!Nodes(cache'[i].key, cache'[i].of)
               /\ cache'[i].id = cache'[j].id => cache'[i] = cache'[j]
    BY <1>1, <2>1 DEF EntryInv
  <2>. QED
    BY <1>1, <2>1 DEF EntryInv, AskInv
<1>3. ASSUME NEW t \in tokens'
      PROVE  /\ t.key \in Keys /\ t.offset \in Nat /\ t.id \in Nat /\ t.id <= stores
             /\ \E s \in Sources : t.seen = SubSeq(Pages!Nodes(t.key, s), 1, t.offset)
             /\ \A i \in 1..Len(cache) : cache[i].id = t.id =>
                  /\ t.epoch = epoch /\ t.offset <= Len(cache[i].nodes)
                  /\ t.seen = SubSeq(cache[i].nodes, 1, t.offset)
  <2>1. CASE t \in tokens
    BY <2>1 DEF TokenInv
  <2>2. ASSUME NEW i \in 1..Len(cache), TokenOf(t, cache[i])
        PROVE  /\ t.key \in Keys /\ t.offset \in Nat /\ t.id \in Nat /\ t.id <= stores
               /\ \E s \in Sources : t.seen = SubSeq(Pages!Nodes(t.key, s), 1, t.offset)
               /\ \A j \in 1..Len(cache) : cache[j].id = t.id =>
                    /\ t.epoch = epoch /\ t.offset <= Len(cache[j].nodes)
                    /\ t.seen = SubSeq(cache[j].nodes, 1, t.offset)
    <3>1. cache[i] \in Entries /\ cache[i].id <= stores
          /\ cache[i].nodes = Pages!Nodes(cache[i].key, cache[i].of)
      BY <2>2 DEF EntryInv
    <3>2. /\ cache[i].key \in Keys /\ cache[i].of \in Sources
          /\ cache[i].id \in Nat /\ Len(cache[i].nodes) \in Nat
      BY <3>1 DEF Entries
    <3>3. \A j \in 1..Len(cache) : cache[j].id = t.id => cache[j] = cache[i]
      BY <2>2 DEF EntryInv, TokenOf
    <3>4. t.offset \in Nat /\ t.offset <= Len(cache[i].nodes)
      BY <2>2, <3>2 DEF TokenOf
    <3>. QED
      BY <2>2, <3>1, <3>2, <3>3, <3>4 DEF TokenOf
  <2>. QED
    BY <1>3, <2>1, <2>2
<1>4. TokenInv'
  BY <1>1, <1>3 DEF TokenInv
<1>. QED
  BY <1>2, <1>4

\* A step that puts one entry there, of an id that was never given.
LEMMA EntryPut ==
  ASSUME AnswersAreFinite, EntryInv, TokenInv, NEW e, Whole(e), e.id = stores + 1,
         stores' = stores + 1, epoch' = epoch, content' \in Sources, AskInv', cache' \in Seq(Entries),
         \A i \in 1..Len(cache') : cache'[i] = e \/ \E j \in 1..Len(cache) : cache'[i] = cache[j],
         \A t \in tokens' : t \in tokens \/ TokenOf(t, e)
  PROVE  EntryInv' /\ TokenInv'
<1>1. stores \in Nat /\ e.key \in Keys /\ e.of \in Sources /\ Len(e.nodes) \in Nat
  <2>1. e \in Entries
    BY DEF Whole
  <2>2. e.key \in Keys /\ e.of \in Sources /\ e.nodes \in Seq(Sources \X Nat)
    BY <2>1 DEF Entries
  <2>. QED
    BY <2>2 DEF EntryInv
<1>a. \A i \in 1..Len(cache) : cache[i].id \in Nat /\ cache[i].id <= stores
  <2>1. \A i \in 1..Len(cache) : cache[i] \in Entries /\ cache[i].id <= stores
    BY DEF EntryInv
  <2>. QED
    BY <2>1 DEF Entries
<1>2. \A i \in 1..Len(cache) : cache[i].id # e.id
  BY <1>1, <1>a
<1>3. EntryInv'
  <2>1. ASSUME NEW i \in 1..Len(cache'), NEW j \in 1..Len(cache')
        PROVE  /\ cache'[i].id <= stores'
               /\ cache'[i].nodes = Pages!Nodes(cache'[i].key, cache'[i].of)
               /\ cache'[i].id = cache'[j].id => cache'[i] = cache'[j]
    <3>0. cache'[j] = e \/ \E k \in 1..Len(cache) : cache'[j] = cache[k]
      BY <2>1
    <3>1. CASE cache'[i] = e
      <4>1. cache'[i].id = cache'[j].id => cache'[j] = e
        BY <1>2, <3>0, <3>1
      <4>. QED
        BY <1>1, <3>1, <4>1 DEF Whole
    <3>2. CASE \E k \in 1..Len(cache) : cache'[i] = cache[k]
      <4>1. PICK k \in 1..Len(cache) : cache'[i] = cache[k]
        BY <3>2
      <4>2. cache[k].id <= stores' /\ cache[k].nodes = Pages!Nodes(cache[k].key, cache[k].of)
        BY <1>1, <1>a DEF EntryInv
      <4>3. cache'[i].id = cache'[j].id => cache'[i] = cache'[j]
        BY <1>2, <3>0, <4>1 DEF EntryInv
      <4>. QED
        BY <4>1, <4>2, <4>3
    <3>. QED
      BY <3>1, <3>2
  <2>2. stores' \in Nat
    BY <1>1
  <2>. QED
    BY <2>1, <2>2 DEF EntryInv, AskInv
<1>4. ASSUME NEW t \in tokens'
      PROVE  /\ t.key \in Keys /\ t.offset \in Nat /\ t.id \in Nat /\ t.id <= stores'
             /\ \E s \in Sources : t.seen = SubSeq(Pages!Nodes(t.key, s), 1, t.offset)
             /\ \A i \in 1..Len(cache') : cache'[i].id = t.id =>
                  /\ t.epoch = epoch /\ t.offset <= Len(cache'[i].nodes)
                  /\ t.seen = SubSeq(cache'[i].nodes, 1, t.offset)
  <2>1. CASE t \in tokens
    <3>1. /\ t.key \in Keys /\ t.offset \in Nat /\ t.id \in Nat /\ t.id <= stores
          /\ \E s \in Sources : t.seen = SubSeq(Pages!Nodes(t.key, s), 1, t.offset)
      BY <2>1 DEF TokenInv
    <3>2. t.id # e.id /\ t.id <= stores'
      BY <1>1, <3>1
    <3>3. ASSUME NEW i \in 1..Len(cache'), cache'[i].id = t.id
          PROVE  /\ t.epoch = epoch /\ t.offset <= Len(cache'[i].nodes)
                 /\ t.seen = SubSeq(cache'[i].nodes, 1, t.offset)
      <4>1. PICK j \in 1..Len(cache) : cache'[i] = cache[j]
        BY <3>2, <3>3
      <4>. QED
        BY <2>1, <3>3, <4>1 DEF TokenInv
    <3>. QED
      BY <3>1, <3>2, <3>3
  <2>2. CASE TokenOf(t, e)
    <3>1. \A i \in 1..Len(cache') : cache'[i].id = t.id => cache'[i] = e
      BY <1>2, <2>2 DEF TokenOf
    <3>2. t.offset \in Nat /\ t.offset <= Len(e.nodes)
      BY <1>1, <2>2 DEF TokenOf
    <3>3. t.id = e.id /\ t.key = e.key /\ t.epoch = epoch /\ t.seen = SubSeq(e.nodes, 1, t.offset)
      BY <2>2 DEF TokenOf
    <3>4. t.id \in Nat /\ t.id <= stores'
      BY <1>1, <3>3
    <3>5. t.seen = SubSeq(Pages!Nodes(t.key, e.of), 1, t.offset)
      BY <3>3 DEF Whole
    <3>. QED
      BY <1>1, <3>1, <3>2, <3>3, <3>4, <3>5
  <2>. QED
    BY <1>4, <2>1, <2>2
<1>5. TokenInv'
  BY <1>4 DEF TokenInv
<1>. QED
  BY <1>3, <1>5

\* What is left of what is left.
LEMMA OutOfOutOf ==
  ASSUME NEW c, NEW d, NEW e, OutOf(c, d), OutOf(d, e)
  PROVE  OutOf(c, e)
BY DEF OutOf

\* What Store keeps: the entries it has room for, and the new one.
LEMMA StoreDoes ==
  ASSUME AnswersAreFinite, EntryInv, TokenInv, PageInv, Pages!Store
  PROVE  EntryInv' /\ TokenInv' /\ PageInv' /\ (page' # page => page'.validated = content)
<1> DEFINE nodes == Pages!Nodes(ask.key, ask.of)
           entry == [id |-> stores + 1, key |-> ask.key, fp |-> content, of |-> ask.of,
                     nodes |-> nodes]
           previous == {x \in index : x[1] = ask.key}
           old == (CHOOSE x \in previous : TRUE)[2]
           cleared == IF previous = {} THEN Pages!Memory ELSE Pages!Remove(Pages!Memory, old)
           room == Pages!Evict(cleared, Len(nodes))
           kept == Pages!Stored(room, entry)
           late == Pages!Remove(kept, entry.id)
<1>1. /\ ask.key \in Keys /\ ask.of \in Sources /\ ask.max \in Nat
      /\ stores \in Nat /\ content \in Sources /\ cache \in Seq(Entries)
  BY DEF Pages!Store, EntryInv, AskInv
<1>2. /\ \/ cache' = room.cache /\ UNCHANGED <<tokens, page>>
         \/ cache' = kept.cache /\ Pages!Page(entry, 0, <<>>, ask.max, epoch)
         \/ cache' = late.cache /\ UNCHANGED <<tokens, page>>
      /\ stores' = stores + 1 /\ ask' = Pages!NoRequest
      /\ content' = content /\ epoch' = epoch
  BY DEF Pages!Store, Pages!Becomes, Pages!FreshId
<1>3. nodes \in Seq(Sources \X Nat)
  BY <1>1, NodesAre
<1>4. entry \in Entries /\ Whole(entry) /\ entry.id = stores + 1 /\ entry.fp = content
  <2>. HIDE DEF nodes
  <2>1. entry \in Entries
    BY <1>1, <1>3 DEF Entries
  <2>. QED
    BY <2>1 DEF Whole, nodes
<1>. HIDE DEF nodes
<1>5. OutOf(cleared.cache, cache)
  <2>1. Pages!Memory.cache = cache
    BY DEF Pages!Memory
  <2>. HIDE DEF old
  <2>2. OutOf(Pages!Remove(Pages!Memory, old).cache, cache)
    BY <1>1, <2>1, RemoveIs
  <2>. QED
    BY <1>1, <2>1, <2>2, AllOf
<1>6. cleared.cache \in Seq(Entries)
  BY <1>5 DEF OutOf
<1>. HIDE DEF cleared
<1>7. OutOf(room.cache, cache)
  BY <1>5, <1>6, EvictIs, OutOfOutOf
<1>. HIDE DEF room, entry
<1>8. /\ kept.cache \in Seq(Entries)
      /\ \A i \in 1..Len(kept.cache) :
           kept.cache[i] = entry \/ \E j \in 1..Len(cache) : kept.cache[i] = cache[j]
  <2>1. kept.cache = Append(room.cache, entry)
    BY DEF Pages!Stored
  <2> DEFINE c == room.cache
  <2>2. c \in Seq(Entries) /\ \A i \in 1..Len(c) : \E j \in 1..Len(cache) : c[i] = cache[j]
    BY <1>7 DEF OutOf
  <2>. HIDE DEF c
  <2>3. Append(c, entry) \in Seq(Entries) /\ Len(Append(c, entry)) = Len(c) + 1 /\ Len(c) \in Nat
    BY <1>4, <2>2
  <2>4. \A i \in 1..Len(c) + 1 : Append(c, entry)[i] = IF i = Len(c) + 1 THEN entry ELSE c[i]
    BY <1>4, <2>2
  <2>5. \A i \in 1..Len(c) + 1 : i = Len(c) + 1 \/ i \in 1..Len(c)
    BY <2>3
  <2>6. \A i \in 1..Len(c) + 1 :
          Append(c, entry)[i] = entry \/ \E j \in 1..Len(cache) : Append(c, entry)[i] = cache[j]
    BY <2>2, <2>4, <2>5
  <2>. QED
    BY <2>1, <2>3, <2>6 DEF c
<1>. HIDE DEF kept
<1>9. OutOf(late.cache, kept.cache)
  BY <1>8, RemoveIs
<1>. HIDE DEF late
<1>10. /\ cache' \in Seq(Entries)
       /\ \A i \in 1..Len(cache') :
            cache'[i] = entry \/ \E j \in 1..Len(cache) : cache'[i] = cache[j]
  <2>1. CASE cache' = room.cache
    BY <1>7, <2>1 DEF OutOf
  <2>2. CASE cache' = kept.cache
    BY <1>8, <2>2
  <2>3. CASE cache' = late.cache
    <3>1. cache' \in Seq(Entries)
      BY <1>9, <2>3 DEF OutOf
    <3>2. ASSUME NEW i \in 1..Len(cache')
          PROVE  cache'[i] = entry \/ \E j \in 1..Len(cache) : cache'[i] = cache[j]
      <4>1. PICK k \in 1..Len(kept.cache) : cache'[i] = kept.cache[k]
        BY <1>9, <2>3 DEF OutOf
      <4>. QED
        BY <1>8, <4>1
    <3>. QED
      BY <3>1, <3>2
  <2>. QED
    BY <1>2, <2>1, <2>2, <2>3
<1>11. /\ PageInv' /\ (page' # page => page'.validated = content)
       /\ \A t \in tokens' : t \in tokens \/ TokenOf(t, entry)
  <2>1. CASE UNCHANGED <<tokens, page>>
    BY <2>1 DEF PageInv, Pages!TokensOfTheirEpoch
  <2>2. CASE Pages!Page(entry, 0, <<>>, ask.max, epoch)
    <3>1. entry.nodes \in Seq(Sources \X Nat)
      BY <1>4 DEF Entries
    <3>2. 0 \in 0..Len(entry.nodes) /\ <<>> = SubSeq(entry.nodes, 1, 0)
      BY <3>1
    <3>. QED
      BY <1>1, <1>4, <2>2, <3>2, PageDoes
  <2>. QED
    BY <1>2, <2>1, <2>2
<1>12. AskInv'
  BY <1>2 DEF AskInv, Pages!Asked
<1>13. content' \in Sources
  BY <1>1, <1>2
<1>. QED
  BY <1>2, <1>4, <1>10, <1>11, <1>12, <1>13, EntryPut

\* What another step keeps.
LEMMA OthersDo ==
  ASSUME AnswersAreFinite, EntryInv, TokenInv, PageInv,
         \/ Pages!Edit \/ Pages!Compile \/ Pages!Ordinary
         \/ \E k \in Keys, max \in PageSizes : Pages!FirstPage(k, max) \/ Pages!Compute(k, max)
         \/ \E t \in tokens : Pages!FollowStale(t) \/ \E max \in PageSizes : Pages!Follow(t, max)
  PROVE  EntryInv' /\ TokenInv' /\ PageInv' /\ (page' # page => page'.validated = content)
<1>1. cache \in Seq(Entries) /\ content \in Sources /\ OutOf(cache, cache)
  BY AllOf DEF EntryInv
<1>2. UNCHANGED <<tokens, page>> =>
        PageInv' /\ (page' # page => page'.validated = content) /\ tokens' = tokens
  BY DEF PageInv, Pages!TokensOfTheirEpoch
<1>3. ASSUME NEW id PROVE OutOf(Pages!Remove(Pages!Memory, id).cache, cache)
  <2>1. Pages!Memory.cache = cache
    BY DEF Pages!Memory
  <2>. QED
    BY <1>1, <2>1, RemoveIs
<1>4. ASSUME NEW id, id \in Pages!Ids(cache), NEW max \in Nat,
             NEW offset \in 0..Len(Pages!Entry(id).nodes),
             Pages!Page(Pages!Entry(id), offset, SubSeq(Pages!Entry(id).nodes, 1, offset), max,
                        epoch),
             cache' = Pages!Touched(id), Pages!Entry(id).fp = content
      PROVE  /\ PageInv' /\ (page' # page => page'.validated = content) /\ OutOf(cache', cache)
             /\ \A t \in tokens' : t \in tokens \/ \E i \in 1..Len(cache) : TokenOf(t, cache[i])
  <2>1. PICK i \in 1..Len(cache) : cache[i] = Pages!Entry(id)
    BY <1>4, EntryIs
  <2>2. Whole(Pages!Entry(id))
    BY <2>1 DEF EntryInv, Whole
  <2>3. OutOf(cache', cache)
    BY <1>4, TouchedIs
  <2>. QED
    BY <1>4, <2>1, <2>2, <2>3, PageDoes
<1>5. CASE Pages!Edit
  BY <1>1, <1>2, <1>5, EntriesLeft DEF Pages!Edit, AskInv, EntryInv, Pages!Asked
<1>6. CASE Pages!Compile
  <2>1. AskInv'
    BY <1>1, <1>6 DEF Pages!Compile, AskInv, EntryInv, Pages!Asked
  <2>. QED
    BY <1>1, <1>2, <1>6, <2>1, EntriesLeft DEF Pages!Compile, Pages!cacheVars
<1>7. CASE Pages!Ordinary
  <2>1. AskInv'
    BY <1>7 DEF Pages!Ordinary, AskInv, Pages!Asked
  <2>. QED
    BY <1>1, <1>2, <1>7, <2>1, EntriesLeft DEF Pages!Ordinary, Pages!cacheVars
<1>8. ASSUME NEW k \in Keys, NEW max \in PageSizes, Pages!FirstPage(k, max)
      PROVE  EntryInv' /\ TokenInv' /\ PageInv' /\ (page' # page => page'.validated = content)
  <2>1. PICK e \in Pages!EntriesOf(k) :
          /\ e.fp = content
          /\ \/ cache' = Pages!Touched(e.id) /\ Pages!Page(e, 0, <<>>, max, epoch)
             \/ UNCHANGED <<cache, page, tokens>>
    BY <1>8 DEF Pages!FirstPage
  <2>2. PICK i \in 1..Len(cache) : cache[i] = e
    BY <1>1, <2>1 DEF Pages!EntriesOf, Pages!Range
  <2>3. e.id \in Pages!Ids(cache)
    BY <1>1, <2>2 DEF Pages!Ids
  <2>4. Pages!Entry(e.id) = e
    BY <2>2, <2>3, EntryIs DEF EntryInv
  <2>5. e.nodes \in Seq(Sources \X Nat)
    <3>1. e \in Entries
      BY <1>1, <2>2
    <3>. QED
      BY <3>1 DEF Entries
  <2>6. 0 \in 0..Len(e.nodes) /\ <<>> = SubSeq(e.nodes, 1, 0) /\ max \in Nat
    BY <2>5 DEF AnswersAreFinite
  <2>7. /\ PageInv' /\ (page' # page => page'.validated = content) /\ OutOf(cache', cache)
        /\ \A t \in tokens' : t \in tokens \/ \E j \in 1..Len(cache) : TokenOf(t, cache[j])
    BY <1>1, <1>2, <1>4, <2>1, <2>3, <2>4, <2>6
  <2>8. content' = content /\ epoch' = epoch /\ stores' = stores /\ ask' = ask
    BY <1>8 DEF Pages!FirstPage
  <2>9. AskInv'
    BY <2>8 DEF AskInv, EntryInv, Pages!Asked
  <2>. QED
    BY <1>1, <2>7, <2>8, <2>9, EntriesLeft
<1>9. ASSUME NEW k \in Keys, NEW max \in PageSizes, Pages!Compute(k, max)
      PROVE  EntryInv' /\ TokenInv' /\ PageInv' /\ (page' # page => page'.validated = content)
  <2>1. /\ content' = content /\ epoch' = epoch /\ stores' = stores /\ UNCHANGED <<tokens, page>>
        /\ ask'.key = k /\ ask'.max = max /\ ask'.of = Pages!None
    BY <1>9 DEF Pages!Compute
  <2>2. AskInv'
    BY <2>1 DEF AskInv, AnswersAreFinite
  <2>3. OutOf(cache', cache)
    BY <1>1, <1>3, <1>9 DEF Pages!Compute, Pages!Becomes, Pages!cacheVars
  <2>. QED
    BY <1>1, <1>2, <2>1, <2>2, <2>3, EntriesLeft
<1>10. ASSUME NEW t \in tokens, Pages!FollowStale(t)
       PROVE  EntryInv' /\ TokenInv' /\ PageInv' /\ (page' # page => page'.validated = content)
  <2>1. /\ content' = content /\ epoch' = epoch /\ stores' = stores /\ UNCHANGED <<tokens, page>>
        /\ ask' = ask
    BY <1>10 DEF Pages!FollowStale
  <2>2. AskInv'
    BY <2>1 DEF AskInv, EntryInv, Pages!Asked
  <2>3. OutOf(cache', cache)
    BY <1>3, <1>10 DEF Pages!FollowStale, Pages!Becomes
  <2>. QED
    BY <1>1, <1>2, <2>1, <2>2, <2>3, EntriesLeft
<1>11. ASSUME NEW t \in tokens, NEW max \in PageSizes, Pages!Follow(t, max)
       PROVE  EntryInv' /\ TokenInv' /\ PageInv' /\ (page' # page => page'.validated = content)
  <2>1. /\ content' = content /\ epoch' = epoch /\ stores' = stores /\ ask' = ask
        /\ cache' = Pages!Touched(t.id) /\ t.id \in Pages!Ids(cache)
        /\ Pages!Entry(t.id).fp = content
        /\ Pages!Page(Pages!Entry(t.id), t.offset, t.seen, max, t.epoch)
    BY <1>11 DEF Pages!Follow, Pages!Held
  <2>2. PICK i \in 1..Len(cache) : cache[i] = Pages!Entry(t.id) /\ cache[i].id = t.id
    BY <2>1, EntryIs
  <2>3. /\ t.epoch = epoch /\ t.offset \in Nat /\ t.offset <= Len(cache[i].nodes)
        /\ t.seen = SubSeq(cache[i].nodes, 1, t.offset)
    BY <2>2 DEF TokenInv
  <2>4. cache[i].nodes \in Seq(Sources \X Nat)
    <3>1. cache[i] \in Entries
      BY <1>1
    <3>. QED
      BY <3>1 DEF Entries
  <2>5. t.offset \in 0..Len(cache[i].nodes) /\ max \in Nat
    BY <2>3, <2>4 DEF AnswersAreFinite
  <2>6. /\ PageInv' /\ (page' # page => page'.validated = content) /\ OutOf(cache', cache)
        /\ \A u \in tokens' : u \in tokens \/ \E j \in 1..Len(cache) : TokenOf(u, cache[j])
    BY <1>4, <2>1, <2>2, <2>3, <2>5
  <2>7. AskInv'
    BY <2>1 DEF AskInv, EntryInv, Pages!Asked
  <2>. QED
    BY <1>1, <2>1, <2>6, <2>7, EntriesLeft
<1>. QED
  BY <1>5, <1>6, <1>7, <1>8, <1>9, <1>10, <1>11

\* A cleared cache has no entry that a token could name.
LEMMA ClearDoes ==
  ASSUME EntryInv, TokenInv, PageInv, Pages!Activate \/ Pages!Reopen
  PROVE  EntryInv' /\ TokenInv' /\ PageInv' /\ page' = page
<1>1. /\ cache' = <<>> /\ stores' = stores /\ content' = content /\ ask' = ask
      /\ tokens' = tokens /\ page' = page
  BY DEF Pages!Activate, Pages!Reopen, Pages!Becomes
<1>2. cache' \in Seq(Entries) /\ Len(cache') = 0
  BY <1>1
<1>3. EntryInv'
  BY <1>1, <1>2 DEF EntryInv, AskInv, Pages!Asked
<1>4. TokenInv'
  BY <1>1, <1>2 DEF TokenInv
<1>5. PageInv'
  BY <1>1 DEF PageInv, Pages!TokensOfTheirEpoch
<1>. QED
  BY <1>1, <1>3, <1>4, <1>5

\* Every step keeps the invariant, and a page that is served was checked.
LEMMA PagesStep ==
  ASSUME AnswersAreFinite, KeptInv, [Pages!Next]_Pages!vars
  PROVE  KeptInv' /\ (page' # page => page'.validated = content)
<1>1. CASE Pages!Store
  BY <1>1, StoreDoes DEF KeptInv
<1>2. CASE Pages!Activate \/ Pages!Reopen
  BY <1>2, ClearDoes DEF KeptInv
<1>3. CASE UNCHANGED Pages!vars
  <2>1. UNCHANGED <<content, epoch, cache, stores, ask, tokens, page>>
    BY <1>3 DEF Pages!vars
  <2>. QED
    BY <2>1 DEF KeptInv, EntryInv, AskInv, TokenInv, PageInv, Pages!Asked, Pages!TokensOfTheirEpoch
<1>4. CASE ~(Pages!Store \/ Pages!Activate \/ Pages!Reopen \/ UNCHANGED Pages!vars)
  <2>1. \/ Pages!Edit \/ Pages!Compile \/ Pages!Ordinary
        \/ \E k \in Keys, max \in PageSizes : Pages!FirstPage(k, max) \/ Pages!Compute(k, max)
        \/ \E t \in tokens : Pages!FollowStale(t) \/ \E max \in PageSizes : Pages!Follow(t, max)
    BY <1>4 DEF Pages!Next
  <2>. QED
    BY <2>1, OthersDo DEF KeptInv
<1>. QED
  BY <1>1, <1>2, <1>3, <1>4

\* The invariant, of the specification.
LEMMA PagesKept ==
  ASSUME AnswersAreFinite
  PROVE  Pages!Spec => []KeptInv
<1>1. ASSUME Pages!Init PROVE KeptInv
  <2>1. /\ cache = <<>> /\ stores = 0 /\ content \in Sources /\ ask = Pages!NoRequest
        /\ tokens = {} /\ page = Pages!NoPage
    BY <1>1 DEF Pages!Init
  <2>2. EntryInv /\ TokenInv
    BY <2>1 DEF EntryInv, AskInv, TokenInv, Pages!Asked
  <2>3. PageInv
    BY <2>1 DEF PageInv, Pages!TokensOfTheirEpoch, Pages!NoPage
  <2>. QED
    BY <2>2, <2>3 DEF KeptInv
<1>2. KeptInv /\ [Pages!Next]_Pages!vars => KeptInv'
  BY PagesStep
<1>. QED
  BY <1>1, <1>2, PTL DEF Pages!Spec

\* Whatever tokens a client follows, the pages on its way are the beginning of one complete
\* answer of one source, and all of it when no token is left.
THEOREM OneAnswer ==
  ASSUME AnswersAreFinite
  PROVE  Pages!Spec => []Pages!PagesOfOneAnswer
<1>1. KeptInv => Pages!PagesOfOneAnswer
  BY DEF KeptInv, TokenInv, PageInv, Pages!PagesOfOneAnswer
<1>. QED
  BY <1>1, PagesKept, PTL

\* A page is served for a token of the session's present generation only.
THEOREM OfTheirEpoch ==
  ASSUME AnswersAreFinite
  PROVE  Pages!Spec => []Pages!TokensOfTheirEpoch
<1>1. KeptInv => Pages!TokensOfTheirEpoch
  BY DEF KeptInv, PageInv
<1>. QED
  BY <1>1, PagesKept, PTL

\* A page is served only while the source is the one its answer was kept for.
THEOREM PagesAreFresh ==
  ASSUME AnswersAreFinite
  PROVE  Pages!Spec => Pages!ServedFresh
<1>1. KeptInv /\ [Pages!Next]_Pages!vars => [Pages!Revalidated]_Pages!vars
  BY PagesStep DEF Pages!Revalidated
<1>. QED
  BY <1>1, PagesKept, PTL DEF Pages!Spec, Pages!ServedFresh

=============================================================================
