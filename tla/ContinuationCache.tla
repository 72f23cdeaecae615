-------------------------- MODULE ContinuationCache --------------------------
(***************************************************************************)
(* The resumable TypeScript references of one AtlasService session         *)
(* (service.py).  A wide answer of the compiler is kept whole in a         *)
(* byte-bounded LRU; the client receives its first page and a token, and   *)
(* asks for the next pages with the tokens it has been given, in any order *)
(* and as often as it likes.                                               *)
(*                                                                         *)
(* A source stands for the content of the repository and for its Git       *)
(* fingerprint.  The answer to a query is the sequence of the nodes        *)
(* <<source, i>>; its weight is its length.  HMAC and base64 are           *)
(* abstracted: only a token this session signed is accepted.               *)
(***************************************************************************)
EXTENDS Integers, Sequences, FiniteSets, Functions

CONSTANTS
    Keys,           \* normalised reference queries
    Sources,
    AnswerLen,      \* [Keys -> [Sources -> Nat]]: nodes of each answer
    PageSizes,      \* the max_nodes a client may ask for
    MaxEntries, MaxBytes, MaxEntryBytes,    \* the three cache limits
    MaxEdits, MaxStores, MaxEpochs          \* bounds of the exploration

None == "none"

VARIABLES
    source, edits,      \* the repository, and how often it was edited
    session,            \* number of the session: its secret
    epoch,              \* clears of the session's state so far (history)
    cache,              \* _ts_continuation_cache, oldest first
    index,              \* _ts_continuation_queries: set of <<key, entry id>>
    bytes,              \* _ts_continuation_bytes
    stores,             \* entry ids handed out so far
    request,            \* the query being computed, or None
    tokens,             \* tokens the client holds
    page                \* the last page served out of the cache

vars == <<source, edits, session, epoch, cache, index, bytes, stores, request,
          tokens, page>>
cacheVars == <<cache, index, bytes>>

Nodes(k, s) == [i \in 1..AnswerLen[k][s] |-> <<s, i>>]
NoPage == [key |-> None, seen |-> <<>>, done |-> FALSE, of |-> None,
           validated |-> None, issued |-> 0, served |-> 0]
NoRequest == [key |-> None, max |-> 0, of |-> None, fp |-> None]
Asked == request # NoRequest

Init ==
    /\ source \in Sources /\ edits = 0
    /\ session = 1 /\ epoch = 1
    /\ cache = <<>> /\ index = {} /\ bytes = 0 /\ stores = 0
    /\ request = NoRequest /\ tokens = {} /\ page = NoPage

Ids(c) == {c[i].id : i \in DOMAIN c}
Entry(id) == CHOOSE e \in Range(cache) : e.id = id
EntriesOf(k) == {e \in Range(cache) : <<k, e.id>> \in index}

Weight(e) == Len(e.nodes)
WeightOf(c) == SumFunction([i \in DOMAIN c |-> Weight(c[i])])

Place(c, id) == CHOOSE i \in DOMAIN c : c[i].id = id
Without(c, i) == [j \in 1..Len(c) - 1 |-> c[IF j < i THEN j ELSE j + 1]]

(* [cache, index, bytes] with only the entries c. *)
Left(m, c, weight) ==
    [cache |-> c, index |-> {x \in m.index : x[2] \in Ids(c)},
     bytes |-> IF m.bytes < weight THEN 0 ELSE m.bytes - weight]

(* _remove_ts_continuation: without an entry, if it is there. *)
Remove(m, id) ==
    LET i == Place(m.cache, id)
    IN  IF id \notin Ids(m.cache) THEN m
        ELSE Left(m, Without(m.cache, i), Weight(m.cache[i]))

Memory == [cache |-> cache, index |-> index, bytes |-> bytes]
Becomes(m) == cache' = m.cache /\ index' = m.index /\ bytes' = m.bytes

Full(m, w) == Len(m.cache) >= MaxEntries \/ m.bytes + w > MaxBytes

(* Drop the least recently used entries until one of weight w fits: as many
   as there are n whose removal does not make room for it.                 *)
Oldest(m, n) ==
    Left(m, SubSeq(m.cache, n + 1, Len(m.cache)), WeightOf(SubSeq(m.cache, 1, n)))
Evict(m, w) ==
    Oldest(m, Cardinality({n \in 0..Len(m.cache) - 1 : Full(Oldest(m, n), w)}))

Touched(id) == Append(Without(cache, Place(cache, id)), Entry(id))

(* _ts_continuation_page: the nodes from offset, and the token of the next
   page.  seen is what the client has collected on the way here.           *)
Page(e, offset, seen, max, issued) ==
    LET end == IF Len(e.nodes) < offset + max THEN Len(e.nodes) ELSE offset + max
        all == seen \o SubSeq(e.nodes, offset + 1, end)
    IN  /\ page' = [key |-> e.key, seen |-> all, done |-> end = Len(e.nodes),
                    of |-> e.of, validated |-> e.fp, issued |-> issued, served |-> epoch]
        /\ tokens' = IF end < Len(e.nodes)
                     THEN tokens \union {[session |-> session, epoch |-> epoch, id |-> e.id,
                                          offset |-> end, key |-> e.key, seen |-> all]}
                     ELSE tokens

(* Someone edits the repository, or takes an edit back. *)
Edit ==
    /\ edits < MaxEdits
    /\ edits' = edits + 1
    /\ source' \in Sources \ {source}
    /\ UNCHANGED <<session, epoch, cache, index, bytes, stores, request, tokens, page>>

(* A repeated query is answered from the entry of its key while the Git
   fingerprint is still the entry's.  A query over its time budget gets an
   empty page and no token.                                                *)
FirstPage(k, max) ==
    /\ ~Asked
    /\ \E e \in EntriesOf(k) :
          /\ e.fp = source
          /\ \/ cache' = Touched(e.id) /\ Page(e, 0, <<>>, max, epoch)
             \/ UNCHANGED <<cache, page, tokens>>
    /\ UNCHANGED <<source, edits, session, epoch, index, bytes, stores, request>>

(* Any other query goes to the compiler.  Its fingerprint is taken first
   only when an entry of the key is there, and then the entry, being of
   another source, is dropped.  The fingerprint may be unavailable.        *)
Compute(k, max) ==
    /\ ~Asked /\ stores < MaxStores
    /\ \E fp \in {source, None} :
          /\ \A e \in EntriesOf(k) : fp # e.fp
          /\ IF EntriesOf(k) # {} /\ fp # None
             THEN \E e \in EntriesOf(k) : Becomes(Remove(Memory, e.id))
             ELSE UNCHANGED cacheVars
          /\ request' = [key |-> k, max |-> max, of |-> None,
                         fp |-> IF EntriesOf(k) # {} THEN fp ELSE None]
    /\ UNCHANGED <<source, edits, session, epoch, stores, tokens, page>>

(* The compiler reads the source. *)
Compile ==
    /\ Asked /\ request.of = None
    /\ request' = [request EXCEPT !.of = source]
    /\ UNCHANGED <<source, edits, session, epoch, cacheVars, stores, tokens, page>>

(* The answer is not kept: narrow, late, too large for an entry, or the
   source is found changed or cannot be read.                              *)
Ordinary ==
    /\ Asked /\ request.of # None
    /\ request' = NoRequest
    /\ UNCHANGED <<source, edits, session, epoch, cacheVars, stores, tokens, page>>

(* _cache_ts_initial_response and _store_ts_continuation: the wide answer is
   kept under the fingerprint read after the compiler ended, in place of the
   previous entry of its key, and its first page served; an entry stored too
   late is taken out again.                                                *)
IdOfPrevious(k) ==                                 \* Variant: the id is the query's
    IF \E x \in index : x[1] = k THEN (CHOOSE x \in index : x[1] = k)[2] ELSE stores + 1
FreshId(k) == stores + 1
Stored(m, e) ==
    [cache |-> Append(m.cache, e), index |-> m.index \union {<<e.key, e.id>>},
     bytes |-> m.bytes + Len(e.nodes)]
Store ==
    /\ Asked /\ request.of # None
    /\ LET nodes == Nodes(request.key, request.of)
           previous == {x \in index : x[1] = request.key}
           entry == [id |-> FreshId(request.key), key |-> request.key, fp |-> source, of |-> request.of,
                     nodes |-> nodes]
           cleared == IF previous = {} THEN Memory
                      ELSE Remove(Memory, (CHOOSE x \in previous : TRUE)[2])
           room == Evict(cleared, Len(nodes))
           kept == Stored(room, entry)
       IN  /\ Len(nodes) > request.max /\ Len(nodes) <= MaxEntryBytes
           /\ request.fp \in {None, source}
           /\ IF Full(room, Len(nodes))
              THEN Becomes(room) /\ UNCHANGED <<tokens, page>>
              ELSE \/ Becomes(kept) /\ Page(entry, 0, <<>>, request.max, epoch)
                   \/ Becomes(Remove(kept, entry.id)) /\ UNCHANGED <<tokens, page>>
    /\ stores' = stores + 1
    /\ request' = NoRequest
    /\ UNCHANGED <<source, edits, session, epoch>>

(* _query_ts_continuation, for a token this session signed, whose entry is
   still there and of the same query: stale when the fingerprint differs,
   the same token again when the time is over, else the next page.         *)
Held(t) == t.session = session /\ t.id \in Ids(cache) /\ t.offset < Len(Entry(t.id).nodes)
FollowUnchecked(t, max) ==                         \* Variant: the fingerprint is not read
    /\ ~Asked /\ Held(t) /\ t.key = Entry(t.id).key
    /\ cache' = Touched(t.id)
    /\ Page(Entry(t.id), t.offset, t.seen, max, t.epoch)
    /\ UNCHANGED <<source, edits, session, epoch, index, bytes, stores, request>>
Follow(t, max) ==
    /\ ~Asked /\ Held(t) /\ t.key = Entry(t.id).key
    /\ Entry(t.id).fp = source
    /\ cache' = Touched(t.id)
    /\ Page(Entry(t.id), t.offset, t.seen, max, t.epoch)
    /\ UNCHANGED <<source, edits, session, epoch, index, bytes, stores, request>>

FollowStale(t) ==
    /\ ~Asked /\ Held(t) /\ t.key = Entry(t.id).key
    /\ Entry(t.id).fp # source
    /\ Becomes(Remove(Memory, t.id))
    /\ UNCHANGED <<source, edits, session, epoch, stores, request, tokens, page>>

(* activate_generation: the session adopts another published generation. *)
Activate ==
    /\ ~Asked /\ epoch < MaxEpochs
    /\ epoch' = epoch + 1
    /\ Becomes([cache |-> <<>>, index |-> {}, bytes |-> 0])
    /\ UNCHANGED <<source, edits, session, stores, request, tokens, page>>

(* close and start: a new secret. *)
Reopen ==
    /\ ~Asked /\ epoch < MaxEpochs
    /\ epoch' = epoch + 1 /\ session' = session + 1
    /\ Becomes([cache |-> <<>>, index |-> {}, bytes |-> 0])
    /\ UNCHANGED <<source, edits, stores, request, tokens, page>>

Next ==
    \/ Edit \/ Compile \/ Ordinary \/ Store \/ Activate \/ Reopen
    \/ \E k \in Keys, max \in PageSizes : FirstPage(k, max) \/ Compute(k, max)
    \/ \E t \in tokens : FollowStale(t) \/ \E max \in PageSizes : Follow(t, max)

Spec == Init /\ [][Next]_vars

-----------------------------------------------------------------------------

(* The state has the shape the code gives it. *)
TypeOK ==
    /\ source \in Sources /\ edits \in 0..MaxEdits
    /\ session \in 1..epoch /\ epoch \in 1..MaxEpochs
    /\ \A i \in DOMAIN cache :
          /\ cache[i].id \in 1..stores /\ cache[i].key \in Keys
          /\ cache[i].fp \in Sources /\ cache[i].of \in Sources
    /\ index \subseteq Keys \X (1..stores)
    /\ bytes \in 0..MaxBytes /\ stores \in 0..MaxStores
    /\ request.of \in Sources \union {None} /\ request.key \in Keys \union {None}

(* The three structures agree: the byte counter is the weight of the entries,
   each entry is the one its key names, no key names a missing entry, and
   none of the three limits is exceeded.                                   *)
CacheAccounted ==
    /\ bytes = WeightOf(cache)
    /\ index = {<<e.key, e.id>> : e \in Range(cache)}
    /\ Cardinality(Range(cache)) = Len(cache)
    /\ \A e1, e2 \in Range(cache) : e1.key = e2.key => e1 = e2
    /\ Len(cache) <= MaxEntries /\ bytes <= MaxBytes
    /\ \A e \in Range(cache) : Len(e.nodes) <= MaxEntryBytes

(* Whatever tokens a client follows, in whatever order and however often,
   the pages on the way to a token are the beginning of ONE complete answer:
   no node twice, none left out, never nodes of two sources; and the pages
   that end with no token are the whole of it.                             *)
PagesOfOneAnswer ==
    /\ \A t \in tokens : \E s \in Sources : t.seen = SubSeq(Nodes(t.key, s), 1, t.offset)
    /\ page.done => \E s \in Sources : page.seen = Nodes(page.key, s)

(* "TypeScript continuation tokens from an earlier generation are rejected":
   a page is served only for a token of the same session and generation.   *)
TokensOfTheirEpoch == page.issued = page.served

(* "Each page revalidates the Git source fingerprint": a page holds what the
   compiler said of the source whose fingerprint was checked.              *)
PageOfCheckedSource == page.of = page.validated

(* A page of a later query is served only while the source is unchanged
   since its answer was stored.                                            *)
Revalidated == page' # page => page'.validated = source
ServedFresh == [][Revalidated]_vars
=============================================================================
