------------------------------ MODULE Retrieval ------------------------------
(***************************************************************************)
(* Recall: the web server's lexical index and memory cache, the file the   *)
(* index is kept in, the job that rebuilds it, one recall request at a     *)
(* time with its two passes (retrieval_engine.py), and the candidate pool  *)
(* that one evaluation ranks with several policies.  Qdrant changes under  *)
(* all of them: ingestion and the lifecycle jobs write to it.              *)
(*                                                                         *)
(* Every memory matches the query; which of them a channel with a limit    *)
(* returns, and in which order, depends on scores and is a choice here.    *)
(* An index is the status of each document: LexicalIndex is about the rest.*)
(***************************************************************************)
EXTENDS Integers, FiniteSets, Sequences, SequencesExt

CONSTANTS
    Collections,    \* as a sequence: the primary one first
    Keys,           \* the memories: pairs of a collection and an id
    DenseK, LexicalK, FallbackMin, Limit,   \* fields of the policy and request
    Policies,       \* what an evaluation compares
    InitialPoints,  \* what Qdrant holds at first
    MaxChanges,     \* bound: changes of a memory in Qdrant
    MaxRequests,    \* bound: recall requests
    MaxRecallFaults \* bound: operations, and passes of a request, in which something fails

VARIABLES
    points,         \* Qdrant: the status of every memory, "absent" if it is not there
    past,           \* history: what points has been, oldest first
    memories,       \* _cache of the backend: points as they were read
    memoriesFresh,  \* it is less than 30 seconds old
    dims,           \* _dimension_cache: "unread", "known", or "unknown" after an error
    server,         \* "up" or "down"
    lexical,        \* app.state.lexical_index
    lexicalFile,    \* lexical-index.json
    job,            \* the refresh job: the collections it has read, and their documents
    request,        \* the recall request that is being answered, then its response
    pool,           \* the candidate pool of an evaluation
    rankings,       \* history: per policy, the pool it was ranked on and the result
    requests, recallFaults

storeVars == <<points, past>>
cacheVars == <<memories, memoriesFresh, dims>>
serverVars == <<server, lexical, lexicalFile>>
evalVars == <<pool, rankings>>
recallVars == <<storeVars, cacheVars, serverVars, job, request, evalVars,
                requests, recallFaults>>

CollectionSet == Range(Collections)
Primary == Collections[1]
Ids == {k[2] : k \in Keys}
Statuses == {"active", "superseded"}

ASSUME RecallAssumption ==
    /\ Collections \in Seq(CollectionSet) /\ Collections # <<>>
    /\ Keys \subseteq CollectionSet \X Ids /\ IsFiniteSet(Keys)
    /\ {DenseK, LexicalK, FallbackMin, Limit} \subseteq Nat
    /\ InitialPoints \in [Keys -> Statuses \cup {"absent"}]

\* An index: its documents, and since when (a position in past) they are true.
NoIndex == [documents |-> [k \in {} |-> ""], since |-> 0]
IsEmpty(idx) == DOMAIN idx.documents = {}
Holds(pts) == {k \in Keys : pts[k] # "absent"}
Hits(idx, ks) == {[key |-> k, status |-> idx.documents[k]] : k \in ks}

\* A channel with a limit: so many of the memories, whichever score best.
Top(S, n) == {T \in SUBSET S : Cardinality(T) = IF Cardinality(S) < n THEN Cardinality(S) ELSE n}

RecallFault == recallFaults < MaxRecallFaults /\ recallFaults' = recallFaults + 1

-----------------------------------------------------------------------------
(* The backend.                                                            *)

\* _load: the cache is used for 30 seconds.
Listed == IF memoriesFresh THEN memories ELSE [points |-> points, since |-> Len(past)]
List == memories' = Listed /\ memoriesFresh' = TRUE

\* _records_from_backend: every memory is stamped with the primary collection,
\* and of two with the same id the last one stays.
Stamped(list) ==
    LET Of(i) == {c \in 1..Len(Collections) :
                    <<Collections[c], i>> \in Keys /\ list.points[<<Collections[c], i>>] # "absent"}
        LastOf(i) == CHOOSE c \in Of(i) : \A d \in Of(i) : d <= c
        ids == {i \in Ids : Of(i) # {}}
    IN  [documents |-> [k \in {Primary} \X ids |->
                            list.points[<<Collections[LastOf(k[2])], k[2]>>]],
         since |-> list.since]

\* dense_search, with what may fail: the embedding, reading the dimension of a
\* collection that is not known yet, the search of a collection.  Unknown
\* dimensions stay unknown.  A missing status counts as active.
NoFailure == <<"none", Primary>>
NoEmbedding == <<"embedding", Primary>>
DenseFailures == {NoFailure, NoEmbedding} \cup ({"dimension", "search"} \X CollectionSet)

Dimensions(failure) ==
    [c \in CollectionSet |->
        CASE failure = NoEmbedding \/ dims[c] # "unread" -> dims[c]
          [] failure = <<"dimension", c>> -> "unknown"
          [] OTHER -> "known"]

Eligible(failure) == {c \in CollectionSet : Dimensions(failure)[c] = "known"}
DenseFails(failure) == failure = NoEmbedding \/ Eligible(failure) = {}

DenseHits(failure, statuses) ==
    LET searched == {c \in Eligible(failure) : failure # <<"search", c>>}
        matching == {k \in Holds(points) : k[1] \in searched /\ points[k] \in statuses}
    IN  {{[key |-> k, status |-> points[k]] : k \in T} : T \in Top(matching, DenseK)}

\* _lexical_search cuts to the limit first and filters by status afterwards; the
\* status is the one in the index.  Without an index it builds one from the list.
LexicalHits(idx, statuses) ==
    {{h \in Hits(idx, T) : h.status \in statuses} : T \in Top(DOMAIN idx.documents, LexicalK)}

-----------------------------------------------------------------------------
\* found: the candidates, and at last the hits.  failed: what the channels that failed
\* give as a reason (history).  since: what the index used dates from.
Idle == [pc |-> "idle", mode |-> "", asked |-> {}, found |-> {}, used |-> FALSE, added |-> 0,
         failed |-> {}, reason |-> "none", since |-> 0]
NoJob == [read |-> {}, index |-> NoIndex]
Nothing == [s \in Statuses |-> {}]
NoPool == [step |-> "none", dense |-> Nothing, lexical |-> Nothing]

RecallInit ==
    /\ points = InitialPoints /\ past = <<points>>
    /\ memories = [points |-> points, since |-> 1] /\ memoriesFresh = FALSE
    /\ dims = [c \in CollectionSet |-> "unread"]
    /\ server = "down" /\ lexical = NoIndex /\ lexicalFile = NoIndex
    /\ job = NoJob
    /\ request = Idle
    /\ pool = NoPool /\ rankings = <<>>
    /\ requests = 0 /\ recallFaults = 0

\* Another process writes a memory, changes its status or removes it.
ChangePoint(k, status) ==
    /\ Len(past) <= MaxChanges /\ points[k] # status
    /\ points' = [points EXCEPT ![k] = status]
    /\ past' = Append(past, points')
    /\ UNCHANGED <<cacheVars, serverVars, job, request, evalVars, requests, recallFaults>>

Expire ==
    /\ memoriesFresh /\ memoriesFresh' = FALSE
    /\ UNCHANGED <<storeVars, memories, dims, serverVars, job, request, evalVars,
                   requests, recallFaults>>

\* The start of the server loads the index file, and the cache unless that fails.
StartServer ==
    /\ server = "down"
    /\ server' = "up" /\ lexical' = lexicalFile
    /\ dims' = [c \in CollectionSet |-> "unread"]
    /\ \/ /\ memories' = [points |-> points, since |-> Len(past)] /\ memoriesFresh' = TRUE
          /\ UNCHANGED recallFaults
       \/ /\ RecallFault
          /\ memoriesFresh' = FALSE /\ UNCHANGED memories
    /\ UNCHANGED <<storeVars, lexicalFile, job, request, evalVars, requests>>

\* The end of the server writes the index back.
StopServer ==
    /\ server = "up" /\ request = Idle
    /\ server' = "down" /\ lexical' = NoIndex
    /\ lexicalFile' = IF IsEmpty(lexical) THEN lexicalFile ELSE lexical
    /\ UNCHANGED <<storeVars, cacheVars, job, request, evalVars, requests, recallFaults>>

-----------------------------------------------------------------------------
(* scripts/refresh_lexical.py                                              *)

\* Mutant of RefreshCollection: it adds to the index that the file holds.
RefreshIntoOld(c) ==
    /\ c \notin job.read /\ c = Collections[Cardinality(job.read) + 1]
    /\ LET docs == {k \in Holds(points) : k[1] = c}
           base == IF job.read = {} THEN lexicalFile.documents ELSE job.index.documents
       IN  job' = [read  |-> job.read \cup {c},
                   index |-> [documents |-> [k \in DOMAIN base \cup docs |->
                                IF k \in docs THEN points[k] ELSE base[k]],
                              since |-> IF job.read = {} THEN Len(past) ELSE job.index.since]]
    /\ UNCHANGED <<storeVars, cacheVars, serverVars, request, evalVars, requests,
                   recallFaults>>

\* A fresh index, read from one collection after the other.
RefreshCollection(c) ==
    /\ c \notin job.read /\ c = Collections[Cardinality(job.read) + 1]
    /\ LET docs == {k \in Holds(points) : k[1] = c}
           base == job.index.documents
       IN  job' = [read  |-> job.read \cup {c},
                   index |-> [documents |-> [k \in DOMAIN base \cup docs |->
                                IF k \in docs THEN points[k] ELSE base[k]],
                              since |-> IF job.read = {} THEN Len(past) ELSE job.index.since]]
    /\ UNCHANGED <<storeVars, cacheVars, serverVars, request, evalVars, requests,
                   recallFaults>>

RefreshSave ==
    /\ job.read = CollectionSet
    /\ lexicalFile' = job.index /\ job' = NoJob
    /\ UNCHANGED <<storeVars, cacheVars, server, lexical, request, evalVars, requests,
                   recallFaults>>

\* An exception ends the job before it saves, with exit status 0.
RefreshFails ==
    /\ job # NoJob /\ RecallFault
    /\ job' = NoJob
    /\ UNCHANGED <<storeVars, cacheVars, serverVars, request, evalVars, requests>>

-----------------------------------------------------------------------------
(* One pass over the channels.                                             *)

\* dense mode without an embedding becomes keyword.
Channel(mode, failure) ==
    IF mode = "dense" /\ DenseFails(failure) THEN "keyword" ELSE mode

\* The lexical channel needs the list if the server has no index.
Lists(mode, failure) == Channel(mode, failure) # "dense" /\ IsEmpty(lexical)
IndexUsed == IF IsEmpty(lexical) THEN Stamped(Listed) ELSE lexical

\* The candidate of the dense channel stands for both.
Merged(dense, lex) == dense \cup {h \in lex : \A g \in dense : g.key # h.key}

\* _first_pass: what it may find.
Found(mode, statuses, failure, listFails) ==
    {Merged(d, l) :
        d \in IF mode = "keyword" \/ DenseFails(failure) THEN {{}}
              ELSE DenseHits(failure, statuses),
        l \in IF Channel(mode, failure) = "dense" \/ listFails THEN {{}}
              ELSE LexicalHits(IndexUsed, statuses)}

\* The channels that fail in a pass, both perhaps, each as the reason it gives.
Failed(mode, failure, listFails) ==
    (IF mode # "keyword" /\ DenseFails(failure) THEN {"embedding_unavailable"} ELSE {})
        \cup (IF listFails THEN {"lexical_unavailable"} ELSE {})

\* Mutant of Reason: every pass starts its diagnostics anew.
ReasonOfPass(old, failed) ==
    CASE "lexical_unavailable" \in failed -> "lexical_unavailable"
      [] failed = {"embedding_unavailable"} -> "embedding_unavailable"
      [] OTHER -> "none"

\* Both passes write to the same diagnostics; of two channels the lexical one writes last.
Reason(old, failed) ==
    CASE "lexical_unavailable" \in failed -> "lexical_unavailable"
      [] failed = {"embedding_unavailable"} -> "embedding_unavailable"
      [] OTHER -> old

\* What a pass leaves behind in the caches.  What fails is a call that is made: a
\* dimension that is not known yet, a list that is not in the cache.
PassEffects(mode, failure, listFails, listed) ==
    /\ mode = "keyword" => failure = NoFailure
    /\ listFails => Lists(mode, failure) /\ ~memoriesFresh
    /\ \A c \in CollectionSet : failure = <<"dimension", c>> => dims[c] = "unread"
    /\ IF failure = NoFailure /\ ~listFails THEN UNCHANGED recallFaults ELSE RecallFault
    /\ dims' = IF mode = "keyword" THEN dims ELSE Dimensions(failure)
    /\ IF listed \/ (Lists(mode, failure) /\ ~listFails) THEN List
       ELSE UNCHANGED <<memories, memoriesFresh>>

\* The handler of /api/recall-test finds an index: the one it has, the file, or
\* one that is built from the list and saved, if that succeeds.
BeginRecall(mode, asked) ==
    /\ server = "up" /\ request = Idle /\ requests < MaxRequests
    /\ requests' = requests + 1
    /\ request' = [Idle EXCEPT !.pc = "first", !.mode = mode, !.asked = asked]
    /\ \/ /\ ~IsEmpty(lexical)
          /\ UNCHANGED <<lexical, lexicalFile, memories, memoriesFresh, recallFaults>>
       \/ /\ IsEmpty(lexical) /\ ~IsEmpty(lexicalFile)
          /\ lexical' = lexicalFile
          /\ UNCHANGED <<lexicalFile, memories, memoriesFresh, recallFaults>>
       \/ /\ IsEmpty(lexical) /\ IsEmpty(lexicalFile)
          /\ List /\ lexical' = Stamped(Listed)
          /\ \/ lexicalFile' = lexical' /\ UNCHANGED recallFaults
             \/ RecallFault /\ UNCHANGED lexicalFile
       \/ /\ IsEmpty(lexical) /\ IsEmpty(lexicalFile) /\ ~memoriesFresh /\ RecallFault
          /\ UNCHANGED <<lexical, lexicalFile, memories, memoriesFresh>>
    /\ UNCHANGED <<storeVars, dims, server, job, evalVars>>

FirstPass(failure, listFails) ==
    /\ request.pc = "first"
    /\ PassEffects(request.mode, failure, listFails, FALSE)
    /\ LET failed == Failed(request.mode, failure, listFails) IN
       \E found \in Found(request.mode, request.asked, failure, listFails) :
         request' = [request EXCEPT !.pc = "second", !.found = found, !.failed = failed,
                        !.reason = Reason("none", failed), !.since = IndexUsed.since]
    /\ UNCHANGED <<storeVars, serverVars, job, evalVars, requests>>

ActiveOf(found) == {h \in found : h.status = "active"}

Respond(found, used, added, failed, reason) ==
    /\ \E hits \in Top(found, Limit) :
         request' = [request EXCEPT !.pc = "respond", !.found = hits, !.used = used,
                        !.added = added, !.failed = failed, !.reason = reason]
    /\ UNCHANGED <<storeVars, serverVars, job, evalVars, requests>>

EnoughActive == Cardinality(ActiveOf(request.found)) >= FallbackMin

\* No second pass: there is enough, or the superseded ones were asked for.
RespondDirectly ==
    /\ request.pc = "second"
    /\ \/ /\ EnoughActive /\ UNCHANGED cacheVars
       \/ /\ ~EnoughActive /\ "superseded" \in request.asked
          /\ \E k \in Keys : Listed.points[k] = "superseded"
          /\ List /\ UNCHANGED dims
    /\ Respond(request.found, FALSE, 0, request.failed, request.reason)
    /\ UNCHANGED recallFaults

\* Nothing superseded, or the list cannot be read.
RespondWithoutFallback ==
    /\ request.pc = "second" /\ ~EnoughActive
    /\ \/ /\ \A k \in Keys : Listed.points[k] # "superseded"
          /\ List /\ UNCHANGED recallFaults
       \/ /\ ~memoriesFresh /\ RecallFault /\ UNCHANGED <<memories, memoriesFresh>>
    /\ UNCHANGED dims
    /\ Respond(request.found, FALSE, 0, request.failed,
               IF request.reason = "none" THEN "no_active_or_superseded" ELSE request.reason)

\* The second pass.  What it finds is the response if the first found nothing;
\* otherwise its scores are lowered and it is counted, and not added.
RespondFromFallback(failure, listFails) ==
    /\ request.pc = "second" /\ ~EnoughActive /\ "superseded" \notin request.asked
    /\ \E k \in Keys : Listed.points[k] = "superseded"
    /\ ~listFails
    /\ PassEffects(request.mode, failure, listFails, TRUE)
    /\ LET failed == Failed(request.mode, failure, listFails) IN
       \E extra \in Found(request.mode, {"superseded"}, failure, listFails) :
         Respond(IF request.found = {} THEN extra ELSE request.found, TRUE, Cardinality(extra),
                 request.failed \cup failed, Reason(request.reason, failed))

Deliver ==
    /\ request.pc = "respond" /\ request' = Idle
    /\ UNCHANGED <<storeVars, cacheVars, serverVars, job, evalVars, requests, recallFaults>>

-----------------------------------------------------------------------------
(* The evaluation of policies: one engine, in the process of a cycle.      *)

Fresh == [points |-> points, since |-> Len(past)]

\* build_candidate_pool asks Qdrant for the active memories, then for the superseded
\* ones, and an index built from the list for both.  A channel that fails is left out.
PoolHits(status) == {[key |-> k, status |-> status] : k \in {j \in Keys : points[j] = status}}

PoolActive ==
    /\ pool.step = "none"
    /\ \/ /\ pool' = [pool EXCEPT !.step = "half", !.dense["active"] = PoolHits("active")]
          /\ UNCHANGED recallFaults
       \/ RecallFault /\ pool' = [pool EXCEPT !.step = "lexical"]
    /\ UNCHANGED <<storeVars, cacheVars, serverVars, job, request, rankings, requests>>

BuiltPool ==
    LET idx == Stamped(Fresh) IN
    [step    |-> "built",
     dense   |-> IF pool.step = "half"
                 THEN [pool.dense EXCEPT !["superseded"] = PoolHits("superseded")] ELSE pool.dense,
     lexical |-> [s \in Statuses |-> {h \in Hits(idx, DOMAIN idx.documents) : h.status = s}]]

PoolRest ==
    /\ pool.step \in {"half", "lexical"}
    /\ \/ pool' = BuiltPool /\ UNCHANGED recallFaults
       \/ RecallFault /\ pool' = [BuiltPool EXCEPT !.lexical = Nothing]
    /\ UNCHANGED <<storeVars, cacheVars, serverVars, job, request, rankings, requests>>

\* _rank_pool_band: of each channel the policy keeps its dense_k or lexical_k best, one
\* at least; how many that are, and which, is a choice.
Kept(S) == {T \in SUBSET S : T = {} => S = {}}
Bands(p, status) == {Merged(d, l) : d \in Kept(p.dense[status]), l \in Kept(p.lexical[status])}

\* Mutant of Ranked: sorted by score as a whole, the superseded ones uncapped.
RankedTogether(active, superseded, limit) ==
    LET all == SetToSeq(superseded) \o SetToSeq(active)
    IN  SubSeq(all, 1, IF Len(all) < limit THEN Len(all) ELSE limit)

\* rank_candidate_pool: the active band, then the superseded one if there are
\* too few.  A band is sorted by the policy's score: some order here.
Ranked(active, superseded, limit) ==
    LET all == SetToSeq(active) \o
               (IF Cardinality(active) < FallbackMin THEN SetToSeq(superseded) ELSE <<>>)
    IN  SubSeq(all, 1, IF Len(all) < limit THEN Len(all) ELSE limit)

\* Mutant of PoolFor: without the cache every policy gets a pool of its own.
PoolRebuilt == BuiltPool

\* get_candidate_pool keeps the pool of a query.
PoolFor == pool

RankPool(policy) ==
    /\ pool.step = "built" /\ policy \notin DOMAIN rankings
    /\ \E active \in Bands(PoolFor, "active"), superseded \in Bands(PoolFor, "superseded") :
         rankings' = [p \in DOMAIN rankings \cup {policy} |->
                        IF p = policy THEN [pool |-> PoolFor, active |-> active,
                                            hits |-> Ranked(active, superseded, Limit)]
                        ELSE rankings[p]]
    /\ UNCHANGED <<storeVars, cacheVars, serverVars, job, request, pool, requests,
                   recallFaults>>

Changed == \E k \in Keys, s \in Statuses \cup {"absent"} : ChangePoint(k, s)

ServingNext ==
    \/ Expire \/ StartServer \/ StopServer
    \/ \E c \in CollectionSet : RefreshCollection(c)
    \/ RefreshSave \/ RefreshFails
    \/ \E mode \in {"keyword", "dense", "hybrid"}, asked \in {{"active"}, Statuses} :
         BeginRecall(mode, asked)
    \/ \E f \in DenseFailures, l \in BOOLEAN : FirstPass(f, l) \/ RespondFromFallback(f, l)
    \/ RespondDirectly \/ RespondWithoutFallback \/ Deliver

EvaluationNext ==
    \/ PoolActive \/ PoolRest
    \/ \E p \in Policies : RankPool(p)

RecallNext == Changed \/ ServingNext \/ EvaluationNext

RecallSpec == RecallInit /\ [][RecallNext]_recallVars

-----------------------------------------------------------------------------
RecallTypeOK ==
    /\ points \in [Keys -> Statuses \cup {"absent"}]
    /\ past[Len(past)] = points
    /\ dims \in [CollectionSet -> {"unread", "known", "unknown"}]
    /\ \A idx \in {lexical, lexicalFile, job.index} :
         DOMAIN idx.documents \subseteq CollectionSet \X Ids /\ idx.since <= Len(past)
    /\ request.pc \in {"idle", "first", "second", "respond"}
    /\ server = "down" => request = Idle

\* A memory that recall returns has had the status it is shown with, in some
\* collection, since the index that was used was read: however often servers
\* and refresh jobs save, load and overwrite index files, a document that had
\* left Qdrant before is not carried along (refresh_lexical.py builds a fresh
\* index; lexical.py replaces documents).
HitsHeld ==
    \A h \in request.found :
        \E n \in request.since..Len(past), k \in Keys :
            k[2] = h.key[2] /\ past[n][k] = h.status

\* A response after a failure says so: as its reason it names a channel that has
\* failed in one of the passes, and nothing else, though the second pass, the fallback
\* and the lack of hits all write to the same diagnostics (retrieval_engine.py,
\* _first_pass and retrieve).  Of two channels that fail it names one: the lexical
\* failure covers that of the embedding.
FailureReported == request.failed # {} => request.reason \in request.failed

\* All policies of an evaluation are compared on the same candidates, although
\* memories change while it runs (retrieval_engine.py, get_candidate_pool).
FairComparison ==
    \A p, q \in DOMAIN rankings : rankings[p].pool = rankings[q].pool

\* A superseded memory is returned to whoever did not ask for it only when there
\* are fewer active ones than the minimum, and never ahead of one: in a response
\* and in the ranking of a pool (contracts.py, ACTIVE_FIRST).
ActiveFirst ==
    /\ request.pc = "respond" /\ "superseded" \notin request.asked =>
         \/ \A h \in request.found : h.status = "active"
         \/ request.used /\ \A h \in request.found : h.status = "superseded"
    /\ \A p \in DOMAIN rankings :
         LET hits == rankings[p].hits IN
         \A i \in 1..Len(hits) : hits[i].status = "superseded" =>
            /\ Cardinality(rankings[p].active) < FallbackMin
            /\ \A j \in i..Len(hits) : hits[j].status = "superseded"

\* docs/retrieval-diagnostics.md: the fallback re-runs the search on superseded
\* memories "and merges the results".  What it says it has added is in the
\* response, as far as the limit allows.
FallbackMerged ==
    request.pc = "respond" /\ request.added > 0 =>
        \/ \E h \in request.found : h.status = "superseded"
        \/ Cardinality(request.found) = Limit
=============================================================================
