-------------------------- MODULE LexicalIndexProofs --------------------------
(***************************************************************************)
(* Proofs about LexicalIndex, for any keys, tokens and documents and any   *)
(* number of operations.  An index is sound if its documents are typed,    *)
(* its posting lists are those of the documents and each frequency is the  *)
(* length of its list; the file on disk is the image of a sound index;     *)
(* and the cache holds what a search of the index returns.                 *)
(*                                                                         *)
(* Proofs about Retrieval, for any collections, memories, limits and       *)
(* policies.  Every index, in the server, in the file or in the refresh    *)
(* job, says of a memory only what Qdrant has held since the time the      *)
(* index dates from; and no index that a request may use in its second     *)
(* pass is older than the one it used in its first.                        *)
(***************************************************************************)
EXTENDS LexicalIndex, Retrieval, FiniteSetTheorems, WellFoundedInduction, TLAPS

\* What from_dict needs to count the frequencies right: see RebuiltStats.
EveryDocumentHasToken == \A d \in Documents : TokensOf(d) # {}

TypedDocuments(docs) ==
    /\ DOMAIN docs \subseteq DocKeys
    /\ \A k \in DOMAIN docs : docs[k] \in Documents

SoundIndex(idx) ==
    /\ TypedDocuments(idx.documents)
    /\ PostingsMatch(idx)
    /\ idx.df \in [Terms -> Int]
    /\ EveryDocumentHasToken => StatsMatch(idx)

SoundFile(file) ==
    file # NoIndexFile =>
        /\ TypedDocuments(file.documents)
        /\ file.schema \in {1, 2}
        /\ file.schema = 2 => file.postings = RebuiltPostings(file.documents)

SoundCache ==
    \A q \in DOMAIN searched : q \in Queries /\ searched[q] = Matches(index, q)

LexIInv ==
    /\ SoundIndex(index)
    /\ SoundFile(indexFile)
    /\ SoundCache
    /\ indexOps \in 0..MaxIndexOps

-----------------------------------------------------------------------------
\* Posting lists are finite sets of keys.
LEMMA PostingsFinite ==
    ASSUME NEW docs, TypedDocuments(docs), NEW t \in Terms
    PROVE  /\ RebuiltPostings(docs)[t] = {k \in DOMAIN docs : t \in TokensOf(docs[k])}
           /\ RebuiltPostings(docs)[t] \subseteq DocKeys
           /\ IsFiniteSet(RebuiltPostings(docs)[t])
           /\ Cardinality(RebuiltPostings(docs)[t]) \in Nat
<1>1. RebuiltPostings(docs)[t] = {k \in DOMAIN docs : t \in TokensOf(docs[k])}
  BY DEF RebuiltPostings
<1>2. RebuiltPostings(docs)[t] \subseteq DocKeys
  BY <1>1 DEF TypedDocuments
<1>3. IsFiniteSet(RebuiltPostings(docs)[t])
  BY <1>2, FS_Subset, LexicalAssumption
<1> QED
  BY <1>1, <1>2, <1>3, FS_CardinalityType

\* An index without documents is sound.
LEMMA EmptySound == SoundIndex(EmptyIndex)
<1>1. DOMAIN EmptyIndex.documents = {}
  BY DEF EmptyIndex
<1>2. TypedDocuments(EmptyIndex.documents)
  BY <1>1 DEF TypedDocuments
<1>3. PostingsMatch(EmptyIndex)
  BY <1>1 DEF PostingsMatch, RebuiltPostings, EmptyIndex
<1>4. EmptyIndex.df \in [Terms -> Int] /\ StatsMatch(EmptyIndex)
  BY FS_EmptySet DEF StatsMatch, EmptyIndex
<1> QED
  BY <1>2, <1>3, <1>4 DEF SoundIndex

\* Removing a document takes it from its posting lists and counts down their frequencies.
LEMMA RemoveSound ==
    ASSUME NEW idx, SoundIndex(idx), NEW k \in DocKeys
    PROVE  /\ SoundIndex(RemoveInternal(idx, k))
           /\ k \notin DOMAIN RemoveInternal(idx, k).documents
<1>1. CASE k \notin DOMAIN idx.documents
  BY <1>1 DEF RemoveInternal
<1>2. CASE k \in DOMAIN idx.documents
  <2> DEFINE docs == Restrict(idx.documents, DOMAIN idx.documents \ {k})
             gone == TokensOf(idx.documents[k])
             postings == [t \in Terms |-> IF t \in gone THEN idx.postings[t] \ {k}
                                           ELSE idx.postings[t]]
             df == [t \in Terms |-> IF t \in gone THEN idx.df[t] - 1 ELSE idx.df[t]]
             next == RemoveInternal(idx, k)
  <2>1. next = [documents |-> docs, postings |-> postings, df |-> df]
    BY <1>2 DEF RemoveInternal
  <2>2. /\ DOMAIN docs = DOMAIN idx.documents \ {k}
        /\ \A j \in DOMAIN docs : docs[j] = idx.documents[j]
    BY DEF Restrict
  <2>3. TypedDocuments(docs)
    BY <2>2 DEF SoundIndex, TypedDocuments
  <2>4. \A t \in Terms : idx.postings[t] = {j \in DOMAIN idx.documents : t \in TokensOf(idx.documents[j])}
    BY DEF SoundIndex, PostingsMatch, RebuiltPostings
  <2>5. \A t \in Terms : postings[t] = {j \in DOMAIN docs : t \in TokensOf(docs[j])}
    BY <1>2, <2>2, <2>4
  <2>6. postings = RebuiltPostings(docs)
    BY <2>5 DEF RebuiltPostings
  <2>7. ASSUME NEW t \in Terms, EveryDocumentHasToken PROVE df[t] = Cardinality(postings[t])
    <3>1. IsFiniteSet(idx.postings[t]) /\ Cardinality(idx.postings[t]) \in Nat
      BY PostingsFinite DEF SoundIndex, PostingsMatch
    <3>2. idx.df[t] = Cardinality(idx.postings[t])
      BY <2>7 DEF SoundIndex, StatsMatch
    <3>3. CASE t \in gone
      <4>1. k \in idx.postings[t]
        BY <1>2, <2>4, <3>3
      <4>2. Cardinality(idx.postings[t] \ {k}) = Cardinality(idx.postings[t]) - 1
        BY <3>1, <4>1, FS_RemoveElement
      <4> QED
        BY <3>1, <3>2, <3>3, <4>2
    <3>4. CASE t \notin gone
      BY <3>1, <3>2, <3>4
    <3> QED
      BY <3>3, <3>4
  <2>8. df \in [Terms -> Int]
    BY DEF SoundIndex
  <2> HIDE DEF docs, postings, df
  <2>9. /\ next.documents = docs /\ next.postings = postings /\ next.df = df
    BY <2>1
  <2> HIDE DEF next
  <2>10. SoundIndex(next) /\ k \notin DOMAIN next.documents
    BY <2>2, <2>3, <2>6, <2>7, <2>8, <2>9 DEF SoundIndex, PostingsMatch, StatsMatch
  <2> QED
    BY <2>10 DEF next
<1> QED
  BY <1>1, <1>2

\* Adding a document, after the one it replaces is removed, counts each of its tokens once.
LEMMA AddSound ==
    ASSUME NEW idx, SoundIndex(idx), NEW k \in DocKeys, NEW d \in Documents
    PROVE  SoundIndex(AddOne(idx, k, d))
<1> DEFINE rest == RemoveInternal(idx, k)
           docs == [j \in DOMAIN rest.documents \cup {k} |->
                        IF j = k THEN d ELSE rest.documents[j]]
           postings == [t \in Terms |-> IF t \in TokensOf(d) THEN rest.postings[t] \cup {k}
                                         ELSE rest.postings[t]]
           df == [t \in Terms |-> IF t \in TokensOf(d) THEN rest.df[t] + 1 ELSE rest.df[t]]
           next == AddOne(idx, k, d)
<1>1. next = [documents |-> docs, postings |-> postings, df |-> df]
  BY DEF AddOne
<1>2. SoundIndex(rest) /\ k \notin DOMAIN rest.documents
  BY RemoveSound
<1> HIDE DEF rest
<1>3. TypedDocuments(docs)
  BY <1>2 DEF SoundIndex, TypedDocuments
<1>4. \A t \in Terms : rest.postings[t] = {j \in DOMAIN rest.documents : t \in TokensOf(rest.documents[j])}
  BY <1>2 DEF SoundIndex, PostingsMatch, RebuiltPostings
<1>5. \A t \in Terms : postings[t] = {j \in DOMAIN docs : t \in TokensOf(docs[j])}
  BY <1>2, <1>4
<1>6. postings = RebuiltPostings(docs)
  BY <1>5 DEF RebuiltPostings
<1>7. ASSUME NEW t \in Terms, EveryDocumentHasToken PROVE df[t] = Cardinality(postings[t])
  <2>1. IsFiniteSet(rest.postings[t]) /\ Cardinality(rest.postings[t]) \in Nat
    BY <1>2, PostingsFinite DEF SoundIndex, PostingsMatch
  <2>2. rest.df[t] = Cardinality(rest.postings[t])
    BY <1>2, <1>7 DEF SoundIndex, StatsMatch
  <2>3. CASE t \in TokensOf(d)
    <3>1. k \notin rest.postings[t]
      BY <1>2, <1>4
    <3>2. Cardinality(rest.postings[t] \cup {k}) = Cardinality(rest.postings[t]) + 1
      BY <2>1, <3>1, FS_AddElement
    <3> QED
      BY <2>1, <2>2, <2>3, <3>2
  <2>4. CASE t \notin TokensOf(d)
    BY <2>1, <2>2, <2>4
  <2> QED
    BY <2>3, <2>4
<1>8. df \in [Terms -> Int]
  BY <1>2 DEF SoundIndex
<1> HIDE DEF docs, postings, df
<1>9. next.documents = docs /\ next.postings = postings /\ next.df = df
  BY <1>1
<1> HIDE DEF next
<1>10. SoundIndex(next)
  BY <1>3, <1>6, <1>7, <1>8, <1>9 DEF SoundIndex, PostingsMatch, StatsMatch
<1> QED
  BY <1>10 DEF next

\* What save has written, from_dict restores, whichever schema the file has: the
\* frequencies it counts again are those of the posting lists if every document has a token.
LEMMA RestoreSound ==
    ASSUME NEW file, SoundFile(file), file # NoIndexFile
    PROVE  SoundIndex(Restored(file))
<1> DEFINE docs == file.documents
           next == Restored(file)
<1>1. TypedDocuments(docs)
  BY DEF SoundFile
<1>2. next.documents = docs /\ next.df = RebuiltStats(docs)
      /\ next.postings = RebuiltPostings(docs)
  BY DEF Restored, SoundFile
<1>3. ASSUME NEW t \in Terms, EveryDocumentHasToken
      PROVE  RebuiltStats(docs)[t] = Cardinality(RebuiltPostings(docs)[t])
  <2>1. ~ \E k \in DOMAIN docs : TokensOf(docs[k]) = {}
    BY <1>1, <1>3 DEF TypedDocuments, EveryDocumentHasToken
  <2>2. RebuiltStats(docs)[t] = Cardinality({k \in DOMAIN docs : t \in TokensOf(docs[k])})
    BY <2>1 DEF RebuiltStats
  <2> QED
    BY <1>1, <2>2, PostingsFinite
<1>4. ASSUME NEW S, S \subseteq DOMAIN docs PROVE Cardinality(S) \in Int
  BY <1>1, <1>4, LexicalAssumption, FS_Subset, FS_CardinalityType DEF TypedDocuments
<1>5. RebuiltStats(docs) \in [Terms -> Int]
  <2> DEFINE Counted(d) == IF \E k \in DOMAIN docs : TokensOf(docs[k]) = {}
                           THEN d.text ELSE TokensOf(d)
             Holding(t) == {k \in DOMAIN docs : t \in Counted(docs[k])}
  <2>1. RebuiltStats(docs) = [t \in Terms |-> Cardinality(Holding(t))]
    BY DEF RebuiltStats
  <2>2. \A t : Holding(t) \subseteq DOMAIN docs
    OBVIOUS
  <2> HIDE DEF Holding
  <2> QED
    BY <1>4, <2>1, <2>2
<1> HIDE DEF next
<1>6. SoundIndex(next)
  BY <1>1, <1>2, <1>3, <1>5 DEF SoundIndex, PostingsMatch, StatsMatch
<1> QED
  BY <1>6 DEF next

-----------------------------------------------------------------------------
\* An empty index, no file and an empty cache.
LEMMA LexInitIInv == LexInit => LexIInv
<1> SUFFICES ASSUME LexInit PROVE LexIInv
  OBVIOUS
<1>1. SoundIndex(index)
  BY EmptySound DEF LexInit
<1>2. SoundFile(indexFile)
  BY DEF LexInit, SoundFile
<1>3. SoundCache
  BY DEF LexInit, SoundCache
<1>4. indexOps \in 0..MaxIndexOps
  BY LexicalAssumption DEF LexInit
<1> QED
  BY <1>1, <1>2, <1>3, <1>4 DEF LexIInv

\* The bound on operations holds.
LEMMA OperateBound ==
    ASSUME indexOps \in 0..MaxIndexOps, Operate
    PROVE  indexOps' \in 0..MaxIndexOps
  BY LexicalAssumption DEF Operate

\* The operations that change the index and throw its cache away.
LEMMA ChangeIInv ==
    ASSUME LexIInv, Operate, SoundIndex(index'), searched' = <<>>, UNCHANGED indexFile
    PROVE  LexIInv'
<1>1. SoundIndex(index)' /\ SoundFile(indexFile)'
  BY DEF LexIInv, SoundIndex, TypedDocuments, PostingsMatch, StatsMatch, SoundFile
<1>2. SoundCache'
  BY DEF SoundCache
<1>3. indexOps' \in 0..MaxIndexOps
  BY OperateBound DEF LexIInv
<1> QED
  BY <1>1, <1>2, <1>3 DEF LexIInv

\* A search stores what the index returns at that moment.
LEMMA SearchIInv ==
    ASSUME LexIInv, NEW q \in Queries, Search(q)
    PROVE  LexIInv'
<1>1. Operate /\ UNCHANGED <<index, indexFile>>
  BY DEF Search
<1>2. /\ DOMAIN searched' = DOMAIN searched \cup {q}
      /\ \A p \in DOMAIN searched' :
            searched'[p] = IF p = q THEN Matches(index, q) ELSE searched[p]
  BY DEF Search
<1>3. \A p \in DOMAIN searched' : p \in Queries /\ searched'[p] = Matches(index, p)
  BY <1>2 DEF LexIInv, SoundCache
<1>4. SoundCache'
  BY <1>1, <1>3 DEF SoundCache, Matches
<1>5. SoundIndex(index)' /\ SoundFile(indexFile)'
  BY <1>1 DEF LexIInv, SoundIndex, TypedDocuments, PostingsMatch, StatsMatch, SoundFile
<1>6. indexOps' \in 0..MaxIndexOps
  BY <1>1, OperateBound DEF LexIInv
<1> QED
  BY <1>4, <1>5, <1>6 DEF LexIInv

\* What is saved is the image of a sound index, in either schema.
LEMMA SaveIInv ==
    ASSUME LexIInv, NEW schema \in {1, 2}, SaveIndex(schema)
    PROVE  LexIInv'
<1>1. Operate /\ UNCHANGED <<index, searched>>
  BY DEF SaveIndex
<1>2. /\ indexFile'.documents = index.documents
      /\ indexFile'.schema = schema
      /\ schema = 2 => indexFile'.postings = index.postings
  BY DEF SaveIndex
<1>3. SoundFile(indexFile)'
  BY <1>2 DEF LexIInv, SoundIndex, TypedDocuments, PostingsMatch, SoundFile
<1>4. SoundIndex(index)' /\ SoundCache'
  BY <1>1 DEF LexIInv, SoundIndex, TypedDocuments, PostingsMatch, StatsMatch, SoundCache, Matches
<1>5. indexOps' \in 0..MaxIndexOps
  BY <1>1, OperateBound DEF LexIInv
<1> QED
  BY <1>3, <1>4, <1>5 DEF LexIInv

\* Every operation preserves the invariant.
LEMMA LexNextIInv ==
    ASSUME LexIInv, [LexNext]_lexVars
    PROVE  LexIInv'
<1>1. SoundIndex(index)
  BY DEF LexIInv
<1>2. ASSUME NEW k \in DocKeys, NEW d \in Documents, AddDocument(k, d)
      PROVE  LexIInv'
  BY <1>1, <1>2, AddSound, ChangeIInv DEF AddDocument
<1>3. ASSUME NEW k \in DocKeys, RemoveDocument(k)
      PROVE  LexIInv'
  BY <1>1, <1>3, RemoveSound, ChangeIInv DEF RemoveDocument
<1>4. ASSUME NEW j \in DocKeys, NEW k \in DocKeys, NEW d \in Documents, NEW e \in Documents,
             IncrementalRefresh(j, d, k, e)
      PROVE  LexIInv'
  <2>1. SoundIndex(AddOne(index, j, d))
    BY <1>1, AddSound
  <2>2. SoundIndex(AddOne(AddOne(index, j, d), k, e))
    BY <2>1, AddSound
  <2> QED
    BY <1>4, <2>2, ChangeIInv DEF IncrementalRefresh
<1>5. ASSUME NEW q \in Queries, Search(q)
      PROVE  LexIInv'
  BY <1>5, SearchIInv
<1>6. ASSUME NEW schema \in {1, 2}, SaveIndex(schema)
      PROVE  LexIInv'
  BY <1>6, SaveIInv
<1>7. CASE LoadIndex
  <2>1. SoundIndex(Restored(indexFile))
    BY <1>7, RestoreSound DEF LexIInv, LoadIndex
  <2> QED
    BY <1>7, <2>1, ChangeIInv DEF LoadIndex
<1>8. CASE Clear
  BY <1>8, EmptySound, ChangeIInv DEF Clear
<1>9. CASE UNCHANGED lexVars
  BY <1>9 DEF lexVars, LexIInv, SoundIndex, TypedDocuments, PostingsMatch, StatsMatch, SoundFile,
              SoundCache, Matches
<1> QED
  BY <1>2, <1>3, <1>4, <1>5, <1>6, <1>7, <1>8, <1>9 DEF LexNext

\* The inductive invariant of the index, its cache and its file.
THEOREM LexicalInductive == LexSpec => []LexIInv
<1>1. LexIInv /\ [LexNext]_lexVars => LexIInv'
  BY LexNextIInv
<1> QED
  BY <1>1, LexInitIInv, PTL DEF LexSpec

\* Posting lists and frequencies belong to the documents that are there, through
\* every sequence of additions, removals, refreshes, saves, migrations and loads, if
\* every document has a token.
THEOREM IndexAlwaysSound == ASSUME EveryDocumentHasToken PROVE LexSpec => []IndexSound
<1>1. LexIInv => IndexSound
  BY DEF LexIInv, SoundIndex, IndexSound
<1> QED
  BY <1>1, LexicalInductive, PTL

\* The types of the index, its tables and its file.
THEOREM LexicalTypeCorrect == LexSpec => []LexTypeOK
<1>1. ASSUME LexIInv PROVE LexTypeOK
  <2>1. TypedDocuments(index.documents) /\ index.df \in [Terms -> Int]
    BY <1>1 DEF LexIInv, SoundIndex
  <2>2. index.postings = [t \in Terms |-> RebuiltPostings(index.documents)[t]]
    BY <1>1 DEF LexIInv, SoundIndex, PostingsMatch, RebuiltPostings
  <2>3. index.postings \in [Terms -> SUBSET DocKeys]
    BY <2>1, <2>2, PostingsFinite
  <2> QED
    BY <1>1, <2>1, <2>3 DEF LexIInv, TypedDocuments, LexTypeOK
<1> QED
  BY <1>1, LexicalInductive, PTL

\* The cache never answers with a document that has left the index or without one
\* that has come to it.
THEOREM CacheAlwaysFresh == ASSUME EveryDocumentHasToken PROVE LexSpec => []CacheFresh
<1>1. ASSUME LexIInv PROVE CacheFresh
  <2> SUFFICES ASSUME NEW q \in DOMAIN searched
               PROVE  searched[q] = {k \in DOMAIN index.documents :
                                        TokensOf(index.documents[k]) \cap q # {}}
    BY DEF CacheFresh
  <2>1. q \in Queries /\ searched[q] = Matches(index, q)
    BY <1>1 DEF LexIInv, SoundCache
  <2>2. q \subseteq Terms
    BY <2>1 DEF Queries
  <2>3. ASSUME NEW t \in q, NEW k \in DOMAIN index.documents
        PROVE  (k \in index.postings[t] /\ index.df[t] > 0) <=> t \in TokensOf(index.documents[k])
    <3>1. t \in Terms /\ TypedDocuments(index.documents)
      BY <1>1, <2>2 DEF LexIInv, SoundIndex
    <3>2. /\ index.postings[t] = {j \in DOMAIN index.documents : t \in TokensOf(index.documents[j])}
          /\ IsFiniteSet(index.postings[t]) /\ Cardinality(index.postings[t]) \in Nat
      BY <1>1, <3>1, PostingsFinite DEF LexIInv, SoundIndex, PostingsMatch
    <3>3. index.df[t] = Cardinality(index.postings[t])
      BY <1>1, <3>1 DEF LexIInv, SoundIndex, StatsMatch
    <3>4. k \in index.postings[t] => Cardinality(index.postings[t]) # 0
      BY <3>2, FS_EmptySet
    <3> QED
      BY <3>2, <3>3, <3>4
  <2> QED
    BY <2>1, <2>3 DEF Matches
<1> QED
  BY <1>1, LexicalInductive, PTL

\* What a search returns, from the cache or not: documents that are in the index and
\* have a token of the query, perhaps not all of them.
NothingFalse ==
    /\ PostingsMatch(index)
    /\ \A q \in DOMAIN searched : \A k \in searched[q] :
          k \in DOMAIN index.documents /\ TokensOf(index.documents[k]) \cap q # {}

\* Documents without a token, which spoil the frequencies when the index is restored,
\* can hide a document from a search but never put a wrong one into its answer.
THEOREM SearchNeverInvents == LexSpec => []NothingFalse
<1>1. ASSUME LexIInv PROVE NothingFalse
  <2>1. PostingsMatch(index)
    BY <1>1 DEF LexIInv, SoundIndex
  <2>2. ASSUME NEW q \in DOMAIN searched, NEW k \in searched[q]
        PROVE  k \in DOMAIN index.documents /\ TokensOf(index.documents[k]) \cap q # {}
    <3>1. q \subseteq Terms /\ searched[q] = Matches(index, q)
      BY <1>1 DEF LexIInv, SoundCache, Queries
    <3>2. k \in DOMAIN index.documents /\ \E t \in q : k \in index.postings[t]
      BY <2>2, <3>1 DEF Matches
    <3> QED
      BY <2>1, <3>1, <3>2 DEF PostingsMatch, RebuiltPostings
  <2> QED
    BY <2>1, <2>2 DEF NothingFalse
<1> QED
  BY <1>1, LexicalInductive, PTL

-----------------------------------------------------------------------------
(* Recall.  What an index says of a memory, and what a request has found,  *)
(* was so in Qdrant at some time since the index was read.                 *)

Marks == Statuses \cup {"absent"}
Snapshots == [Keys -> Marks]
Listings == [points : Snapshots, since : Nat]
HitSet == [key : CollectionSet \X Ids, status : Marks]
Sizes == {0} \cup {Cardinality(S) : S \in SUBSET HitSet}
Failures == {"lexical_unavailable", "embedding_unavailable"}
Reasons == {"none", "no_active_or_superseded"} \cup Failures
Requests == [pc : {"idle", "first", "second", "respond"},
             mode : {"", "keyword", "dense", "hybrid"}, asked : SUBSET Statuses,
             found : SUBSET HitSet, used : BOOLEAN, added : Sizes, failed : SUBSET Failures,
             reason : Reasons, since : Nat]
Pools == [step : {"none", "half", "lexical", "built"}, dense : [Statuses -> SUBSET HitSet],
          lexical : [Statuses -> SUBSET HitSet]]

\* Some memory with this id has had this status since then.
Held(since, id, status) ==
    \E n \in 1..Len(past) : since <= n /\ \E k \in Keys : k[2] = id /\ past[n][k] = status

ListFits(list) ==
    list \in Listings /\ list.since \in 1..Len(past) /\ past[list.since] = list.points

IndexFits(idx) ==
    /\ idx.since \in Nat /\ idx.since <= Len(past)
    /\ DOMAIN idx.documents \subseteq CollectionSet \X Ids
    /\ \A k \in DOMAIN idx.documents :
          idx.documents[k] \in Marks /\ Held(idx.since, k[2], idx.documents[k])

StoreFits ==
    /\ points \in Snapshots /\ past \in Seq(Snapshots) /\ past # <<>>
    /\ past[Len(past)] = points

CachesFit ==
    /\ ListFits(memories) /\ memoriesFresh \in BOOLEAN
    /\ dims \in [CollectionSet -> {"unread", "known", "unknown"}]

IndexesFit ==
    /\ IndexFits(lexical) /\ IndexFits(lexicalFile) /\ IndexFits(job.index)
    /\ job.read = {} => job.index = NoIndex

\* A request that has passed once has found what it was asked for, and no index it
\* may use in its second pass is older than the one it has used.
RequestFits ==
    /\ request \in Requests /\ request.since <= Len(past)
    /\ server = "down" => request = Idle
    /\ request.pc \in {"idle", "first"} => request.found = {} /\ request.failed = {}
    /\ \A h \in request.found : Held(request.since, h.key[2], h.status)
    /\ request.pc = "second" =>
          /\ \A h \in request.found : h.status \in request.asked
          /\ request.since <= IndexUsed.since
    /\ request.pc = "respond" /\ "superseded" \notin request.asked =>
          \/ \A h \in request.found : h.status = "active"
          \/ request.used /\ \A h \in request.found : h.status = "superseded"
    /\ FailureReported

\* The hits of a channel have the status they were asked for with.
OfStatus(hits) == \A s \in Statuses : \A h \in hits[s] : h.status = s

\* A ranking is that of two bands of the pool as it was built.
BandFits(band, status) == band \subseteq HitSet /\ \A h \in band : h.status = status
RankingFits(ranking) ==
    /\ ranking.pool = pool /\ BandFits(ranking.active, "active")
    /\ \E superseded : BandFits(superseded, "superseded")
                         /\ ranking.hits = Ranked(ranking.active, superseded, Limit)

PoolFits ==
    /\ pool \in Pools
    /\ OfStatus(pool.dense) /\ OfStatus(pool.lexical)
    /\ pool.step # "built" => DOMAIN rankings = {}
    /\ \A p \in DOMAIN rankings : RankingFits(rankings[p])

RecallInv == StoreFits /\ CachesFit /\ IndexesFit /\ RequestFits /\ PoolFits

\* What has been so stays so, and counts for every earlier time too.
LEMMA HeldStays ==
  ASSUME StoreFits,
         UNCHANGED past \/ \E pts \in Snapshots : past' = Append(past, pts)
  PROVE  /\ Len(past') >= Len(past) /\ Len(past) \in Nat \ {0} /\ Len(past') \in Nat
         /\ past' \in Seq(Snapshots) /\ past' # <<>>
         /\ \A n \in 1..Len(past) : past'[n] = past[n]
         /\ \A since, id, status : Held(since, id, status) => Held(since, id, status)'
<1>1. past \in Seq(Snapshots) /\ past # <<>> /\ Len(past) \in Nat \ {0}
  BY DEF StoreFits
<1>2. /\ Len(past') >= Len(past) /\ Len(past') \in Nat
      /\ past' \in Seq(Snapshots) /\ past' # <<>>
      /\ \A n \in 1..Len(past) : past'[n] = past[n]
  <2>1. CASE UNCHANGED past
    BY <1>1, <2>1
  <2>2. ASSUME NEW pts \in Snapshots, past' = Append(past, pts)
        PROVE  /\ Len(past') >= Len(past) /\ Len(past') \in Nat
               /\ past' \in Seq(Snapshots) /\ past' # <<>>
               /\ \A n \in 1..Len(past) : past'[n] = past[n]
    BY <1>1, <2>2
  <2> QED
    BY <2>1, <2>2
<1>3. ASSUME NEW since, NEW id, NEW status, Held(since, id, status)
      PROVE  Held(since, id, status)'
  <2>1. PICK n \in 1..Len(past) : since <= n /\ \E k \in Keys : k[2] = id /\ past[n][k] = status
    BY <1>3 DEF Held
  <2>2. n \in 1..Len(past') /\ past'[n] = past[n]
    BY <1>1, <1>2, <2>1
  <2> QED
    BY <2>1, <2>2 DEF Held
<1> QED
  BY <1>1, <1>2, <1>3

\* What was so since a later time was so since an earlier one.
LEMMA HeldEarlier ==
  ASSUME StoreFits, NEW since \in Nat, NEW before \in Nat, before <= since
  PROVE  \A id, status : Held(since, id, status) => Held(before, id, status)
<1>1. \A n \in 1..Len(past) : since <= n => before <= n
  BY DEF StoreFits
<1> QED
  BY <1>1 DEF Held

\* A number of a finite set is its greatest.
LEMMA GreatestNumber ==
  ASSUME NEW n \in Nat, NEW S, S \subseteq 1..n, S # {}
  PROVE  \E m \in S : \A q \in S : q <= m
<1> DEFINE Above(p) == {q \in S : q > p}
           Tops == {Above(p) : p \in S}
<1>0. IsFiniteSet(S)
  <2>1. IsFiniteSet(1..n)
    BY FS_Interval
  <2> QED
    BY <2>1, FS_Subset
<1>1. Tops \subseteq FiniteSubsetsOf(S) /\ Tops # {}
  <2>1. ASSUME NEW p \in S PROVE Above(p) \subseteq S /\ IsFiniteSet(Above(p))
    BY <1>0, FS_Subset
  <2> QED
    BY <2>1 DEF FiniteSubsetsOf
<1>2. IsWellFoundedOn(StrictSubsetOrdering(S), FiniteSubsetsOf(S))
  BY FS_StrictSubsetOrderingWellFounded
<1> HIDE DEF Tops
<1>3. PICK D \in Tops : \A E \in Tops : <<E, D>> \notin StrictSubsetOrdering(S)
  BY <1>1, <1>2, WFMin
<1>4. PICK m \in S : D = Above(m)
  BY <1>3 DEF Tops
<1>5. ASSUME NEW q \in S, q > m PROVE FALSE
  <2>1. Above(q) \in Tops
    BY DEF Tops
  <2>2. \A r \in S : r \in Nat
    OBVIOUS
  <2>3. ~(q > q) /\ \A r \in S : r > q => r > m
    BY <1>5, <2>2
  <2>4. Above(q) \subseteq D /\ q \in D /\ q \notin Above(q)
    BY <1>4, <1>5, <2>3
  <2>5. <<Above(q), D>> \in StrictSubsetOrdering(S)
    BY <1>4, <2>4 DEF StrictSubsetOrdering
  <2> QED
    BY <1>3, <2>1, <2>5
<1>6. \A q \in S : q \in Nat /\ m \in Nat
  OBVIOUS
<1> QED
  BY <1>5, <1>6

\* The primary collection is one, and every id belongs to some memory.
LEMMA CollectionFacts ==
  /\ Primary \in CollectionSet
  /\ \A c \in 1..Len(Collections) : Collections[c] \in CollectionSet
  /\ \A k \in Keys : k = <<k[1], k[2]>> /\ k[1] \in CollectionSet /\ k[2] \in Ids
  /\ \A c \in CollectionSet, i \in Ids : <<c, i>> \in CollectionSet \X Ids
<1>1. 1 \in 1..Len(Collections)
  BY RecallAssumption
<1>2. \A c \in 1..Len(Collections) : Collections[c] \in CollectionSet
  BY RecallAssumption DEF CollectionSet, Range
<1>3. Keys \subseteq CollectionSet \X Ids
  BY RecallAssumption
<1> QED
  BY <1>1, <1>2, <1>3 DEF Primary

\* Listings: the one in the cache, or a new one.
LEMMA ListedFits == StoreFits /\ CachesFit => ListFits(Listed)
<1> SUFFICES ASSUME StoreFits, CachesFit PROVE ListFits(Listed)
  OBVIOUS
<1>1. ListFits([points |-> points, since |-> Len(past)])
  BY DEF StoreFits, ListFits, Listings
<1>2. ListFits(memories)
  BY DEF CachesFit
<1> QED
  BY <1>1, <1>2 DEF Listed

\* An index built from a listing tells what was in Qdrant when it was read, though it
\* stamps every memory with the primary collection and keeps one per id.
LEMMA StampedFits ==
  ASSUME StoreFits, NEW list, ListFits(list)
  PROVE  IndexFits(Stamped(list)) /\ Stamped(list).since = list.since
<1> DEFINE Of(i) == {c \in 1..Len(Collections) :
                       /\ <<Collections[c], i>> \in Keys
                       /\ list.points[<<Collections[c], i>>] # "absent"}
           LastOf(i) == CHOOSE c \in Of(i) : \A d \in Of(i) : d <= c
           ids == {i \in Ids : Of(i) # {}}
           docs == [k \in {Primary} \X ids |-> list.points[<<Collections[LastOf(k[2])], k[2]>>]]
<1>1. Stamped(list) = [documents |-> docs, since |-> list.since]
  BY DEF Stamped
<1>2. /\ list \in Listings /\ list.since \in 1..Len(past) /\ past[list.since] = list.points
      /\ list.since \in Nat /\ list.points \in Snapshots
  BY DEF ListFits, Listings
<1>3. ASSUME NEW i \in ids PROVE LastOf(i) \in Of(i)
  <2>1. Len(Collections) \in Nat /\ Of(i) \subseteq 1..Len(Collections) /\ Of(i) # {}
    BY RecallAssumption
  <2> HIDE DEF Of
  <2>2. \E m \in Of(i) : \A q \in Of(i) : q <= m
    BY <2>1, GreatestNumber
  <2> QED
    BY <2>2
<1>4. ASSUME NEW k \in {Primary} \X ids
      PROVE  /\ k \in CollectionSet \X Ids /\ docs[k] \in Marks
             /\ Held(list.since, k[2], docs[k])
  <2>1. k[2] \in ids /\ k[2] \in Ids /\ k \in CollectionSet \X Ids
    BY CollectionFacts
  <2> DEFINE key == <<Collections[LastOf(k[2])], k[2]>>
  <2>2. key \in Keys
    BY <1>3, <2>1
  <2>3. key[2] = k[2] /\ docs[k] = list.points[key]
    OBVIOUS
  <2> HIDE DEF docs, key, ids
  <2>4. docs[k] \in Marks
    BY <1>2, <2>2, <2>3 DEF Snapshots
  <2>5. list.since <= list.since
    BY <1>2
  <2> QED
    BY <1>2, <2>1, <2>2, <2>3, <2>4, <2>5 DEF Held
<1>5. DOMAIN docs = {Primary} \X ids
  OBVIOUS
<1> HIDE DEF docs, ids
<1>6. list.since <= Len(past)
  BY <1>2 DEF StoreFits
<1> QED
  BY <1>1, <1>2, <1>4, <1>5, <1>6 DEF IndexFits

\* So does the index a pass uses.
LEMMA IndexUsedFits ==
  ASSUME StoreFits, CachesFit, IndexesFit
  PROVE  /\ IndexFits(IndexUsed)
         /\ IsEmpty(lexical) => IndexUsed.since = Listed.since
         /\ ~IsEmpty(lexical) => IndexUsed.since = lexical.since
BY ListedFits, StampedFits DEF IndexUsed, IndexesFit

\* The empty index fits every history.
LEMMA NoIndexFits == StoreFits => IndexFits(NoIndex)
<1> SUFFICES ASSUME StoreFits PROVE IndexFits(NoIndex)
  OBVIOUS
<1>1. NoIndex.since = 0 /\ DOMAIN NoIndex.documents = {}
  BY DEF NoIndex
<1>2. 0 <= Len(past)
  BY DEF StoreFits
<1> QED
  BY <1>1, <1>2 DEF IndexFits

\* What a pass may find was so since its index was read.
LEMMA FoundFits ==
  ASSUME StoreFits, CachesFit, IndexesFit,
         NEW mode, NEW statuses, NEW failure, NEW listFails,
         NEW found \in Found(mode, statuses, failure, listFails),
         NEW since \in Nat, since <= IndexUsed.since
  PROVE  /\ found \subseteq HitSet
         /\ \A h \in found : h.status \in statuses /\ Held(since, h.key[2], h.status)
<1>1. /\ IndexFits(IndexUsed) /\ IndexUsed.since \in Nat /\ IndexUsed.since <= Len(past)
      /\ Len(past) \in Nat \ {0} /\ points \in Snapshots /\ past[Len(past)] = points
  BY IndexUsedFits DEF IndexFits, StoreFits
<1>2. since <= Len(past)
  BY <1>1
<1>3. PICK d, l :
        /\ d \in IF mode = "keyword" \/ DenseFails(failure) THEN {{}}
                 ELSE DenseHits(failure, statuses)
        /\ l \in IF Channel(mode, failure) = "dense" \/ listFails THEN {{}}
                 ELSE LexicalHits(IndexUsed, statuses)
        /\ found = Merged(d, l)
  BY DEF Found
<1>4. ASSUME NEW h \in d
      PROVE  h \in HitSet /\ h.status \in statuses /\ Held(since, h.key[2], h.status)
  <2>1. d \in DenseHits(failure, statuses)
    BY <1>3, <1>4
  <2>2. PICK k \in Holds(points) : points[k] \in statuses /\ h = [key |-> k, status |-> points[k]]
    BY <1>4, <2>1 DEF DenseHits, Top
  <2>3. k \in Keys /\ k \in CollectionSet \X Ids /\ points[k] \in Marks
    BY <1>1, RecallAssumption DEF Holds, Snapshots
  <2>4. h \in HitSet /\ h.key = k /\ h.status = points[k]
    BY <2>2, <2>3 DEF HitSet
  <2>5. Len(past) \in 1..Len(past)
    BY <1>1
  <2> QED
    BY <1>1, <1>2, <2>2, <2>3, <2>4, <2>5 DEF Held
<1>5. ASSUME NEW h \in l
      PROVE  h \in HitSet /\ h.status \in statuses /\ Held(since, h.key[2], h.status)
  <2>1. l \in LexicalHits(IndexUsed, statuses)
    BY <1>3, <1>5
  <2> DEFINE docs == IndexUsed.documents
  <2>2. PICK k \in DOMAIN docs : docs[k] \in statuses /\ h = [key |-> k, status |-> docs[k]]
    BY <1>5, <2>1 DEF LexicalHits, Hits, Top
  <2>3. k \in CollectionSet \X Ids /\ docs[k] \in Marks /\ Held(IndexUsed.since, k[2], docs[k])
    BY <1>1 DEF IndexFits
  <2>4. Held(since, k[2], docs[k])
    BY <1>1, <2>3, HeldEarlier
  <2> HIDE DEF docs
  <2>5. h \in HitSet /\ h.key = k /\ h.status = docs[k]
    BY <2>2, <2>3 DEF HitSet
  <2> QED
    BY <2>2, <2>4, <2>5
<1>6. found \subseteq d \cup l
  BY <1>3 DEF Merged
<1> QED
  BY <1>4, <1>5, <1>6

\* Indexes and listings stay fit when Qdrant changes: its history only grows.
LEMMA FitsStay ==
  ASSUME StoreFits,
         UNCHANGED past \/ \E pts \in Snapshots : past' = Append(past, pts)
  PROVE  /\ \A idx : IndexFits(idx) => IndexFits(idx)'
         /\ \A list : ListFits(list) => ListFits(list)'
<1>1. /\ Len(past') >= Len(past) /\ Len(past) \in Nat \ {0} /\ Len(past') \in Nat
      /\ \A n \in 1..Len(past) : past'[n] = past[n]
      /\ \A since, id, status : Held(since, id, status) => Held(since, id, status)'
  BY HeldStays
<1>2. ASSUME NEW idx, IndexFits(idx) PROVE IndexFits(idx)'
  <2>1. idx.since \in Nat /\ idx.since <= Len(past')
    BY <1>1, <1>2 DEF IndexFits
  <2> QED
    BY <1>1, <1>2, <2>1 DEF IndexFits
<1>3. ASSUME NEW list, ListFits(list) PROVE ListFits(list)'
  <2>1. list.since \in 1..Len(past) /\ list.since \in 1..Len(past')
    BY <1>1, <1>3 DEF ListFits
  <2> QED
    BY <1>1, <1>3, <2>1 DEF ListFits
<1> QED
  BY <1>2, <1>3

\* As long as nobody writes to Qdrant.
LEMMA StoreUnchanged ==
  ASSUME StoreFits, UNCHANGED storeVars
  PROVE  /\ StoreFits' /\ UNCHANGED <<points, past>>
         /\ Len(past) \in Nat \ {0} /\ Len(past') \in Nat /\ Len(past') = Len(past)
         /\ \A idx : IndexFits(idx) => IndexFits(idx)'
         /\ \A list : ListFits(list) => ListFits(list)'
         /\ \A since, id, status : Held(since, id, status) => Held(since, id, status)'
<1>1. UNCHANGED <<points, past>>
  BY DEF storeVars
<1>2. StoreFits'
  BY <1>1 DEF StoreFits
<1>3. Len(past) \in Nat \ {0}
  BY DEF StoreFits
<1> QED
  BY <1>1, <1>2, <1>3, FitsStay, HeldStays

\* An index built from a listing dates from it.
LEMMA StampedSince == \A list : Stamped(list).since = list.since
BY DEF Stamped

\* The index that a pass would use gets no older, unless the server loads another.
LEMMA UsedLater ==
  ASSUME StoreFits, CachesFit, IndexesFit, UNCHANGED lexical,
         Len(past') >= Len(past), Len(past') \in Nat,
         \/ UNCHANGED <<memories, memoriesFresh>>
         \/ memoriesFresh' = FALSE
         \/ memories' = Listed
  PROVE  IndexUsed.since <= IndexUsed'.since /\ IndexUsed.since \in Nat
<1>1. /\ ListFits(Listed) /\ Listed.since \in Nat /\ Listed.since <= Len(past)
      /\ Len(past) \in Nat
  BY ListedFits DEF ListFits, Listings, StoreFits
<1>2. Listed.since <= Listed'.since
  <2>1. CASE memoriesFresh'
    <3>1. Listed' = memories'
      BY <2>1 DEF Listed
    <3>2. memories' = Listed
      BY <2>1 DEF Listed
    <3> QED
      BY <1>1, <3>1, <3>2
  <2>2. CASE ~memoriesFresh'
    <3>1. Listed'.since = Len(past')
      BY <2>2 DEF Listed
    <3> QED
      BY <1>1, <3>1
  <2> QED
    BY <2>1, <2>2
<1>3. lexical.since \in Nat /\ IsEmpty(lexical)' = IsEmpty(lexical)
  BY DEF IndexesFit, IndexFits, IsEmpty
<1>4. /\ IndexUsed.since = IF IsEmpty(lexical) THEN Listed.since ELSE lexical.since
      /\ IndexUsed'.since = IF IsEmpty(lexical)' THEN Listed'.since ELSE lexical'.since
  BY StampedSince DEF IndexUsed
<1> QED
  BY <1>1, <1>2, <1>3, <1>4

\* The request stays fit while others act.
LEMMA RequestStays ==
  ASSUME RecallInv, UNCHANGED <<request, server, lexical>>,
         UNCHANGED past \/ \E pts \in Snapshots : past' = Append(past, pts),
         \/ UNCHANGED <<memories, memoriesFresh>>
         \/ memoriesFresh' = FALSE
         \/ memories' = Listed
  PROVE  RequestFits'
<1>1. /\ StoreFits /\ CachesFit /\ IndexesFit /\ RequestFits
      /\ request \in Requests /\ request.since \in Nat /\ request.since <= Len(past)
  BY DEF RecallInv, RequestFits, Requests
<1>2. /\ Len(past') >= Len(past) /\ Len(past') \in Nat /\ Len(past) \in Nat
      /\ \A since, id, status : Held(since, id, status) => Held(since, id, status)'
  BY <1>1, HeldStays
<1>3. IndexUsed.since <= IndexUsed'.since /\ IndexUsed.since \in Nat
  BY <1>1, <1>2, UsedLater
<1>4. IndexUsed'.since \in Nat
  <2>1. Listed'.since \in Nat /\ lexical'.since \in Nat
    <3>1. ListFits(Listed) /\ ListFits(memories) /\ IndexFits(lexical)
      BY <1>1, ListedFits DEF CachesFit, IndexesFit
    <3> QED
      BY <1>2, <3>1 DEF Listed, ListFits, Listings, IndexFits
  <2> QED
    BY <2>1, StampedSince DEF IndexUsed
<1>5. request.since <= Len(past')
  BY <1>1, <1>2
<1>6. request.pc = "second" => request.since <= IndexUsed'.since
  <2>1. request.pc = "second" => request.since <= IndexUsed.since
    BY <1>1 DEF RequestFits
  <2> QED
    BY <1>1, <1>3, <1>4, <2>1
<1>7. \A h \in request.found : Held(request.since, h.key[2], h.status)'
  BY <1>1, <1>2 DEF RequestFits
<1>8. FailureReported'
  BY <1>1 DEF RequestFits, FailureReported
<1> QED
  BY <1>1, <1>5, <1>6, <1>7, <1>8 DEF RequestFits

\* No request is a fit request.
LEMMA IdleFits == ASSUME request' = Idle, Len(past') \in Nat PROVE RequestFits'
<1>1. 0 \in Sizes
  BY DEF Sizes
<1>2. /\ Idle \in Requests /\ Idle.pc = "idle" /\ Idle.found = {} /\ Idle.failed = {}
      /\ Idle.since = 0
  BY <1>1 DEF Idle, Requests, Reasons, Failures
<1>3. 0 <= Len(past')
  OBVIOUS
<1> QED
  BY <1>2, <1>3 DEF RequestFits, FailureReported

\* The caches after a pass.
LEMMA EffectsFit ==
  ASSUME StoreFits, CachesFit, UNCHANGED storeVars,
         NEW mode, NEW failure, NEW listFails \in BOOLEAN, NEW listed \in BOOLEAN,
         PassEffects(mode, failure, listFails, listed)
  PROVE  CachesFit' /\ (UNCHANGED <<memories, memoriesFresh>> \/ memories' = Listed)
<1>1. \/ UNCHANGED <<memories, memoriesFresh>>
      \/ memories' = Listed /\ memoriesFresh' = TRUE
  BY DEF PassEffects, List
<1>2. \A list : ListFits(list) => ListFits(list)'
  BY StoreUnchanged
<1>3. ListFits(memories)' /\ memoriesFresh' \in BOOLEAN
  <2>1. ListFits(memories) /\ ListFits(Listed) /\ memoriesFresh \in BOOLEAN
    BY ListedFits DEF CachesFit
  <2>2. memories' = memories \/ memories' = Listed
    BY <1>1
  <2> QED
    BY <1>1, <1>2, <2>1, <2>2
<1>4. dims' \in [CollectionSet -> {"unread", "known", "unknown"}]
  <2>1. dims \in [CollectionSet -> {"unread", "known", "unknown"}]
    BY DEF CachesFit
  <2>2. CASE mode = "keyword"
    BY <2>1, <2>2 DEF PassEffects
  <2>3. CASE mode # "keyword"
    <3>1. dims' = Dimensions(failure)
      BY <2>3 DEF PassEffects
    <3>2. \A c \in CollectionSet : failure = <<"dimension", c>> => dims[c] = "unread"
      BY DEF PassEffects
    <3>3. \A c \in CollectionSet : failure = <<"dimension", c>> => failure # NoEmbedding
      BY DEF NoEmbedding
    <3>4. ASSUME NEW c \in CollectionSet
          PROVE  (CASE failure = NoEmbedding \/ dims[c] # "unread" -> dims[c]
                    [] failure = <<"dimension", c>> -> "unknown"
                    [] OTHER -> "known") \in {"unread", "known", "unknown"}
      <4>1. CASE failure = NoEmbedding \/ dims[c] # "unread"
        BY <2>1, <3>2, <3>3, <4>1
      <4>2. CASE ~(failure = NoEmbedding \/ dims[c] # "unread")
        BY <4>2
      <4> QED
        BY <4>1, <4>2
    <3> QED
      BY <3>1, <3>4 DEF Dimensions
  <2> QED
    BY <2>2, <2>3
<1> QED
  BY <1>1, <1>3, <1>4 DEF CachesFit

\* At first there is no index, no request and no pool.
LEMMA RecallInvInit == RecallInit => RecallInv
<1> SUFFICES ASSUME RecallInit PROVE RecallInv
  OBVIOUS
<1>1. /\ points = InitialPoints /\ past = <<points>>
      /\ memories = [points |-> points, since |-> 1] /\ memoriesFresh = FALSE
      /\ dims = [c \in CollectionSet |-> "unread"]
      /\ lexical = NoIndex /\ lexicalFile = NoIndex /\ job = NoJob
      /\ request = Idle /\ pool = NoPool /\ rankings = <<>>
  BY DEF RecallInit
<1>2. points \in Snapshots
  BY <1>1, RecallAssumption DEF Snapshots, Marks
<1>3. past \in Seq(Snapshots) /\ Len(past) = 1 /\ past[1] = points
  BY <1>1, <1>2
<1>4. StoreFits
  BY <1>2, <1>3 DEF StoreFits
<1>5. CachesFit
  <2>1. memories \in Listings /\ memories.since = 1 /\ memories.points = points
    BY <1>1, <1>2 DEF Listings
  <2>2. 1 \in 1..Len(past)
    BY <1>3
  <2>3. dims \in [CollectionSet -> {"unread", "known", "unknown"}]
    BY <1>1
  <2> HIDE DEF RecallInit
  <2>4. ListFits(memories)
    BY <1>3, <2>1, <2>2 DEF ListFits
  <2> QED
    BY <1>1, <2>3, <2>4 DEF CachesFit
<1>6. IndexesFit
  BY <1>1, <1>4, NoIndexFits DEF IndexesFit, NoJob
<1>7. RequestFits
  <2>1. 0 \in Sizes
    BY DEF Sizes
  <2>2. /\ Idle \in Requests /\ Idle.pc = "idle" /\ Idle.found = {} /\ Idle.failed = {}
        /\ Idle.since = 0
    BY <2>1 DEF Idle, Requests, Reasons, Failures
  <2> QED
    BY <1>1, <1>3, <2>2 DEF RequestFits, FailureReported
<1>8. PoolFits
  <2>1. /\ NoPool \in Pools /\ NoPool.step = "none" /\ OfStatus(NoPool.dense)
        /\ OfStatus(NoPool.lexical)
    BY DEF NoPool, Nothing, Pools, OfStatus
  <2>2. DOMAIN rankings = {}
    BY <1>1
  <2> QED
    BY <1>1, <2>1, <2>2 DEF PoolFits
<1> QED
  BY <1>4, <1>5, <1>6, <1>7, <1>8 DEF RecallInv

\* The candidates of an evaluation do not depend on what others do.
LEMMA PoolStays == PoolFits /\ UNCHANGED evalVars => PoolFits'
BY DEF PoolFits, RankingFits, Ranked, evalVars

\* Another process changes a memory: what has been found has still been so.
LEMMA ChangeKeeps ==
  ASSUME RecallInv, NEW k \in Keys, NEW s \in Statuses \cup {"absent"}, ChangePoint(k, s)
  PROVE  RecallInv'
<1>1. /\ points' = [points EXCEPT ![k] = s] /\ past' = Append(past, points')
      /\ UNCHANGED <<cacheVars, serverVars, job, request, evalVars>>
  BY DEF ChangePoint
<1>2. UNCHANGED <<memories, memoriesFresh, dims, server, lexical, lexicalFile, job, request>>
  BY <1>1 DEF cacheVars, serverVars
<1>3. StoreFits /\ CachesFit /\ IndexesFit /\ PoolFits
  BY DEF RecallInv
<1>4. points' \in Snapshots
  BY <1>1, <1>3 DEF StoreFits, Snapshots, Marks
<1>5. StoreFits'
  <2>1. past \in Seq(Snapshots)
    BY <1>3 DEF StoreFits
  <2>2. past' \in Seq(Snapshots) /\ past' # <<>> /\ past'[Len(past')] = points'
    BY <1>1, <1>4, <2>1
  <2> QED
    BY <1>4, <2>2 DEF StoreFits
<1>6. \E pts \in Snapshots : past' = Append(past, pts)
  BY <1>1, <1>4
<1>7. CachesFit' /\ IndexesFit'
  BY <1>2, <1>3, <1>6, FitsStay DEF CachesFit, IndexesFit
<1>8. RequestFits'
  BY <1>2, <1>6, RequestStays
<1> QED
  BY <1>1, <1>3, <1>5, <1>7, <1>8, PoolStays DEF RecallInv

\* The cache expires: the next listing is a later one.
LEMMA ExpireKeeps == RecallInv /\ Expire => RecallInv'
<1> SUFFICES ASSUME RecallInv, Expire PROVE RecallInv'
  OBVIOUS
<1>1. /\ memoriesFresh' = FALSE
      /\ UNCHANGED <<storeVars, memories, dims, serverVars, job, request, evalVars>>
  BY DEF Expire
<1>2. UNCHANGED <<server, lexical, lexicalFile, job, request, past>>
  BY <1>1 DEF serverVars, storeVars
<1>3. StoreFits /\ CachesFit /\ IndexesFit /\ PoolFits
  BY DEF RecallInv
<1>4. StoreFits' /\ CachesFit' /\ IndexesFit'
  BY <1>1, <1>2, <1>3, StoreUnchanged DEF CachesFit, IndexesFit
<1>5. RequestFits'
  BY <1>1, <1>2, RequestStays
<1> QED
  BY <1>1, <1>3, <1>4, <1>5, PoolStays DEF RecallInv

\* The server loads the index file at its start and writes it back at its end.
LEMMA ServerKeeps == RecallInv /\ (StartServer \/ StopServer) => RecallInv'
<1> SUFFICES ASSUME RecallInv, StartServer \/ StopServer PROVE RecallInv'
  OBVIOUS
<1>1. StoreFits /\ CachesFit /\ IndexesFit /\ RequestFits /\ PoolFits
  BY DEF RecallInv
<1>2. UNCHANGED <<storeVars, job, request, evalVars>>
  BY DEF StartServer, StopServer
<1>3. /\ StoreFits' /\ Len(past') \in Nat /\ Len(past) \in Nat \ {0} /\ UNCHANGED <<points, past>>
      /\ \A idx : IndexFits(idx) => IndexFits(idx)'
      /\ \A list : ListFits(list) => ListFits(list)'
  BY <1>1, <1>2, StoreUnchanged
<1>4. request = Idle
  BY <1>1 DEF StartServer, StopServer, RequestFits
<1>5. RequestFits'
  BY <1>2, <1>3, <1>4, IdleFits
<1>6. IndexesFit'
  <2>1. /\ lexical' \in {lexicalFile, NoIndex} /\ lexicalFile' \in {lexicalFile, lexical}
        /\ job' = job
    BY <1>2 DEF StartServer, StopServer
  <2>2. IndexFits(NoIndex)
    BY <1>1, NoIndexFits
  <2> QED
    BY <1>1, <1>3, <2>1, <2>2 DEF IndexesFit
<1>7. CachesFit'
  <2>1. CASE StartServer
    <3>1. /\ dims' = [c \in CollectionSet |-> "unread"] /\ memoriesFresh' \in BOOLEAN
          /\ memories' \in {memories, [points |-> points, since |-> Len(past)]}
      BY <2>1 DEF StartServer
    <3>2. ListFits([points |-> points, since |-> Len(past)])
      BY <1>1 DEF StoreFits, ListFits, Listings
    <3> QED
      BY <1>1, <1>3, <3>1, <3>2 DEF CachesFit
  <2>2. CASE StopServer
    BY <1>1, <1>3, <2>2 DEF StopServer, cacheVars, CachesFit
  <2> QED
    BY <2>1, <2>2
<1> QED
  BY <1>1, <1>2, <1>3, <1>5, <1>6, <1>7, PoolStays DEF RecallInv

\* The refresh job: its index dates from when it began to read.
LEMMA RefreshKeeps ==
  ASSUME RecallInv, \/ \E c \in CollectionSet : RefreshCollection(c)
                    \/ RefreshSave
                    \/ RefreshFails
  PROVE  RecallInv'
<1>1. StoreFits /\ CachesFit /\ IndexesFit /\ RequestFits /\ PoolFits
  BY DEF RecallInv
<1>2. UNCHANGED <<storeVars, cacheVars, server, lexical, request, evalVars>>
  BY DEF RefreshCollection, RefreshSave, RefreshFails, serverVars
<1>3. /\ StoreFits' /\ Len(past) \in Nat \ {0} /\ UNCHANGED <<points, past>>
      /\ \A idx : IndexFits(idx) => IndexFits(idx)'
      /\ \A list : ListFits(list) => ListFits(list)'
  BY <1>1, <1>2, StoreUnchanged
<1>4. CachesFit' /\ UNCHANGED <<memories, memoriesFresh>>
  BY <1>1, <1>2, <1>3 DEF cacheVars, CachesFit
<1>5. RequestFits'
  BY <1>2, <1>3, <1>4, RequestStays
<1>6. IndexesFit'
  <2>1. ASSUME NEW c \in CollectionSet, RefreshCollection(c) PROVE IndexesFit'
    <3> DEFINE docs == {k \in Holds(points) : k[1] = c}
               base == job.index.documents
               text == [k \in DOMAIN base \cup docs |-> IF k \in docs THEN points[k] ELSE base[k]]
               since == IF job.read = {} THEN Len(past) ELSE job.index.since
    <3>1. /\ job' = [read |-> job.read \cup {c}, index |-> [documents |-> text, since |-> since]]
          /\ lexicalFile' = lexicalFile
      BY <2>1 DEF RefreshCollection, serverVars
    <3>2. IndexFits(job.index) /\ (job.read = {} => job.index = NoIndex)
      BY <1>1 DEF IndexesFit
    <3>3. since \in Nat /\ since <= Len(past)
      BY <1>3, <3>2 DEF IndexFits
    <3>4. ASSUME NEW k \in docs
          PROVE  k \in CollectionSet \X Ids /\ points[k] \in Marks /\ Held(since, k[2], points[k])
      <4>1. k \in Keys /\ points \in Snapshots /\ past[Len(past)] = points
        BY <1>1 DEF Holds, StoreFits
      <4>2. k \in CollectionSet \X Ids /\ points[k] \in Marks
        BY <4>1, RecallAssumption DEF Snapshots
      <4>3. Len(past) \in 1..Len(past)
        BY <1>3
      <4> HIDE DEF since, docs
      <4> QED
        BY <3>3, <4>1, <4>2, <4>3 DEF Held
    <3>5. ASSUME NEW k \in DOMAIN base
          PROVE  /\ k \in CollectionSet \X Ids /\ base[k] \in Marks
                 /\ Held(since, k[2], base[k])
      <4>1. job.read # {}
        BY <3>2, <3>5 DEF NoIndex
      <4> QED
        BY <3>2, <3>5, <4>1 DEF IndexFits
    <3>6. ASSUME NEW k \in DOMAIN text
          PROVE  k \in CollectionSet \X Ids /\ text[k] \in Marks /\ Held(since, k[2], text[k])
      <4>1. k \in docs \/ (k \notin docs /\ k \in DOMAIN base)
        OBVIOUS
      <4>2. text[k] = IF k \in docs THEN points[k] ELSE base[k]
        OBVIOUS
      <4> HIDE DEF text, docs, base, since
      <4> QED
        BY <3>4, <3>5, <4>1, <4>2
    <3> DEFINE idx == [documents |-> text, since |-> since]
    <3>7. IndexFits(idx)
      <4> HIDE DEF text, since
      <4>1. idx.documents = text /\ idx.since = since
        OBVIOUS
      <4> QED
        BY <3>3, <3>6, <4>1 DEF IndexFits
    <3>8. job'.index = idx /\ job'.read # {}
      <4> HIDE DEF text, since
      <4> QED
        BY <3>1
    <3> HIDE DEF idx
    <3> QED
      BY <1>1, <1>2, <1>3, <3>1, <3>7, <3>8 DEF IndexesFit
  <2>2. CASE RefreshSave \/ RefreshFails
    <3>1. /\ lexicalFile' \in {lexicalFile, job.index} /\ job' = NoJob
      BY <2>2 DEF RefreshSave, RefreshFails, serverVars
    <3>2. NoJob.read = {} /\ NoJob.index = NoIndex /\ IndexFits(NoIndex)
      BY <1>1, NoIndexFits DEF NoJob
    <3> QED
      BY <1>1, <1>2, <1>3, <3>1, <3>2 DEF IndexesFit
  <2> QED
    BY <2>1, <2>2
<1> QED
  BY <1>1, <1>2, <1>3, <1>4, <1>5, <1>6, PoolStays DEF RecallInv

\* The response leaves, and with it what was found.
LEMMA DeliverKeeps == RecallInv /\ Deliver => RecallInv'
<1> SUFFICES ASSUME RecallInv, Deliver PROVE RecallInv'
  OBVIOUS
<1>1. StoreFits /\ CachesFit /\ IndexesFit /\ PoolFits
  BY DEF RecallInv
<1>2. request' = Idle /\ UNCHANGED <<storeVars, cacheVars, serverVars, job, evalVars>>
  BY DEF Deliver
<1>3. /\ StoreFits' /\ Len(past') \in Nat
      /\ \A idx : IndexFits(idx) => IndexFits(idx)'
      /\ \A list : ListFits(list) => ListFits(list)'
  BY <1>1, <1>2, StoreUnchanged
<1>4. CachesFit' /\ IndexesFit'
  BY <1>1, <1>2, <1>3 DEF CachesFit, IndexesFit, cacheVars, serverVars
<1>5. RequestFits'
  BY <1>2, <1>3, IdleFits
<1> QED
  BY <1>1, <1>2, <1>3, <1>4, <1>5, PoolStays DEF RecallInv

\* A request begins with an index of the server, of the file, of the list, or with none.
LEMMA BeginKeeps ==
  ASSUME RecallInv, NEW mode \in {"keyword", "dense", "hybrid"},
         NEW asked \in {{"active"}, Statuses}, BeginRecall(mode, asked)
  PROVE  RecallInv'
<1>1. StoreFits /\ CachesFit /\ IndexesFit /\ PoolFits
  BY DEF RecallInv
<1>2. /\ UNCHANGED <<storeVars, dims, server, job, evalVars>> /\ server = "up"
      /\ request' = [Idle EXCEPT !.pc = "first", !.mode = mode, !.asked = asked]
  BY DEF BeginRecall
<1>3. /\ StoreFits' /\ Len(past') \in Nat
      /\ \A idx : IndexFits(idx) => IndexFits(idx)'
      /\ \A list : ListFits(list) => ListFits(list)'
  BY <1>1, <1>2, StoreUnchanged
<1>4. ListFits(Listed) /\ IndexFits(Stamped(Listed))
  BY <1>1, ListedFits, StampedFits
<1>5. /\ lexical' \in {lexical, lexicalFile, Stamped(Listed)}
      /\ lexicalFile' \in {lexicalFile, Stamped(Listed)}
      /\ memories' \in {memories, Listed} /\ memoriesFresh' \in {memoriesFresh, TRUE}
  BY DEF BeginRecall, List
<1>6. CachesFit'
  <2>1. ListFits(memories)' /\ memoriesFresh' \in BOOLEAN
    BY <1>1, <1>3, <1>4, <1>5 DEF CachesFit
  <2> QED
    BY <1>1, <1>2, <2>1 DEF CachesFit
<1>7. IndexesFit'
  <2>1. IndexFits(lexical)' /\ IndexFits(lexicalFile)' /\ IndexFits(job.index)'
    BY <1>1, <1>2, <1>3, <1>4, <1>5 DEF IndexesFit
  <2> QED
    BY <1>1, <1>2, <2>1 DEF IndexesFit
<1>8. RequestFits'
  <2>1. 0 \in Sizes
    BY DEF Sizes
  <2>2. asked \in SUBSET Statuses
    BY DEF Statuses
  <2>3. /\ request' \in Requests /\ request'.pc = "first" /\ request'.found = {}
        /\ request'.failed = {} /\ request'.since = 0
    BY <1>2, <2>1, <2>2 DEF Idle, Requests, Reasons, Failures
  <2>4. 0 <= Len(past') /\ server' = "up"
    BY <1>2, <1>3
  <2> QED
    BY <2>3, <2>4 DEF RequestFits, FailureReported
<1> QED
  BY <1>1, <1>2, <1>3, <1>6, <1>7, <1>8, PoolStays DEF RecallInv

\* A failure of the pass is the reason; without one the reason stays.
LEMMA ReasonFits ==
  ASSUME NEW old \in Reasons, NEW mode, NEW failure, NEW listFails
  PROVE  LET failed == Failed(mode, failure, listFails)
             reason == Reason(old, failed)
         IN  /\ failed \in SUBSET Failures /\ reason \in Reasons
             /\ failed # {} => reason \in failed
             /\ failed = {} => reason = old
<1> DEFINE failed == Failed(mode, failure, listFails)
<1>1. failed \in SUBSET Failures
  BY DEF Failed, Failures
<1> HIDE DEF failed
<1>2. \/ "lexical_unavailable" \in failed /\ Reason(old, failed) = "lexical_unavailable"
      \/ failed = {"embedding_unavailable"} /\ Reason(old, failed) = "embedding_unavailable"
      \/ failed = {} /\ Reason(old, failed) = old
  <2>1. CASE "lexical_unavailable" \in failed
    BY <2>1 DEF Reason
  <2>2. CASE failed = {"embedding_unavailable"}
    BY <2>2 DEF Reason
  <2>3. CASE failed = {}
    BY <2>3 DEF Reason
  <2> QED
    BY <1>1, <2>1, <2>2, <2>3 DEF Failures
<1>3. /\ Reason(old, failed) \in Reasons
      /\ failed # {} => Reason(old, failed) \in failed
      /\ failed = {} => Reason(old, failed) = old
  BY <1>2 DEF Reasons, Failures
<1> QED
  BY <1>1, <1>3 DEF failed

\* The first pass.
LEMMA FirstKeeps ==
  ASSUME RecallInv, NEW failure, NEW listFails \in BOOLEAN, FirstPass(failure, listFails)
  PROVE  RecallInv'
<1>1. StoreFits /\ CachesFit /\ IndexesFit /\ PoolFits /\ RequestFits
  BY DEF RecallInv
<1>2. /\ UNCHANGED <<storeVars, serverVars, job, evalVars>>
      /\ PassEffects(request.mode, failure, listFails, FALSE) /\ request.pc = "first"
  BY DEF FirstPass
<1>3. /\ StoreFits' /\ Len(past) \in Nat \ {0} /\ Len(past') \in Nat /\ Len(past') = Len(past)
      /\ UNCHANGED past
      /\ \A idx : IndexFits(idx) => IndexFits(idx)'
      /\ \A since, id, status : Held(since, id, status) => Held(since, id, status)'
  BY <1>1, <1>2, StoreUnchanged
<1>4. CachesFit' /\ (UNCHANGED <<memories, memoriesFresh>> \/ memories' = Listed)
  BY <1>1, <1>2, EffectsFit
<1>5. IndexesFit' /\ UNCHANGED <<server, lexical>>
  BY <1>1, <1>2, <1>3 DEF IndexesFit, serverVars
<1> DEFINE failed == Failed(request.mode, failure, listFails)
           why == Reason("none", failed)
<1>6. PICK found \in Found(request.mode, request.asked, failure, listFails) :
        request' = [request EXCEPT !.pc = "second", !.found = found, !.failed = failed,
                        !.reason = why, !.since = IndexUsed.since]
  BY DEF FirstPass
<1>7. /\ IndexFits(IndexUsed) /\ IndexUsed.since \in Nat /\ IndexUsed.since <= Len(past)
      /\ IndexUsed.since <= IndexUsed.since
  BY <1>1, IndexUsedFits DEF IndexFits
<1>8. /\ found \subseteq HitSet
      /\ \A h \in found : /\ h.status \in request.asked
                          /\ Held(IndexUsed.since, h.key[2], h.status)
  BY <1>1, <1>6, <1>7, FoundFits
<1>9. why \in Reasons /\ failed \in SUBSET Failures /\ (failed # {} => why \in failed)
  BY ReasonFits DEF Reasons
<1> HIDE DEF failed, why
<1>11. /\ request' \in Requests /\ request'.pc = "second" /\ request'.found = found
       /\ request'.failed = failed /\ request'.reason = why
       /\ request'.since = IndexUsed.since /\ request'.asked = request.asked
  <2>1. request \in Requests
    BY <1>1 DEF RequestFits
  <2> QED
    BY <1>6, <1>7, <1>8, <1>9, <2>1 DEF Requests
<1>12. IndexUsed.since <= IndexUsed'.since
  <2>1. Len(past') >= Len(past) /\ lexical' = lexical
    BY <1>3, <1>5
  <2> QED
    BY <1>1, <1>3, <1>4, <2>1, UsedLater
<1>13. FailureReported'
  BY <1>9, <1>11 DEF FailureReported
<1>14. \A h \in request'.found : /\ h.status \in request'.asked
                                 /\ Held(request.since, h.key[2], h.status)'
  BY <1>3, <1>8, <1>11
<1>15. server' # "down"
  <2>1. Idle.pc = "idle"
    BY DEF Idle
  <2> QED
    BY <1>1, <1>2, <1>5, <2>1 DEF RequestFits
<1>16. request'.since <= Len(past')
  BY <1>3, <1>7, <1>11
<1> QED
  BY <1>1, <1>2, <1>3, <1>4, <1>5, <1>11, <1>12, <1>13, <1>14, <1>15, <1>16, PoolStays
     DEF RecallInv, RequestFits

\* A response is what one of the passes has found, cut to the limit.
LEMMA RespondFits ==
  ASSUME RecallInv, NEW found \in SUBSET HitSet, NEW used \in BOOLEAN, NEW added \in Sizes,
         NEW failed \in SUBSET Failures, NEW reason \in Reasons,
         Respond(found, used, added, failed, reason), request.pc = "second",
         \A h \in found : Held(request.since, h.key[2], h.status),
         "superseded" \notin request.asked =>
            \/ \A h \in found : h.status = "active"
            \/ used /\ \A h \in found : h.status = "superseded",
         failed # {} => reason \in failed
  PROVE  RequestFits'
<1>1. StoreFits /\ RequestFits
  BY DEF RecallInv
<1>2. PICK hits \in Top(found, Limit) :
        request' = [request EXCEPT !.pc = "respond", !.found = hits, !.used = used,
                        !.added = added, !.failed = failed, !.reason = reason]
  BY DEF Respond
<1>3. hits \subseteq found
  BY DEF Top
<1>4. request \in Requests /\ request.since <= Len(past)
  BY <1>1 DEF RequestFits
<1>5. /\ request' \in Requests /\ request'.pc = "respond" /\ request'.found = hits
      /\ request'.used = used /\ request'.failed = failed /\ request'.reason = reason
      /\ request'.since = request.since /\ request'.asked = request.asked
  BY <1>2, <1>3, <1>4 DEF Requests
<1>6. UNCHANGED <<storeVars, serverVars>>
  BY DEF Respond
<1>7. /\ Len(past') = Len(past)
      /\ \A since, id, status : Held(since, id, status) => Held(since, id, status)'
  BY <1>1, <1>6, StoreUnchanged
<1>8. server' # "down"
  <2>1. Idle.pc = "idle" /\ server' = server
    BY <1>6 DEF Idle, serverVars
  <2> QED
    BY <1>1, <2>1 DEF RequestFits
<1>9. FailureReported'
  BY <1>5 DEF FailureReported
<1>10. \A h \in request'.found : Held(request.since, h.key[2], h.status)'
  BY <1>3, <1>5, <1>7
<1>11. request'.since <= Len(past')
  BY <1>4, <1>5, <1>7
<1>12. "superseded" \notin request'.asked =>
          \/ \A h \in request'.found : h.status = "active"
          \/ request'.used /\ \A h \in request'.found : h.status = "superseded"
  BY <1>3, <1>5
<1> QED
  BY <1>5, <1>8, <1>9, <1>10, <1>11, <1>12 DEF RequestFits

\* What the other parts of the system are after a response.
LEMMA RespondKeeps ==
  ASSUME RecallInv, NEW found, NEW used, NEW added, NEW failed, NEW reason,
         Respond(found, used, added, failed, reason), RequestFits', CachesFit'
  PROVE  RecallInv'
<1>1. StoreFits /\ IndexesFit /\ PoolFits
  BY DEF RecallInv
<1>2. UNCHANGED <<storeVars, serverVars, job, evalVars>>
  BY DEF Respond
<1>3. StoreFits' /\ \A idx : IndexFits(idx) => IndexFits(idx)'
  BY <1>1, <1>2, StoreUnchanged
<1>4. IndexesFit'
  BY <1>1, <1>2, <1>3 DEF IndexesFit, serverVars
<1> QED
  BY <1>1, <1>2, <1>3, <1>4, PoolStays DEF RecallInv

\* What is known of a request that has passed once.
LEMMA SecondFacts ==
  ASSUME RecallInv, request.pc = "second"
  PROVE  /\ request.found \in SUBSET HitSet /\ request.failed \in SUBSET Failures
         /\ request.reason \in Reasons /\ request.since \in Nat
         /\ request.since <= IndexUsed.since
         /\ \A h \in request.found : Held(request.since, h.key[2], h.status)
         /\ "superseded" \notin request.asked => \A h \in request.found : h.status = "active"
         /\ request.failed # {} => request.reason \in request.failed
         /\ 0 \in Sizes
<1>1. RequestFits /\ request \in Requests
  BY DEF RecallInv, RequestFits
<1>2. \A h \in request.found : h.status \in request.asked
  BY <1>1 DEF RequestFits
<1>3. request.asked \subseteq {"active", "superseded"}
  BY <1>1 DEF Requests, Statuses
<1>4. /\ request.found \in SUBSET HitSet /\ request.failed \in SUBSET Failures
      /\ request.reason \in Reasons /\ request.since \in Nat
  BY <1>1 DEF Requests
<1>5. "superseded" \notin request.asked => \A h \in request.found : h.status = "active"
  BY <1>2, <1>3
<1>6. 0 \in Sizes
  BY DEF Sizes
<1> QED
  BY <1>1, <1>4, <1>5, <1>6 DEF RequestFits, FailureReported

\* A response without a second pass.
LEMMA DirectKeeps == RecallInv /\ (RespondDirectly \/ RespondWithoutFallback) => RecallInv'
<1> SUFFICES ASSUME RecallInv, RespondDirectly \/ RespondWithoutFallback PROVE RecallInv'
  OBVIOUS
<1>1. StoreFits /\ CachesFit /\ request.pc = "second"
  BY DEF RecallInv, RespondDirectly, RespondWithoutFallback
<1> DEFINE why == IF request.reason = "none" THEN "no_active_or_superseded" ELSE request.reason
<1>2. PICK reason \in {request.reason, why} :
        Respond(request.found, FALSE, 0, request.failed, reason)
  BY DEF RespondDirectly, RespondWithoutFallback
<1>3. /\ reason \in Reasons
      /\ request.failed # {} => reason \in request.failed
  BY <1>1, <1>2, SecondFacts DEF Reasons, Failures
<1> HIDE DEF why
<1>4. RequestFits'
  BY <1>1, <1>2, <1>3, SecondFacts, RespondFits
<1>5. /\ UNCHANGED <<storeVars, dims>>
      /\ memories' \in {memories, Listed} /\ memoriesFresh' \in {memoriesFresh, TRUE}
  BY DEF RespondDirectly, RespondWithoutFallback, cacheVars, List, Respond
<1>6. CachesFit'
  <2>1. ListFits(memories)' /\ memoriesFresh' \in BOOLEAN
    BY <1>1, <1>5, StoreUnchanged, ListedFits DEF CachesFit
  <2> QED
    BY <1>1, <1>5, <2>1 DEF CachesFit
<1> QED
  BY <1>2, <1>4, <1>6, RespondKeeps

\* The second pass uses an index that is no older, and finds superseded memories only.
LEMMA FallbackKeeps ==
  ASSUME RecallInv, NEW failure, NEW listFails \in BOOLEAN,
         RespondFromFallback(failure, listFails)
  PROVE  RecallInv'
<1>1. StoreFits /\ CachesFit /\ IndexesFit /\ request.pc = "second"
  BY DEF RecallInv, RespondFromFallback
<1>2. PassEffects(request.mode, failure, listFails, TRUE)
  BY DEF RespondFromFallback
<1> DEFINE failed == Failed(request.mode, failure, listFails)
           why == Reason(request.reason, failed)
<1>3. PICK extra \in Found(request.mode, {"superseded"}, failure, listFails) :
        Respond(IF request.found = {} THEN extra ELSE request.found, TRUE, Cardinality(extra),
                request.failed \cup failed, why)
  BY DEF RespondFromFallback
<1>4. UNCHANGED storeVars
  BY <1>3 DEF Respond
<1>5. CachesFit'
  BY <1>1, <1>2, <1>4, EffectsFit
<1>6. /\ extra \subseteq HitSet
      /\ \A h \in extra : h.status = "superseded" /\ Held(request.since, h.key[2], h.status)
  BY <1>1, <1>3, SecondFacts, FoundFits
<1>7. Cardinality(extra) \in Sizes
  BY <1>6 DEF Sizes
<1>8. /\ why \in Reasons /\ failed \in SUBSET Failures
      /\ failed # {} => why \in failed
      /\ failed = {} => why = request.reason
  BY <1>1, SecondFacts, ReasonFits
<1> HIDE DEF failed, why
<1> DEFINE found == IF request.found = {} THEN extra ELSE request.found
<1>10. /\ found \in SUBSET HitSet
       /\ \A h \in found : Held(request.since, h.key[2], h.status)
       /\ "superseded" \notin request.asked =>
             \/ \A h \in found : h.status = "active"
             \/ TRUE /\ \A h \in found : h.status = "superseded"
  BY <1>1, <1>6, SecondFacts
<1>11. request.failed \cup failed # {} => why \in request.failed \cup failed
  BY <1>1, <1>8, SecondFacts
<1>12. request.failed \cup failed \in SUBSET Failures
  BY <1>1, <1>8, SecondFacts
<1>13. Respond(found, TRUE, Cardinality(extra), request.failed \cup failed, why)
  BY <1>3
<1> HIDE DEF found
<1>14. RequestFits'
  BY <1>1, <1>7, <1>8, <1>10, <1>11, <1>12, <1>13, RespondFits
<1> QED
  BY <1>5, <1>13, <1>14, RespondKeeps

\* The evaluation.  A memory that Qdrant gives for a status has it.
LEMMA PointsOfStatus ==
  ASSUME StoreFits, NEW status \in Statuses
  PROVE  \A h \in PoolHits(status) : h \in HitSet /\ h.status = status
<1>1. \A k \in Keys : [key |-> k, status |-> status] \in HitSet
  BY RecallAssumption DEF HitSet, Marks
<1> QED
  BY <1>1 DEF PoolHits

\* The pool is built from Qdrant and a new listing, band by band.
LEMMA PoolKeeps ==
  ASSUME RecallInv, PoolActive \/ PoolRest
  PROVE  RecallInv'
<1>1. StoreFits /\ CachesFit /\ IndexesFit /\ RequestFits /\ PoolFits
  BY DEF RecallInv
<1>2. UNCHANGED <<storeVars, cacheVars, serverVars, job, request, rankings>>
  BY DEF PoolActive, PoolRest
<1>3. /\ StoreFits' /\ Len(past) \in Nat \ {0} /\ UNCHANGED past
      /\ \A idx : IndexFits(idx) => IndexFits(idx)'
      /\ \A list : ListFits(list) => ListFits(list)'
  BY <1>1, <1>2, StoreUnchanged
<1>4. CachesFit' /\ IndexesFit' /\ RequestFits'
  <2>1. UNCHANGED <<memories, memoriesFresh, server, lexical, request>>
    BY <1>2 DEF cacheVars, serverVars
  <2>2. RequestFits'
    BY <1>3, <2>1, RequestStays
  <2> QED
    BY <1>1, <1>2, <1>3, <2>2 DEF CachesFit, IndexesFit, cacheVars, serverVars
<1>5. \A s \in Statuses : BandFits(PoolHits(s), s)
  BY <1>1, PointsOfStatus DEF BandFits
<1>6. DOMAIN rankings = {} /\ pool \in Pools
  BY <1>1 DEF PoolFits, PoolActive, PoolRest
<1>7. ASSUME pool' \in Pools, OfStatus(pool'.dense), OfStatus(pool'.lexical) PROVE RecallInv'
  <2>1. OfStatus(pool.dense)' /\ OfStatus(pool.lexical)'
    BY <1>7 DEF OfStatus
  <2>2. PoolFits'
    BY <1>2, <1>6, <1>7, <2>1 DEF PoolFits
  <2> QED
    BY <1>3, <1>4, <2>2 DEF RecallInv
<1>8. /\ pool.dense \in [Statuses -> SUBSET HitSet] /\ pool.lexical \in [Statuses -> SUBSET HitSet]
      /\ OfStatus(pool.dense) /\ OfStatus(pool.lexical)
      /\ "active" \in Statuses /\ "superseded" \in Statuses
  BY <1>1, <1>6 DEF PoolFits, Pools, Statuses
<1>9. \A hits \in [Statuses -> SUBSET HitSet], s \in Statuses : OfStatus(hits) =>
         /\ [hits EXCEPT ![s] = PoolHits(s)] \in [Statuses -> SUBSET HitSet]
         /\ OfStatus([hits EXCEPT ![s] = PoolHits(s)])
  BY <1>5 DEF OfStatus, BandFits
<1>10. CASE PoolActive
  <2> DEFINE dense == [pool.dense EXCEPT !["active"] = PoolHits("active")]
  <2>1. dense \in [Statuses -> SUBSET HitSet] /\ OfStatus(dense)
    BY <1>8, <1>9
  <2>2. \/ pool' = [pool EXCEPT !.step = "half", !.dense = dense]
        \/ pool' = [pool EXCEPT !.step = "lexical"]
    BY <1>6, <1>10 DEF PoolActive, Pools
  <2> HIDE DEF dense
  <2>3. pool' \in Pools /\ pool'.dense \in {dense, pool.dense} /\ pool'.lexical = pool.lexical
    BY <1>6, <2>1, <2>2 DEF Pools
  <2> QED
    BY <1>7, <1>8, <2>1, <2>3
<1>11. CASE PoolRest
  <2> DEFINE idx == Stamped(Fresh)
             lex == [s \in Statuses |-> {h \in Hits(idx, DOMAIN idx.documents) : h.status = s}]
             dense == IF pool.step = "half"
                      THEN [pool.dense EXCEPT !["superseded"] = PoolHits("superseded")]
                      ELSE pool.dense
  <2>1. dense \in [Statuses -> SUBSET HitSet] /\ OfStatus(dense)
    BY <1>8, <1>9
  <2>2. lex \in [Statuses -> SUBSET HitSet] /\ OfStatus(lex)
    <3>1. ListFits(Fresh)
      BY <1>1 DEF Fresh, ListFits, Listings, StoreFits
    <3>2. IndexFits(idx)
      BY <1>1, <3>1, StampedFits
    <3> HIDE DEF idx
    <3>3. Hits(idx, DOMAIN idx.documents) \subseteq HitSet
      <4>1. ASSUME NEW k \in DOMAIN idx.documents
            PROVE  [key |-> k, status |-> idx.documents[k]] \in HitSet
        BY <3>2 DEF IndexFits, HitSet
      <4> QED
        BY <4>1 DEF Hits
    <3> QED
      BY <3>3 DEF OfStatus
  <2>3. Nothing \in [Statuses -> SUBSET HitSet] /\ OfStatus(Nothing)
    BY DEF Nothing, OfStatus
  <2>4. BuiltPool = [step |-> "built", dense |-> dense, lexical |-> lex]
    BY DEF BuiltPool
  <2>5. pool' = BuiltPool \/ pool' = [BuiltPool EXCEPT !.lexical = Nothing]
    BY <1>11 DEF PoolRest
  <2> HIDE DEF dense, lex
  <2>6. pool' \in Pools /\ pool'.dense = dense /\ pool'.lexical \in {lex, Nothing}
    BY <2>1, <2>2, <2>3, <2>4, <2>5 DEF Pools
  <2> QED
    BY <1>7, <2>1, <2>2, <2>3, <2>6
<1> QED
  BY <1>10, <1>11

\* Every policy ranks the pool that was built, which no longer changes.
LEMMA RankKeeps ==
  ASSUME RecallInv, NEW policy, RankPool(policy)
  PROVE  RecallInv'
<1>1. StoreFits /\ CachesFit /\ IndexesFit /\ RequestFits /\ PoolFits
  BY DEF RecallInv
<1>2. UNCHANGED <<storeVars, cacheVars, serverVars, job, request, pool>> /\ pool.step = "built"
  BY DEF RankPool
<1>3. /\ StoreFits' /\ UNCHANGED past
      /\ \A idx : IndexFits(idx) => IndexFits(idx)'
      /\ \A list : ListFits(list) => ListFits(list)'
  BY <1>1, <1>2, StoreUnchanged
<1>4. CachesFit' /\ IndexesFit' /\ RequestFits'
  <2>1. UNCHANGED <<memories, memoriesFresh, server, lexical, request>>
    BY <1>2 DEF cacheVars, serverVars
  <2>2. RequestFits'
    BY <1>3, <2>1, RequestStays
  <2> QED
    BY <1>1, <1>2, <1>3, <2>2 DEF CachesFit, IndexesFit, cacheVars, serverVars
<1>5. PICK active \in Bands(pool, "active"), superseded \in Bands(pool, "superseded") :
         rankings' = [p \in DOMAIN rankings \cup {policy} |->
                        IF p = policy THEN [pool |-> pool, active |-> active,
                                            hits |-> Ranked(active, superseded, Limit)]
                        ELSE rankings[p]]
  BY DEF RankPool, PoolFor
<1>6. BandFits(active, "active") /\ BandFits(superseded, "superseded")
  <2>1. ASSUME NEW s \in Statuses, NEW band \in Bands(pool, s) PROVE BandFits(band, s)
    <3>1. PICK d \in Kept(pool.dense[s]), l \in Kept(pool.lexical[s]) : band = Merged(d, l)
      BY <2>1 DEF Bands
    <3>2. band \subseteq pool.dense[s] \cup pool.lexical[s]
      BY <3>1 DEF Kept, Merged
    <3>3. BandFits(pool.dense[s], s) /\ BandFits(pool.lexical[s], s)
      BY <1>1 DEF PoolFits, Pools, OfStatus, BandFits
    <3> QED
      BY <3>2, <3>3 DEF BandFits
  <2> QED
    BY <2>1 DEF Statuses
<1>7. \A p \in DOMAIN rankings' : RankingFits(rankings'[p])
  <2>1. \A p \in DOMAIN rankings : RankingFits(rankings[p])
    BY <1>1 DEF PoolFits
  <2>2. RankingFits([pool |-> pool, active |-> active, hits |-> Ranked(active, superseded, Limit)])
    BY <1>6 DEF RankingFits
  <2> QED
    BY <1>5, <2>1, <2>2
<1>8. \A ranking : RankingFits(ranking) => RankingFits(ranking)'
  BY <1>2 DEF RankingFits, Ranked
<1>9. PoolFits'
  <2>1. \A p \in DOMAIN rankings' : RankingFits(rankings[p])'
    BY <1>7, <1>8
  <2> QED
    BY <1>1, <1>2, <2>1 DEF PoolFits, OfStatus
<1> QED
  BY <1>3, <1>4, <1>9 DEF RecallInv

\* One step for each operation of recall.
LEMMA RecallInvStep == RecallInv /\ [RecallNext]_recallVars => RecallInv'
<1> SUFFICES ASSUME RecallInv, [RecallNext]_recallVars PROVE RecallInv'
  OBVIOUS
<1>1. CASE Changed
  BY <1>1, ChangeKeeps DEF Changed
<1>2. CASE ServingNext
  <2>1. CASE Expire
    BY <2>1, ExpireKeeps
  <2>2. CASE StartServer \/ StopServer
    BY <2>2, ServerKeeps
  <2>3. CASE (\E c \in CollectionSet : RefreshCollection(c)) \/ RefreshSave \/ RefreshFails
    BY <2>3, RefreshKeeps
  <2>4. CASE \E mode \in {"keyword", "dense", "hybrid"}, asked \in {{"active"}, Statuses} :
               BeginRecall(mode, asked)
    BY <2>4, BeginKeeps
  <2>5. CASE \E f \in DenseFailures, l \in BOOLEAN : FirstPass(f, l) \/ RespondFromFallback(f, l)
    BY <2>5, FirstKeeps, FallbackKeeps
  <2>6. CASE RespondDirectly \/ RespondWithoutFallback
    BY <2>6, DirectKeeps
  <2>7. CASE Deliver
    BY <2>7, DeliverKeeps
  <2> QED
    BY <1>2, <2>1, <2>2, <2>3, <2>4, <2>5, <2>6, <2>7 DEF ServingNext
<1>3. CASE EvaluationNext
  BY <1>3, PoolKeeps, RankKeeps DEF EvaluationNext
<1>4. CASE UNCHANGED recallVars
  <2>1. UNCHANGED <<storeVars, cacheVars, serverVars, job, request, evalVars>>
    BY <1>4 DEF recallVars
  <2>2. UNCHANGED <<past, memories, memoriesFresh, server, lexical, request>>
    BY <2>1 DEF storeVars, cacheVars, serverVars
  <2>3. StoreFits /\ CachesFit /\ IndexesFit /\ PoolFits
    BY DEF RecallInv
  <2>4. /\ StoreFits'
        /\ \A idx : IndexFits(idx) => IndexFits(idx)'
        /\ \A list : ListFits(list) => ListFits(list)'
    BY <2>1, <2>3, StoreUnchanged
  <2>5. CachesFit' /\ IndexesFit'
    BY <2>1, <2>3, <2>4 DEF CachesFit, IndexesFit, cacheVars, serverVars
  <2>6. RequestFits'
    BY <2>2, RequestStays
  <2> QED
    BY <2>1, <2>3, <2>4, <2>5, <2>6, PoolStays DEF RecallInv
<1> QED
  BY <1>1, <1>2, <1>3, <1>4 DEF RecallNext

\* The invariant from which the properties of recall follow.
THEOREM RecallInvariant == RecallSpec => []RecallInv
<1>1. RecallInit => RecallInv
  BY RecallInvInit
<1>2. RecallInv /\ [RecallNext]_recallVars => RecallInv'
  BY RecallInvStep
<1> QED
  BY <1>1, <1>2, PTL DEF RecallSpec

\* Types; and the server does not stop while it answers (web.py).
THEOREM RecallTypes == RecallSpec => []RecallTypeOK
<1>1. RecallInv => RecallTypeOK
  <2> SUFFICES ASSUME RecallInv PROVE RecallTypeOK
    OBVIOUS
  <2>1. StoreFits /\ CachesFit /\ IndexesFit /\ RequestFits
    BY DEF RecallInv
  <2>2. \A idx \in {lexical, lexicalFile, job.index} :
           DOMAIN idx.documents \subseteq CollectionSet \X Ids /\ idx.since <= Len(past)
    BY <2>1 DEF IndexesFit, IndexFits
  <2>3. points \in [Keys -> Statuses \cup {"absent"}] /\ past[Len(past)] = points
    BY <2>1 DEF StoreFits, Snapshots, Marks
  <2>4. /\ dims \in [CollectionSet -> {"unread", "known", "unknown"}]
        /\ request.pc \in {"idle", "first", "second", "respond"}
        /\ server = "down" => request = Idle
    BY <2>1 DEF CachesFit, RequestFits, Requests
  <2> QED
    BY <2>2, <2>3, <2>4 DEF RecallTypeOK
<1> QED
  BY <1>1, RecallInvariant, PTL

\* A memory that recall returns has had the status it is shown with since the index
\* was read (lexical.py, retrieval_engine.py).
THEOREM HitsAlwaysHeld == RecallSpec => []HitsHeld
<1>1. RecallInv => HitsHeld
  <2> SUFFICES ASSUME RecallInv, NEW h \in request.found
               PROVE  \E n \in request.since..Len(past), k \in Keys :
                         k[2] = h.key[2] /\ past[n][k] = h.status
    BY DEF HitsHeld
  <2>1. Held(request.since, h.key[2], h.status) /\ request.since \in Nat /\ Len(past) \in Nat
    <3>1. RequestFits /\ StoreFits
      BY DEF RecallInv
    <3>2. request.since \in Nat /\ Held(request.since, h.key[2], h.status)
      BY <3>1 DEF RequestFits, Requests
    <3> QED
      BY <3>1, <3>2 DEF StoreFits
  <2>2. PICK n \in 1..Len(past) :
          request.since <= n /\ \E k \in Keys : k[2] = h.key[2] /\ past[n][k] = h.status
    BY <2>1 DEF Held
  <2>3. n \in request.since..Len(past)
    BY <2>1, <2>2
  <2> QED
    BY <2>2, <2>3
<1> QED
  BY <1>1, RecallInvariant, PTL

\* A response that had to do without a channel names one that failed, in whichever pass
\* and next to whatever else it found or lacked (retrieval_engine.py).
THEOREM FailuresAreReported == RecallSpec => []FailureReported
<1>1. RecallInv => FailureReported
  BY DEF RecallInv, RequestFits
<1> QED
  BY <1>1, RecallInvariant, PTL

\* All policies of an evaluation rank the same candidates (retrieval_engine.py).
THEOREM ComparisonIsFair == RecallSpec => []FairComparison
<1>1. RecallInv => FairComparison
  BY DEF RecallInv, PoolFits, RankingFits, FairComparison
<1> QED
  BY <1>1, RecallInvariant, PTL

\* A finite set written as a sequence: as long as the set, and of its members.
LEMMA SetAsSequence ==
  ASSUME NEW S, IsFiniteSet(S)
  PROVE  SetToSeq(S) \in [1..Cardinality(S) -> S] /\ Cardinality(S) \in Nat
<1>1. Cardinality(S) \in Nat /\ ExistsBijection(1..Cardinality(S), S)
  BY FS_CardinalityType
<1>2. \E f \in [1..Cardinality(S) -> S] : IsInjective(f)
  BY <1>1 DEF ExistsBijection, Bijection, Injection
<1> QED
  BY <1>1, <1>2 DEF SetToSeq

\* There are finitely many hits to be had.
LEMMA HitsAreFinite == IsFiniteSet(HitSet)
<1>1. IsFiniteSet(CollectionSet)
  <2>1. IsFiniteSet(1..Len(Collections))
    <3>1. Len(Collections) \in Int /\ 1 \in Int
      BY RecallAssumption
    <3> QED
      BY <3>1, FS_Interval
  <2> DEFINE f == [i \in 1..Len(Collections) |-> Collections[i]]
  <2>2. f \in Surjection(1..Len(Collections), CollectionSet)
    <3>1. DOMAIN Collections = 1..Len(Collections)
      BY RecallAssumption
    <3>2. CollectionSet = {Collections[i] : i \in 1..Len(Collections)}
      BY <3>1 DEF CollectionSet, Range
    <3> QED
      BY <3>2 DEF Surjection
  <2> HIDE DEF f
  <2> QED
    BY <2>1, <2>2, FS_Surjection
<1>2. IsFiniteSet(Ids)
  <2> DEFINE f == [k \in Keys |-> k[2]]
  <2>1. f \in Surjection(Keys, Ids)
    BY DEF Surjection, Ids
  <2> HIDE DEF f
  <2> QED
    BY <2>1, RecallAssumption, FS_Surjection
<1>3. IsFiniteSet(Marks)
  <2>1. Marks = {"active"} \cup {"superseded"} \cup {"absent"}
    BY DEF Marks, Statuses
  <2>2. IsFiniteSet({"active"}) /\ IsFiniteSet({"superseded"}) /\ IsFiniteSet({"absent"})
    BY FS_Singleton
  <2> QED
    BY <2>1, <2>2, FS_Union
<1>4. IsFiniteSet((CollectionSet \X Ids) \X Marks)
  BY <1>1, <1>2, <1>3, FS_Product
<1> DEFINE f == [q \in (CollectionSet \X Ids) \X Marks |-> [key |-> q[1], status |-> q[2]]]
<1>5. f \in Surjection((CollectionSet \X Ids) \X Marks, HitSet)
  <2>1. f \in [(CollectionSet \X Ids) \X Marks -> HitSet]
    BY DEF HitSet
  <2>2. ASSUME NEW h \in HitSet
        PROVE  \E q \in (CollectionSet \X Ids) \X Marks : f[q] = h
    <3>1. <<h.key, h.status>> \in (CollectionSet \X Ids) \X Marks
      BY DEF HitSet
    <3>2. f[<<h.key, h.status>>] = h
      BY <3>1 DEF HitSet
    <3> QED
      BY <3>1, <3>2
  <2> QED
    BY <2>1, <2>2 DEF Surjection
<1> HIDE DEF f
<1> QED
  BY <1>4, <1>5, FS_Surjection

\* The ranking of a pool: a superseded memory only if there are too few active ones,
\* and nothing but superseded ones after it.
LEMMA RankedActiveFirst ==
  ASSUME NEW active, NEW superseded, NEW limit \in Nat,
         BandFits(active, "active"), BandFits(superseded, "superseded")
  PROVE  LET hits == Ranked(active, superseded, limit) IN
         \A i \in 1..Len(hits) : hits[i].status = "superseded" =>
            /\ Cardinality(active) < FallbackMin
            /\ \A j \in i..Len(hits) : hits[j].status = "superseded"
<1> DEFINE first == SetToSeq(active)
           second == IF Cardinality(active) < FallbackMin THEN SetToSeq(superseded) ELSE <<>>
           all == first \o second
           n == IF Len(all) < limit THEN Len(all) ELSE limit
<1>1. IsFiniteSet(active) /\ IsFiniteSet(superseded)
  BY HitsAreFinite, FS_Subset DEF BandFits
<1>2. /\ first \in Seq(active)
      /\ second \in Seq(superseded)
      /\ Cardinality(active) < FallbackMin \/ second = <<>>
  <2>1. /\ SetToSeq(active) \in [1..Cardinality(active) -> active]
        /\ SetToSeq(superseded) \in [1..Cardinality(superseded) -> superseded]
        /\ Cardinality(active) \in Nat /\ Cardinality(superseded) \in Nat
    BY <1>1, SetAsSequence
  <2>2. SetToSeq(active) \in Seq(active) /\ SetToSeq(superseded) \in Seq(superseded)
    BY <2>1
  <2> HIDE DEF all
  <2>3. CASE Cardinality(active) < FallbackMin
    BY <2>2, <2>3
  <2>4. CASE ~(Cardinality(active) < FallbackMin)
    BY <2>2, <2>4
  <2> QED
    BY <2>3, <2>4
<1>3. Ranked(active, superseded, limit) = SubSeq(all, 1, n)
  BY DEF Ranked
<1> HIDE DEF first, second
<1>4. /\ Len(first) \in Nat /\ Len(second) \in Nat /\ Len(all) = Len(first) + Len(second)
      /\ \A i \in 1..Len(first) : all[i] = first[i] /\ first[i] \in active
      /\ \A i \in 1..Len(second) :
            all[Len(first) + i] = second[i] /\ second[i] \in superseded
      /\ all \in Seq(active \cup superseded)
  BY <1>2
<1> HIDE DEF all
<1>5. n \in Nat /\ n <= Len(all)
  BY <1>4
<1> HIDE DEF n
<1>6. Len(SubSeq(all, 1, n)) = n /\ \A i \in 1..n : SubSeq(all, 1, n)[i] = all[i]
  BY <1>4, <1>5
<1>7. \A i \in 1..n : i <= Len(first) => all[i].status = "active"
  BY <1>4, <1>5 DEF BandFits
<1>8. \A i \in 1..n : i > Len(first) => all[i].status = "superseded" /\ second # <<>>
  <2> SUFFICES ASSUME NEW i \in 1..n, i > Len(first)
               PROVE  all[i].status = "superseded" /\ second # <<>>
    OBVIOUS
  <2>1. i - Len(first) \in 1..Len(second) /\ Len(first) + (i - Len(first)) = i
    <3>1. i \in Nat /\ i <= n /\ n <= Len(all) /\ n \in Nat
      BY <1>5
    <3>2. Len(all) = Len(first) + Len(second) /\ Len(first) \in Nat /\ Len(second) \in Nat
      BY <1>4
    <3> QED
      BY <3>1, <3>2
  <2> DEFINE k == i - Len(first)
  <2>2. k \in 1..Len(second) /\ Len(first) + k = i
    BY <2>1
  <2> HIDE DEF k
  <2>3. all[i] \in superseded
    BY <1>4, <2>2
  <2>4. Len(second) # 0
    BY <1>4, <2>1
  <2> QED
    BY <2>3, <2>4 DEF BandFits
<1>9. \A i \in 1..n : all[i].status = "superseded" =>
         i > Len(first) /\ \A j \in i..n : j \in 1..n /\ j > Len(first)
  BY <1>4, <1>5, <1>7
<1> QED
  BY <1>2, <1>3, <1>6, <1>8, <1>9

\* Superseded memories come only for want of active ones, and never ahead of one, in
\* a response and in a ranking (retrieval_engine.py; contracts.py, ACTIVE_FIRST).
THEOREM ActiveAlwaysFirst == RecallSpec => []ActiveFirst
<1>1. RecallInv => ActiveFirst
  <2> SUFFICES ASSUME RecallInv PROVE ActiveFirst
    OBVIOUS
  <2>1. RequestFits /\ PoolFits
    BY DEF RecallInv
  <2>2. ASSUME NEW p \in DOMAIN rankings
        PROVE  LET hits == rankings[p].hits IN
               \A i \in 1..Len(hits) : hits[i].status = "superseded" =>
                  /\ Cardinality(rankings[p].active) < FallbackMin
                  /\ \A j \in i..Len(hits) : hits[j].status = "superseded"
    <3>1. BandFits(rankings[p].active, "active") /\ Limit \in Nat
      BY <2>1, RecallAssumption DEF PoolFits, RankingFits
    <3>2. PICK superseded : /\ BandFits(superseded, "superseded")
                            /\ rankings[p].hits = Ranked(rankings[p].active, superseded, Limit)
      BY <2>1 DEF PoolFits, RankingFits
    <3> QED
      BY <3>1, <3>2, RankedActiveFirst
  <2> QED
    BY <2>1, <2>2 DEF RequestFits, ActiveFirst
<1> QED
  BY <1>1, RecallInvariant, PTL
=============================================================================
