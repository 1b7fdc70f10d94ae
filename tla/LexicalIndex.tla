---------------------------- MODULE LexicalIndex ----------------------------
(***************************************************************************)
(* BM25Index (lexical.py): documents, the posting lists and the document   *)
(* frequencies that are kept in step with them, the cache of searches, and *)
(* the file an index is saved to and restored from.                        *)
(*                                                                         *)
(* A document is the set of tokens of its text and the set of those that   *)
(* only its other fields (summary, source, tags, keywords...) contribute.  *)
(* How often a token occurs, field weights and scores are left out: what   *)
(* is modelled is which documents a search can return at all.              *)
(***************************************************************************)
EXTENDS Integers, FiniteSets, Functions

CONSTANTS
    DocKeys,     \* candidate keys
    Terms,       \* tokens of documents and queries
    Documents,   \* the documents a memory may have
    MaxIndexOps  \* bound: operations on the index

ASSUME LexicalAssumption ==
    /\ IsFiniteSet(DocKeys)
    /\ Documents \subseteq [text : SUBSET Terms, extra : SUBSET Terms]
    /\ MaxIndexOps \in Nat

VARIABLES
    index,      \* the BM25Index in memory
    searched,   \* _search_cache: from a query to the keys it returned
    indexFile,  \* lexical-index.json, NoIndexFile if there is none
    indexOps

lexVars == <<index, searched, indexFile, indexOps>>

NoIndexFile == [documents |-> <<>>, schema |-> 0, postings |-> <<>>]
Queries == SUBSET Terms \ {{}}

\* build_lexical_document.
TokensOf(d) == d.text \cup d.extra

EmptyIndex ==
    [documents |-> <<>>,
     postings  |-> [t \in Terms |-> {}],
     df        |-> [t \in Terms |-> 0]]

\* A key that is not there is ignored.
RemoveInternal(idx, k) ==
    IF k \notin DOMAIN idx.documents THEN idx
    ELSE LET gone == TokensOf(idx.documents[k]) IN
         [documents |-> Restrict(idx.documents, DOMAIN idx.documents \ {k}),
          postings  |-> [t \in Terms |-> IF t \in gone THEN idx.postings[t] \ {k}
                                          ELSE idx.postings[t]],
          df        |-> [t \in Terms |-> IF t \in gone THEN idx.df[t] - 1
                                          ELSE idx.df[t]]]

\* A document that is there already is removed first.
AddOne(idx, k, d) ==
    LET rest == RemoveInternal(idx, k) IN
    [documents |-> [j \in DOMAIN rest.documents \cup {k} |->
                        IF j = k THEN d ELSE rest.documents[j]],
     postings  |-> [t \in Terms |-> IF t \in TokensOf(d) THEN rest.postings[t] \cup {k}
                                     ELSE rest.postings[t]],
     df        |-> [t \in Terms |-> IF t \in TokensOf(d) THEN rest.df[t] + 1
                                     ELSE rest.df[t]]]

\* The documents whose postings mention a token of the query and whose score is
\* above zero: a token without statistics contributes nothing.
Matches(idx, q) ==
    {k \in DOMAIN idx.documents : \E t \in q : k \in idx.postings[t] /\ idx.df[t] > 0}

-----------------------------------------------------------------------------
(* from_dict.  The statistics are not saved: they are counted again.       *)

\* From the token maps that are saved with the documents; if one of them is
\* empty, from the texts of all documents.
RebuiltStats(docs) ==
    LET Counted(d) == IF \E k \in DOMAIN docs : TokensOf(docs[k]) = {}
                      THEN d.text ELSE TokensOf(d)
    IN  [t \in Terms |-> Cardinality({k \in DOMAIN docs : t \in Counted(docs[k])})]

RebuiltPostings(docs) == [t \in Terms |-> {k \in DOMAIN docs : t \in TokensOf(docs[k])}]

\* Mutant of Restored: the statistics come from the texts.
RestoredFromText(file) ==
    [documents |-> file.documents,
     postings  |-> IF file.schema = 1 THEN RebuiltPostings(file.documents)
                   ELSE file.postings,
     df |-> [t \in Terms |-> Cardinality({k \in DOMAIN file.documents :
                                             t \in file.documents[k].text})]]

\* A file of schema 1 has no postings.
Restored(file) ==
    [documents |-> file.documents,
     postings  |-> IF file.schema = 1 THEN RebuiltPostings(file.documents)
                   ELSE file.postings,
     df        |-> RebuiltStats(file.documents)]

-----------------------------------------------------------------------------
LexInit ==
    /\ index = EmptyIndex /\ searched = <<>>
    /\ indexFile = NoIndexFile /\ indexOps = 0

Operate == indexOps < MaxIndexOps /\ indexOps' = indexOps + 1

AddDocument(k, d) ==
    /\ Operate
    /\ index' = AddOne(index, k, d) /\ searched' = <<>>
    /\ UNCHANGED indexFile

RemoveDocument(k) ==
    /\ Operate
    /\ index' = RemoveInternal(index, k) /\ searched' = <<>>
    /\ UNCHANGED indexFile

\* Mutant of IncrementalRefresh: the cache survives the batch.
RefreshCached(j, d, k, e) ==
    /\ Operate
    /\ index' = AddOne(AddOne(index, j, d), k, e)
    /\ UNCHANGED <<indexFile, searched>>

\* incremental_refresh over a batch of two records.
IncrementalRefresh(j, d, k, e) ==
    /\ Operate
    /\ index' = AddOne(AddOne(index, j, d), k, e) /\ searched' = <<>>
    /\ UNCHANGED indexFile

\* An empty index answers without its cache.
Search(q) ==
    /\ Operate
    /\ DOMAIN index.documents # {} /\ q \notin DOMAIN searched
    /\ searched' = [p \in DOMAIN searched \cup {q} |->
                        IF p = q THEN Matches(index, q) ELSE searched[p]]
    /\ UNCHANGED <<index, indexFile>>

\* save keeps the schema; a file of schema 1 was saved by an older version.
SaveIndex(schema) ==
    /\ Operate
    /\ DOMAIN index.documents # {}
    /\ indexFile' = [documents |-> index.documents, schema |-> schema,
                     postings  |-> IF schema = 1 THEN <<>> ELSE index.postings]
    /\ UNCHANGED <<index, searched>>

LoadIndex ==
    /\ Operate
    /\ indexFile # NoIndexFile
    /\ index' = Restored(indexFile) /\ searched' = <<>>
    /\ UNCHANGED indexFile

Clear ==
    /\ Operate
    /\ index' = EmptyIndex /\ searched' = <<>>
    /\ UNCHANGED indexFile

LexNext ==
    \/ \E k \in DocKeys, d \in Documents : AddDocument(k, d)
    \/ \E k \in DocKeys : RemoveDocument(k)
    \/ \E j, k \in DocKeys, d, e \in Documents : IncrementalRefresh(j, d, k, e)
    \/ \E q \in Queries : Search(q)
    \/ \E schema \in {1, 2} : SaveIndex(schema)
    \/ LoadIndex
    \/ Clear

LexSpec == LexInit /\ [][LexNext]_lexVars

-----------------------------------------------------------------------------
LexTypeOK ==
    /\ DOMAIN index.documents \subseteq DocKeys
    /\ \A k \in DOMAIN index.documents : index.documents[k] \in Documents
    /\ index.postings \in [Terms -> SUBSET DocKeys]
    /\ index.df \in [Terms -> Int]
    /\ indexOps \in 0..MaxIndexOps

\* The posting lists are those of the documents.
PostingsMatch(idx) == idx.postings = RebuiltPostings(idx.documents)

\* The document frequency of a token is the length of its posting list.
StatsMatch(idx) == \A t \in Terms : idx.df[t] = Cardinality(idx.postings[t])

\* However documents are added, replaced, removed, saved, migrated and restored,
\* posting lists and frequencies belong to the documents that are there.
\* Nothing compares them in the code (_add_one, _remove_internal and from_dict
\* keep three tables in step by hand).  It needs documents with at least one
\* token each: see RebuiltStats.
IndexSound == PostingsMatch(index) /\ StatsMatch(index)

\* A search answered from the cache returns what a search of the index would:
\* every document that has a token of the query, and no other.
CacheFresh ==
    \A q \in DOMAIN searched :
        searched[q] = {k \in DOMAIN index.documents : TokensOf(index.documents[k]) \cap q # {}}
=============================================================================
