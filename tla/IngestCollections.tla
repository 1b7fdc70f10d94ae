-------------------------- MODULE IngestCollections --------------------------
(***************************************************************************)
(* The ingestion as scripts/maintenance.sh runs it: the same memory files  *)
(* for one collection after the other.  A run that fails or is interrupted *)
(* is counted, and the next collection follows; the checkpoint file is     *)
(* one for all of them and does not say whose it is.                       *)
(***************************************************************************)
EXTENDS Integers

CONSTANTS Collections, Points, Chunks, MemoryFiles, BatchSize, SaveEvery, MaxStarts,
          MaxFaults

VARIABLES
    held,       \* per collection, its points
    collection, \* --collection of the run
    saved, progress, step, idx, batch, interrupted, unread, starts, faults, answer

\* Ingestion of the collection at hand.
Ingest == INSTANCE Ingestion WITH source <- held[collection]

ingestVars == <<saved, progress, step, idx, batch, interrupted, unread, starts, faults>>
passVars == <<held, collection, ingestVars, answer>>

PassInit ==
    /\ held \in [Collections -> SUBSET Points]
    /\ collection \in Collections
    /\ Ingest!Init

\* The loop goes on, whatever the run has returned.
NextCollection ==
    /\ step = "idle"
    /\ collection' \in Collections \ {collection}
    /\ answer' = Ingest!NoProgress
    /\ UNCHANGED <<held, ingestVars>>

IngestIt ==
    /\ \E points \in SUBSET Points : held' = [held EXCEPT ![collection] = points]
    /\ collection' = collection
    /\ Ingest!IngestStep

PassNext == NextCollection \/ IngestIt

PassSpec == PassInit /\ [][PassNext]_passVars

-----------------------------------------------------------------------------
\* A checkpoint "lets interrupted runs pick up where they left off"
\* (ingestion.py, module docstring): the chunks that a run takes for done are
\* in the collection that it writes to.
PicksUpWhereLeftOff == step # "idle" => progress.completed \subseteq held[collection]
=============================================================================
