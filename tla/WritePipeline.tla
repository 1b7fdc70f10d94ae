---------------------------- MODULE WritePipeline ----------------------------
(***************************************************************************)
(* The two writers of embeddings at work on one collection: Ingestion adds *)
(* points to the collection that Reindex copies.  They are processes of    *)
(* their own, started by the operator or by scripts/maintenance.sh, and    *)
(* nothing makes them exclude each other.                                  *)
(***************************************************************************)
EXTENDS Reindex, Sequences

CONSTANTS Chunks, MemoryFiles, BatchSize, SaveEvery

ASSUME IngestionAssumption ==
    /\ Chunks \in Seq(Points)
    /\ UNION MemoryFiles \subseteq {Chunks[i] : i \in DOMAIN Chunks}
    /\ {BatchSize, SaveEvery} \subseteq Nat \ {0}

VARIABLES saved, progress, step, idx, batch, interrupted, unread, answer

Ingest == INSTANCE Ingestion

ingestVars == <<saved, progress, step, idx, batch, interrupted, unread, answer>>
pipelineVars == <<vars, ingestVars>>

\* The points that are no chunks of the memory files came from elsewhere and
\* are there from the start; some chunks may have been ingested before.
PipelineInit ==
    /\ Init /\ Ingest!Init
    /\ Points \ Ingest!ChunkSet \subseteq source

ReindexStep == RunStep /\ UNCHANGED ingestVars
IngestStep == Ingest!IngestStep /\ UNCHANGED reindexVars

PipelineNext == ReindexStep \/ IngestStep

PipelineSpec == PipelineInit /\ [][PipelineNext]_pipelineVars

PipelineTypeOK == ReindexTypeOK /\ Ingest!IngestTypeOK

\* What a checkpoint of the ingestion calls completed is in the collection: a
\* run that resumes it skips nothing that was never written.
IngestCheckpointSound == Ingest!CheckpointSound

\* An ingestion that completes without a failure has left every chunk of the files
\* it could read in the collection, whatever the runs before it left behind.
ReadableIngested == Ingest!ReadableIngested

\* The ingestion is among the writers that Reindex reckons with: it only adds
\* points, at any moment of a re-embedding run.
ReindexSpec == Spec
=============================================================================
