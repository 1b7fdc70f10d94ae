------------------------------ MODULE Ingestion ------------------------------
(***************************************************************************)
(* IngestionManager.run_ingestion (ingestion.py), as the cli command       *)
(* ingest runs it: the memory files are cut into chunks, and every chunk   *)
(* that is not there yet is embedded and written to a collection, in       *)
(* batches.  A checkpoint file lets a run that was interrupted continue.   *)
(* A file that cannot be read is skipped with a warning and counts as no   *)
(* failure: the run goes on with the chunks of the others.                 *)
(*                                                                         *)
(* A signal ends a run at the next chunk with a checkpoint; an upsert that *)
(* raises and a kill end it with what the last checkpoint holds.  The      *)
(* checkpoint is written in place: one that is cut short is not loaded.    *)
(* A chunk is the point it becomes; its text is left out.                  *)
(***************************************************************************)
EXTENDS Integers, FiniteSets, Functions, Sequences

CONSTANTS
    Points,     \* the points that may exist
    Chunks,     \* what the files contain, in the order of the files
    MemoryFiles,\* the files, each the set of its chunks
    BatchSize,  \* chunks in one upsert
    SaveEvery,  \* the checkpoint is saved every 25 chunks
    MaxStarts,  \* bound: runs that are started
    MaxFaults   \* bound: crashes, interruptions and failures of a service

VARIABLES
    source,     \* the points of the collection
    saved,      \* the checkpoint file: NoProgress if there is none, or if it
                \* cannot be read
    progress,   \* IngestProgress in memory
    step,       \* where the run is
    idx,        \* the chunk that is next
    batch,      \* chunks that are embedded and not yet written
    interrupted,\* a signal has arrived
    unread,     \* chunks of the files that the run could not read; kept until
                \* the next run, to tell what the last one had before it
    starts, faults,
    answer      \* history: the status and failures of the last run that returned

ingestVars == <<saved, progress, step, idx, batch, interrupted, unread, answer>>
vars == <<source, ingestVars, starts, faults>>

ChunkSet == Range(Chunks)
NoProgress == [status |-> "none", completed |-> {}, failed |-> 0]
NewProgress == [NoProgress EXCEPT !.status = "running"]

\* A crash, an interruption, or a service that fails.
Fault == faults < MaxFaults /\ faults' = faults + 1

Exit ==
    /\ step' = "idle" /\ idx' = 1 /\ batch' = <<>> /\ interrupted' = FALSE
    /\ progress' = NoProgress

-----------------------------------------------------------------------------
Init ==
    /\ source \in SUBSET Points
    /\ saved = NoProgress /\ progress = NoProgress
    /\ step = "idle" /\ idx = 1 /\ batch = <<>> /\ interrupted = FALSE /\ unread = {}
    /\ starts = 0 /\ faults = 0
    /\ answer = NoProgress

\* The points a run finds: the scroll may fail after any page and leaves the rest out.
Listings(skipExisting) ==
    IF skipExisting
    THEN {source} \cup {{q \in source : q < p} : p \in source}
    ELSE {{}}

\* A checkpoint that is still running is resumed.  The chunks read whose points are
\* there already count as completed.
Loaded(resume, existing) ==
    LET p == IF resume /\ saved.status = "running" THEN saved ELSE NewProgress
    IN  [p EXCEPT !.completed = @ \cup (ChunkSet \cap existing)]

\* Mutant of StartIngest: without skipExisting the collection is created anew.
StartIngestAnew(resume, skipExisting) ==
    /\ step = "idle" /\ starts < MaxStarts
    /\ starts' = starts + 1
    /\ unread' = {}
    /\ progress' = Loaded(resume, IF skipExisting THEN source ELSE {})
    /\ source' = IF skipExisting THEN source ELSE {}
    /\ step' = "chunk" /\ idx' = 1
    /\ answer' = NoProgress
    /\ UNCHANGED <<saved, batch, interrupted, faults>>

StartIngest(resume, skipExisting) ==
    /\ step = "idle" /\ starts < MaxStarts
    /\ starts' = starts + 1
    /\ \E lost \in SUBSET MemoryFiles, existing \in Listings(skipExisting) :
          /\ unread' = UNION lost
          /\ progress' = Loaded(resume, existing \ unread')
          /\ IF lost = {} /\ (skipExisting => existing = source)
             THEN UNCHANGED faults ELSE Fault
    /\ step' = "chunk" /\ idx' = 1
    /\ answer' = NoProgress
    /\ UNCHANGED <<source, saved, batch, interrupted>>

\* A dry run writes nothing to the collection, but saves the checkpoint it would
\* have resumed as completed.  It reports that, too, which is no ingestion.
DryRun(resume) ==
    /\ step = "idle" /\ starts < MaxStarts
    /\ starts' = starts + 1
    /\ saved' = [Loaded(resume, {}) EXCEPT !.status = "completed"]
    /\ answer' = NoProgress /\ unread' = {}
    /\ UNCHANGED <<source, progress, step, idx, batch, interrupted, faults>>

AtChunk == step = "chunk" /\ idx <= Len(Chunks)

\* A chunk that is done, or that the run has never seen.
Skipped == progress.completed \cup unread

SkipChunk ==
    /\ AtChunk /\ Chunks[idx] \in Skipped
    /\ idx' = idx + 1
    /\ UNCHANGED <<source, saved, progress, step, batch, interrupted, unread, starts,
                   faults, answer>>

\* SIGINT or SIGTERM.
Signal ==
    /\ step # "idle" /\ ~interrupted /\ Fault
    /\ interrupted' = TRUE
    /\ UNCHANGED <<source, saved, progress, step, idx, batch, unread, starts, answer>>

\* The batch in hand is dropped: none of it is in the checkpoint.
StopInterrupted ==
    /\ AtChunk /\ Chunks[idx] \notin Skipped /\ interrupted
    /\ saved' = progress /\ answer' = progress
    /\ Exit
    /\ UNCHANGED <<source, unread, starts, faults>>

Embeds == AtChunk /\ Chunks[idx] \notin Skipped /\ ~interrupted

\* A chunk that cannot be embedded is left out of this run; the checkpoint is
\* not saved at such a chunk.
EmbedFails ==
    /\ Embeds /\ Fault
    /\ progress' = [progress EXCEPT !.failed = @ + 1]
    /\ idx' = idx + 1
    /\ UNCHANGED <<source, saved, step, batch, interrupted, unread, starts, answer>>

\* Mutant of EmbedChunk: a chunk is completed as soon as it is embedded.
EmbedChunkCompleting ==
    /\ Embeds
    /\ batch' = Append(batch, Chunks[idx])
    /\ progress' = [progress EXCEPT !.completed = @ \cup {Chunks[idx]}]
    /\ step' = IF Len(batch') >= BatchSize THEN "upsert" ELSE "save"
    /\ UNCHANGED <<source, saved, idx, interrupted, unread, starts, faults, answer>>

EmbedChunk ==
    /\ Embeds
    /\ batch' = Append(batch, Chunks[idx])
    /\ step' = IF Len(batch') >= BatchSize THEN "upsert" ELSE "save"
    /\ UNCHANGED <<source, saved, progress, idx, interrupted, unread, starts, faults,
                   answer>>

\* A batch is written, and its chunks are completed only then.
UpsertBatch ==
    /\ step \in {"upsert", "flush"}
    /\ source' = source \cup Range(batch)
    /\ progress' = [progress EXCEPT !.completed = @ \cup Range(batch)]
    /\ batch' = <<>>
    /\ step' = IF step = "upsert" THEN "save" ELSE "end"
    /\ UNCHANGED <<saved, idx, interrupted, unread, starts, faults, answer>>

\* Mutant of UpsertFails: the exception is logged, and the run goes on.
UpsertFailsLogged ==
    /\ step \in {"upsert", "flush"} /\ Fault
    /\ source' \in {source, source \cup Range(batch)}
    /\ batch' = <<>>
    /\ step' = IF step = "upsert" THEN "save" ELSE "end"
    /\ UNCHANGED <<saved, progress, idx, interrupted, unread, starts, answer>>

\* The upsert raises, whether or not the collection has taken the batch, and
\* the exception ends the run.
UpsertFails ==
    /\ step \in {"upsert", "flush"} /\ Fault
    /\ source' \in {source, source \cup Range(batch)}
    /\ Exit
    /\ UNCHANGED <<saved, unread, starts, answer>>

\* The chunks the run has read, up to the one at position i.
Read(i) == {j \in 1..i : Chunks[j] \notin unread}

\* The checkpoint is due at every SaveEvery-th chunk read and at the last one.
SaveIfDue ==
    /\ step = "save"
    /\ saved' = IF \/ Cardinality(Read(idx)) % SaveEvery = 0
                   \/ Read(idx) = Read(Len(Chunks))
                THEN progress ELSE saved
    /\ idx' = idx + 1
    /\ step' = "chunk"
    /\ UNCHANGED <<source, progress, batch, interrupted, unread, starts, faults, answer>>

FlushFinal ==
    /\ step = "chunk" /\ idx > Len(Chunks)
    /\ step' = IF batch = <<>> THEN "end" ELSE "flush"
    /\ UNCHANGED <<source, saved, progress, idx, batch, interrupted, unread, starts,
                   faults, answer>>

\* The checkpoint is removed, also when chunks have failed.
Complete ==
    /\ step = "end"
    /\ saved' = NoProgress
    /\ answer' = [progress EXCEPT !.status = "completed"]
    /\ Exit
    /\ UNCHANGED <<source, unread, starts, faults>>

\* The process is killed, perhaps while it writes or removes the checkpoint.
CrashIngest ==
    /\ step # "idle" /\ Fault
    /\ \/ UNCHANGED saved
       \/ (step \in {"save", "end"} \/ interrupted) /\ saved' = NoProgress
    /\ Exit
    /\ UNCHANGED <<source, unread, starts, answer>>

IngestStep ==
    \/ \E resume, skipExisting \in BOOLEAN : StartIngest(resume, skipExisting)
    \/ \E resume \in BOOLEAN : DryRun(resume)
    \/ SkipChunk \/ Signal \/ StopInterrupted
    \/ EmbedFails \/ EmbedChunk
    \/ UpsertBatch \/ UpsertFails
    \/ SaveIfDue \/ FlushFinal \/ Complete
    \/ CrashIngest

Spec == Init /\ [][IngestStep]_vars

-----------------------------------------------------------------------------
Progress ==
    [status : {"none", "running", "completed"}, completed : SUBSET Points,
     failed : Nat]

IngestTypeOK ==
    /\ source \subseteq Points
    /\ {saved, progress, answer} \subseteq Progress
    /\ step \in {"idle", "chunk", "upsert", "save", "flush", "end"}
    /\ idx \in 1..Len(Chunks) + 1
    /\ batch \in Seq(Points)
    /\ interrupted \in BOOLEAN
    /\ unread \subseteq ChunkSet

\* What a checkpoint calls completed is in the collection: a run that resumes
\* it skips nothing that was never written, wherever the earlier run ended.
CheckpointSound == saved.completed \subseteq source

\* A run that reports completed without a failure has left every chunk of the
\* files it could read in the collection, whatever the runs before it left in
\* the checkpoint and whatever part of the existing points it managed to list.
\* The chunks of a file it could not read may be missing, and the report of the
\* run does not tell.
ReadableIngested ==
    answer.status = "completed" /\ answer.failed = 0 => ChunkSet \ unread \subseteq source
=============================================================================
