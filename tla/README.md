# Verification of OpenClaw Memory OS

TLA+ models of the parts of OpenClaw Memory OS whose correctness depends on the
order in which processes, requests, crashes and file operations happen, with the
TLC configurations that check them and proofs that TLAPS checks.  Paths such as
`evolution.py:808` are relative to `openclaw_memory_os/` unless they start with
`docs/` or `scripts/`.

- Check one run: `tlc -workers 2 -config PolicyStoreConcurrent.cfg MCPolicyStore`
- Check the proofs: `tlapm` on each of the eight modules whose names end in `Proofs`

## 1. The system

A memory service for agents: memories live in Qdrant collections, a FastAPI web
server answers recall requests, and timers run maintenance and a weekly governance
job.  Recall ranks memories with a *policy*, a bundle of some fifteen weights.  The
governance job derives candidate policies from the active one, evaluates them on
recorded feedback, and replaces the active policy when a candidate has earned it; it
also rolls a degraded policy back.

| Component | State | Operations | Interacts with |
|---|---|---|---|
| Policy store (`policy_store.py`) | `active.json`, `previous.json`, `candidate.json`; in every process `_policy`, `_previous`, `_shadow`, `_last_mtime_ns` | start-up with recovery, hot reload, set and reject shadow, promote, revert | its copies in other processes, through the files only |
| Evolution governance (`evolution.py`, `scripts/run_evolution_cycle.py`) | `evolution-state.json`, the cycle's file lock | one cycle: roll back, fail, credit a pass, promote | policy store; the state file is shared with the endpoints |
| Evolution endpoints (`app.py`) | none of their own | pause, resume, reject, rollback, the hot reload of recall-test | policy store, state file |
| Retrieval (`retrieval_engine.py`, `candidate_pool.py`, `ranking.py`) | none | dense and lexical channels, fusion, rerank, active first and superseded as a fallback | lexical index, backends, policy, feedback |
| Lexical index (`lexical.py`, `scripts/refresh_lexical.py`) | postings in memory, a snapshot on disk | add, remove, search, save, load, incremental refresh | retrieval, refresh job |
| Backends (`backends/`, `embed_provider.py`) | memory cache | read, list, search, embed | Qdrant, embedding service |
| Sessions (`sessions.py`) | one SQLite table | create, revoke, revoke all, validate, schema migrations | web server |
| Login limiter (`auth.py`) | failure times and lockouts per address | is_limited, record_failure, reset | web server |
| Recall feedback (`recall_feedback.py`, `migration.py`) | runs, results and events in SQLite, the marker of the legacy import | record, aggregate, import | evaluation, audit log |
| Ingestion (`ingestion.py`) | checkpoint, the collection | scan, chunk, embed, upsert, resume, skip existing | Qdrant |
| Re-embedding (`scripts/reindex_qdrant_embeddings.py`) | checkpoint, manifest, target collection | scroll, embed, upsert, resume, verify | Qdrant |
| Governance scripts (`scripts/autonomous_governance.sh`, `maintenance.sh`) | lock files, the status file | the stages of one run and their exit status | all jobs |
| Lifecycle jobs (`scripts/tier_classifier.py`, `supersede_detect.py`, `expire_cron.py`) | lifecycle fields of memories | one sweep each: scroll, plan, then a GET and a PUT per memory | Qdrant; the dashboard starts one of them too |
| Memory brain (`memory_brain.py` and the two programs it runs) | `.brain_state.json`, the error queue, `.dream_state.json` | read changed files, write their sections, retry the queue, consolidate | memory files, Qdrant |

**What is hard here.**  No two processes share a lock on the policy files: the web
server has its own `PolicyStore` with its own `RLock`, and never takes the lock under
which cycles exclude each other.  `evolution-state.json` is read, changed and written
back whole, truncated in place, by the cycle and by every endpoint.  A cycle works for
minutes on what it read when it started.  Processes die between file operations, and
what they leave is recovered at the next start.  What a cycle may do depends on a
history spread over weeks: windows, cooldowns, a quota, a circuit breaker.  The jobs
that write embeddings run for hours against services that fail, are interrupted, and
continue from files they wrote at other moments than the collection.  The lifecycle
jobs write whole payloads that they read a moment before, and only a lock between shell
scripts keeps them apart; a killed shell leaves its program running with that lock.
The web server answers from an index and a cache that are older than Qdrant.  Databases
are migrated by whoever opens them first, at the same time as others use them.

**What makes the parts correct.**  Policy store: nobody serves a policy that was never
in force; the policy in force changes only by promotion of a candidate and by going
back; a promotion can be undone, and undoing it restores what it replaced; a restart
does not offer a candidate that has been dealt with; the server catches up with the
file.  Governance: a promotion is earned by two separate windows of the same candidate;
promotions keep their cooldown and quota; the breaker holds; the count of
passes and the windows that justify it never diverge.  Retrieval: no superseded memory
while enough active ones match; a failure shows in the diagnostics; policies are compared
on the same candidates.  Index: its tables agree, and its cache agrees with them.
Sessions: revoked or expired means invalid, and nothing else ends a session.  Limiter:
a lockout lasts, and ends.  Feedback: no vote is lost or counted twice.  Jobs: repeatable
after a crash, nothing lost or done twice; what a checkpoint or a manifest says is done
has been done; a vector belongs to the point it is stored with; a protected memory is
not put away, and what was put away does not come back.  Scripts: one maintenance pass
at a time, no evolution on a corpus that is half maintained, and a status that is true.
`PROJECT.json` lists the hazards one by one, at their lines, with the properties that
cover them or the reason why none does.

## 2. The modules

| Module | What it is |
|---|---|
| `PolicyLifecycle` | Abstract specification of the policy store and of the cycles that use it: which policy is in force and which ones ever were.  `Release` puts a candidate in force that was derived from a released policy; `GoBack` returns to any released policy. |
| `PolicyStore` | The store: three files, a copy per process, threads under the process's lock, one action per file operation, crashes, failed operations, damaged files.  Implements `PolicyLifecycle`. |
| `MCPolicyStore` | Two lineages of policies, two processes, three threads for TLC. |
| `PolicyStoreProofs` | Theorems about `PolicyStore` for all constants, checked by TLAPS. |
| `AtomicWrite` | One write of a policy file, `_atomic_json_write`: the temporary file that all processes share, the names and what they refer to. |
| `AtomicWriteProofs` | Theorems about `AtomicWrite` for all constants, checked by TLAPS. |
| `EvolutionCycle` | The governance cycle and the endpoints around `evolution-state.json`.  Implements `PolicyLifecycle`. |
| `MCEvolutionCycle` | Its instance for TLC, with the limits of what is explored. |
| `EvolutionProofs` | Theorems about `EvolutionCycle` for all constants, checked by TLAPS. |
| `Reindex` | The re-embedding of a collection into a shadow collection: pages, pairing of points and vectors, checkpoint, manifest, resumed and limited runs, crashes. |
| `Ingestion` | The ingestion of memory files into a collection: batches, checkpoint, skip-existing, interruption, dry run, crashes. |
| `WritePipeline` | Both at work on one collection: the ingestion is the writer that `Reindex` sees as `SourceGrows`. |
| `MCWritePipeline` | Its instance for TLC. |
| `IngestCollections` | `Ingestion` for one collection after the other, as `maintenance.sh` runs it: the checkpoint is the same file for all. |
| `MCIngestCollections` | Its instance for TLC. |
| `ReindexProofs` | Theorems about `Reindex`, `Ingestion` and `WritePipeline` for all constants, checked by TLAPS. |
| `LexicalIndex` | The BM25 index: documents, posting lists, document frequencies, search cache, and the file of either schema. |
| `LexicalIndexProofs` | Theorems about `LexicalIndex` and `Retrieval` for all constants, checked by TLAPS. |
| `Retrieval` | Recall: the backend's caches, the server's index and its file, the refresh job, a request with its two passes, and the candidate pool of an evaluation, while Qdrant changes. |
| `MCRetrieval` | Its instance for TLC: two collections, three memories. |
| `MemoryJobs` | Tiering, supersession and expiry on one collection, with the reclassification that the dashboard starts next to them and the repeated consolidation. |
| `MCMemoryJobs` | Two memories that the two passes of supersession order differently, for TLC. |
| `Governance` | `autonomous_governance.sh` and `maintenance.sh`: locks, stages, exit codes, status files, killed shells. |
| `GovernanceProofs` | Theorems about `Governance`, `MemoryBrain` and `MemoryJobs` for all constants, checked by TLAPS. |
| `MemoryBrain` | The ingestion of changed memory files with its error queue, and the schedule of consolidation. |
| `SessionRegistry` | Abstract specification of the sessions: a registry in which every request takes effect at one moment, or not at all. |
| `Sessions` | The session table and its migrations, the threads of the web server, its in-memory revocations, and the browsers' cookies.  Implements `SessionRegistry`. |
| `SessionsProofs` | Theorems about `Sessions` for all constants, checked by TLAPS. |
| `FeedbackStore` | The feedback database, used and migrated by two processes, and the import of old votes. |
| `FeedbackProofs` | Theorems about `FeedbackStore` for all constants, checked by TLAPS. |
| `MCMemoryServices` | The seven modules `LexicalIndex`, `Retrieval`, `MemoryJobs`, `Governance`, `MemoryBrain`, `Sessions`, `FeedbackStore`, and `AtomicWrite` and `WritePipeline`, in one run for TLC. |

`EvolutionCycle` looks at the policy files as an atomic pair of active and previous, and
`PolicyStore` looks inside that pair.  The link between them is the choice in
`RevertRequest`: the server goes back to the previous policy it found when it was started, be
that the last one, an older one, or none, which is exactly what `RevertWriteActive` does
with `previous[p]`.  Both implement `PolicyLifecycle`: the store for whatever a caller asks
of it, the cycle for the calls that are made.

### PolicyStore and the code

| Model | Code |
|---|---|
| `activeFile`, `previousFile`, `candidateFile` | the files; `None` is absent, `Corrupt` is what `_read_policy_file` refuses |
| `policy`, `previous`, `shadow` per process | `_policy`, `_previous`, `_shadow` |
| `fresh[p]` | the file's mtime equals p's `_last_mtime_ns` |
| `boot[p]` | how far `__init__` is: auxiliary files, active file, recovery, stale shadow |
| `pc[t]` in `Locked` | t is inside `with self._lock` |
| `reg[t]` | a local variable: the policy read by a reload, the target of a revert, a cycle's candidate |
| `LoadPrevious`, `LoadCandidate`, `LoadActive`, `RecoverPrevious`, `FallBackToBaseline`, `DiscardStaleShadow` | `PolicyStore.__init__` (507-533) and what it calls |
| `ReloadRead`, `ReloadInstall` | `reload_if_changed`, `_load_from_disk`: the read outside the lock, then the install and the stat inside it |
| `RejectShadow` | `reject_shadow` |
| `RevertWriteActive`, `RevertSwap`, `RevertUnlinkPrevious`, `RevertUnlinkCandidate`, `RevertFails` | `revert`, file by file |
| `PromoteSavePrevious`, `PromoteWriteActive`, `PromoteSwap`, `PromoteUnlinkCandidate`, `PromoteFails` | `promote`, file by file, with its exception handler |
| `SetShadow`, `UpdateShadowMetadata`, `EndCycle` | the calls a cycle makes on its way |
| `Damage`, `Terminate`, `Crash` | the environment |

`released` and `replaced` are history variables: no action reads them.  `released` of
`EvolutionCycle` is one, too.

`AtomicWrite` opens up what `PolicyStore` takes as one step, a write of `active.json`:
`OpenTmp`, `WriteText`, `SecureTmp` and `ReplaceActive` are the open with its truncation,
the write, the `chmod` and the `os.replace` of `_atomic_json_write` (391-402).  `contents`
is the text per file, `tmpName` and `activeName` are the files that the two names refer
to; a process that has opened a file writes to it under whatever name it has by then.

### EvolutionCycle and the code

| Model | Code |
|---|---|
| `file`, `state[a]` | `evolution-state.json`; the dictionary that a cycle or a request loaded |
| `LoadStore`, `store`, `GiveUp` | a runner before it has the lock: `PolicyStore()` in `scripts/run_evolution_cycle.py` (78-80), what it has loaded, and its end if the lock is held |
| `StartCycle`, `base` | the lock, the load of the state, the count of judged queries; what the cycle works on from then on, however old it is |
| `Widen`, `maxDelta` | the 100th judged query: candidates may be 5 instead of 3 percent away (`evolution.py:1320`) |
| `SkipCycle` | the cold start |
| `SetShadow` | the best candidate goes to `candidate.json`, before it is judged |
| `RollBackCycle` | `_check_rollback` and `_force_rollback_with_metrics` |
| `FailCycle`, `ErrorCycle` | the four ways to record a failed window; the exception handler, which loads the state anew |
| `CreditCycle`, `PromoteCycle` | `_record_cycle_result(state, "passed")`, then `_can_promote` refuses or agrees; a credit writes `candidate.json` again, even if the candidate was rejected meanwhile |
| `Request` | pause and resume |
| `RejectRequest`, `RecordRejection` | a rejection: the candidate is removed, then the state is loaded and saved; the bank of its passes stays |
| `RevertRequest`, `CountRollback` | a rollback reverts the policy first and counts it afterwards |
| `SaveTruncate`, `SaveFill`, `SaveError`, `Crash` | `_save_evolution_state`, in place; its failure |
| `history` | history variable: what really happened, `Nil` once an update of the file has been lost |

A policy is the sequence of steps that leads to it from the baseline: a slot, and how far the
candidate may be from its parent.  Its version is the slot alone, because `generate_candidates`
draws versions from a generator with a constant seed (`evolution.py:497`, `:555`, `:570`): the
candidates of every active policy have the same versions, and so have the narrow and the wide
ones of the same policy.  `history.disturbed` says that since a cycle changed the policy last
something has happened that lets one version stand for two policies: an operator's rollback,
the widening, or a cycle on policies that another one has changed since its runner loaded them.

### Reindex, Ingestion and the code

| Model | Code (`scripts/reindex_qdrant_embeddings.py`, `ingestion.py`) |
|---|---|
| `source`, `shadow` | the collections; a point is its position in the scroll order, `shadow[p]` the point whose text the vector of p embeds, 0 if p is not there |
| `checkpoint`, `manifest`, `torn` | the JSON checkpoint (replaced as a whole), the last line per point of the JSONL manifest, and whether it ends in half a line |
| `run` | the locals of `run_reindex`: `scroll_offset` (`next`), `next_offset` (`after`), the counters of `ckpt`, `succeeded_ids` (`done`), `zip(pending, vectors)` (`pairs`), `manifest_entries` (`wrote`, `missed`) |
| `StartFresh`, `ClearManifest`, `Resume` | lines 555-603; the empty checkpoint is saved before the old manifest is removed |
| `ScrollEnds`, `ScrollOn`, `EmbedPage` | one page: nothing left, nothing to embed, or texts that are embedded |
| `UpsertPoint`, `AppendManifest`, `SaveCheckpoint`, `FinishRun` | lines 691-798, one write after the other |
| `CrashReindex` | the process dies, or an upsert raises; within an append to the manifest it leaves a prefix |
| `saved`, `progress` | the ingestion's checkpoint file and `self._progress`; the file is written in place, and one that cannot be read counts as none |
| `StartIngest`, `unread`, `Listings`, `DryRun` | `run_ingestion` up to its loop (509-616): the files that cannot be read are left out (566-570), and the list of what is there may be cut short (580-594) |
| `SkipChunk`, `StopInterrupted`, `EmbedFails`, `EmbedChunk`, `UpsertBatch`, `UpsertFails`, `SaveIfDue` | the loop, one iteration at a time |
| `FlushFinal`, `Complete` | after the loop (676-702) |
| `Signal`, `CrashIngest` | the signal handler; a kill, a second signal or an exception |

`owed`, `cut`, `outcome` and `answer` are history variables.  `outcome` is what a run
without `--limit` reports: `complete` is exit status 0.

### Recall, jobs, scripts and stores, and the code

| Model | Code |
|---|---|
| `AddOne`, `RemoveInternal`, `Matches`, `Restored` | `_add_one`, `_remove_internal`, `search` and `from_dict` of `lexical.py` |
| `memories`, `memoriesFresh`, `dims` | `_cache` with its 30 seconds and `_dimension_cache` of `QdrantBackend` |
| `lexical`, `lexicalFile`, `job` | `app.state.lexical_index`, `lexical-index.json`, the index that `scripts/refresh_lexical.py` builds |
| `BeginRecall`, `FirstPass`, `RespondFromFallback` and its two siblings | the handler of `/api/recall-test`; `_first_pass` and the branches of `retrieve` |
| `Failed`, `Reason`, `PassEffects` | the two `try` blocks of `_first_pass` (631-672), which write one `degraded_reason` |
| `PoolActive`, `PoolRest`, `Bands`, `RankPool` | `build_candidate_pool`, a channel that fails included; `_rank_pool_band` with the cuts `dense_k` and `lexical_k` of the policy; `rank_candidate_pool` |
| `Plans`, `Get`, `Put`, `MergedPayload` | what each job selects; `update_payloads` of `scripts/_qdrant_helpers.py` |
| `NextJob`, `Advance` | the order of the jobs in `maintenance.sh`, which goes on after a failure |
| `Rewrite` | a consolidation that is repeated writes a fresh payload under the id of its summary (`scripts/memory_brain_consolidate.py:343-365`) |
| `gov[g]`, `maint[l]` | a shell that runs one of the scripts, and the codes it has collected; `orphan` is a program whose shell was killed and which still holds the lock |
| `SkipGov` | the lock is held: exit 0, and the status file stays as it is (`scripts/autonomous_governance.sh:28-32`) |
| `Verdict`, `CodeUnwritten`, `Report` | the last stage of `autonomous_governance.sh` |
| `brain`, `StatFile`, `ReadFile`, `IngestSection`, `EndFile` | `memory_brain_ingest.main`, file by file; `brain.mtime` is the mtime before the file is read; a section that fails is queued, or lost when the append fails too |
| `RetryEntry`, `WriteQueue`, `Orient`, `EndDream` | the error queue; `memory_brain_consolidate.main` |
| `process`, `Detect`, `ChangeSchema`, `CommitSchema` | `get_session_store` and `SessionStore.__init__` with its migrations |
| `Create`, `RevokeOne`, `Remember`, `RevokeEvery`, `Verify` | `SessionStore` and the handlers of `app.py` and `auth.py` that call it |
| `ReadVersion`, `Migrate`, `CommitMigration` | `run_migrations` of `migration.py` |
| `BeginImport`, `SelectRows`, `Import` | `migrate_legacy_feedback` |

History variables of these modules: `past` and `rankings`; `late`; `lastExit`;
`lostSections` and `dreams`; `ended` and `asked`.  Apart from bounds, the only thing an
action decides by them is the mark `over` of a request, which is itself only there to be
compared with the answer.

## 3. The runs

Passing runs:

| Run | What it shows |
|---|---|
| `store_concurrent` | Web server with a recall thread and an operator thread, a cycle in another process, one fault (crash, failed file operation or damaged file) anywhere.  Types; `OnlyReleasedServed`; `LifecycleSpec`, the refinement of `PolicyLifecycle`. |
| `store_one_writer` | The cycle is the only writer, the server recalls; one fault.  `PromotedHasPrevious`: what is promoted can be undone.  `RollbackRestoresReplaced`: undoing restores what was replaced.  `StartupShadowFits`: a completed start offers no shadow that was promoted already or derived from a policy of another version than the one it serves.  `HotReloadCatchesUp` (liveness): a server whose file was replaced sooner or later reloads it. |
| `evolution_governance` | Several promotions and rollbacks, a runner that waits with outdated policies, a range that is widened, one request at any point, and a crash or failed save.  Types; `BankConsistent`: in the file and in every copy, a count of n passes is backed by n windows of the candidate it is for; `PromotionEarned`: the version that is promoted was passed by the cycle before, a window gap earlier, and undisturbed it is the same policy; `PromotionsRationed`, `BreakerHolds`.  `LifecycleSpec`: what is put in force is a candidate of a released policy, or a released policy again. |
| `memory_services` | Nine parts of the system, each with its faults; the table below says what is shown of each. |

What `memory_services` shows, besides the types of all variables:

| Module | Properties |
|---|---|
| `LexicalIndex` | `IndexSound`: posting lists and frequencies belong to the documents, however these are added, replaced, removed, saved, migrated and restored.  `CacheFresh`: a cached search returns what a search would. |
| `Retrieval` | `HitsHeld`: a hit has had the status it is shown with since the index used was read, whoever overwrites whose index file.  `FailureReported`: after a failure, of one channel or of both, in either pass, the reason given names a channel that failed.  `ActiveFirst`: superseded memories only where active ones are too few, and never ahead of one.  `FairComparison`: all policies of an evaluation rank the same candidates. |
| `MemoryJobs` | `ChainsEnd`: following `superseded_by` ends, except between two memories that the passes order differently.  `ProtectedKept`: a core or long memory is not superseded or expired.  `RevivalNeedsOverlap`: what was superseded or expired comes back only by a PUT of the dashboard that the pipeline has overtaken. |
| `Governance` | `OnePass`: no two maintenance passes side by side.  `EvolvesAfterWholePass`: evolution only after a pass of the same run in which every step ended well.  `StatusTruthful`: the status file and the exit code agree, except for a run that found the lock held. |
| `MemoryBrain` | `AccountedFor`: a file that the next run skips has all its sections in a collection or in the queue, or the error queue has lost their entries.  `DreamsSpaced`: consolidations keep their distance. |
| `Sessions` | `EndedStaysEnded`: what was revoked or had run out when a request arrives is not accepted.  `RegistrySpec`, the refinement of `SessionRegistry`: among other things, nothing but a request for it ends a session. |
| `FeedbackStore` | `ImportedOnce`: an old vote becomes one event, and a completed import left none out.  `VotesKept`: no step loses a vote, and an unknown schema is not touched. |
| `AtomicWrite` | `TornOnlyByOverlap`: whoever opens `active.json` finds one whole policy, whichever process dies and whatever it has left, unless two writes were under way at the same time. |
| `WritePipeline` | Ingestion and re-embedding on one collection, three runs in all, overlapping at any step, fresh, resumed or limited, and two faults.  `ManifestSound` and `IngestCheckpointSound`: what a resumed run skips is there.  `CompleteMeansAll` and `ReadableIngested`: a run that reports success has written everything it owed, of the files it could read, whatever the runs before it left behind.  `VectorsMatchPoints`.  `SuccessesCountedOnce`: no point is counted twice when a page is done again.  `ReindexSpec`: the ingestion is a writer that only adds points, so what is proved about `Reindex` holds next to it. |

Runs that TLC finds violated, each a disagreement between the code and what its
documents or comments say (`PROJECT.json` quotes the lines):

| Run | Disagreement |
|---|---|
| `store_reload_race` | A reload that reads the file before a cycle replaces it installs the old text and records the mtime of the new one: the change is never noticed again. |
| `store_manual_rollback` | The endpoint's rollback goes back to what the server held as previous when it started, not to "the last good state": after a promotion by a cycle it lands on the baseline. |
| `evolution_borrowed_pass` | Versions repeat, and what changes the policies or the range between two cycles keeps the banked pass, so a pass of one candidate helps another with the same version.  TLC's trace has a runner that waits and a range that is widened; a manual rollback leads there too. |
| `evolution_quota` | `promotion_count_30d` never goes down: after two promotions, evolution stops for good. |
| `jobs_mutual` | One pass of `supersede_detect.py` orders undated memories of a topic by their ids as strings (252-255), the other by the scroll (369-372): with integer ids of different length each of two memories supersedes the other. |
| `write_textless` | A point without text, which the log says is skipped, is stored with the vector of the next point, and every later point of its page with the vector of its neighbour. |
| `retrieval_fallback` | When the first pass has found too few active memories, the second pass looks for superseded ones, counts them as fallback, and never adds them to the response. |
| `ingest_collections` | The checkpoint does not say which collection it is of: a run for one collection takes up what a failed run of another has left, and skips chunks that are not there. |

Further disagreements, which need no run to be seen:

- A cycle never looks at `paused` (`evolution.py:1295-1317`), although
  `docs/self-evolution.md:215-217` says that after a pause the next cycle returns "disabled"
  "without touching policy".  `StartCycle` has no such guard.
- `autonomous_governance.sh` exits with 0 when another instance holds the lock (lines
  28-32), although its header says "Exit zero only when every required stage succeeds" (line
  8), and `docs/self-evolution.md:178-179` that it "exits zero only for a complete green
  run".  `SkipGov` records that exit; `StatusTruthful` makes an exception of it, and of
  nothing else.
- An unreadable memory file is logged and left out (`ingestion.py:566-570`); it is not counted
  as failed, and the run ends as "completed".  `unread` holds its chunks, and `ReadableIngested`
  says nothing of them.
- `record_error` passes over every exception (`scripts/memory_brain_ingest.py:397-398`), and the
  file is marked as processed all the same (line 798): a section that failed while the disk was
  full is in no collection and in no queue.  `IngestSection` has that outcome, and
  `AccountedFor` grants it as one of the ways in which the queue loses an entry.
- Where the embedding and the index fail in one request, "lexical_unavailable" replaces
  "embedding_unavailable" (`retrieval_engine.py:671`).

`RollbackRestoresReplaced` holds where one cycle at a time is the only writer.  It fails next
to an operator (`store_manual_rollback`), and next to a second runner too: a runner builds
its store before it takes the lock of the cycles (`scripts/run_evolution_cycle.py:78-80`), so
one that was started while another promoted rolls back with an outdated previous policy.
`HotReloadCatchesUp` and `ReloadMatchesMtime` share the question of the hot reload: the
first, which holds, says that a changed mtime never goes unnoticed for ever; the second,
which fails, that the policy installed with an mtime is the one that belongs to it.

### Bounds, and why they are enough

- *PolicyStore.*  The lineage has the baseline, two generations and a pair of policies
  with the same version, so that "same version" and "same policy" differ.  With one writer
  it is a single line of three generations, in which a policy has the version of the one it
  derives from: three promotions in a row, and parents that versions do not tell apart.  Two
  processes and three threads are what the deployment runs at a time for each kind of
  operation.  The cycle's process ends and starts again without limit, the server
  restarts after a crash.  `MaxFaults = 1`: each fault is one step, and the recovery
  from it runs to the end.  The theorems have no bound.
- *EvolutionCycle.*  Durations are scaled to 1 or 2 ticks and a period of 3 or 6, so that
  each boundary (gap reached or not, cooldown over or not, period over or not) is met from
  both sides within `MaxTime`.  `MaxDepth = 3` generations are what three promotions in a
  row need, of which the quota refuses the last.  `MaxCount = 3` is one more than every
  threshold.  `MaxCycles = 6` bounds the cycles that are not skipped: two passes promote, so
  6 cycles are three promotions' worth.  At most one runner waits for the lock, and one
  request is under way next to the cycle.  `EvolutionGovernance` has the constraint
  `Explored`, four disjuncts: cycles one after the other and nothing else, up to all bounds;
  up to 4 cycles and 2 ticks with one request of any kind, up to the point where an update
  of the state file is lost (the properties about what really happened say nothing after
  it); up to 3 cycles and 2 ticks with runners that wait and one event, which is a request,
  a crash or failed save, or the widening, and the lost updates that follow; and up to 2
  cycles and 1 tick with two of these events.  The candidates of a cycle are symmetric
  (`Symmetry`); the run has no liveness property.
- *WritePipeline,* a part of `memory_services`.  Three points, pages and batches of two: a
  page ends in the middle of the points, and a chunk lies on either side of the offset, or
  makes the pages end elsewhere as long as it is missing.  Two chunks, in another order than
  the scroll's; a batch is flushed half full when one of them is there already or fails.
  `SaveEvery = 1` for the 25 chunks of the code, so that a checkpoint falls inside a batch
  and at its end.  `MaxStarts = 3` runs, of both programs together, and `MaxFaults = 2`
  faults: a run that fails or crashes, a run of the other program next to it, and a
  resumption with a fault of its own.  Both chunks are in files of their own
  (`MemoryFiles`), either of which may be unreadable.  `Limits` has none and 1, less than a
  page.  These bounds also end the behaviours, hence `CHECK_DEADLOCK FALSE`.  The theorems
  about `Reindex` have no bound.
- *MemoryServices.*  `focus` says which component a behaviour is about; only its variables
  tell states apart (`VIEW FocusView`), as no others change.  The components
  share no variable: what one reads of another (the points of Qdrant, an exit code, the
  text of a file) is an input that its module chooses freely.  Every property speaks of
  one component, so a behaviour in which several of them move shows nothing that one of
  them alone does not.
  - *LexicalIndex:* two keys, two tokens, documents with a token from the text, from
    another field, and from both; five operations are an addition, a replacement, a
    save, a restore and a search.  The theorems have no bound.
  - *Retrieval:* two collections that share an id, one superseded memory.  Channels of
    two, a minimum of two active memories and a limit of three lie on both sides of what
    there is.  One change in Qdrant, one request, one failure, at any step: the index
    file, the server's index and the refresh job may each be from before or after it.
  - *MemoryJobs:* three memories of one topic, two of them undated with ids that sort one
    way in the scroll and the other way as strings; one of these is protected once it has
    its tier, the dated one may arrive at any time, is a summary that may be written again,
    and may expire; pairs to merge and to tag; updates that set a tier and updates that do
    not.  Two runs, which may be the pipeline twice or the pipeline and the dashboard, and
    one fault.
  - *Governance:* two governors and a daily pass, one collection (seven steps), three
    starts, one failure or kill.  The theorems have no bound.
  - *MemoryBrain:* a file that is edited once, another that shares a section with it, two
    collections, two runs, two faults, one retry; both kinds of queue entry, with and
    without content.
  - *Sessions:* databases of every schema version; a token of an older version and a new
    one, two threads, two requests that change sessions and any number that check them,
    one expiry, two faults.
  - *FeedbackStore:* databases without a schema, of the versions 2 and 3 and of one that
    the program does not know, with votes and without; two processes, three calls, two
    faults.
  - *AtomicWrite:* two writers, three writes, two deaths: a write over a complete, an empty
    and no temporary file, of the same process and of another.  The theorem has no bound.
  These bounds end the behaviours too, hence `CHECK_DEADLOCK FALSE`.
- *The violation runs* have the smallest bounds at which their case happens.

### Fairness

Only `HotReloadCatchesUp` needs any.  `FairSpec` of `PolicyStore` assumes weak fairness of a
thread that is inside a locked section or between its read and its install (it holds the
interpreter and is not blocked for ever) and of a recall request that finds the file changed
(recalls keep coming).  Nothing is assumed of operators, cycles, restarts or faults.  The
other modules have no liveness property and no fairness: what ought to happen in them at
last (a run that ends, a section that is written) depends on timers, operators and services,
for which the code gives no guarantee.

### Abstractions

- A policy is a name.  Rankings, metrics and reports become the verdict they lead to:
  any verdict may come from any cycle.
- A replacement of a file through `.tmp` and `os.replace` is one step, with the failure
  before it as a separate action.  For writes that do not overlap that is what
  `WritesThatDoNotOverlap` proves.  Two writes at the same time, in the server and in the
  cycle, share the temporary file, and one may rename what the other has just cut: then
  `active.json` is empty or mixed for a moment.  `AtomicWrite` has these behaviours,
  `PolicyStore` leaves them out; a reader of such a file takes it for a damaged one, which
  `PolicyStore` does have.  Permissions, the history archive and logging are left out,
  and so is the renaming of the `policy.json` of an older release (`policy_store.py:498-501`),
  which happens once in an upgrade.  Unlinks that fail are logged and ignored by the code: in the model the file stays.
- The stat that follows a write or a load is its own step where another process can act
  in between.  Quarantining a file and clearing the slot is one step.
- Requests and saves take no time on the clock of `EvolutionCycle`; they interleave with
  the cycle at every step all the same.
- A wait for the lock of the cycles takes no time on the clock either, as the lock is not waited
  for: who finds it held gives up.
- When and with which candidate a cycle failed is not recorded: no code reads it.
- A page of the scroll is `max(2 * batch_size, 50)` points in the code, and a constant
  in the model.  `_embed_batch` halves its batches when the service fails and ends point
  by point; the model has the result, a set of texts without vector.
- The text of a point does not change while a job runs, the two collections of a job stay
  the same, and nobody else writes to the shadow collection.  No code in the repository
  deletes points.
- A dry run of the ingestion is one step.
- *LexicalIndex.*  A document is its set of tokens; how often a token occurs, field
  weights and scores are left out.  `from_dict` counts the frequencies of all documents
  from their texts as soon as one document has no token at all, and leaves out what
  other fields contribute; documents without a token are excluded from the run, and by an
  assumption from the two theorems that fail with them.
- *Retrieval.*  `RecallAssumption` gives the constants their types: there is a collection,
  and there are finitely many memories.  Every memory matches the query, and a channel with
  a limit returns any choice of that many.  Fusion and rerank do not appear: they order what
  was found.  How many candidates of a channel a policy ranks (`dense_k`, `lexical_k`) is a
  choice, one at least.  `include_expired`, backends without `dense_search` and the snapshot id are left out.
- *MemoryJobs.*  What the jobs conclude from a text (tier, topic, date, similarity) is a
  constant per memory.  `JobsAssumption` says that the date is a number, 0 for none, and
  that two memories are compared once.  A memory is its place in the scroll, and `TextRank`
  the place of its id among the ids as strings.  Two undated memories of one topic are
  ordered by the one in one pass and by the other in the other.  The ids of `ingestion.py`
  have the shape of uuids and sort alike both ways; those of `memory_brain_ingest.py` are
  63-bit integers, and of unequal length they do not (`Ambiguous`).  `ChainsEnd` allows for
  links between such memories, and the run `jobs_mutual` shows two that supersede each
  other.  An update that `tier_classifier` plans for other fields than the tier writes the
  payload it read all the same (`Drifting`).  The order within a batch of updates is any
  order.  `ProtectedKept` is about runs without a fault, and not about memories that arrive
  while the pipeline runs: the guard looks at the tier that the classification of the same
  run has written, and after a failed classification, or for a memory that came later, there
  is none.
- *Governance.*  The programs of a stage are their exit codes; killing a shell with its
  program is a kill followed by the end of the orphan.
- *MemoryBrain.*  A section is its content hash, and of consolidation there is only the
  schedule: the summaries it writes are not in `kept`, and that a summary may be written
  again is `Rewrite` of `MemoryJobs`.  `BrainAssumption` says that a run reads at least one
  file, that every file has a version, and that the distance is not 0.  `DREAM_MIN_HOURS`
  less its tolerance of 0.1 is a whole number of ticks.  A version number stands for the
  mtime: two edits within the resolution of mtime are not distinguished by the code either.
- *Sessions, FeedbackStore.*  A statement of SQLite, or a transaction where the code opens
  one, commits or fails as a whole.  A token stands for its hash; scores, times and user ids
  are left out.
- The copy of the state of an actor that is done is reset, because nothing uses it again.

## 4. What is proved

`PolicyStoreProofs`, for every set of policies and lineage, every number of processes,
threads and faults.  The assumptions are `StoreAssumption` and `LineageAssumption`, stated
with the constants: the baseline is a policy, the two marks are not, threads have homes, a
cycle's runner is alone in its process; a candidate carries the version of the policy it is
derived from (`evolution.py:571`).

| Theorem | Statement |
|---|---|
| `Invariant` | `Spec => []IInv` |
| `TypeCorrect` | `Spec => []TypeOK`: in particular no empty slot is ever installed, promoted or written |
| `OnlyReleasedPoliciesServed` | `Spec => []OnlyReleasedServed` |
| `ImplementsLifecycle` | `Spec => LifecycleSpec` |
| `StartOffersOwnCandidate` | `Spec => StartupShadowFits`, an action property |
| `PromotionIsRecoverable` | `Operators = {}` implies `Spec => []PromotedHasPrevious` |
| `RollbackRestores` | `OneRunner(r)` implies `Spec => RollbackRestoresReplaced`, an action property |

`OnlyReleasedServed` speaks of memory only, and is not inductive: a process may fill its
memory from files, and files are written from the memory of other processes and from
threads' local variables.  `IInv` therefore says of every place where a policy can be
what kind it is: the active and previous files (`FilesReleased`) and the active and previous
slots (`MemoryReleased`) hold released policies; the candidate file and the shadow slots
hold policies derived from a released one (`ShadowsDerived`); `ThreadsInPlace` says what
a thread's local variable holds at each label, and that nobody empties the shadow slot
under a cycle that is about to promote it.  One step per
action preserves it (`StepInvariant`).  The refinement rests on two lemmas:
`ReleasedWriteGoesBack` (writing a released policy to `active.json` is a `GoBack` or a
stutter) and `DerivedWriteReleases` (writing a cycle's candidate is a `Release`).

`StartupShadowFits` follows from `ShadowsDerived` and the comparison of versions.  It does
not say that the candidate derives from the very policy served: in the lineage of
`store_one_writer`, "aa" has the version of "a", and after a rollback from "aa" to "a" that
dies before it unlinks `candidate.json` a start takes a candidate of "aa" for one of "a".
The comment "wrong-parent candidate" (`policy_store.py:690`) promises more than versions can
tell.

The other two theorems have a hypothesis on who writes, and the code gives no such guarantee
without it.  `PromotionIsRecoverable`: no operator uses the endpoints; any number of cycles
and faults.  `OneWriter` (the lock lets one runner past its first step) and `PreviousKept`
(a promotion has written `previous.json` before `active.json`, and a rollback has taken its
promotion back before it unlinks the file) are the invariant.  `RollbackRestores`: one
runner at a time besides, as `OneRunner` says, and nothing has failed, as the property says.
What must be carried from a promotion to a rollback by another process, weeks later, is that
the files say what was replaced (`PreviousCurrent`) and that the runner's copies, which were
made while its store started, are still those of the files (`CopiesCurrent`); a store that
starts elsewhere may write `active.json`, but only the baseline that is in force anyway.

`ReindexProofs`, for every finite set of points, every size of a page, all limits, and any
number of runs and faults.  The assumptions are `ReindexAssumption`: points are numbers
other than 0, a page holds at least one; and, for the ingestion, `IngestionAssumption`: its
chunks are a sequence of points, batches and the distance of saves are not empty.

| Theorem | Statement |
|---|---|
| `ReindexInvariant` | `Spec => []IInv` |
| `ManifestNeverAhead` | `Spec => []ManifestSound` |
| `CleanRunWroteAll` | `Spec => []CompleteMeansAll` |
| `VectorsStayWithPoints` | `Textless = {}` implies `Spec => []VectorsMatchPoints` |
| `TypeCorrect` | `Spec => []ReindexTypeOK` |
| `CountNeverAhead` | `Spec => []SuccessesCountedOnce` |
| `IngestInvariant` | `PipelineSpec => []IngestInv` |
| `CheckpointNeverAhead` | `PipelineSpec => []IngestCheckpointSound` |
| `CleanIngestIsWhole` | `PipelineSpec => []ReadableIngested` |
| `PipelineImplementsReindex` | `PipelineSpec => ReindexSpec` |
| `PipelineTypes` | `PipelineSpec => []PipelineTypeOK` |

`CompleteMeansAll` looks at the end of a run; the invariant must say how a run gets there,
across crashes.  `FilesHold`: while the checkpoint counts no failure and no limit has cut
a page, every owed point before its offset is written.  `RunHolds`: the run in memory
keeps the same promise for its own offset, and every owed point of the page in hand is
written or still among the pairs.  That pages leave no gap is a fact about sets of
numbers: `LeastElement` (a finite set of numbers has a least element) gives `EmptyPage` (an
empty page means that nothing is left) and `NextPage` (nothing lies between a page and the
next offset).  `VectorsStayWithPoints` rests on `PositionInjective`: two members of a set do
not share a position, so pairing by position is the identity as long as no point drops out.
That assumption is needed: the run `write_textless` violates the property without it.

`SuccessesCountedOnce` compares a counter with a set, across pages that are done again.
`Counted` says that no counter, of the file or of the run, exceeds the points that the manifest
calls written; `PageKnown` that a run knows all of those (`run.done` holds what the manifest
does) and that what it is about to add to both is new.

`IngestInv` says of the ingestion what its checkpoint does not: while no failure is counted,
every chunk up to the one at work is completed, in the batch in hand, or of a file that
could not be read (`IngestRun`), and what file and memory call completed is in the
collection (`IngestFiles`).  Chunks may repeat, be there already, or come from an older run
with another order.  Every step of the ingestion leaves the variables of `Reindex` alone or
adds points to its source, which is `SourceGrows`: so `PipelineImplementsReindex`, and with
it all theorems about `Reindex` hold while memories are ingested.

`GovernanceProofs`, first the scripts, for any number of shells of either, of collections,
starts and faults.  The assumption is `GovernanceAssumption`: the shells of the two scripts
are different, and there is a collection.

| Theorem | Statement |
|---|---|
| `GovernanceInductive` | `GovSpec => []GovIInv` |
| `GovernanceTypeCorrect` | `GovSpec => []GovTypeOK` |
| `MaintenanceExclusive` | `GovSpec => []OnePass` |
| `EvolutionNeedsWholePass` | `GovSpec => []EvolvesAfterWholePass` |
| `StatusNeverLies` | `GovSpec => []StatusTruthful` |

None of the three properties is inductive.  `OnePass` needs nothing but the lock, but who
holds it must be known where a code is delivered: `OneGovernor` (one shell holds the
governance lock) and `Waiting` (a governor that waits has a pass of its own running) say
that it reaches the right one.  `GoodAudit` carries `EvolvesAfterWholePass` from the end of
a pass over the stage in between: an audit of 0 is a pass that ended whole, and is still the
governor's last one.  `Younger` says that a run in progress is younger than the runs that
have written the status file and exited last, so that a report never goes backwards.  A run
that finds the lock held changes `lastExit` and nothing else.  `VerdictTruthful` is the
lemma about the table of results: "ok" and only "ok" has code 0.

Then the memory brain, for any files and versions of them, any collections, edits, retries,
runs and faults, from `BrainAssumption`.

| Theorem | Statement |
|---|---|
| `BrainInvariant` | `BrainSpec => []BrainInv` |
| `OnlyTheQueueLoses` | `BrainSpec => []AccountedFor` |
| `DreamsAreSpaced` | `BrainSpec => []DreamsSpaced` |
| `BrainTypeCorrect` | `BrainSpec => []BrainTypeOK` |

What the next run skips is decided by the mtimes in the state file, which a run collects in
memory and saves after it has written the queue.  `OnRecord` says of both that an mtime is
never newer than the file, and vouches for every section of that version; the rest of
`FilesAccounted` says how a run gets there: the mtime is taken before the file is read, so
an edit in between only makes it too old; while the sections of a file are handled, those
not accounted for are still to be done (one that fails is queued, or among those the queue
has lost); and while the queue is written, what was in it is in the entries that the run
holds.  `DreamsKept` relates the state file to the history of consolidations (the time of
the last one, damaged, or none) and says that a consolidation that was due when it began
still is when it ends.

Last the lifecycle jobs, for any memories, dates, topics, similarities, tiers, numbers of
runs and faults, from `JobsAssumption`.

| Theorem | Statement |
|---|---|
| `JobsInvariant` | `JobsSpec => []JobsInv` |
| `EveryChainEnds` | `JobsSpec => []ChainsEnd` |
| `ProtectedStay` | `JobsSpec => []ProtectedKept` |
| `OnlyOverlapRevives` | `JobsSpec => RevivalNeedsOverlap`, an action property |
| `JobsTypes` | `JobsSpec => []JobsTypeOK` |

`ChainsEnd` quantifies over sets of memories, and is proved from a fact about single ones: a
superseded memory points to a `Later` one, by date and then in the order of the scroll, or
`Ambiguous` tells the two apart (`Forward`), and a finite set has a latest member.  Since a
PUT writes a payload that was read before, that must hold of payloads on their way too:
`PayloadFits` is said of memories and of what workers hold, and `UpdateFits` of every update
that a plan still has.  `ProtectedKept` needs to know why the guard sees the right tier:
`TiersWritten` follows the classification of a run from its plan through the PUT in hand to
the memories, past the dashboard's, which writes the same tier.  `RevivalNeedsOverlap` rests
on `ReadsInOrder`: of the pipeline and the dashboard only the one puts memories away and
only the other can be overtaken.

`LexicalIndexProofs`, first the index, for any finite set of keys, any tokens and documents
and any number of operations.  `LexicalAssumption` gives the constants their types.  Two of
the theorems assume `EveryDocumentHasToken` besides, without which they are false: see
*Abstractions*.

| Theorem | Statement |
|---|---|
| `LexicalInductive` | `LexSpec => []LexIInv` |
| `LexicalTypeCorrect` | `LexSpec => []LexTypeOK` |
| `IndexAlwaysSound` | `EveryDocumentHasToken` implies `LexSpec => []IndexSound` |
| `CacheAlwaysFresh` | `EveryDocumentHasToken` implies `LexSpec => []CacheFresh` |
| `SearchNeverInvents` | `LexSpec => []NothingFalse`: posting lists are always those of the documents, and a search may miss a document, but returns none that is gone or has no token of the query |

`LexIInv` adds to the two properties that the file is the image of a sound index
(`SoundFile`: a restored index would otherwise be anything) and that the cache holds
what `Matches` returns on the index as it is (`SoundCache`).  Of the frequencies it says only
that they are right if every document has a token.  The lemmas say of each
helper that it keeps an index sound: removing, adding, restoring; the arithmetic of
frequencies rests on the cardinality of a set with one key more or less.

Then recall, for any collections and memories, limits, minimum, and number of changes,
requests and failures, from `RecallAssumption`.

| Theorem | Statement |
|---|---|
| `RecallInvariant` | `RecallSpec => []RecallInv` |
| `HitsAlwaysHeld` | `RecallSpec => []HitsHeld` |
| `FailuresAreReported` | `RecallSpec => []FailureReported` |
| `ComparisonIsFair` | `RecallSpec => []FairComparison` |
| `ActiveAlwaysFirst` | `RecallSpec => []ActiveFirst` |
| `RecallTypes` | `RecallSpec => []RecallTypeOK` |

A hit may come from Qdrant, or from an index that a refresh job has built from one page per
collection, saved, and a server has loaded, changed, or overwritten.  `IndexFits` says of
each index and of its file that every document had its status, in some collection, since a
moment that the index knows; `ListFits` the same of the list in the backend's cache; and
`HeldStays` that time only adds to what has been.  `RequestFits` says that a second pass
uses no older index than the first, so that the hits of both may be judged together, and
what each pass asked for.  `PoolFits` says of the pool that each channel holds candidates of
its status, whichever has failed, `RankingFits` of a ranking that it is one of that pool
with whatever the policy keeps of a channel, and `ActiveFirst` is then a fact about
`Ranked`, for every pool and limit: active candidates first, and superseded ones only where
active ones are fewer than the minimum.

`AtomicWriteProofs`, for any processes, texts and number of writes and wherever the
processes die.  The assumption is `AtomicAssumption`: the two marks for a cut and a mixed text
are no texts.

| Theorem | Statement |
|---|---|
| `AtomicInductive` | `AtomicSpec => []AtomicIInv` |
| `WritesThatDoNotOverlap` | `AtomicSpec => []TornOnlyByOverlap` |
| `AtomicTypes` | `AtomicSpec => []AtomicTypeOK` |

`AtomicIInv` adds that the two names refer to different files (`NamesApart`) and, as long as
no writes have overlapped, that at most one process is in a write (`Alone`) and has the
temporary file open, cut before its write and with its text after it (`OwnTmp`): so a file
left by a dead process is never renamed as it is.

`EvolutionProofs`, for any slots, requests, endpoints, durations, quota and thresholds,
any number of cycles, requests and faults.  The assumption is `EvolutionAssumption`: durations
are numbers, quota and threshold are not 0, and the marks for "no time", "no policy" and
the baseline's version are different from the values they are told from.

| Theorem | Statement |
|---|---|
| `EvolutionInvariant` | `Spec => []EvolutionInv` |
| `EvolutionTypes` | `Spec => []TypeOK` |
| `BankAlwaysConsistent` | `Spec => []BankConsistent` |
| `RationHolds` | `Spec => []PromotionsRationed` |
| `BreakerAlwaysHolds` | `Spec => BreakerHolds`, an action property |
| `PromotionsAreEarned` | `Spec => PromotionEarned`, an action property |
| `CyclesImplementLifecycle` | `Spec => LifecycleSpec` |

`EvolutionInv` has two halves.  `StateFits` (types, and `BankConsistent` of the file and of
every copy) is inductive by itself, whatever is lost: every way to change a state keeps its
bank consistent (`PassRecorded`, `FailureRecorded`, `RollbackRecorded`, `PromotionRecorded`,
`RequestUpdates`).  `HistoryFits` says what a state knows of what really happened, as long
as no update of the file was lost.  A promotion is judged by the copy that a cycle loaded,
so the invariant must say which copies are current: `OneFills` (one actor at a time is
between the cut and the text of the file, and whoever holds a copy then holds an old one)
and `CopiesKnow` (a cycle that is not idle knows the history; while no cycle waits to be
saved, so do the file and every request whose copy is not outdated).  `Knows` itself is
`KnowsPromotions` (count and time), `KnowsRollbacks` (the count of rollbacks may exceed what
cycles did, because an operator's are counted too, and the cooldown starts with the last of
a cycle) and `KnowsLastPass` (version and time).  The state records versions and not
policies, and versions repeat: `LastPassIsCandidate` (undisturbed, the policy that passed
last and the one in shadow are candidates of the policy in force, in the range of the time,
and a running cycle has loaded that policy) and the lemma `VersionIdentifies` are what makes
the same version the same policy.  Once disturbed it is not, and only the version is what
the theorem promises: the run `evolution_borrowed_pass`.

`CyclesImplementLifecycle` needs only `StateFits` and `PoliciesReleased`: what is on disk,
and what a waiting runner and a cycle in progress have loaded as active or previous, was in
force at some time, and their candidates derive from such policies.  Nothing that happens to
the state file touches that.  A promotion is a `Release` of the lifecycle, and not of a
candidate of the policy in force: an operator or another cycle may have rolled back since
the cycle loaded its own.

`SessionsProofs`, for any tokens, worker threads, lifetime, requests and faults.  The
assumption is `SessionsAssumption`: old tokens are tokens, no thread has the name of the
mark for none, and lifetimes are numbers.

| Theorem | Statement |
|---|---|
| `SessionsInvariant` | `WebSpec => []SessionsInv` |
| `SessionsTypes` | `WebSpec => []SessionsTypeOK` |
| `SessionsKept` | `WebSpec => []SessionsSurvive` |
| `EndIsFinal` | `WebSpec => []EndedStaysEnded` |
| `RegistryImplemented` | `WebSpec => RegistrySpec` |

A session's end is decided by a row of the table, but the properties speak of cookies and
of answers.  `RowsTruthful` relates them (a cookie sent has a row, an end acknowledged is a
revoked row, a revoked row was asked for), `Request` says what each request under way
already knows of the rows, and `TokensFresh` that two sign-ins never write the same row.
`StoreOpensOnce` is what makes a migration safe: one thread opens the store, nobody uses it
before, and the rows that the migration read are those it replaces.

`RegistryImplemented` says in one formula what the dashboard may rely on.  The mapping is
simple: the live sessions are the rows that are not revoked, the closed ones those that are,
and a request is pending until the statement that serves it (`Progress`).  So each request
has one moment at which it takes effect, `Create`, `RevokeOne`, `RevokeEvery` or `Verify`,
one lemma each; the opening and migration of the store (`OpeningUnseen`), the memory of
revoked tokens (`RememberUnseen`) and every failure and kill (`StepDrops`) change nothing
that the registry shows, whatever schema the file had.  `SessionsSurvive` follows from it,
and is proved on its own.  The lemmas use `SessionsInv` for what a thread that reaches a
statement may rely on: nobody migrates any more, and a token to be issued has no row.

`FeedbackProofs`, for any number of processes, hits, old votes, calls and faults.  The
assumption is `FeedbackAssumption`: the marks for a plain row and a missing table are no old
votes.

| Theorem | Statement |
|---|---|
| `FeedbackInvariant` | `FeedbackSpec => []FeedbackInv` |
| `FeedbackTypes` | `FeedbackSpec => []FeedbackTypeOK` |
| `OldVotesImportedOnce` | `FeedbackSpec => []ImportedOnce` |
| `NoVoteIsLost` | `FeedbackSpec => VotesKept`, an action property |

`SchemaKnown` (who migrates has seen an older schema; nobody gets past the check of the
version in a database of an unknown one) keeps unknown databases untouched, and
`SelectionCurrent` (the rows an import has selected are the old votes still in the log) makes
"completed" true when it is written.  Every step is shown to keep the invariant and to lose
nothing (`NothingLost`), the second from the first.

**Only model-checked:** `HotReloadCatchesUp`, which is liveness under fairness and out of the
prover's reach.  `ServicesTypeOK` of `MCMemoryServices` is the conjunction of the type
invariants of its components, each proved for its component; the composition itself exists for
TLC only.  The properties of the eight runs that TLC finds violated are, of course, no theorems.
No theorem says what holds next to an operator of `PromotedHasPrevious` and
`RollbackRestoresReplaced`: there they fail.

## 5. What is not modelled

- *Login limiter, passwords, TOTP, recovery codes, CSRF:* they decide whether a sign-in is
  let through; `Sessions` begins where it is.  The limiter's hazards are in the list.
- *Offline evaluation, BM25 scores, ranking arithmetic:* floating point.  What they lead
  to, a verdict or an order, is a choice in `EvolutionCycle` and `Retrieval`.
- *Contracts, privacy, taxonomy, ingestion validation:* checks and redaction, field by
  field, without state.  *Audit and analytics* append and read.
- *`scripts/dedup_cron.py`, `consolidation.py`, `replay_feedback.py`, `ingest_memory.py`:*
  not steps of maintenance, or an older program for what another one does.
- *Backends:* the sample backend, the search of backends without `dense_search`, the
  embedding clients.
- *Scripts:* the status that `maintenance.sh` writes itself when it is told to, and what its
  summary says beyond success or failure.
- *Command line, pages, adapter, acceptance and performance tools, deployment:* they
  keep no state of their own.

## 6. Plan

Done: all modules of section 2 and the theorems of section 4.  Every safety and action
property of the passing runs is stated by a theorem, except the conjunction of types.

Left, in this order:

1. The state file and the queue of the memory brain over several collections.
2. Liveness of the migrations and of the import, once a process keeps calling.
3. The files of `PolicyStore` in place of the pair that `EvolutionCycle` looks at as one.  Both
   implement `PolicyLifecycle`, each with its own callers.
