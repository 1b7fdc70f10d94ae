------------------------------- MODULE Reindex -------------------------------
(***************************************************************************)
(* scripts/reindex_qdrant_embeddings.py: every point of a source           *)
(* collection is embedded again into a shadow collection, page by page.    *)
(* What a run has done is kept in two files, the checkpoint (where to      *)
(* scroll on, and the counters) and the manifest (which points are         *)
(* written).  A run with --resume continues from both; a run without it    *)
(* starts over, but keeps what the shadow collection already holds.        *)
(*                                                                         *)
(* The process may die between any two of its writes; an upsert that       *)
(* raises ends the run as a crash does.  Meanwhile others write to the     *)
(* source collection.  A point is its position in the scroll order, and a  *)
(* vector is the point whose text it was computed from.                    *)
(***************************************************************************)
EXTENDS Integers, FiniteSets

CONSTANTS
    Points,     \* the points that may exist, numbered in scroll order
    Textless,   \* those whose payload has no text to embed
    PageSize,   \* points in one page of the scroll
    Limits,     \* the values given for --limit, 0 for none
    MaxStarts,  \* bound: runs that are started
    MaxFaults   \* bound: crashes and failures of the embedding service

ASSUME ReindexAssumption ==
    /\ Points \subseteq Nat \ {0} /\ IsFiniteSet(Points) /\ Textless \subseteq Points
    /\ PageSize \in Nat \ {0} /\ Limits \subseteq Nat
    /\ {MaxStarts, MaxFaults} \subseteq Nat

VARIABLES
    source,     \* the points of the source collection
    shadow,     \* shadow[p]: what the vector of p embeds, 0 if p is absent
    checkpoint, \* the checkpoint file: the next offset and the counters
    manifest,   \* manifest[p]: the last entry for p
    torn,       \* the manifest ends in half a line
    at,         \* where the run is
    run,        \* its memory
    starts, faults,
    owed,       \* history: the source when the run was last started afresh
    cut,        \* history: since then --limit has cut a page short
    outcome     \* history: what the last run without --limit reported

filesOfRun == <<checkpoint, manifest, torn>>
history == <<owed, cut, outcome>>
reindexVars == <<shadow, filesOfRun, at, run, history>>
vars == <<source, reindexVars, starts, faults>>

Entries == {"none", "failed", "written"}
NoEntry == [p \in Points |-> "none"]
Checkpoint == [next : Points \cup {0}, succeeded : Nat, failed : Nat]
NoRun == [next |-> 0, succeeded |-> 0, failed |-> 0, limit |-> 0, done |-> {},
          after |-> 0, pairs |-> {}, wrote |-> {}, missed |-> {}]
NoFile == [next |-> 0, succeeded |-> 0, failed |-> -1]

-----------------------------------------------------------------------------
(* Pages.  Offset 0 stands for None: the scroll starts at the first point, *)
(* and a page after which nothing is left answers None for the next one.   *)

Position(p, S) == Cardinality({q \in S : q < p})
LowestOf(S, n) == {p \in S : Position(p, S) < n}

Page(offset) == LowestOf({p \in source : p >= offset}, PageSize)

NextOffset(offset) ==
    LET rest == {p \in source : p >= offset} \ Page(offset)
    IN  IF rest = {} THEN 0 ELSE CHOOSE p \in rest : \A q \in rest : p <= q

Processed == run.succeeded + run.failed     \* ckpt.processed

\* pending[:remaining]
Within(S) ==
    IF run.limit = 0 THEN S ELSE LowestOf(S, run.limit - Processed)

\* What is left to do of the page at the run's offset.
Pending == Within(Page(run.next) \ run.done)
LimitReached == run.limit > 0 /\ Processed >= run.limit

\* Mutant of Paired: a text that fails is dropped, and leaves no None behind.
PairedDropping(pending, bad) ==
    LET texts == (pending \ Textless) \ bad
    IN  {pair \in [point : pending, vector : texts] :
            Position(pair.point, pending) = Position(pair.vector, texts)}

\* zip(pending, vectors): points and vectors are paired by position.  A point
\* without text has no vector, and the service fails for the texts in bad, for
\* which the list of vectors holds None.
Paired(pending, bad) ==
    LET texts == pending \ Textless
    IN  {pair \in [point : pending, vector : texts \cup {0}] :
            \E t \in texts :
                /\ Position(pair.point, pending) = Position(t, texts)
                /\ pair.vector = IF t \in bad THEN 0 ELSE t}

-----------------------------------------------------------------------------
Init ==
    /\ source \in SUBSET Points
    /\ shadow = [p \in Points |-> 0]
    /\ checkpoint = NoFile /\ manifest = NoEntry /\ torn = FALSE
    /\ at = "idle" /\ run = NoRun
    /\ starts = 0 /\ faults = 0
    /\ owed = {} /\ cut = FALSE /\ outcome = "none"

Start(limit) ==
    /\ at = "idle" /\ starts < MaxStarts
    /\ starts' = starts + 1
    /\ outcome' = "none"
    /\ UNCHANGED <<source, shadow, faults>>

\* A run without --resume saves an empty checkpoint, then ...
StartFresh(limit) ==
    /\ Start(limit)
    /\ checkpoint' = [next |-> 0, succeeded |-> 0, failed |-> 0]
    /\ run' = [NoRun EXCEPT !.limit = limit]
    /\ at' = "clear"
    /\ owed' = source /\ cut' = FALSE
    /\ UNCHANGED <<manifest, torn>>

\* ... removes the manifest of the run before it.
ClearManifest ==
    /\ at = "clear"
    /\ manifest' = NoEntry /\ torn' = FALSE
    /\ at' = "scroll"
    /\ UNCHANGED <<source, shadow, checkpoint, run, starts, faults, history>>

\* Mutants of Resume: every point with an entry is skipped; no point is.
ResumeSkipsEveryEntry(limit) ==
    /\ checkpoint # NoFile /\ ~torn
    /\ Start(limit)
    /\ run' = [NoRun EXCEPT !.next = checkpoint.next,
                            !.succeeded = checkpoint.succeeded,
                            !.failed = checkpoint.failed,
                            !.limit = limit,
                            !.done = {p \in Points : manifest[p] # "none"}]
    /\ at' = "scroll"
    /\ UNCHANGED <<filesOfRun, owed, cut>>

ResumeSkipsNothing(limit) ==
    /\ checkpoint # NoFile /\ ~torn
    /\ Start(limit)
    /\ run' = [NoRun EXCEPT !.next = checkpoint.next,
                            !.succeeded = checkpoint.succeeded,
                            !.failed = checkpoint.failed,
                            !.limit = limit]
    /\ at' = "scroll"
    /\ UNCHANGED <<filesOfRun, owed, cut>>

\* --resume takes the counters and the offset from the checkpoint and the
\* points to skip from the manifest.  It raises if the manifest is torn.
Resume(limit) ==
    /\ checkpoint # NoFile /\ ~torn
    /\ Start(limit)
    /\ run' = [NoRun EXCEPT !.next = checkpoint.next,
                            !.succeeded = checkpoint.succeeded,
                            !.failed = checkpoint.failed,
                            !.limit = limit,
                            !.done = {p \in Points : manifest[p] = "written"}]
    /\ at' = "scroll"
    /\ UNCHANGED <<filesOfRun, owed, cut>>

\* Nothing is left, or --limit is reached.
ScrollEnds ==
    /\ at = "scroll"
    /\ \/ Page(run.next) = {}
       \/ Page(run.next) \subseteq run.done /\ NextOffset(run.next) = 0
       \/ LimitReached
    /\ at' = "final"
    /\ UNCHANGED <<source, shadow, filesOfRun, run, starts, faults, history>>

\* A page without a point to embed: points without text count as failed, and
\* the scroll goes on.
ScrollOn ==
    /\ at = "scroll" /\ Page(run.next) # {} /\ ~LimitReached
    /\ ~(Page(run.next) \subseteq run.done /\ NextOffset(run.next) = 0)
    /\ Pending \subseteq Textless
    /\ LET ckpt == [next |-> NextOffset(run.next), succeeded |-> run.succeeded,
                    failed |-> run.failed + Cardinality(Pending)]
       IN  /\ run' = [run EXCEPT !.next = ckpt.next, !.failed = ckpt.failed]
           /\ checkpoint' = ckpt
           /\ at' = IF ckpt.next = 0 THEN "final" ELSE "scroll"
    /\ cut' = (cut \/ Pending # Page(run.next) \ run.done)
    /\ UNCHANGED <<source, shadow, manifest, torn, starts, faults, owed, outcome>>

\* A page is read and its texts are embedded, in batches or, when those fail,
\* one by one.
EmbedPage(bad) ==
    /\ at = "scroll" /\ ~LimitReached
    /\ bad \subseteq Pending \ Textless
    /\ ~(Pending \subseteq Textless)
    /\ bad # {} => faults < MaxFaults
    /\ run' = [run EXCEPT !.after = NextOffset(run.next),
                          !.failed = @ + Cardinality(Pending \cap Textless),
                          !.pairs = Paired(Pending, bad)]
    /\ at' = "upsert"
    /\ cut' = (cut \/ Pending # Page(run.next) \ run.done)
    /\ faults' = IF bad = {} THEN faults ELSE faults + 1
    /\ UNCHANGED <<source, shadow, filesOfRun, starts, owed, outcome>>

\* One point after the other is written, if there is a vector for it, and is
\* noted for the manifest.
UpsertPoint(pair) ==
    /\ at = "upsert"
    /\ \A other \in run.pairs : pair.point <= other.point
    /\ IF pair.vector # 0
       THEN /\ shadow' = [shadow EXCEPT ![pair.point] = pair.vector]
            /\ run' = [run EXCEPT !.pairs = @ \ {pair},
                                  !.succeeded = @ + 1,
                                  !.done = @ \cup {pair.point},
                                  !.wrote = @ \cup {pair.point}]
       ELSE /\ run' = [run EXCEPT !.pairs = @ \ {pair},
                                  !.failed = @ + 1,
                                  !.missed = @ \cup {pair.point}]
            /\ UNCHANGED shadow
    /\ UNCHANGED <<source, filesOfRun, at, starts, faults, history>>

\* Mutant of Appended: the entries of points that failed say written.
AppendedAllWritten(S) ==
    [p \in Points |-> IF p \in S \cap (run.wrote \cup run.missed) THEN "written"
                      ELSE manifest[p]]

\* The manifest with the entries of this page that belong to the points in S.
Appended(S) ==
    [p \in Points |-> CASE p \in S \cap run.wrote -> "written"
                        [] p \in S \cap run.missed -> "failed"
                        [] OTHER -> manifest[p]]

AppendManifest ==
    /\ at = "upsert" /\ run.pairs = {}
    /\ manifest' = Appended(Points)
    /\ at' = "save"
    /\ UNCHANGED <<source, shadow, checkpoint, torn, run, starts, faults, history>>

SaveCheckpoint ==
    /\ at = "save"
    /\ checkpoint' = [next |-> run.after, succeeded |-> run.succeeded,
                      failed |-> run.failed]
    /\ run' = [run EXCEPT !.next = run.after, !.after = 0,
                          !.wrote = {}, !.missed = {}]
    /\ at' = IF LimitReached \/ run.after = 0 THEN "final" ELSE "scroll"
    /\ UNCHANGED <<source, shadow, manifest, torn, starts, faults, history>>

\* The checkpoint is saved once more and the summary is printed.
FinishRun ==
    /\ at = "final"
    /\ checkpoint' = [next |-> run.next, succeeded |-> run.succeeded,
                      failed |-> run.failed]
    /\ outcome' = IF run.limit > 0 THEN "none"
                  ELSE IF run.failed = 0 THEN "complete" ELSE "failures"
    /\ at' = "idle" /\ run' = NoRun
    /\ UNCHANGED <<source, shadow, manifest, torn, starts, faults, owed, cut>>

\* The process dies.  While it appends to the manifest it leaves some of the
\* entries, and perhaps half of the next one.
CrashReindex ==
    /\ at # "idle" /\ faults < MaxFaults
    /\ at' = "idle" /\ run' = NoRun
    /\ \/ UNCHANGED <<manifest, torn>>
       \/ /\ at = "upsert" /\ run.pairs = {}
          /\ \E p \in run.wrote \cup run.missed :
                manifest' = Appended({q \in Points : q < p})
          /\ torn' \in BOOLEAN
    /\ faults' = faults + 1
    /\ UNCHANGED <<source, shadow, checkpoint, starts, history>>

RunStep ==
    \/ \E limit \in Limits : StartFresh(limit) \/ Resume(limit)
    \/ ClearManifest
    \/ ScrollEnds \/ ScrollOn
    \/ \E bad \in SUBSET Points : EmbedPage(bad)
    \/ \E pair \in run.pairs : UpsertPoint(pair)
    \/ AppendManifest \/ SaveCheckpoint \/ FinishRun
    \/ CrashReindex

\* Whoever else writes to the source adds or overwrites points; nothing in the
\* repository deletes any.
SourceGrows ==
    /\ source \subseteq source' /\ source' \subseteq Points
    /\ {starts', faults'} \subseteq Nat
    /\ UNCHANGED reindexVars

Next == RunStep \/ SourceGrows
Spec == Init /\ [][Next]_vars

-----------------------------------------------------------------------------
RunType ==
    [next : Points \cup {0}, succeeded : Nat, failed : Nat, limit : Nat,
     done : SUBSET Points, after : Points \cup {0},
     pairs : SUBSET [point : Points, vector : Points \cup {0}],
     wrote : SUBSET Points, missed : SUBSET Points]

ReindexTypeOK ==
    /\ source \subseteq Points
    /\ shadow \in [Points -> Points \cup {0}]
    /\ checkpoint \in Checkpoint \cup {NoFile}
    /\ manifest \in [Points -> Entries] /\ torn \in BOOLEAN
    /\ at \in {"idle", "clear", "scroll", "upsert", "save", "final"}
    /\ run \in RunType
    /\ {starts, faults} \subseteq Nat
    /\ owed \subseteq Points /\ cut \in BOOLEAN
    /\ outcome \in {"none", "complete", "failures"}

\* A point that a resumed run will skip is in the shadow collection: however a
\* run ends, the manifest is never ahead of what was written.
ManifestSound == \A p \in Points : manifest[p] = "written" => shadow[p] # 0

\* When a run without --limit reports no failure, every point that was in the
\* source when the job was started has been written, across crashes, resumed
\* runs and points that others add.  This is claimed only while no --limit has
\* cut a page short: the checkpoint goes on to the next page all the same.
CompleteMeansAll ==
    outcome = "complete" /\ ~cut => \A p \in owed : shadow[p] # 0

\* A vector in the shadow collection embeds the text of the point it is stored
\* with: position i of the vectors belongs to position i of the points.
VectorsMatchPoints == \A p \in Points : shadow[p] \in {0, p}

\* The counter of successes never counts a point twice, whatever is done again
\* after a crash: it is at most the number of points written.
SuccessesCountedOnce ==
    checkpoint # NoFile =>
        checkpoint.succeeded <= Cardinality({p \in Points : shadow[p] # 0})
=============================================================================
