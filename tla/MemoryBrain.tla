---------------------------- MODULE MemoryBrain ----------------------------
(***************************************************************************)
(* memory_brain.py, the first step of maintenance for every collection:    *)
(* memory_brain_ingest.py reads the memory files that have changed and     *)
(* writes their sections to Qdrant, memory_brain_consolidate.py adds       *)
(* summaries.  Both keep a state file that all collections share.          *)
(*                                                                         *)
(* A file is edited at any time, with a new mtime.  A section is its       *)
(* content hash; classification and vectors are left out, and what they    *)
(* may do to a run is to fail.                                             *)
(***************************************************************************)
EXTENDS Integers, FiniteSets, Sequences

CONSTANTS
    BrainCollections,
    Files,
    TextOf,         \* per file, the sets of sections of its versions
    FilesPerRun,    \* MEMORY_BRAIN_MAX_FILES
    MaxTries,       \* retries of a queued section: 3
    DreamMinHours,
    MaxHours,       \* bound: hours that pass
    MaxBrainRuns,   \* bound: runs
    MaxBrainFaults  \* bound: failed sections, aborts and crashes

ASSUME BrainAssumption ==
    /\ {FilesPerRun, DreamMinHours} \subseteq Nat \ {0}
    /\ {MaxTries, MaxHours} \subseteq Nat
    /\ \A f \in Files : Len(TextOf[f]) \in Nat \ {0}

VARIABLES
    version,    \* per file: which version is on disk; it stands for the mtime
    kept,       \* per collection: the sections in Qdrant
    queue,      \* the error queue: entries with the content and how often it was retried
    storing,    \* MEMORY_BRAIN_STORE_ERROR_CONTENT
    processed,  \* .brain_state.json: per file the mtime that was processed, 0 if none
    dream,      \* .dream_state.json: when the last consolidation ended
    brain,      \* the run
    hour,
    lostSections,   \* history: sections whose queue entries were dropped, cut off, or
                    \* never written
    dreams,     \* history: when consolidations ended
    brainRuns, brainFaults

brainVars == <<version, kept, queue, storing, processed, dream, brain, hour, lostSections,
               dreams, brainRuns, brainFaults>>

AllSections == UNION {UNION {TextOf[f][v] : v \in 1..Len(TextOf[f])} : f \in Files}
NoFiles == [f \in Files |-> 0]
Damaged == -1
Never == -2

Sleeping == [pc |-> "idle", collection |-> "", state |-> NoFiles, todo |-> {}, file |-> "",
             mtime |-> 0, sections |-> {}, entries |-> {}, fresh |-> {}]

BrainFault == brainFaults < MaxBrainFaults /\ brainFaults' = brainFaults + 1

BrainInit ==
    /\ version = [f \in Files |-> 1]
    /\ kept = [c \in BrainCollections |-> {}]
    /\ queue = {} /\ storing \in BOOLEAN
    /\ processed = NoFiles /\ dream = Never
    /\ brain = Sleeping
    /\ hour = 0 /\ lostSections = {} /\ dreams = <<>>
    /\ brainRuns = 0 /\ brainFaults = 0

\* Somebody edits a memory file.
Edit(f) ==
    /\ version[f] < Len(TextOf[f])
    /\ version' = [version EXCEPT ![f] = @ + 1]
    /\ UNCHANGED <<kept, queue, storing, processed, dream, brain, hour, lostSections, dreams,
                   brainRuns, brainFaults>>

HourPasses ==
    /\ hour < MaxHours /\ hour' = hour + 1
    /\ UNCHANGED <<version, kept, queue, storing, processed, dream, brain, lostSections, dreams,
                   brainRuns, brainFaults>>

-----------------------------------------------------------------------------
(* memory_brain_ingest.main                                                *)

\* The newest files, whether they were processed or not.
Newest ==
    {S \in SUBSET Files :
        /\ Cardinality(S) = IF Cardinality(Files) < FilesPerRun THEN Cardinality(Files)
                            ELSE FilesPerRun
        /\ \A f \in S, g \in Files \ S : version[f] >= version[g]}

\* A state file that cannot be read counts as empty.
BeginBrain(c) ==
    /\ brain.pc = "idle" /\ brainRuns < MaxBrainRuns
    /\ brainRuns' = brainRuns + 1
    /\ \E files \in Newest :
         brain' = [Sleeping EXCEPT !.pc = "files", !.collection = c, !.todo = files,
                    !.state = IF processed = [f \in Files |-> Damaged] THEN NoFiles ELSE processed]
    /\ UNCHANGED <<version, kept, queue, storing, processed, dream, hour, lostSections, dreams,
                   brainFaults>>

\* stat, and then the file is skipped or processed.
StatFile(f) ==
    /\ brain.pc = "files" /\ f \in brain.todo
    /\ brain' = IF brain.state[f] = version[f] THEN [brain EXCEPT !.todo = @ \ {f}]
                ELSE [brain EXCEPT !.pc = "read", !.todo = @ \ {f}, !.file = f,
                                   !.mtime = version[f]]
    /\ UNCHANGED <<version, kept, queue, storing, processed, dream, hour, lostSections, dreams,
                   brainRuns, brainFaults>>

ReadFile ==
    /\ brain.pc = "read"
    /\ brain' = [brain EXCEPT !.pc = "sections", !.sections = TextOf[brain.file][version[brain.file]]]
    /\ UNCHANGED <<version, kept, queue, storing, processed, dream, hour, lostSections, dreams,
                   brainRuns, brainFaults>>

\* ingest_text skips a section that is there.  A failure is queued, and the
\* section counted as skipped; record_error passes over a failure to queue it (a
\* disk that is full, a line cut off that swallows the next), and the file still
\* counts as processed.
IngestSection(s) ==
    /\ brain.pc = "sections" /\ s \in brain.sections
    /\ brain' = [brain EXCEPT !.sections = @ \ {s}]
    /\ \/ /\ kept' = [kept EXCEPT ![brain.collection] = @ \cup {s}]
          /\ UNCHANGED <<queue, lostSections, brainFaults>>
       \/ /\ BrainFault
          /\ queue' = queue \cup {[section |-> s, content |-> storing, tries |-> 0]}
          /\ UNCHANGED <<kept, lostSections>>
       \/ /\ BrainFault
          /\ lostSections' = lostSections \cup {s}
          /\ UNCHANGED <<kept, queue>>
    /\ UNCHANGED <<version, storing, processed, dream, hour, dreams, brainRuns>>

\* Mutant of MtimeSeen: the mtime is read when the file is done.
MtimeAfter == version[brain.file]

\* The mtime from before the file was read.
MtimeSeen == brain.mtime

EndFile ==
    /\ brain.pc = "sections" /\ brain.sections = {}
    /\ brain' = [brain EXCEPT !.pc = "files", !.state[brain.file] = MtimeSeen]
    /\ UNCHANGED <<version, kept, queue, storing, processed, dream, hour, lostSections, dreams,
                   brainRuns, brainFaults>>

BeginQueue ==
    /\ brain.pc = "files" /\ brain.todo = {}
    /\ brain' = [brain EXCEPT !.pc = "queue", !.entries = queue]
    /\ UNCHANGED <<version, kept, queue, storing, processed, dream, hour, lostSections, dreams,
                   brainRuns, brainFaults>>

Retryable(e) == e.content /\ e.tries < MaxTries

\* An entry is dropped, retried with success (into the collection of this run),
\* or kept for another time.
RetryEntry(e) ==
    /\ brain.pc = "queue" /\ e \in brain.entries
    /\ \/ /\ ~Retryable(e)
          /\ lostSections' = lostSections \cup {e.section}
          /\ brain' = [brain EXCEPT !.entries = @ \ {e}]
          /\ UNCHANGED <<kept, brainFaults>>
       \/ /\ Retryable(e)
          /\ kept' = [kept EXCEPT ![brain.collection] = @ \cup {e.section}]
          /\ brain' = [brain EXCEPT !.entries = @ \ {e}]
          /\ UNCHANGED <<lostSections, brainFaults>>
       \/ /\ Retryable(e) /\ BrainFault
          /\ brain' = [brain EXCEPT !.entries = @ \ {e},
                                    !.fresh = @ \cup {[e EXCEPT !.tries = @ + 1]}]
          /\ UNCHANGED <<kept, lostSections>>
    /\ UNCHANGED <<version, queue, storing, processed, dream, hour, dreams, brainRuns>>

\* The queue is written over, or removed if nothing is left.
WriteQueue ==
    /\ brain.pc = "queue" /\ brain.entries = {}
    /\ queue' = brain.fresh
    /\ brain' = [brain EXCEPT !.pc = "save"]
    /\ UNCHANGED <<version, kept, storing, processed, dream, hour, lostSections, dreams, brainRuns,
                   brainFaults>>

SaveBrain ==
    /\ brain.pc = "save"
    /\ processed' = brain.state
    /\ brain' = [brain EXCEPT !.pc = "orient"]
    /\ UNCHANGED <<version, kept, queue, storing, dream, hour, lostSections, dreams, brainRuns,
                   brainFaults>>

-----------------------------------------------------------------------------
(* memory_brain_consolidate.main, which follows whatever ingest has done   *)

\* Mutant of Due: an hour too early.
DueEarly == dream = Never \/ hour - dream >= DreamMinHours - 1

Due == dream = Never \/ hour - dream >= DreamMinHours

\* A damaged state file, or a Qdrant that does not answer, ends the run; so do
\* too few new memories.  Otherwise topics are gathered and summed up.
Orient ==
    /\ brain.pc = "orient"
    /\ \/ brain' = Sleeping
       \/ /\ dream # Damaged /\ Due /\ kept[brain.collection] # {}
          /\ brain' = [brain EXCEPT !.pc = "dream"]
    /\ UNCHANGED <<version, kept, queue, storing, processed, dream, hour, lostSections, dreams,
                   brainRuns, brainFaults>>

\* The state is saved after the last topic; an exception leaves it as it was.
EndDream ==
    /\ brain.pc = "dream" /\ brain' = Sleeping
    /\ \/ /\ dream' = hour /\ dreams' = Append(dreams, hour)
          /\ UNCHANGED brainFaults
       \/ BrainFault /\ UNCHANGED <<dream, dreams>>
    /\ UNCHANGED <<version, kept, queue, storing, processed, hour, lostSections, brainRuns>>

-----------------------------------------------------------------------------
\* An exception in ingest skips to consolidation; neither queue nor state is
\* written.
AbortIngest ==
    /\ brain.pc \in {"files", "read", "queue"} /\ BrainFault
    /\ brain' = [brain EXCEPT !.pc = "orient"]
    /\ UNCHANGED <<version, kept, queue, storing, processed, dream, hour, lostSections, dreams,
                   brainRuns>>

\* The process dies; a file it is writing is cut off.
CrashBrain ==
    /\ brain.pc # "idle" /\ BrainFault
    /\ brain' = Sleeping
    /\ \/ UNCHANGED <<queue, processed, dream, lostSections>>
       \/ /\ brain.pc = "queue" /\ brain.entries = {}
          /\ queue' = {} /\ lostSections' = lostSections \cup {e.section : e \in brain.fresh}
          /\ UNCHANGED <<processed, dream>>
       \/ /\ brain.pc = "save" /\ processed' = [f \in Files |-> Damaged]
          /\ UNCHANGED <<queue, dream, lostSections>>
       \/ /\ brain.pc = "dream" /\ dream' = Damaged
          /\ UNCHANGED <<queue, processed, lostSections>>
    /\ UNCHANGED <<version, kept, storing, hour, dreams, brainRuns>>

BrainNext ==
    \/ HourPasses
    \/ \E f \in Files : Edit(f) \/ StatFile(f)
    \/ \E c \in BrainCollections : BeginBrain(c)
    \/ ReadFile \/ EndFile \/ BeginQueue \/ WriteQueue \/ SaveBrain
    \/ \E s \in AllSections : IngestSection(s)
    \/ \E e \in brain.entries : RetryEntry(e)
    \/ Orient \/ EndDream \/ AbortIngest \/ CrashBrain

BrainSpec == BrainInit /\ [][BrainNext]_brainVars

-----------------------------------------------------------------------------
BrainTypeOK ==
    /\ \A f \in Files : version[f] \in 1..Len(TextOf[f])
    /\ \A c \in BrainCollections : kept[c] \subseteq AllSections
    /\ \A e \in queue : e.section \in AllSections /\ e.tries \in 0..MaxTries
    /\ \A f \in Files : processed[f] \in {Damaged} \cup 0..Len(TextOf[f])
    /\ dream \in {Damaged, Never} \cup 0..MaxHours

Queued == {e.section : e \in queue}
Written == UNION {kept[c] : c \in BrainCollections}

\* A file that the next run would skip has every one of its sections in some
\* collection or in the queue, or the error queue has lost its entry: dropped it (no
\* content, retries used up), been cut off by a crash, or never received it, as a
\* failed append is passed over (record_error).  Nothing else loses a section: edits
\* while a run reads the file, aborted runs, crashes, damaged state files.
AccountedFor ==
    \A f \in Files : processed[f] = version[f] =>
        TextOf[f][version[f]] \subseteq Written \cup Queued \cup lostSections

\* Consolidations of whatever collections end at least DREAM_MIN_HOURS apart,
\* also when others in between crash or fail.
DreamsSpaced ==
    \A i \in 2..Len(dreams) : dreams[i] - dreams[i - 1] >= DreamMinHours
=============================================================================
