---------------------------- MODULE FeedbackStore ----------------------------
(***************************************************************************)
(* The database of recall runs and votes (recall_feedback.py), the schema  *)
(* migrations every connection runs first (migration.py) and the import of *)
(* the votes that older versions kept in the audit log.                    *)
(*                                                                         *)
(* The dashboard and the command line are two processes: _lock serialises  *)
(* the calls of one process, only SQLite those of both.  Every call opens  *)
(* a connection, which migrates the schema, then imports the old votes,    *)
(* and then runs its own statements, each part in transactions of its own. *)
(* A transaction fails or commits as a whole; a process may be killed      *)
(* between any two steps.                                                  *)
(*                                                                         *)
(* A hit is a candidate key returned for one query.  OldVotes are the      *)
(* audit rows that name a memory; the votes the current version writes to  *)
(* the audit log name none, and the import skips them.  Scores, times and  *)
(* the columns that _ensure_schema adds are left out.                      *)
(***************************************************************************)
EXTENDS Naturals, FiniteSets

CONSTANTS
    Callers,         \* processes that use the database
    CandidateHits,            \* candidate keys, each returned for one query
    OldVotes,        \* rows of the audit log that can be imported
    MaxCalls,        \* bound: calls of all processes
    MaxStoreFaults   \* bound: transactions that fail, plus processes killed

ASSUME FeedbackAssumption == {"plain", "no table"} \cap OldVotes = {}

SchemaVersion == 3

VARIABLES
    store,           \* the committed database
    auditLog,        \* the audit log: absent, or the rows in it
    call,            \* the call each process is in
    calls,
    storeFaults

feedbackVars == <<store, auditLog, call, calls, storeFaults>>

Plain == "plain"     \* audit rows of the current version, which name no memory
NoLog == {"no table"}

Between == [pc |-> "idle", op |-> "none", hit |-> "none", seen |-> 0, rows |-> {}]

Settled == {"completed", "completed_with_skips", "not_applicable", "failed"}

----------------------------------------------------------------------------
\* An existing database of any schema version up to one the program does not
\* know, with votes already in it or none.
FeedbackInit ==
    /\ store \in {[version |-> v, results |-> r, votes |-> [h \in CandidateHits |-> IF h \in r THEN 1 ELSE 0],
                   imported |-> [o \in OldVotes |-> 0], unresolved |-> {}, status |-> "none"] :
                  v \in {0, 2, SchemaVersion, SchemaVersion + 1}, r \in {{}, CandidateHits}}
    /\ store.version = 0 => store.results = {}
    /\ auditLog \in {NoLog, {}, OldVotes}
    /\ call = [c \in Callers |-> Between]
    /\ calls = 0
    /\ storeFaults = 0

Call(c, op, h) ==
    /\ call[c].pc = "idle"
    /\ calls < MaxCalls
    /\ calls' = calls + 1
    /\ call' = [call EXCEPT ![c] = [Between EXCEPT !.pc = "connect", !.op = op, !.hit = h]]
    /\ UNCHANGED <<store, auditLog, storeFaults>>

\* A vote of the current version that only the audit log gets.
PlainVote ==
    /\ calls < MaxCalls
    /\ calls' = calls + 1
    /\ auditLog' = (auditLog \ NoLog) \cup {Plain}
    /\ UNCHANGED <<store, call, storeFaults>>

At(c, pc) == call[c].pc = pc /\ UNCHANGED <<auditLog, calls, storeFaults>>
Go(c, pc) == call' = [call EXCEPT ![c].pc = pc]
Return(c) == call' = [call EXCEPT ![c] = Between]

----------------------------------------------------------------------------
\* Mutant of ReadVersion: a schema the program does not know is migrated.
ReadAnyVersion(c) ==
    /\ At(c, "connect")
    /\ call' = [call EXCEPT ![c].seen = store.version,
           ![c].pc = IF store.version = SchemaVersion THEN "legacy" ELSE "migrate"]
    /\ UNCHANGED store

\* run_migrations reads the version outside any transaction, and refuses to
\* touch a schema it does not know.
ReadVersion(c) ==
    /\ At(c, "connect")
    /\ IF store.version > SchemaVersion
       THEN Return(c)
       ELSE call' = [call EXCEPT ![c].seen = store.version,
                ![c].pc = IF store.version = SchemaVersion THEN "legacy" ELSE "migrate"]
    /\ UNCHANGED store

\* Mutant of Migrate: without a transaction the old table is gone before the
\* new one is committed.
MigrateAutocommit(c) ==
    /\ At(c, "migrate")
    /\ Go(c, "commit")
    /\ store' = IF call[c].seen = 2
                THEN [store EXCEPT !.votes = [h \in CandidateHits |-> 0]] ELSE store

\* The statements of one migration; 2 -> 3 drops the table of the votes after
\* it copied it.  Nothing of it shows before COMMIT.
Migrate(c) ==
    /\ At(c, "migrate")
    /\ Go(c, "commit")
    /\ UNCHANGED store

\* The step and its new version are committed together.  Another process may
\* have gone further meanwhile: every step is written to be repeatable.
CommitMigration(c) ==
    /\ At(c, "commit")
    /\ store' = [store EXCEPT !.version = call[c].seen + 1]
    /\ call' = [call EXCEPT ![c].seen = @ + 1,
           ![c].pc = IF call[c].seen + 1 = SchemaVersion THEN "legacy" ELSE "migrate"]

----------------------------------------------------------------------------
\* migrate_legacy_feedback: only "completed" is final.  Anything else is
\* marked running and tried again by every connection.
BeginImport(c) ==
    /\ At(c, "legacy")
    /\ IF store.status = "completed"
       THEN Go(c, "run") /\ UNCHANGED store
       ELSE Go(c, "select") /\ store' = [store EXCEPT !.status = "running"]

\* Mutant of SelectRows: the import is marked before its rows are written.
SelectMarked(c) ==
    /\ At(c, "select")
    /\ call' = [call EXCEPT ![c].rows = auditLog \ NoLog, ![c].pc = "import"]
    /\ store' = [store EXCEPT !.status = "completed"]

\* What the audit log holds decides.
SelectRows(c) ==
    /\ At(c, "select")
    /\ \/ /\ auditLog = NoLog
          /\ store' = [store EXCEPT !.status = "not_applicable"]
          /\ Go(c, "run")
       \/ /\ auditLog = {}
          /\ store' = [store EXCEPT !.status = "completed"]
          /\ Go(c, "run")
       \/ /\ auditLog \notin {NoLog, {}}
          /\ call' = [call EXCEPT ![c].rows = auditLog, ![c].pc = "import"]
          /\ UNCHANGED store

\* One transaction: every row that names a memory becomes an event, unless the
\* unique index on its source shows that it did already; a memory that no
\* collection holds, or a backend that is down, leaves the event unresolved.
\* The verdict counts what this pass saw.
Import(c) ==
    /\ At(c, "import")
    /\ LET named == call[c].rows \cap OldVotes
           new == {o \in named : store.imported[o] = 0}
       IN \E missed \in {{}, named} :
            store' = [store EXCEPT
                !.imported = [o \in OldVotes |-> IF o \in new THEN @[o] + 1 ELSE @[o]],
                !.unresolved = @ \cup (missed \cap new),
                !.status = IF Plain \in call[c].rows \/ missed /= {}
                           THEN "completed_with_skips" ELSE "completed"]
    /\ Go(c, "run")

----------------------------------------------------------------------------
\* record_recall_result, for one hit of a query; the run it belongs to is
\* recorded before it in a call of its own.
RecordResult(c) ==
    /\ At(c, "run")
    /\ call[c].op = "result"
    /\ store' = [store EXCEPT !.results = @ \cup {call[c].hit}]
    /\ Return(c)

\* record_feedback_v030: a vote for a hit that was never returned is refused.
Vote(c) ==
    /\ At(c, "run")
    /\ call[c].op = "vote"
    /\ IF call[c].hit \in store.results
       THEN store' = [store EXCEPT !.votes[call[c].hit] = @ + 1]
       ELSE UNCHANGED store
    /\ Return(c)

\* _retention_cleanup drops old runs with their results; the votes stay.
Cleanup(c) ==
    /\ At(c, "run")
    /\ call[c].op = "cleanup"
    /\ \E old \in SUBSET store.results : store' = [store EXCEPT !.results = @ \ old]
    /\ Return(c)

\* A transaction fails and is rolled back; the call raises.  A failed import
\* is recorded as failed.
TransactionFails(c) ==
    /\ call[c].pc \in {"commit", "import", "run"}
    /\ storeFaults < MaxStoreFaults
    /\ storeFaults' = storeFaults + 1
    /\ store' = IF call[c].pc = "import" THEN [store EXCEPT !.status = "failed"] ELSE store
    /\ Return(c)
    /\ UNCHANGED <<auditLog, calls>>

CallerKilled(c) ==
    /\ call[c].pc /= "idle"
    /\ storeFaults < MaxStoreFaults
    /\ storeFaults' = storeFaults + 1
    /\ Return(c)
    /\ UNCHANGED <<store, auditLog, calls>>

FeedbackNext ==
    \/ PlainVote
    \/ \E c \in Callers :
        \/ \E h \in CandidateHits : Call(c, "result", h) \/ Call(c, "vote", h)
        \/ Call(c, "cleanup", "none")
        \/ ReadVersion(c)
        \/ Migrate(c)
        \/ CommitMigration(c)
        \/ BeginImport(c)
        \/ SelectRows(c)
        \/ Import(c)
        \/ RecordResult(c)
        \/ Vote(c)
        \/ Cleanup(c)
        \/ TransactionFails(c)
        \/ CallerKilled(c)

FeedbackSpec == FeedbackInit /\ [][FeedbackNext]_feedbackVars

----------------------------------------------------------------------------
\* Types of the variables.
FeedbackTypeOK ==
    /\ store.version \in 0..SchemaVersion + 1
    /\ store.results \subseteq CandidateHits
    /\ DOMAIN store.votes = CandidateHits /\ DOMAIN store.imported = OldVotes
    /\ store.unresolved \subseteq OldVotes
    /\ store.status \in Settled \cup {"none", "running"}
    /\ \A c \in Callers :
        /\ call[c].pc \in {"idle", "connect", "migrate", "commit", "legacy",
                           "select", "import", "run"}
        /\ call[c].op \in {"none", "result", "vote", "cleanup"}
        /\ call[c].hit \in CandidateHits \cup {"none"}
        /\ call[c].seen \in 0..SchemaVersion
        /\ call[c].rows \subseteq OldVotes \cup {Plain}

\* However often the import is repeated, by whichever process, after whatever
\* failure, an old vote is one event; and an import reported complete left
\* none out (recall_feedback.py:887-950).
ImportedOnce ==
    /\ \A o \in OldVotes : store.imported[o] <= 1
    /\ store.status = "completed" /\ OldVotes \subseteq auditLog =>
           \A o \in OldVotes : store.imported[o] = 1

\* No step loses a vote: not a migration that rebuilds the table, not a crash
\* in the middle of it, not the retention (migration.py:229-297,
\* recall_feedback.py:665-707); and a call that failed to migrate, or met an
\* unknown schema, wrote nothing.
VotesKept ==
    [][/\ \A h \in CandidateHits : store'.votes[h] >= store.votes[h]
       /\ \A o \in OldVotes : store'.imported[o] >= store.imported[o]
       /\ store.version > SchemaVersion => store' = store]_feedbackVars

==============================================================================
