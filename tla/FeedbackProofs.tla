--------------------------- MODULE FeedbackProofs ---------------------------
(***************************************************************************)
(* Proofs about FeedbackStore, for any number of processes that use the    *)
(* database, any hits, any old votes, and any number of calls and faults.  *)
(***************************************************************************)
EXTENDS FeedbackStore, TLAPS

-----------------------------------------------------------------------------
(* The inductive invariant.                                                *)

StoreType ==
    [version : 0..SchemaVersion + 1, results : SUBSET CandidateHits,
     votes : [CandidateHits -> Nat], imported : [OldVotes -> Nat],
     unresolved : SUBSET OldVotes, status : Settled \cup {"none", "running"}]

CallType ==
    [pc : {"idle", "connect", "migrate", "commit", "legacy", "select", "import", "run"},
     op : {"none", "result", "vote", "cleanup"}, hit : CandidateHits \cup {"none"},
     seen : 0..SchemaVersion, rows : SUBSET (OldVotes \cup {Plain})]

\* The types of the variables, fields included.
Types ==
    /\ store \in StoreType
    /\ auditLog = NoLog \/ auditLog \subseteq OldVotes \cup {Plain}
    /\ call \in [Callers -> CallType]
    /\ \A c \in Callers : call[c].op = "result" => call[c].hit \in CandidateHits

\* A call that migrates knows the schema it found, and nothing gets past the
\* check of the version in a database with a schema nobody knows.
SchemaKnown ==
    /\ \A c \in Callers :
           call[c].pc \in {"migrate", "commit"} => call[c].seen < SchemaVersion
    /\ store.version > SchemaVersion =>
           \A c \in Callers : call[c].pc \in {"idle", "connect"}

\* The rows an import has selected are still those the audit log holds: what is
\* added to the log meanwhile names no memory.
SelectionCurrent ==
    \A c \in Callers : call[c].pc = "import" =>
        auditLog \cap OldVotes = call[c].rows \cap OldVotes

FeedbackInv == Types /\ SchemaKnown /\ SelectionCurrent /\ ImportedOnce

-----------------------------------------------------------------------------
(* What a step must keep.                                                  *)

\* No vote and no imported event is lost, and a database nobody knows is not
\* written to.
NothingLost ==
    /\ \A h \in CandidateHits : store'.votes[h] >= store.votes[h]
    /\ \A o \in OldVotes : store'.imported[o] >= store.imported[o]
    /\ store.version > SchemaVersion => store' = store

\* A step that changes no vote and no event, and no unknown schema.
LEMMA SameVotes ==
  ASSUME Types, store'.votes = store.votes, store'.imported = store.imported,
         store.version > SchemaVersion => store' = store
  PROVE  NothingLost
BY DEF NothingLost, Types, StoreType

\* One process moves, and what is known of a call holds of where it moves to.
LEMMA CallMoves ==
  ASSUME FeedbackInv, NEW c \in Callers,
         call'[c] \in CallType, call' = [call EXCEPT ![c] = call'[c]],
         \/ call'[c].op = call[c].op /\ call'[c].hit = call[c].hit
         \/ call'[c].op = "result" => call'[c].hit \in CandidateHits,
         auditLog' = auditLog, store' \in StoreType,
         call'[c].pc \in {"migrate", "commit"} => call'[c].seen < SchemaVersion,
         store'.version > SchemaVersion =>
             store.version > SchemaVersion /\ call'[c].pc \in {"idle", "connect"},
         call'[c].pc = "import" => auditLog \cap OldVotes = call'[c].rows \cap OldVotes,
         ImportedOnce'
  PROVE  FeedbackInv'
<1>1. call' \in [Callers -> CallType] /\ \A d \in Callers \ {c} : call'[d] = call[d]
  BY DEF FeedbackInv, Types
<1>2. Types'
  <2>1. \A d \in Callers : call'[d].op = "result" => call'[d].hit \in CandidateHits
    BY <1>1 DEF FeedbackInv, Types
  <2> QED
    BY <1>1, <2>1 DEF FeedbackInv, Types
<1>3. SchemaKnown'
  <2>1. \A d \in Callers : call'[d].pc \in {"migrate", "commit"} => call'[d].seen < SchemaVersion
    BY <1>1 DEF FeedbackInv, SchemaKnown
  <2>2. ASSUME store'.version > SchemaVersion, NEW d \in Callers
        PROVE  call'[d].pc \in {"idle", "connect"}
    BY <1>1, <2>2 DEF FeedbackInv, SchemaKnown
  <2> QED
    BY <2>1, <2>2 DEF SchemaKnown
<1>4. SelectionCurrent'
  BY <1>1 DEF FeedbackInv, SelectionCurrent
<1> QED
  BY <1>2, <1>3, <1>4 DEF FeedbackInv

\* The process returns: nothing is known of an idle call.
LEMMA CallReturns ==
  ASSUME FeedbackInv, NEW c \in Callers, Return(c), auditLog' = auditLog,
         store' \in StoreType, ImportedOnce',
         store'.version > SchemaVersion => store.version > SchemaVersion
  PROVE  FeedbackInv'
<1>1. Between \in CallType /\ Between.pc = "idle" /\ Between.op = "none"
  BY DEF Between, CallType, SchemaVersion
<1>2. call' = [call EXCEPT ![c] = Between] /\ call'[c] = Between
  BY DEF Return, FeedbackInv, Types
<1> QED
  BY <1>1, <1>2, CallMoves

\* The process goes on to its next point.
LEMMA CallGoes ==
  ASSUME Types, NEW c \in Callers,
         NEW p \in {"connect", "migrate", "commit", "legacy", "select", "import", "run"},
         Go(c, p)
  PROVE  /\ call'[c] \in CallType /\ call' = [call EXCEPT ![c] = call'[c]]
         /\ call'[c].pc = p /\ call'[c].seen = call[c].seen /\ call'[c].rows = call[c].rows
         /\ call'[c].op = call[c].op /\ call'[c].hit = call[c].hit
BY DEF Go, Types, CallType

\* The import's promise, if neither its state nor the old votes change.
LEMMA ImportStays ==
  ASSUME FeedbackInv, store'.imported = store.imported,
         store'.status = store.status \/ store'.status # "completed",
         auditLog' \cap OldVotes = auditLog \cap OldVotes
  PROVE  ImportedOnce'
<1>1. OldVotes \subseteq auditLog' <=> OldVotes \subseteq auditLog
  OBVIOUS
<1> QED
  BY <1>1 DEF FeedbackInv, ImportedOnce

-----------------------------------------------------------------------------
(* The initial states.                                                     *)

\* Initially no process holds anything, and nothing has been imported.
LEMMA FeedbackInitial == FeedbackInit => FeedbackInv
<1> SUFFICES ASSUME FeedbackInit PROVE FeedbackInv
  OBVIOUS
<1> USE DEF SchemaVersion
<1>1. PICK v \in {0, 2, SchemaVersion, SchemaVersion + 1}, r \in {{}, CandidateHits} :
          store = [version |-> v, results |-> r,
                   votes |-> [h \in CandidateHits |-> IF h \in r THEN 1 ELSE 0],
                   imported |-> [o \in OldVotes |-> 0], unresolved |-> {}, status |-> "none"]
  BY DEF FeedbackInit
<1>2. store \in StoreType
  BY <1>1 DEF StoreType
<1>3. call = [c \in Callers |-> Between] /\ Between \in CallType /\ Between.pc = "idle"
      /\ Between.op = "none"
  BY DEF FeedbackInit, Between, CallType
<1>4. Types
  BY <1>2, <1>3 DEF FeedbackInit, Types
<1>5. SchemaKnown /\ SelectionCurrent
  BY <1>3 DEF SchemaKnown, SelectionCurrent
<1>6. ImportedOnce
  BY <1>1 DEF ImportedOnce
<1> QED
  BY <1>4, <1>5, <1>6 DEF FeedbackInv

-----------------------------------------------------------------------------
(* The steps.                                                              *)

\* A call arrives: it holds nothing yet.
LEMMA ArrivalKeeps ==
  ASSUME FeedbackInv, NEW c \in Callers, NEW op \in {"result", "vote", "cleanup"},
         NEW h \in CandidateHits \cup {"none"}, Call(c, op, h),
         op = "result" => h \in CandidateHits
  PROVE  FeedbackInv' /\ NothingLost
<1>1. UNCHANGED <<store, auditLog>> /\ Types
      /\ call' = [call EXCEPT ![c] = [Between EXCEPT !.pc = "connect", !.op = op, !.hit = h]]
  BY DEF Call, FeedbackInv
<1>2. call'[c] = [pc |-> "connect", op |-> op, hit |-> h, seen |-> 0, rows |-> {}]
  BY <1>1 DEF Types, Between
<1>3. call'[c] \in CallType /\ call'[c].pc = "connect"
      /\ call'[c].op = op /\ call'[c].hit = h
  BY <1>2 DEF CallType, SchemaVersion
<1>4. ImportedOnce' /\ NothingLost
  BY <1>1, ImportStays, SameVotes
<1> QED
  BY <1>1, <1>2, <1>3, <1>4, CallMoves DEF Types

\* Votes of the current version name no memory.
LEMMA PlainVoteKeeps ==
  ASSUME FeedbackInv, PlainVote
  PROVE  FeedbackInv' /\ NothingLost
<1>1. UNCHANGED <<store, call>> /\ auditLog' = (auditLog \ NoLog) \cup {Plain} /\ Types
  BY DEF PlainVote, FeedbackInv
<1>2. auditLog' \subseteq OldVotes \cup {Plain}
  BY <1>1 DEF Types
<1>3. auditLog' \cap OldVotes = auditLog \cap OldVotes
  BY <1>1, FeedbackAssumption DEF NoLog, Plain
<1>4. ImportedOnce' /\ NothingLost
  BY <1>1, <1>3, ImportStays, SameVotes
<1> QED
  BY <1>1, <1>2, <1>3, <1>4 DEF FeedbackInv, Types, SchemaKnown, SelectionCurrent

\* The version that a connection reads decides where the call goes on, or that it ends.
LEMMA ReadVersionKeeps ==
  ASSUME FeedbackInv, NEW c \in Callers, ReadVersion(c)
  PROVE  FeedbackInv' /\ NothingLost
<1> USE DEF SchemaVersion
<1>1. UNCHANGED <<store, auditLog>> /\ Types /\ store \in StoreType
  BY DEF ReadVersion, At, FeedbackInv, Types
<1>2. ImportedOnce' /\ NothingLost
  BY <1>1, ImportStays, SameVotes
<1>3. CASE store.version > SchemaVersion
  <2>1. Return(c)
    BY <1>3 DEF ReadVersion
  <2> QED
    BY <1>1, <1>2, <2>1, CallReturns
<1>4. CASE ~(store.version > SchemaVersion)
  <2> DEFINE next == IF store.version = SchemaVersion THEN "legacy" ELSE "migrate"
  <2>1. call' = [call EXCEPT ![c].seen = store.version, ![c].pc = next]
    BY <1>4 DEF ReadVersion
  <2>2. store.version \in 0..SchemaVersion /\ next \in {"legacy", "migrate"}
        /\ (next = "migrate" => store.version < SchemaVersion)
    BY <1>1, <1>4 DEF StoreType
  <2> HIDE DEF next
  <2>3. /\ call'[c] \in CallType /\ call' = [call EXCEPT ![c] = call'[c]]
        /\ call'[c].pc = next /\ call'[c].seen = store.version
        /\ call'[c].op = call[c].op /\ call'[c].hit = call[c].hit
    BY <1>1, <2>1, <2>2 DEF Types, CallType
  <2> QED
    BY <1>1, <1>2, <1>4, <2>2, <2>3, CallMoves
<1> QED
  BY <1>3, <1>4

\* Neither the statements of a migration nor its commit touch a vote, and what
\* is committed is a version the program knows.
LEMMA MigrationKeeps ==
  ASSUME FeedbackInv, NEW c \in Callers, Migrate(c) \/ CommitMigration(c)
  PROVE  FeedbackInv' /\ NothingLost
<1> USE DEF SchemaVersion
<1>1. auditLog' = auditLog /\ Types /\ store \in StoreType
      /\ call[c].pc \in {"migrate", "commit"}
  BY DEF Migrate, CommitMigration, At, FeedbackInv, Types
<1>2. /\ call[c].seen < SchemaVersion /\ call[c].seen \in 0..SchemaVersion
      /\ ~(store.version > SchemaVersion)
  BY <1>1 DEF FeedbackInv, SchemaKnown, Types, CallType
<1>3. CASE Migrate(c)
  <2>1. store' = store /\ Go(c, "commit")
    BY <1>3 DEF Migrate
  <2>2. /\ call'[c] \in CallType /\ call' = [call EXCEPT ![c] = call'[c]]
        /\ call'[c].pc = "commit" /\ call'[c].seen = call[c].seen
        /\ call'[c].op = call[c].op /\ call'[c].hit = call[c].hit
    BY <1>1, <2>1, CallGoes
  <2>3. ImportedOnce' /\ NothingLost
    BY <1>1, <2>1, ImportStays, SameVotes
  <2> QED
    BY <1>1, <1>2, <2>1, <2>2, <2>3, CallMoves
<1>4. CASE CommitMigration(c)
  <2> DEFINE next == IF call[c].seen + 1 = SchemaVersion THEN "legacy" ELSE "migrate"
             reached == call[c].seen + 1
  <2>1. /\ store' = [store EXCEPT !.version = reached]
        /\ call' = [call EXCEPT ![c].seen = reached, ![c].pc = next]
    BY <1>4 DEF CommitMigration
  <2>2. reached \in 0..SchemaVersion /\ next \in {"legacy", "migrate"}
        /\ (next = "migrate" => reached < SchemaVersion)
    BY <1>2
  <2> HIDE DEF next, reached
  <2>3. /\ store' \in StoreType /\ store'.version = reached
        /\ store'.votes = store.votes /\ store'.imported = store.imported
        /\ store'.status = store.status
    BY <1>1, <2>1, <2>2 DEF StoreType
  <2>4. /\ call'[c] \in CallType /\ call' = [call EXCEPT ![c] = call'[c]]
        /\ call'[c].pc = next /\ call'[c].seen = reached
        /\ call'[c].op = call[c].op /\ call'[c].hit = call[c].hit
    BY <1>1, <2>1, <2>2 DEF Types, CallType
  <2>5. ImportedOnce' /\ NothingLost
    BY <1>1, <1>2, <2>3, ImportStays, SameVotes
  <2> QED
    BY <1>1, <2>2, <2>3, <2>4, <2>5, CallMoves
<1> QED
  BY <1>3, <1>4

-----------------------------------------------------------------------------
(* The import of the old votes.                                            *)

\* BeginImport and SelectRows: the state of the import and where the call goes;
\* "completed" is only stored when the audit log is empty.
LEMMA SelectionKeeps ==
  ASSUME FeedbackInv, NEW c \in Callers, BeginImport(c) \/ SelectRows(c)
  PROVE  FeedbackInv' /\ NothingLost
<1>1. auditLog' = auditLog /\ Types /\ store \in StoreType
      /\ call[c].pc \in {"legacy", "select"}
  BY DEF BeginImport, SelectRows, At, FeedbackInv, Types
<1>2. ~(store.version > SchemaVersion)
  BY <1>1 DEF FeedbackInv, SchemaKnown
<1>3. ASSUME NEW s \in Settled \cup {"running"}, store' = [store EXCEPT !.status = s]
      PROVE  /\ store' \in StoreType /\ store'.version = store.version
             /\ store'.votes = store.votes /\ store'.imported = store.imported
             /\ store'.status = s
  BY <1>1, <1>3 DEF StoreType
<1>4. ASSUME NEW p \in {"run", "select"}, Go(c, p), store' \in StoreType,
             store'.version = store.version,
             store'.votes = store.votes, store'.imported = store.imported, ImportedOnce'
      PROVE  FeedbackInv' /\ NothingLost
  <2>1. /\ call'[c] \in CallType /\ call' = [call EXCEPT ![c] = call'[c]]
        /\ call'[c].pc = p
        /\ call'[c].op = call[c].op /\ call'[c].hit = call[c].hit
    BY <1>1, <1>4, CallGoes
  <2>2. NothingLost
    BY <1>1, <1>2, <1>4, SameVotes
  <2>3. FeedbackInv'
    BY <1>1, <1>2, <1>4, <2>1, CallMoves
  <2> QED
    BY <2>2, <2>3
<1>5. CASE BeginImport(c)
  <2>1. CASE Go(c, "run") /\ UNCHANGED store
    <3>1. ImportedOnce'
      BY <1>1, <2>1, ImportStays
    <3> QED
      BY <1>1, <1>4, <2>1, <3>1
  <2>2. CASE Go(c, "select") /\ store' = [store EXCEPT !.status = "running"]
    <3>1. /\ store' \in StoreType /\ store'.version = store.version
          /\ store'.votes = store.votes /\ store'.imported = store.imported
          /\ store'.status = "running"
      BY <1>3, <2>2
    <3>2. ImportedOnce'
      BY <1>1, <3>1, ImportStays
    <3> QED
      BY <1>4, <2>2, <3>1, <3>2
  <2> QED
    BY <1>5, <2>1, <2>2 DEF BeginImport
<1>6. CASE SelectRows(c)
  <2>1. CASE auditLog = NoLog /\ store' = [store EXCEPT !.status = "not_applicable"]
             /\ Go(c, "run")
    <3>1. /\ store' \in StoreType /\ store'.version = store.version
          /\ store'.votes = store.votes /\ store'.imported = store.imported
          /\ store'.status = "not_applicable"
      BY <1>3, <2>1 DEF Settled
    <3>2. ImportedOnce'
      BY <1>1, <3>1, ImportStays
    <3> QED
      BY <1>4, <2>1, <3>1, <3>2
  <2>2. CASE auditLog = {} /\ store' = [store EXCEPT !.status = "completed"]
             /\ Go(c, "run")
    <3>1. /\ store' \in StoreType /\ store'.version = store.version
          /\ store'.votes = store.votes /\ store'.imported = store.imported
      BY <1>3, <2>2 DEF Settled
    <3>2. OldVotes \subseteq auditLog' => OldVotes = {}
      BY <1>1, <2>2
    <3>3. ImportedOnce'
      BY <3>1, <3>2 DEF FeedbackInv, ImportedOnce
    <3> QED
      BY <1>4, <2>2, <3>1, <3>3
  <2>3. CASE /\ auditLog \notin {NoLog, {}}
             /\ call' = [call EXCEPT ![c].rows = auditLog, ![c].pc = "import"]
             /\ UNCHANGED store
    <3>1. auditLog \subseteq OldVotes \cup {Plain}
      BY <1>1, <2>3 DEF Types
    <3>2. /\ call'[c] \in CallType /\ call' = [call EXCEPT ![c] = call'[c]]
          /\ call'[c].pc = "import" /\ call'[c].rows = auditLog
          /\ call'[c].op = call[c].op /\ call'[c].hit = call[c].hit
      BY <1>1, <2>3, <3>1 DEF Types, CallType
    <3>3. ImportedOnce' /\ NothingLost
      BY <1>1, <2>3, ImportStays, SameVotes
    <3> QED
      BY <1>1, <1>2, <2>3, <3>2, <3>3, CallMoves
  <2> QED
    BY <1>6, <2>1, <2>2, <2>3 DEF SelectRows
<1> QED
  BY <1>5, <1>6

\* One pass of the import: an event for every row that has none yet, and
\* "completed" only if nothing was skipped.
LEMMA ImportKeeps ==
  ASSUME FeedbackInv, NEW c \in Callers, Import(c)
  PROVE  FeedbackInv' /\ NothingLost
<1>1. auditLog' = auditLog /\ Types /\ store \in StoreType /\ Go(c, "run")
      /\ call[c].pc = "import"
  BY DEF Import, At, FeedbackInv, Types
<1>2. ~(store.version > SchemaVersion) /\ auditLog \cap OldVotes = call[c].rows \cap OldVotes
  BY <1>1 DEF FeedbackInv, SchemaKnown, SelectionCurrent
<1> DEFINE named == call[c].rows \cap OldVotes
           new == {o \in named : store.imported[o] = 0}
           events == [o \in OldVotes |-> IF o \in new THEN store.imported[o] + 1
                                                      ELSE store.imported[o]]
<1>3. PICK missed \in {{}, named} :
          store' = [store EXCEPT !.imported = events,
                       !.unresolved = @ \cup (missed \cap new),
                       !.status = IF Plain \in call[c].rows \/ missed /= {}
                                  THEN "completed_with_skips" ELSE "completed"]
  BY DEF Import
<1>4. \A o \in OldVotes : store.imported[o] \in Nat /\ store.imported[o] <= 1
  BY <1>1 DEF FeedbackInv, ImportedOnce, StoreType
<1>5. /\ events \in [OldVotes -> Nat]
      /\ \A o \in OldVotes : events[o] >= store.imported[o] /\ events[o] <= 1
      /\ \A o \in named : events[o] = 1
  BY <1>4
<1> HIDE DEF events, new, named
<1>6. new \subseteq OldVotes
  BY DEF new, named
<1>7. /\ store' \in StoreType /\ store'.version = store.version
      /\ store'.votes = store.votes /\ store'.imported = events
  BY <1>1, <1>3, <1>5, <1>6 DEF StoreType, Settled
<1>8. ImportedOnce'
  <2>1. OldVotes \subseteq auditLog => named = OldVotes
    BY <1>2 DEF named
  <2> QED
    BY <1>1, <1>5, <1>7, <2>1 DEF ImportedOnce
<1>9. NothingLost
  BY <1>1, <1>2, <1>5, <1>7 DEF NothingLost, StoreType
<1>10. /\ call'[c] \in CallType /\ call' = [call EXCEPT ![c] = call'[c]]
       /\ call'[c].pc = "run"
       /\ call'[c].op = call[c].op /\ call'[c].hit = call[c].hit
  BY <1>1, CallGoes
<1> QED
  BY <1>1, <1>2, <1>7, <1>8, <1>9, <1>10, CallMoves

-----------------------------------------------------------------------------
(* The statements of a call, and what stops it.                            *)

\* Results, votes and the retention: one statement on a database of the current schema.
LEMMA StatementKeeps ==
  ASSUME FeedbackInv, NEW c \in Callers, RecordResult(c) \/ Vote(c) \/ Cleanup(c)
  PROVE  FeedbackInv' /\ NothingLost
<1>1. auditLog' = auditLog /\ Types /\ store \in StoreType /\ Return(c)
      /\ call[c].pc = "run" /\ call[c].hit \in CandidateHits \cup {"none"}
  BY DEF RecordResult, Vote, Cleanup, At, FeedbackInv, Types, CallType
<1>2. ~(store.version > SchemaVersion)
  BY <1>1 DEF FeedbackInv, SchemaKnown
<1>3. /\ store' \in StoreType /\ store'.version = store.version
      /\ store'.imported = store.imported /\ store'.status = store.status
      /\ \A h \in CandidateHits : store'.votes[h] >= store.votes[h]
  <2>1. CASE RecordResult(c)
    <3>1. call[c].hit \in CandidateHits
      BY <1>1, <2>1 DEF RecordResult, Types
    <3>2. store' = [store EXCEPT !.results = @ \cup {call[c].hit}]
      BY <2>1 DEF RecordResult
    <3> QED
      BY <1>1, <3>1, <3>2 DEF StoreType
  <2>2. CASE Vote(c)
    <3>1. CASE call[c].hit \in store.results
      <4>1. store' = [store EXCEPT !.votes[call[c].hit] = @ + 1]
            /\ call[c].hit \in CandidateHits
        BY <1>1, <2>2, <3>1 DEF Vote, StoreType
      <4> QED
        BY <1>1, <4>1 DEF StoreType
    <3>2. CASE call[c].hit \notin store.results
      BY <1>1, <2>2, <3>2 DEF Vote, StoreType
    <3> QED
      BY <3>1, <3>2
  <2>3. CASE Cleanup(c)
    <3>1. PICK old \in SUBSET store.results : store' = [store EXCEPT !.results = @ \ old]
      BY <2>3 DEF Cleanup
    <3> QED
      BY <1>1, <3>1 DEF StoreType
  <2> QED
    BY <1>1, <2>1, <2>2, <2>3
<1>4. ImportedOnce' /\ NothingLost
  <2>1. ImportedOnce'
    BY <1>1, <1>3, ImportStays
  <2>2. NothingLost
    BY <1>2, <1>3, <1>1 DEF NothingLost, StoreType
  <2> QED
    BY <2>1, <2>2
<1> QED
  BY <1>1, <1>3, <1>4, CallReturns

\* A transaction that fails is rolled back; a failed import says so.
LEMMA FaultKeeps ==
  ASSUME FeedbackInv, NEW c \in Callers, TransactionFails(c) \/ CallerKilled(c)
  PROVE  FeedbackInv' /\ NothingLost
<1>1. auditLog' = auditLog /\ Types /\ store \in StoreType /\ Return(c)
  BY DEF TransactionFails, CallerKilled, FeedbackInv, Types
<1>2. \/ store' = store
      \/ call[c].pc = "import" /\ store' = [store EXCEPT !.status = "failed"]
  BY DEF TransactionFails, CallerKilled
<1>3. /\ store' \in StoreType /\ store'.version = store.version
      /\ store'.votes = store.votes /\ store'.imported = store.imported
      /\ store'.status = store.status \/ store'.status = "failed"
  BY <1>1, <1>2 DEF StoreType, Settled
<1>4. store.version > SchemaVersion => store' = store
  BY <1>2 DEF FeedbackInv, SchemaKnown
<1>5. ImportedOnce' /\ NothingLost
  BY <1>1, <1>3, <1>4, ImportStays, SameVotes
<1> QED
  BY <1>1, <1>3, <1>5, CallReturns

-----------------------------------------------------------------------------
(* The theorems.                                                           *)

\* Every step keeps the inductive invariant, and loses nothing.
LEMMA FeedbackStep ==
  FeedbackInv /\ [FeedbackNext]_feedbackVars => FeedbackInv' /\ (NothingLost \/ UNCHANGED feedbackVars)
<1> SUFFICES ASSUME FeedbackInv, [FeedbackNext]_feedbackVars
             PROVE  FeedbackInv' /\ (NothingLost \/ UNCHANGED feedbackVars)
  OBVIOUS
<1>1. CASE PlainVote
  BY <1>1, PlainVoteKeeps
<1>2. ASSUME NEW c \in Callers, NEW h \in CandidateHits, Call(c, "result", h) \/ Call(c, "vote", h)
      PROVE  FeedbackInv' /\ NothingLost
  BY <1>2, ArrivalKeeps
<1>3. ASSUME NEW c \in Callers, Call(c, "cleanup", "none")
      PROVE  FeedbackInv' /\ NothingLost
  BY <1>3, ArrivalKeeps
<1>4. ASSUME NEW c \in Callers,
             ReadVersion(c) \/ Migrate(c) \/ CommitMigration(c)
      PROVE  FeedbackInv' /\ NothingLost
  BY <1>4, ReadVersionKeeps, MigrationKeeps
<1>5. ASSUME NEW c \in Callers, BeginImport(c) \/ SelectRows(c) \/ Import(c)
      PROVE  FeedbackInv' /\ NothingLost
  BY <1>5, SelectionKeeps, ImportKeeps
<1>6. ASSUME NEW c \in Callers,
             \/ RecordResult(c) \/ Vote(c) \/ Cleanup(c)
             \/ TransactionFails(c) \/ CallerKilled(c)
      PROVE  FeedbackInv' /\ NothingLost
  BY <1>6, StatementKeeps, FaultKeeps
<1>7. CASE UNCHANGED feedbackVars
  <2>1. UNCHANGED <<store, auditLog, call>>
    BY <1>7 DEF feedbackVars
  <2> QED
    BY <1>7, <2>1 DEF FeedbackInv, Types, SchemaKnown, SelectionCurrent, ImportedOnce
<1> QED
  BY <1>1, <1>2, <1>3, <1>4, <1>5, <1>6, <1>7 DEF FeedbackNext

\* The inductive invariant holds in every reachable state.
THEOREM FeedbackInvariant == FeedbackSpec => []FeedbackInv
  BY FeedbackInitial, FeedbackStep, PTL DEF FeedbackSpec

\* Type correctness: every variable keeps to its type (FeedbackStore.tla).
THEOREM FeedbackTypes == FeedbackSpec => []FeedbackTypeOK
<1>1. FeedbackInv => FeedbackTypeOK
  BY DEF FeedbackInv, Types, StoreType, CallType, FeedbackTypeOK
<1> QED
  BY <1>1, FeedbackInvariant, PTL

\* However often the import is repeated, by whichever process and after whatever
\* failure, an old vote is one event, and an import reported complete left none
\* out (recall_feedback.py:887-950).
THEOREM OldVotesImportedOnce == FeedbackSpec => []ImportedOnce
<1>1. FeedbackInv => ImportedOnce
  BY DEF FeedbackInv
<1> QED
  BY <1>1, FeedbackInvariant, PTL

\* No step loses a vote - not a migration that rebuilds the table of votes, not
\* a crash in the middle of it, not the retention - and a database of a schema
\* the program does not know is never written (migration.py:229-297,
\* recall_feedback.py:665-707).
THEOREM NoVoteIsLost == FeedbackSpec => VotesKept
<1>1. FeedbackInv /\ [FeedbackNext]_feedbackVars =>
          [/\ \A h \in CandidateHits : store'.votes[h] >= store.votes[h]
           /\ \A o \in OldVotes : store'.imported[o] >= store.imported[o]
           /\ store.version > SchemaVersion => store' = store]_feedbackVars
  BY FeedbackStep DEF NothingLost
<1> QED
  BY <1>1, FeedbackInvariant, PTL DEF FeedbackSpec, VotesKept

=============================================================================
