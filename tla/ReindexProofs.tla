---------------------------- MODULE ReindexProofs ----------------------------
(***************************************************************************)
(* Proofs about Reindex, for any finite set of points, any size of a page, *)
(* any limits, any number of runs and faults, and any writer that only     *)
(* adds points to the source; and about the ingestion of WritePipeline,    *)
(* which is shown to be such a writer, for any sequence of chunks.         *)
(***************************************************************************)
EXTENDS WritePipeline, FiniteSetTheorems, WellFoundedInduction, TLAPS

-----------------------------------------------------------------------------
(* Positions in a finite set of numbers.                                   *)

\* A finite set of numbers has a least element: that of the smallest of its
\* initial segments.
LEMMA LeastElement ==
  ASSUME NEW S, S \subseteq Nat, IsFiniteSet(S), S # {}
  PROVE  \E m \in S : \A q \in S : m <= q
<1> DEFINE Below(p) == {q \in S : q < p}
           Segments == {Below(p) : p \in S}
<1>1. Segments \subseteq FiniteSubsetsOf(S) /\ Segments # {}
  <2>1. ASSUME NEW p \in S PROVE Below(p) \subseteq S /\ IsFiniteSet(Below(p))
    BY FS_Subset
  <2> QED
    BY <2>1 DEF FiniteSubsetsOf
<1>2. IsWellFoundedOn(StrictSubsetOrdering(S), FiniteSubsetsOf(S))
  BY FS_StrictSubsetOrderingWellFounded
<1> HIDE DEF Segments
<1>3. PICK D \in Segments : \A E \in Segments : <<E, D>> \notin StrictSubsetOrdering(S)
  BY <1>1, <1>2, WFMin
<1>4. PICK m \in S : D = Below(m)
  BY <1>3 DEF Segments
<1>5. ASSUME NEW q \in S, q < m PROVE FALSE
  <2>1. Below(q) \in Segments
    BY DEF Segments
  <2>2. Below(q) \subseteq D /\ q \in D /\ q \notin Below(q)
    <3>1. \A r \in S : r \in Nat
      OBVIOUS
    <3>2. \A r \in S : r < q => r < m
      BY <1>5, <3>1
    <3>3. q < m /\ ~(q < q)
      BY <1>5, <3>1
    <3> QED
      BY <1>4, <3>2, <3>3
  <2>3. <<Below(q), D>> \in StrictSubsetOrdering(S)
    BY <1>4, <2>2 DEF StrictSubsetOrdering
  <2> QED
    BY <1>3, <2>1, <2>3
<1> QED
  BY <1>5

\* Two elements of a finite set do not share a position.
LEMMA PositionInjective ==
  ASSUME NEW S, S \subseteq Nat, IsFiniteSet(S), NEW p \in S, NEW t \in S,
         Position(p, S) = Position(t, S)
  PROVE  p = t
<1> DEFINE Below(x) == {q \in S : q < x}
<1>1. ASSUME NEW x \in S, NEW y \in S, x < y
      PROVE  Cardinality(Below(x)) # Cardinality(Below(y))
  <2>1. Below(x) \subseteq Below(y) /\ x \in Below(y) /\ x \notin Below(x)
    <3>1. \A r \in S : r \in Nat
      OBVIOUS
    <3>2. \A r \in S : r < x => r < y
      BY <1>1, <3>1
    <3>3. x < y /\ ~(x < x)
      BY <1>1, <3>1
    <3> QED
      BY <3>2, <3>3
  <2>2. IsFiniteSet(Below(y))
    BY FS_Subset
  <2> HIDE DEF Below
  <2> QED
    BY <2>1, <2>2, FS_Subset
<1> QED
  BY <1>1 DEF Position

-----------------------------------------------------------------------------
(* Pages.                                                                  *)

\* Sets of points that are in the source are finite sets of numbers.
LEMMA FiniteSource ==
  ASSUME source \subseteq Points, NEW T, T \subseteq source
  PROVE  T \subseteq Nat /\ IsFiniteSet(T)
BY ReindexAssumption, FS_Subset

\* Only a scroll past the last point finds an empty page.
LEMMA EmptyPage ==
  ASSUME source \subseteq Points, NEW offset \in Nat, Page(offset) = {}
  PROVE  \A p \in source : p < offset
<1> DEFINE Rest == {p \in source : p >= offset}
<1>1. SUFFICES ASSUME Rest # {} PROVE FALSE
  BY ReindexAssumption
<1>2. Rest \subseteq Nat /\ IsFiniteSet(Rest)
  BY FiniteSource
<1> HIDE DEF Rest
<1>3. PICK m \in Rest : \A q \in Rest : m <= q
  BY <1>1, <1>2, LeastElement
<1>4. {q \in Rest : q < m} = {}
  <2>1. \A q \in Rest : ~(q < m)
    BY <1>2, <1>3
  <2> QED
    BY <2>1
<1>5. Position(m, Rest) = 0
  BY <1>4, FS_EmptySet DEF Position
<1>6. m \in Page(offset)
  BY <1>5, ReindexAssumption DEF Page, LowestOf, Rest
<1> QED
  BY <1>6

\* The next offset is a point, or 0, and no point of the source from this offset
\* on lies before it and outside the page.
LEMMA NextPage ==
  ASSUME source \subseteq Points, NEW offset \in Nat
  PROVE  /\ NextOffset(offset) \in Points \cup {0}
         /\ \A p \in source : p >= offset =>
               \/ p \in Page(offset)
               \/ NextOffset(offset) # 0 /\ NextOffset(offset) <= p
<1> DEFINE Rest == {p \in source : p >= offset} \ Page(offset)
<1>1. CASE Rest = {}
  BY <1>1 DEF NextOffset
<1>2. CASE Rest # {}
  <2>1. Rest \subseteq Nat /\ IsFiniteSet(Rest)
    BY FiniteSource
  <2>2. NextOffset(offset) = CHOOSE p \in Rest : \A q \in Rest : p <= q
    BY <1>2 DEF NextOffset
  <2>3. Rest \subseteq Points
    OBVIOUS
  <2>4. \A p \in source : p >= offset => p \in Page(offset) \/ p \in Rest
    OBVIOUS
  <2> HIDE DEF Rest
  <2>5. \E m \in Rest : \A q \in Rest : m <= q
    BY <1>2, <2>1, LeastElement
  <2>6. NextOffset(offset) \in Rest /\ \A q \in Rest : NextOffset(offset) <= q
    BY <2>2, <2>5
  <2> QED
    BY <2>3, <2>4, <2>6, ReindexAssumption
<1> QED
  BY <1>1, <1>2

\* What is pending is on the page and not done, and is all of that unless a
\* limit has cut it.
LEMMA PendingOnPage ==
  /\ Pending \subseteq Page(run.next) \ run.done
  /\ Page(run.next) \subseteq source
BY DEF Pending, Within, Page, LowestOf

\* Pairing keeps to the points that are pending.  It gives a point at most one
\* vector, and if none of them lacks a text, no vector but its own.
LEMMA PairsOfPending ==
  ASSUME NEW pending, pending \subseteq Points, NEW bad
  PROVE  /\ Paired(pending, bad) \subseteq [point : pending, vector : Points \cup {0}]
         /\ \A x, y \in Paired(pending, bad) : x.point = y.point => x = y
         /\ pending \cap Textless = {} =>
              \A x \in Paired(pending, bad) : x.vector \in {0, x.point}
<1> DEFINE texts == pending \ Textless
<1>1. /\ pending \subseteq Nat /\ IsFiniteSet(pending)
      /\ texts \subseteq Nat /\ IsFiniteSet(texts)
  BY ReindexAssumption, FS_Subset
<1>2. Paired(pending, bad) =
        {pair \in [point : pending, vector : texts \cup {0}] :
            \E t \in texts :
                /\ Position(pair.point, pending) = Position(t, texts)
                /\ pair.vector = IF t \in bad THEN 0 ELSE t}
  BY DEF Paired
<1>3. Paired(pending, bad) \subseteq [point : pending, vector : Points \cup {0}]
  BY <1>2
<1>4. ASSUME NEW x \in Paired(pending, bad), NEW y \in Paired(pending, bad),
             x.point = y.point
      PROVE  x = y
  <2>1. PICK t \in texts : /\ Position(x.point, pending) = Position(t, texts)
                           /\ x.vector = IF t \in bad THEN 0 ELSE t
    BY <1>2
  <2>2. PICK u \in texts : /\ Position(y.point, pending) = Position(u, texts)
                           /\ y.vector = IF u \in bad THEN 0 ELSE u
    BY <1>2
  <2>3. t = u
    BY <1>1, <1>4, <2>1, <2>2, PositionInjective
  <2> QED
    BY <1>3, <1>4, <2>1, <2>2, <2>3
<1>5. ASSUME pending \cap Textless = {}
      PROVE  \A x \in Paired(pending, bad) : x.vector \in {0, x.point}
  <2>1. texts = pending
    BY <1>5
  <2>2. ASSUME NEW x \in Paired(pending, bad) PROVE x.vector \in {0, x.point}
    <3>1. PICK t \in texts : /\ Position(x.point, pending) = Position(t, texts)
                             /\ x.vector = IF t \in bad THEN 0 ELSE t
      BY <1>2
    <3>2. x.point \in pending
      BY <1>3
    <3>3. t = x.point
      BY <1>1, <2>1, <3>1, <3>2, PositionInjective
    <3> QED
      BY <3>1, <3>3
  <2> QED
    BY <2>2
<1> QED
  BY <1>3, <1>4, <1>5

\* If none of the points that are pending lacks a text, each of them is paired.
LEMMA EveryPendingPaired ==
  ASSUME NEW pending, NEW bad, pending \cap Textless = {}, NEW p \in pending
  PROVE  \E pair \in Paired(pending, bad) : pair.point = p
<1> DEFINE pair == [point |-> p, vector |-> IF p \in bad THEN 0 ELSE p]
<1>1. pending \ Textless = pending
  OBVIOUS
<1>2. pair \in Paired(pending, bad) /\ pair.point = p
  BY <1>1 DEF Paired
<1> QED
  BY <1>2

-----------------------------------------------------------------------------
(* The inductive invariant.  A resumed run trusts the checkpoint: as long  *)
(* as it has counted no failure and no limit has cut a page, everything    *)
(* owed before its offset has been written.  The run in memory keeps the   *)
(* same promise, and on the page in hand every owed point is written or    *)
(* still paired.                                                           *)

WrittenUpTo(offset) == \A p \in owed : p < offset => shadow[p] # 0
AllWritten == \A p \in owed : shadow[p] # 0

FilesHold ==
    /\ owed \subseteq source
    /\ ManifestSound
    /\ checkpoint.failed = 0 /\ ~cut => WrittenUpTo(checkpoint.next)
    /\ CompleteMeansAll

OnPage(p) == run.next <= p /\ (run.after = 0 \/ p < run.after)

RunHolds ==
    /\ \A p \in run.done \cup run.wrote : shadow[p] # 0
    /\ at = "save" => run.pairs = {}
    /\ run.failed = 0 /\ ~cut =>
         /\ WrittenUpTo(run.next)
         /\ at \in {"upsert", "save"} =>
              \A p \in owed : OnPage(p) =>
                 shadow[p] # 0 \/ \E pair \in run.pairs : pair.point = p
         /\ at = "final" /\ run.limit = 0 => AllWritten

IInv == ReindexTypeOK /\ FilesHold /\ RunHolds

\* The manifest with any part of the page's entries appended.
LEMMA AppendedSound ==
  ASSUME ReindexTypeOK, ManifestSound, RunHolds, NEW S
  PROVE  /\ Appended(S) \in [Points -> Entries]
         /\ \A p \in Points : Appended(S)[p] = "written" => shadow[p] # 0
<1>1. manifest \in [Points -> Entries]
  BY DEF ReindexTypeOK
<1>2. ASSUME NEW p \in Points
      PROVE  /\ Appended(S)[p] \in Entries
             /\ Appended(S)[p] = "written" => p \in run.wrote \/ manifest[p] = "written"
  BY <1>1 DEF Appended, Entries
<1> QED
  BY <1>2 DEF Appended, ManifestSound, RunHolds

\* At first nothing runs, and no file promises anything.
LEMMA InitInvariant == Init => IInv
<1> SUFFICES ASSUME Init PROVE IInv
  OBVIOUS
<1>1. NoRun \in RunType /\ NoRun.done = {} /\ NoRun.wrote = {} /\ NoRun.next = 0
  BY DEF NoRun, RunType
<1>2. ReindexTypeOK
  <2>1. /\ manifest \in [Points -> Entries]
        /\ shadow \in [Points -> Points \cup {0}]
    BY DEF Init, NoEntry, Entries
  <2>2. /\ source \subseteq Points /\ checkpoint \in Checkpoint \cup {NoFile}
        /\ torn \in BOOLEAN /\ run \in RunType
        /\ at \in {"idle", "clear", "scroll", "upsert", "save", "final"}
    BY <1>1 DEF Init
  <2>3. {starts, faults} \subseteq Nat
    BY DEF Init
  <2>4. /\ owed \subseteq Points /\ cut \in BOOLEAN
        /\ outcome \in {"none", "complete", "failures"}
    BY DEF Init
  <2> QED
    BY <2>1, <2>2, <2>3, <2>4 DEF ReindexTypeOK
<1>3. FilesHold
  BY DEF Init, FilesHold, ManifestSound, NoEntry, CompleteMeansAll, WrittenUpTo
<1>4. RunHolds
  BY <1>1, ReindexAssumption DEF Init, RunHolds, WrittenUpTo
<1> QED
  BY <1>2, <1>3, <1>4 DEF IInv

\* Every step of a run, a crash and a writer of the source preserve the invariant.
LEMMA StepInvariant == IInv /\ [Next]_vars => IInv'
<1> SUFFICES ASSUME IInv, [Next]_vars PROVE IInv'
  OBVIOUS
<1> USE ReindexAssumption
<1>a. Points \subseteq Nat /\ 0 \notin Points /\ IsFiniteSet(Points)
  OBVIOUS
<1>b. ReindexTypeOK /\ FilesHold /\ RunHolds
  BY DEF IInv
<1>c. NoRun \in RunType /\ NoRun.done = {} /\ NoRun.wrote = {} /\ NoRun.next = 0
      /\ NoRun.failed = 0 /\ NoRun.succeeded = 0 /\ NoRun.pairs = {}
  BY DEF NoRun, RunType
<1>d. /\ source \subseteq Points /\ owed \subseteq Points /\ owed \subseteq source
      /\ run \in RunType
  BY <1>b DEF ReindexTypeOK, FilesHold
<1>e. /\ run.next \in Nat /\ run.next \in Points \cup {0}
      /\ run.succeeded \in Nat /\ run.failed \in Nat /\ run.limit \in Nat
      /\ run.done \subseteq Points /\ run.wrote \subseteq Points /\ run.missed \subseteq Points
      /\ run.after \in Points \cup {0}
      /\ run.pairs \subseteq [point : Points, vector : Points \cup {0}]
  <2>1. run \in RunType
    BY <1>d
  <2>2. /\ run.next \in Points \cup {0}
        /\ run.succeeded \in Nat /\ run.failed \in Nat /\ run.limit \in Nat
        /\ run.after \in Points \cup {0}
    BY <2>1 DEF RunType
  <2>3. /\ run.done \subseteq Points /\ run.wrote \subseteq Points
        /\ run.missed \subseteq Points
        /\ run.pairs \subseteq [point : Points, vector : Points \cup {0}]
    BY <2>1 DEF RunType
  <2>4. run.next \in Nat
    <3>1. run.next = 0 \/ run.next \in Points
      BY <2>2
    <3>2. 0 \in Nat
      OBVIOUS
    <3> QED
      BY <1>a, <3>1, <3>2
  <2> QED
    BY <2>2, <2>3, <2>4
<1>f. /\ Page(run.next) \subseteq source
      /\ Pending \subseteq Page(run.next) \ run.done
      /\ Pending \subseteq Points
  BY <1>d, PendingOnPage
<1>g. /\ NextOffset(run.next) \in Points \cup {0}
      /\ \A p \in source : p >= run.next =>
            \/ p \in Page(run.next)
            \/ NextOffset(run.next) # 0 /\ NextOffset(run.next) <= p
  BY <1>d, <1>e, NextPage
<1>h. /\ IsFiniteSet(Pending) /\ Cardinality(Pending) \in Nat
      /\ Cardinality(Pending) = 0 => Pending = {}
  BY <1>a, <1>f, FS_Subset, FS_CardinalityType, FS_EmptySet
<1>i. /\ IsFiniteSet(Pending \cap Textless) /\ Cardinality(Pending \cap Textless) \in Nat
      /\ Cardinality(Pending \cap Textless) = 0 => Pending \cap Textless = {}
  <2>1. IsFiniteSet(Pending \cap Textless)
    BY <1>h, FS_Subset
  <2> QED
    BY <2>1, FS_CardinalityType, FS_EmptySet
<1>j. ReindexTypeOK /\ ManifestSound /\ RunHolds
  BY <1>b DEF FilesHold
<1>1. ASSUME NEW limit \in Limits, StartFresh(limit) PROVE IInv'
  <2>a. run' \in RunType /\ checkpoint' \in Checkpoint
    BY <1>a, <1>c, <1>1 DEF StartFresh, RunType, Checkpoint
  <2>b. {starts', faults'} \subseteq Nat /\ owed' \subseteq Points
    BY <1>b, <1>1 DEF ReindexTypeOK, StartFresh, Start
  <2>c. UNCHANGED <<source, shadow, manifest, torn>> /\ at' = "clear"
        /\ cut' = FALSE /\ outcome' = "none"
    BY <1>1 DEF StartFresh, Start
  <2>1. ReindexTypeOK'
    BY <1>b, <2>a, <2>b, <2>c DEF ReindexTypeOK
  <2>2. FilesHold'
    BY <1>a, <1>b, <1>1 DEF FilesHold, StartFresh, Start, ReindexTypeOK, ManifestSound,
       CompleteMeansAll, WrittenUpTo
  <2>3. RunHolds'
    BY <1>a, <1>b, <1>c, <1>1 DEF RunHolds, StartFresh, Start, ReindexTypeOK, WrittenUpTo,
       RunType
  <2> QED
    BY <2>1, <2>2, <2>3 DEF IInv
<1>2. CASE ClearManifest
  <2>1. ReindexTypeOK'
    BY <1>b, <1>2 DEF ReindexTypeOK, ClearManifest, history, NoEntry, Entries
  <2>2. FilesHold'
    BY <1>b, <1>2 DEF FilesHold, ClearManifest, history, ManifestSound, NoEntry,
       CompleteMeansAll, WrittenUpTo
  <2>3. RunHolds'
    BY <1>b, <1>2 DEF RunHolds, ClearManifest, history, WrittenUpTo
  <2> QED
    BY <2>1, <2>2, <2>3 DEF IInv
<1>3. ASSUME NEW limit \in Limits, Resume(limit) PROVE IInv'
  <2>1. checkpoint \in Checkpoint
    BY <1>b, <1>3 DEF ReindexTypeOK, Resume
  <2>a. run' \in RunType
    BY <1>c, <1>3, <2>1 DEF Resume, RunType, Checkpoint
  <2>2. ReindexTypeOK'
    BY <1>b, <1>3, <2>a DEF ReindexTypeOK, Resume, Start, filesOfRun
  <2>3. FilesHold'
    BY <1>b, <1>3 DEF FilesHold, Resume, Start, filesOfRun, ManifestSound,
       CompleteMeansAll, WrittenUpTo
  <2>4. /\ run'.done = {p \in Points : manifest[p] = "written"}
        /\ run'.wrote = {} /\ run'.next = checkpoint.next
        /\ run'.failed = checkpoint.failed
    BY <1>c, <1>3 DEF Resume, RunType
  <2>5. RunHolds'
    BY <1>b, <1>3, <2>4 DEF RunHolds, FilesHold, ManifestSound, Resume, Start, filesOfRun,
       WrittenUpTo
  <2> QED
    BY <2>2, <2>3, <2>5 DEF IInv
<1>4. CASE ScrollEnds
  <2>1. ReindexTypeOK'
    BY <1>b, <1>4 DEF ReindexTypeOK, ScrollEnds, history, filesOfRun
  <2>2. FilesHold'
    BY <1>b, <1>4 DEF FilesHold, ScrollEnds, history, filesOfRun, ManifestSound,
       CompleteMeansAll, WrittenUpTo
  <2>3. ASSUME run.failed = 0, ~cut, run.limit = 0 PROVE AllWritten
    <3>1. WrittenUpTo(run.next) /\ run.next \in Nat
      BY <1>a, <1>b, <2>3 DEF RunHolds, ReindexTypeOK, RunType
    <3>2. \A p \in owed : p < run.next \/ p \in run.done
      <4>1. CASE Page(run.next) = {}
        BY <1>b, <3>1, <4>1, EmptyPage DEF ReindexTypeOK, FilesHold
      <4>2. CASE Page(run.next) \subseteq run.done /\ NextOffset(run.next) = 0
        BY <1>a, <1>b, <3>1, <4>2, NextPage DEF ReindexTypeOK, FilesHold
      <4> QED
        BY <1>4, <2>3, <4>1, <4>2 DEF ScrollEnds, LimitReached
    <3> QED
      BY <1>b, <3>1, <3>2 DEF AllWritten, WrittenUpTo, RunHolds
  <2>4. RunHolds'
    BY <1>b, <1>4, <2>3 DEF RunHolds, ScrollEnds, history, filesOfRun, WrittenUpTo,
       AllWritten
  <2> QED
    BY <2>1, <2>2, <2>4 DEF IInv
<1>11. CASE SourceGrows
  <2>1. ReindexTypeOK'
    BY <1>b, <1>11 DEF ReindexTypeOK, SourceGrows, reindexVars, filesOfRun, history
  <2>2. FilesHold'
    BY <1>b, <1>11 DEF FilesHold, SourceGrows, reindexVars, filesOfRun, history,
       ManifestSound, CompleteMeansAll, WrittenUpTo
  <2>3. RunHolds'
    BY <1>b, <1>11 DEF RunHolds, SourceGrows, reindexVars, filesOfRun, history,
       WrittenUpTo, AllWritten, OnPage
  <2> QED
    BY <2>1, <2>2, <2>3 DEF IInv
<1>5. CASE ScrollOn
  <2> DEFINE next == NextOffset(run.next)
             failed == run.failed + Cardinality(Pending)
  <2>1. next \in Points \cup {0} /\ failed \in Nat
    BY <1>e, <1>g, <1>h
  <2>2. /\ run' = [run EXCEPT !.next = next, !.failed = failed]
        /\ checkpoint' = [next |-> next, succeeded |-> run.succeeded, failed |-> failed]
        /\ at' = IF next = 0 THEN "final" ELSE "scroll"
        /\ cut' = (cut \/ Pending # Page(run.next) \ run.done)
    BY <1>5 DEF ScrollOn
  <2>3. UNCHANGED <<source, shadow, manifest, torn, starts, faults, owed, outcome>>
    BY <1>5 DEF ScrollOn
  <2> HIDE DEF next, failed
  <2>4. run' \in RunType /\ checkpoint' \in Checkpoint
    BY <1>d, <1>e, <2>1, <2>2 DEF RunType, Checkpoint
  <2>5. /\ run'.next = next /\ run'.failed = failed
        /\ run'.done = run.done /\ run'.wrote = run.wrote /\ run'.limit = run.limit
    BY <1>d, <2>2 DEF RunType
  <2>6. at' \in {"scroll", "final"} /\ cut' \in BOOLEAN
    BY <1>b, <2>2
  <2>7. ReindexTypeOK'
    BY <1>b, <2>3, <2>4, <2>6 DEF ReindexTypeOK
  <2>8. ASSUME failed = 0, ~cut'
        PROVE  \A p \in owed : shadow[p] # 0 \/ (next # 0 /\ next <= p)
    <3>1. run.failed = 0 /\ Pending = {} /\ ~cut
      <4>1. run.failed = 0 /\ Cardinality(Pending) = 0
        BY <1>e, <1>h, <2>8 DEF failed
      <4> QED
        BY <1>h, <2>2, <2>8, <4>1
    <3>2. Page(run.next) \subseteq run.done
      BY <2>2, <2>8, <3>1
    <3>3. ASSUME NEW p \in owed PROVE shadow[p] # 0 \/ (next # 0 /\ next <= p)
      <4>1. CASE p < run.next
        BY <1>b, <3>1, <4>1 DEF RunHolds, WrittenUpTo
      <4>2. CASE p \in Page(run.next)
        BY <1>b, <3>2, <4>2 DEF RunHolds
      <4> QED
        BY <1>a, <1>d, <1>e, <1>g, <4>1, <4>2 DEF next
    <3> QED
      BY <3>3
  <2>9. ASSUME failed = 0, ~cut'
        PROVE  WrittenUpTo(next) /\ (next = 0 => AllWritten)
    <3>1. \A p \in owed : p \in Nat /\ next \in Nat
      BY <1>a, <1>d, <2>1
    <3>2. \A p \in owed : shadow[p] # 0 \/ (next # 0 /\ next <= p)
      BY <2>8, <2>9
    <3> QED
      BY <3>1, <3>2 DEF WrittenUpTo, AllWritten
  <2>10. FilesHold'
    <3>1. owed' \subseteq source' /\ ManifestSound'
      BY <1>b, <2>3 DEF FilesHold, ManifestSound
    <3>2. CompleteMeansAll'
      BY <1>b, <2>2, <2>3 DEF FilesHold, CompleteMeansAll
    <3>3. checkpoint'.failed = 0 /\ ~cut' => WrittenUpTo(checkpoint.next)'
      BY <2>2, <2>3, <2>9 DEF WrittenUpTo
    <3> QED
      BY <3>1, <3>2, <3>3 DEF FilesHold
  <2>11. RunHolds'
    <3>1. \A p \in run'.done \cup run'.wrote : shadow'[p] # 0
      BY <1>b, <2>3, <2>5 DEF RunHolds
    <3>2. run'.failed = 0 /\ ~cut' =>
            WrittenUpTo(run.next)' /\ (at' = "final" => AllWritten')
      BY <2>2, <2>3, <2>5, <2>9 DEF WrittenUpTo, AllWritten
    <3> QED
      BY <2>6, <3>1, <3>2 DEF RunHolds
  <2> QED
    BY <2>7, <2>10, <2>11 DEF IInv
<1>6. ASSUME NEW bad \in SUBSET Points, EmbedPage(bad) PROVE IInv'
  <2> DEFINE next == NextOffset(run.next)
             failed == run.failed + Cardinality(Pending \cap Textless)
             pairs == Paired(Pending, bad)
  <2>1. /\ next \in Points \cup {0} /\ failed \in Nat
        /\ pairs \subseteq [point : Points, vector : Points \cup {0}]
    <3>1. pairs \subseteq [point : Pending, vector : Points \cup {0}]
      BY <1>f, PairsOfPending
    <3>2. next \in Points \cup {0} /\ failed \in Nat
      BY <1>e, <1>g, <1>i
    <3> HIDE DEF pairs, next, failed
    <3> QED
      BY <1>f, <3>1, <3>2
  <2>2. Pending \cap Textless = {} =>
          \A p \in Pending : \E pair \in pairs : pair.point = p
    BY EveryPendingPaired
  <2>3. /\ run' = [run EXCEPT !.after = next, !.failed = failed, !.pairs = pairs]
        /\ at' = "upsert"
        /\ cut' = (cut \/ Pending # Page(run.next) \ run.done)
    BY <1>6 DEF EmbedPage
  <2>4. /\ UNCHANGED <<source, shadow, checkpoint, manifest, torn, starts, owed, outcome>>
        /\ faults' \in {faults, faults + 1}
    BY <1>6 DEF EmbedPage, filesOfRun
  <2> HIDE DEF next, failed, pairs
  <2>5. run' \in RunType
    BY <1>d, <2>1, <2>3 DEF RunType
  <2>6. /\ run'.next = run.next /\ run'.after = next /\ run'.failed = failed
        /\ run'.pairs = pairs /\ run'.done = run.done /\ run'.wrote = run.wrote
    BY <1>d, <2>3 DEF RunType
  <2>7. cut' \in BOOLEAN /\ {starts', faults'} \subseteq Nat
    BY <1>b, <2>3, <2>4 DEF ReindexTypeOK
  <2>8. ReindexTypeOK'
    BY <1>b, <2>3, <2>4, <2>5, <2>7 DEF ReindexTypeOK
  <2>9. FilesHold'
    <3>1. owed' \subseteq source' /\ ManifestSound'
      BY <1>b, <2>4 DEF FilesHold, ManifestSound
    <3>2. CompleteMeansAll'
      BY <1>b, <2>3, <2>4 DEF FilesHold, CompleteMeansAll
    <3>3. checkpoint'.failed = 0 /\ ~cut' => WrittenUpTo(checkpoint.next)'
      BY <1>b, <2>3, <2>4 DEF FilesHold, WrittenUpTo
    <3> QED
      BY <3>1, <3>2, <3>3 DEF FilesHold
  <2>10. ASSUME failed = 0, ~cut', NEW p \in owed,
                run.next <= p, next = 0 \/ p < next
         PROVE  shadow[p] # 0 \/ \E pair \in pairs : pair.point = p
    <3>1. Pending \cap Textless = {}
      BY <1>e, <1>i, <2>10 DEF failed
    <3>2. p \in Page(run.next)
      <4>1. p \in source /\ p \in Nat /\ p >= run.next /\ next \in Nat
        BY <1>a, <1>d, <1>e, <2>1, <2>10
      <4> QED
        BY <1>g, <2>10, <4>1 DEF next
    <3>3. CASE p \in run.done
      BY <1>b, <3>3 DEF RunHolds
    <3>4. CASE p \in Pending
      BY <2>2, <3>1, <3>4
    <3> QED
      BY <2>3, <2>10, <3>2, <3>3, <3>4
  <2>11. RunHolds'
    <3>1. \A p \in run'.done \cup run'.wrote : shadow'[p] # 0
      BY <1>b, <2>4, <2>6 DEF RunHolds
    <3>2. failed = 0 /\ ~cut' => WrittenUpTo(run.next)'
      <4>1. failed = 0 => run.failed = 0
        BY <1>e, <1>i DEF failed
      <4>2. failed = 0 /\ ~cut' => WrittenUpTo(run.next)
        BY <1>b, <2>3, <4>1 DEF RunHolds
      <4> QED
        BY <2>4, <2>6, <4>2 DEF WrittenUpTo
    <3>3. failed = 0 /\ ~cut' =>
            \A p \in owed' : OnPage(p)' =>
               shadow'[p] # 0 \/ \E pair \in run'.pairs : pair.point = p
      BY <2>4, <2>6, <2>10 DEF OnPage
    <3> QED
      BY <2>3, <2>6, <3>1, <3>2, <3>3 DEF RunHolds
  <2> QED
    BY <2>8, <2>9, <2>11 DEF IInv
<1>7. ASSUME NEW pair \in run.pairs, UpsertPoint(pair) PROVE IInv'
  <2>1. /\ pair.point \in Points /\ pair.vector \in Points \cup {0}
        /\ at = "upsert"
    BY <1>e, <1>7 DEF UpsertPoint
  <2>2. UNCHANGED <<source, checkpoint, manifest, torn, at, starts, faults, owed, cut, outcome>>
    BY <1>7 DEF UpsertPoint, filesOfRun, history
  <2>3. /\ run' \in RunType
        /\ run'.next = run.next /\ run'.after = run.after /\ run'.limit = run.limit
        /\ run'.pairs = run.pairs \ {pair}
        /\ run'.done \cup run'.wrote \subseteq
              run.done \cup run.wrote \cup (IF pair.vector # 0 THEN {pair.point} ELSE {})
        /\ run'.failed = (IF pair.vector # 0 THEN run.failed ELSE run.failed + 1)
    <3> DEFINE pairs == run.pairs \ {pair}
               done == run.done \cup {pair.point}
               wrote == run.wrote \cup {pair.point}
               missed == run.missed \cup {pair.point}
               succeeded == run.succeeded + 1
               failed == run.failed + 1
    <3>1. /\ pairs \subseteq [point : Points, vector : Points \cup {0}]
          /\ done \subseteq Points /\ wrote \subseteq Points /\ missed \subseteq Points
      BY <1>e, <2>1
    <3>2. succeeded \in Nat /\ failed \in Nat
      BY <1>e
    <3>3. /\ pair.vector # 0 => run' = [run EXCEPT !.pairs = pairs,
                                                   !.succeeded = succeeded,
                                                   !.done = done,
                                                   !.wrote = wrote]
          /\ pair.vector = 0 => run' = [run EXCEPT !.pairs = pairs,
                                                   !.failed = failed,
                                                   !.missed = missed]
      BY <1>7 DEF UpsertPoint
    <3>a. done \cup wrote = run.done \cup run.wrote \cup {pair.point}
      OBVIOUS
    <3> HIDE DEF pairs, done, wrote, missed, succeeded, failed
    <3>4. CASE pair.vector # 0
      <4>a. run' = [run EXCEPT !.pairs = pairs, !.succeeded = succeeded,
                               !.done = done, !.wrote = wrote]
        BY <3>3, <3>4
      <4>1. run' \in RunType
        BY <1>d, <3>1, <3>2, <4>a DEF RunType
      <4>2. /\ run'.next = run.next /\ run'.after = run.after /\ run'.limit = run.limit
            /\ run'.pairs = pairs /\ run'.failed = run.failed
            /\ run'.done = done /\ run'.wrote = wrote
        BY <1>d, <3>3, <3>4 DEF RunType
      <4>3. run'.done \cup run'.wrote = run.done \cup run.wrote \cup {pair.point}
        BY <3>a, <4>2
      <4> QED
        BY <3>4, <4>1, <4>2, <4>3 DEF pairs
    <3>5. CASE pair.vector = 0
      <4>1. run' \in RunType
        <5>1. run' = [run EXCEPT !.pairs = pairs, !.failed = failed, !.missed = missed]
          BY <3>3, <3>5
        <5> QED
          BY <1>d, <3>1, <3>2, <5>1 DEF RunType
      <4>2. /\ run'.next = run.next /\ run'.after = run.after /\ run'.limit = run.limit
            /\ run'.pairs = pairs /\ run'.failed = failed
            /\ run'.done = run.done /\ run'.wrote = run.wrote
        BY <1>d, <3>3, <3>5 DEF RunType
      <4> QED
        BY <3>5, <4>1, <4>2 DEF pairs, failed
    <3> QED
      BY <3>4, <3>5
  <2>4. /\ shadow' \in [Points -> Points \cup {0}]
        /\ \A p \in Points : shadow[p] # 0 => shadow'[p] # 0
        /\ pair.vector # 0 => shadow'[pair.point] # 0
    <3>1. shadow \in [Points -> Points \cup {0}]
      BY <1>b DEF ReindexTypeOK
    <3>2. shadow' = shadow \/ (pair.vector # 0 /\
                               shadow' = [shadow EXCEPT ![pair.point] = pair.vector])
      BY <1>7 DEF UpsertPoint
    <3>3. pair.vector # 0 => shadow' = [shadow EXCEPT ![pair.point] = pair.vector]
      BY <1>7 DEF UpsertPoint
    <3> QED
      BY <2>1, <3>1, <3>2, <3>3
  <2>6. ReindexTypeOK'
    BY <1>b, <2>2, <2>3, <2>4 DEF ReindexTypeOK
  <2>7. FilesHold'
    <3>1. owed' \subseteq source' /\ ManifestSound'
      BY <1>b, <2>2, <2>4 DEF FilesHold, ManifestSound
    <3>2. CompleteMeansAll'
      BY <1>b, <1>d, <2>2, <2>4 DEF FilesHold, CompleteMeansAll
    <3>3. checkpoint'.failed = 0 /\ ~cut' => WrittenUpTo(checkpoint.next)'
      BY <1>b, <1>d, <2>2, <2>4 DEF FilesHold, WrittenUpTo
    <3> QED
      BY <3>1, <3>2, <3>3 DEF FilesHold
  <2>8. RunHolds'
    <3>1. \A p \in run'.done \cup run'.wrote : shadow'[p] # 0
      BY <1>b, <1>e, <2>1, <2>3, <2>4 DEF RunHolds
    <3>2. ASSUME run'.failed = 0, ~cut' PROVE run.failed = 0 /\ ~cut /\ pair.vector # 0
      BY <1>e, <2>2, <2>3, <3>2
    <3>3. run'.failed = 0 /\ ~cut' => WrittenUpTo(run.next)'
      BY <1>b, <1>d, <2>2, <2>3, <2>4, <3>2 DEF RunHolds, WrittenUpTo
    <3>4. ASSUME run'.failed = 0, ~cut', NEW p \in owed, OnPage(p)'
          PROVE  shadow'[p] # 0 \/ \E other \in run'.pairs : other.point = p
      <4>1. OnPage(p)
        BY <2>3, <3>4 DEF OnPage
      <4>2. shadow[p] # 0 \/ \E other \in run.pairs : other.point = p
        BY <1>b, <2>1, <3>2, <3>4, <4>1 DEF RunHolds
      <4> QED
        BY <1>d, <2>3, <2>4, <3>2, <3>4, <4>2
    <3> QED
      BY <2>1, <2>2, <3>1, <3>3, <3>4 DEF RunHolds
  <2> QED
    BY <2>6, <2>7, <2>8 DEF IInv
<1>8. CASE AppendManifest
  <2>1. /\ at = "upsert" /\ run.pairs = {} /\ at' = "save"
        /\ manifest' = Appended(Points)
        /\ UNCHANGED <<source, shadow, checkpoint, torn, run, starts, faults, owed, cut, outcome>>
    BY <1>8 DEF AppendManifest, history
  <2>2. manifest' \in [Points -> Entries] /\ ManifestSound'
    <3>1. /\ Appended(Points) \in [Points -> Entries]
          /\ \A p \in Points : Appended(Points)[p] = "written" => shadow[p] # 0
      BY <1>j, AppendedSound
    <3> QED
      BY <2>1, <3>1 DEF ManifestSound
  <2>3. ReindexTypeOK'
    BY <1>b, <2>1, <2>2 DEF ReindexTypeOK
  <2>4. FilesHold'
    BY <1>b, <2>1, <2>2 DEF FilesHold, CompleteMeansAll, WrittenUpTo
  <2>5. RunHolds'
    BY <1>b, <2>1 DEF RunHolds, WrittenUpTo, OnPage
  <2> QED
    BY <2>3, <2>4, <2>5 DEF IInv
<1>9. CASE SaveCheckpoint
  <2>1. /\ at = "save"
        /\ checkpoint' = [next |-> run.after, succeeded |-> run.succeeded,
                          failed |-> run.failed]
        /\ run' = [run EXCEPT !.next = run.after, !.after = 0,
                              !.wrote = {}, !.missed = {}]
        /\ at' = IF LimitReached \/ run.after = 0 THEN "final" ELSE "scroll"
        /\ UNCHANGED <<source, shadow, manifest, torn, starts, faults, owed, cut, outcome>>
    BY <1>9 DEF SaveCheckpoint, history
  <2>2. /\ run' \in RunType /\ checkpoint' \in Checkpoint
        /\ at' \in {"scroll", "final"}
    BY <1>d, <1>e, <2>1 DEF RunType, Checkpoint
  <2>3. /\ run'.next = run.after /\ run'.failed = run.failed
        /\ run'.done = run.done /\ run'.wrote = {} /\ run'.limit = run.limit
        /\ checkpoint'.next = run.after /\ checkpoint'.failed = run.failed
    BY <1>d, <2>1 DEF RunType
  <2>4. ReindexTypeOK'
    BY <1>b, <2>1, <2>2 DEF ReindexTypeOK
  <2>5. ASSUME run.failed = 0, ~cut
        PROVE  WrittenUpTo(run.after) /\ (run.after = 0 => AllWritten)
    <3>1. ASSUME NEW p \in owed, run.after = 0 \/ p < run.after PROVE shadow[p] # 0
      <4>1. CASE p < run.next
        BY <1>b, <2>5, <4>1 DEF RunHolds, WrittenUpTo
      <4>2. CASE run.next <= p
        BY <1>b, <2>1, <2>5, <3>1, <4>2 DEF RunHolds, OnPage
      <4>3. p \in Nat /\ run.next \in Nat
        BY <1>a, <1>d, <1>e
      <4> QED
        BY <4>1, <4>2, <4>3
    <3> QED
      BY <3>1 DEF WrittenUpTo, AllWritten
  <2>6. FilesHold'
    <3>1. owed' \subseteq source' /\ ManifestSound' /\ CompleteMeansAll'
      BY <1>b, <2>1 DEF FilesHold, ManifestSound, CompleteMeansAll
    <3>2. checkpoint'.failed = 0 /\ ~cut' => WrittenUpTo(checkpoint.next)'
      BY <2>1, <2>3, <2>5 DEF WrittenUpTo
    <3> QED
      BY <3>1, <3>2 DEF FilesHold
  <2>7. RunHolds'
    <3>1. \A p \in run'.done \cup run'.wrote : shadow'[p] # 0
      BY <1>b, <2>1, <2>3 DEF RunHolds
    <3>2. run'.failed = 0 /\ ~cut' => WrittenUpTo(run.next)'
      BY <2>1, <2>3, <2>5 DEF WrittenUpTo
    <3>3. run'.failed = 0 /\ ~cut' /\ at' = "final" /\ run'.limit = 0 => AllWritten'
      BY <2>1, <2>3, <2>5 DEF LimitReached, AllWritten
    <3> QED
      BY <2>2, <3>1, <3>2, <3>3 DEF RunHolds
  <2> QED
    BY <2>4, <2>6, <2>7 DEF IInv
<1>10. CASE FinishRun
  <2>1. /\ at = "final" /\ at' = "idle" /\ run' = NoRun
        /\ checkpoint' = [next |-> run.next, succeeded |-> run.succeeded,
                          failed |-> run.failed]
        /\ UNCHANGED <<source, shadow, manifest, torn, starts, faults, owed, cut>>
    BY <1>10 DEF FinishRun
  <2>2. /\ outcome' \in {"none", "complete", "failures"}
        /\ outcome' = "complete" => run.limit = 0 /\ run.failed = 0
    BY <1>e, <1>10 DEF FinishRun
  <2>3. checkpoint' \in Checkpoint
    BY <1>e, <2>1 DEF Checkpoint
  <2>4. ReindexTypeOK'
    BY <1>b, <1>c, <2>1, <2>2, <2>3 DEF ReindexTypeOK
  <2>5. FilesHold'
    <3>1. owed' \subseteq source' /\ ManifestSound'
      BY <1>b, <2>1 DEF FilesHold, ManifestSound
    <3>2. CompleteMeansAll'
      BY <1>b, <2>1, <2>2 DEF RunHolds, AllWritten, CompleteMeansAll
    <3>3. checkpoint'.failed = 0 /\ ~cut' => WrittenUpTo(checkpoint.next)'
      BY <1>b, <2>1 DEF RunHolds, WrittenUpTo
    <3> QED
      BY <3>1, <3>2, <3>3 DEF FilesHold
  <2>6. RunHolds'
    BY <1>a, <1>c, <1>d, <2>1 DEF RunHolds, WrittenUpTo
  <2> QED
    BY <2>4, <2>5, <2>6 DEF IInv
<1>12. CASE CrashReindex
  <2>1. /\ at' = "idle" /\ run' = NoRun /\ faults' = faults + 1
        /\ UNCHANGED <<source, shadow, checkpoint, starts, owed, cut, outcome>>
    BY <1>12 DEF CrashReindex, history
  <2>2. /\ manifest' \in [Points -> Entries] /\ ManifestSound' /\ torn' \in BOOLEAN
    <3>1. CASE UNCHANGED <<manifest, torn>>
      BY <1>b, <2>1, <3>1 DEF ReindexTypeOK, FilesHold, ManifestSound
    <3>2. ASSUME NEW S \in SUBSET Points, manifest' = Appended(S), torn' \in BOOLEAN
          PROVE  manifest' \in [Points -> Entries] /\ ManifestSound'
      <4>1. /\ Appended(S) \in [Points -> Entries]
            /\ \A p \in Points : Appended(S)[p] = "written" => shadow[p] # 0
        BY <1>j, AppendedSound
      <4> QED
        BY <2>1, <3>2, <4>1 DEF ManifestSound
    <3>3. CASE /\ \E p \in run.wrote \cup run.missed :
                     manifest' = Appended({q \in Points : q < p})
               /\ torn' \in BOOLEAN
      <4>1. PICK p \in run.wrote \cup run.missed :
              manifest' = Appended({q \in Points : q < p})
        BY <3>3
      <4>2. {q \in Points : q < p} \in SUBSET Points
        OBVIOUS
      <4> QED
        BY <3>2, <3>3, <4>1, <4>2
    <3> QED
      BY <1>12, <3>1, <3>3 DEF CrashReindex
  <2>3. {starts', faults'} \subseteq Nat
    BY <1>b, <2>1 DEF ReindexTypeOK
  <2>4. ReindexTypeOK'
    BY <1>b, <1>c, <2>1, <2>2, <2>3 DEF ReindexTypeOK
  <2>5. FilesHold'
    BY <1>b, <2>1, <2>2 DEF FilesHold, CompleteMeansAll, WrittenUpTo
  <2>6. RunHolds'
    BY <1>a, <1>c, <1>d, <2>1 DEF RunHolds, WrittenUpTo
  <2> QED
    BY <2>4, <2>5, <2>6 DEF IInv
<1>13. CASE UNCHANGED vars
  <2>1. UNCHANGED <<source, shadow, checkpoint, manifest, torn, at, run, starts, faults,
                    owed, cut, outcome>>
    BY <1>13 DEF vars, reindexVars, filesOfRun, history
  <2> QED
    BY <2>1 DEF IInv, ReindexTypeOK, FilesHold, RunHolds, ManifestSound, CompleteMeansAll,
       WrittenUpTo, AllWritten, OnPage
<1> QED
  BY <1>1, <1>2, <1>3, <1>4, <1>5, <1>6, <1>7, <1>8, <1>9, <1>10, <1>11, <1>12, <1>13
     DEF Next, RunStep

\* However the runs interleave with other writers and wherever they die, the
\* inductive invariant holds.
THEOREM ReindexInvariant == Spec => []IInv
<1>1. Init => IInv
  BY InitInvariant
<1>2. IInv /\ [Next]_vars => IInv'
  BY StepInvariant
<1> QED
  BY <1>1, <1>2, PTL DEF Spec

\* What a resumed run skips has been written.
THEOREM ManifestNeverAhead == Spec => []ManifestSound
<1>1. IInv => ManifestSound
  BY DEF IInv, FilesHold
<1> QED
  BY <1>1, ReindexInvariant, PTL

\* A run without --limit that reports no failure has written every point it owed.
THEOREM CleanRunWroteAll == Spec => []CompleteMeansAll
<1>1. IInv => CompleteMeansAll
  BY DEF IInv, FilesHold
<1> QED
  BY <1>1, ReindexInvariant, PTL

\* Every variable keeps its type.
THEOREM TypeCorrect == Spec => []ReindexTypeOK
<1>1. IInv => ReindexTypeOK
  BY DEF IInv
<1> QED
  BY <1>1, ReindexInvariant, PTL

-----------------------------------------------------------------------------
(* Vectors.  Where every point has a text, a page pairs each point with    *)
(* its own vector, and UpsertPoint stores no other.                        *)

OwnVectors ==
    /\ VectorsMatchPoints
    /\ \A pair \in run.pairs : pair.vector \in {0, pair.point}

\* Without a point that has no text, every step leaves points with vectors of their own.
LEMMA OwnVectorsStep ==
  ASSUME Textless = {}, IInv, OwnVectors, [Next]_vars
  PROVE  OwnVectors'
<1>a. shadow \in [Points -> Points \cup {0}] /\ run \in RunType /\ NoRun.pairs = {}
  BY DEF IInv, ReindexTypeOK, NoRun
<1>b. run.pairs \subseteq [point : Points, vector : Points \cup {0}]
  BY <1>a DEF RunType
<1>1. CASE UNCHANGED <<shadow, run>>
  BY <1>1 DEF OwnVectors, VectorsMatchPoints
<1>2. CASE UNCHANGED shadow /\ run'.pairs = {}
  BY <1>2 DEF OwnVectors, VectorsMatchPoints
<1>3. CASE UNCHANGED shadow /\ run'.pairs = run.pairs
  BY <1>3 DEF OwnVectors, VectorsMatchPoints
<1>4. ASSUME NEW bad \in SUBSET Points, EmbedPage(bad) PROVE OwnVectors'
  <2>1. UNCHANGED shadow /\ run'.pairs = Paired(Pending, bad)
    BY <1>a, <1>4 DEF EmbedPage, RunType
  <2>2. Pending \subseteq Points /\ Pending \cap Textless = {}
    BY PendingOnPage DEF IInv, ReindexTypeOK
  <2>3. \A pair \in Paired(Pending, bad) : pair.vector \in {0, pair.point}
    BY <2>2, PairsOfPending
  <2> QED
    BY <2>1, <2>3 DEF OwnVectors, VectorsMatchPoints
<1>5. ASSUME NEW pair \in run.pairs, UpsertPoint(pair) PROVE OwnVectors'
  <2>1. run'.pairs = run.pairs \ {pair}
    BY <1>a, <1>5 DEF UpsertPoint, RunType
  <2>2. pair.point \in Points /\ pair.vector \in {0, pair.point}
    BY <1>b DEF OwnVectors
  <2>3. CASE pair.vector # 0
    <3>1. shadow' = [shadow EXCEPT ![pair.point] = pair.point]
      BY <1>5, <2>2, <2>3 DEF UpsertPoint
    <3>2. VectorsMatchPoints'
      BY <1>a, <2>2, <3>1 DEF OwnVectors, VectorsMatchPoints
    <3> QED
      BY <2>1, <3>2 DEF OwnVectors
  <2>4. CASE pair.vector = 0
    <3>1. UNCHANGED shadow
      BY <1>5, <2>4 DEF UpsertPoint
    <3> QED
      BY <2>1, <3>1 DEF OwnVectors, VectorsMatchPoints
  <2> QED
    BY <2>3, <2>4
<1>6. ASSUME NEW limit \in Limits, StartFresh(limit) \/ Resume(limit) PROVE OwnVectors'
  <2>1. UNCHANGED shadow /\ run'.pairs = {}
    BY <1>6 DEF StartFresh, Resume, Start, NoRun
  <2> QED
    BY <1>2, <2>1
<1>7. CASE ClearManifest \/ ScrollEnds \/ AppendManifest
  BY <1>1, <1>7 DEF ClearManifest, ScrollEnds, AppendManifest
<1>8. CASE ScrollOn \/ SaveCheckpoint
  <2>1. UNCHANGED shadow /\ run'.pairs = run.pairs
    BY <1>a, <1>8 DEF ScrollOn, SaveCheckpoint, RunType
  <2> QED
    BY <1>3, <2>1
<1>9. CASE FinishRun \/ CrashReindex
  BY <1>a, <1>2, <1>9 DEF FinishRun, CrashReindex
<1>10. CASE SourceGrows \/ UNCHANGED vars
  BY <1>1, <1>10 DEF SourceGrows, vars, reindexVars
<1> QED
  BY <1>4, <1>5, <1>6, <1>7, <1>8, <1>9, <1>10 DEF Next, RunStep

\* Where every point has a text, no point is ever stored with the vector of
\* another one, whichever texts the embedding service fails for.
THEOREM VectorsStayWithPoints ==
  ASSUME Textless = {}
  PROVE  Spec => []VectorsMatchPoints
<1>1. Init => OwnVectors
  BY DEF Init, OwnVectors, VectorsMatchPoints, NoRun
<1>2. IInv /\ OwnVectors /\ [Next]_vars => OwnVectors'
  BY OwnVectorsStep
<1>3. OwnVectors => VectorsMatchPoints
  BY DEF OwnVectors
<1> QED
  BY <1>1, <1>2, <1>3, ReindexInvariant, PTL DEF Spec

-----------------------------------------------------------------------------
(* The counter of successes.  The points it counts are those the manifest  *)
(* calls written, and those the run has written since it last appended to  *)
(* the manifest.  A point that is paired is neither done nor missed, so it *)
(* is counted once, and no entry is ever taken back: the manifest of a     *)
(* page is appended before the checkpoint that counts it.                  *)

InManifest == {p \in Points : manifest[p] = "written"}

Counted ==
    /\ checkpoint.succeeded <= Cardinality(InManifest)
    /\ run.succeeded <= Cardinality(InManifest \cup run.wrote)
    /\ at = "clear" => checkpoint.succeeded = 0 /\ run.succeeded = 0

PageKnown ==
    /\ at \notin {"idle", "clear"} => InManifest \subseteq run.done
    /\ run.wrote \subseteq run.done /\ run.missed \cap run.done = {}
    /\ at = "save" => run.wrote \subseteq InManifest
    /\ at \notin {"upsert", "save"} => run.wrote = {} /\ run.missed = {}
    /\ \A x \in run.pairs : x.point \notin run.done \cup run.missed
    /\ \A x, y \in run.pairs : x.point = y.point => x = y

CountsHold == Counted /\ PageKnown

\* Two sets of points compare by their sizes as the counters do.
LEMMA PointSets ==
  /\ \A S \in SUBSET Points : IsFiniteSet(S) /\ Cardinality(S) \in Nat
  /\ \A S, T \in SUBSET Points : S \subseteq T => Cardinality(S) <= Cardinality(T)
  /\ \A S \in SUBSET Points : \A p \in Points \ S :
        Cardinality(S \cup {p}) = Cardinality(S) + 1
<1>1. ASSUME NEW S \in SUBSET Points PROVE IsFiniteSet(S) /\ Cardinality(S) \in Nat
  BY ReindexAssumption, FS_Subset, FS_CardinalityType
<1>2. ASSUME NEW S \in SUBSET Points, NEW T \in SUBSET Points, S \subseteq T
      PROVE  Cardinality(S) <= Cardinality(T)
  BY <1>1, <1>2, FS_Subset
<1>3. ASSUME NEW S \in SUBSET Points, NEW p \in Points \ S
      PROVE  Cardinality(S \cup {p}) = Cardinality(S) + 1
  <2>1. IsFiniteSet(S) /\ p \notin S
    BY <1>1
  <2> QED
    BY <2>1, FS_AddElement
<1> QED
  BY <1>1, <1>2, <1>3

\* Appending any part of the entries of a page takes no entry back, and the
\* whole of them records every point that was written.
LEMMA AppendKeepsEntries ==
  ASSUME IInv, run.missed \cap (InManifest \cup run.wrote) = {}, NEW S,
         manifest' = Appended(S)
  PROVE  /\ InManifest \subseteq InManifest'
         /\ InManifest' \subseteq InManifest \cup run.wrote
         /\ S = Points => InManifest' = InManifest \cup run.wrote
<1>1. manifest \in [Points -> Entries] /\ run.wrote \subseteq Points
  BY DEF IInv, ReindexTypeOK, RunType
<1>2. ASSUME NEW p \in Points
      PROVE  /\ manifest[p] = "written" => manifest'[p] = "written"
             /\ manifest'[p] = "written" => manifest[p] = "written" \/ p \in run.wrote
             /\ S = Points /\ p \in run.wrote => manifest'[p] = "written"
  <2>1. manifest'[p] = (CASE p \in S \cap run.wrote -> "written"
                          [] p \in S \cap run.missed -> "failed"
                          [] OTHER -> manifest[p])
    BY DEF Appended
  <2>2. manifest[p] = "written" \/ p \in run.wrote => p \notin run.missed
    BY DEF InManifest
  <2>3. CASE p \in S \cap run.wrote
    BY <2>1, <2>2, <2>3
  <2>4. CASE p \notin S \cap run.wrote /\ p \in S \cap run.missed
    BY <2>1, <2>2, <2>4
  <2>5. CASE p \notin S \cap run.wrote /\ p \notin S \cap run.missed
    BY <2>1, <2>5
  <2> QED
    BY <2>3, <2>4, <2>5
<1> QED
  BY <1>1, <1>2 DEF InManifest

\* At first nothing is counted.
LEMMA CountsHoldInit == Init => CountsHold
<1> SUFFICES ASSUME Init PROVE CountsHold
  OBVIOUS
<1>1. InManifest \in SUBSET Points /\ Cardinality(InManifest) \in Nat
  BY PointSets DEF InManifest
<1>2. InManifest \cup run.wrote = InManifest
  BY DEF Init, NoRun
<1>3. Counted
  BY <1>1, <1>2 DEF Init, NoRun, NoFile, Counted
<1>4. PageKnown
  BY DEF Init, NoRun, PageKnown
<1> QED
  BY <1>3, <1>4 DEF CountsHold

\* No step counts a point that the manifest calls written already.
LEMMA CountsHoldStep == IInv /\ CountsHold /\ [Next]_vars => CountsHold'
<1> SUFFICES ASSUME IInv, CountsHold, [Next]_vars PROVE CountsHold'
  OBVIOUS
<1>a. /\ run \in RunType /\ manifest \in [Points -> Entries]
      /\ checkpoint \in Checkpoint \cup {NoFile}
  BY DEF IInv, ReindexTypeOK
<1>b. /\ run.succeeded \in Nat
      /\ run.done \subseteq Points /\ run.wrote \subseteq Points /\ run.missed \subseteq Points
      /\ run.pairs \subseteq [point : Points, vector : Points \cup {0}]
  BY <1>a DEF RunType
<1>c. /\ NoRun \in RunType /\ NoRun.succeeded = 0 /\ NoRun.done = {}
      /\ NoRun.wrote = {} /\ NoRun.missed = {} /\ NoRun.pairs = {}
  BY DEF NoRun, RunType
<1>d. checkpoint.succeeded \in Nat
  BY <1>a DEF Checkpoint, NoFile
<1>e. /\ InManifest \in SUBSET Points /\ InManifest' \in SUBSET Points
      /\ Cardinality(InManifest) \in Nat /\ Cardinality(InManifest') \in Nat
  BY PointSets DEF InManifest
<1>f. Counted /\ PageKnown
  BY DEF CountsHold
<1>g. at \notin {"idle", "clear"} => run.missed \cap (InManifest \cup run.wrote) = {}
  BY <1>f DEF PageKnown
<1>h. /\ manifest' = manifest => InManifest' = InManifest
      /\ InManifest \subseteq InManifest' =>
            Cardinality(InManifest) <= Cardinality(InManifest')
  BY <1>e, PointSets DEF InManifest
<1>1. ASSUME NEW limit \in Limits, StartFresh(limit) PROVE CountsHold'
  <2>1. /\ at' = "clear" /\ checkpoint'.succeeded = 0
        /\ run' = [NoRun EXCEPT !.limit = limit]
    BY <1>1 DEF StartFresh
  <2>2. /\ run'.succeeded = 0 /\ run'.done = {} /\ run'.wrote = {} /\ run'.missed = {}
        /\ run'.pairs = {}
    BY <2>1 DEF NoRun
  <2>3. InManifest' \cup run'.wrote = InManifest'
    BY <2>2
  <2>4. Counted'
    BY <1>e, <2>1, <2>2, <2>3 DEF Counted
  <2>5. PageKnown'
    BY <2>1, <2>2 DEF PageKnown
  <2> QED
    BY <2>4, <2>5 DEF CountsHold
<1>2. CASE ClearManifest
  <2>1. /\ at = "clear" /\ at' = "scroll" /\ UNCHANGED <<checkpoint, run>>
        /\ manifest' = NoEntry
    BY <1>2 DEF ClearManifest
  <2>2. InManifest' = {}
    BY <2>1 DEF InManifest, NoEntry
  <2>3. run.wrote = {} /\ run.missed = {}
    BY <1>f, <2>1 DEF PageKnown
  <2>4. Cardinality({}) = 0
    BY FS_EmptySet
  <2>5. Counted'
    BY <1>f, <2>1, <2>2, <2>3, <2>4 DEF Counted
  <2>6. PageKnown'
    BY <1>f, <2>1, <2>2, <2>3 DEF PageKnown
  <2> QED
    BY <2>5, <2>6 DEF CountsHold
<1>3. ASSUME NEW limit \in Limits, Resume(limit) PROVE CountsHold'
  <2>1. UNCHANGED <<checkpoint, manifest>> /\ at' = "scroll"
    BY <1>3 DEF Resume, filesOfRun
  <2>2. /\ run'.succeeded = checkpoint.succeeded /\ run'.done = InManifest
        /\ run'.wrote = {} /\ run'.missed = {} /\ run'.pairs = {}
    BY <1>3 DEF Resume, NoRun, InManifest
  <2>3. InManifest' = InManifest /\ InManifest' \cup run'.wrote = InManifest
    BY <1>h, <2>1, <2>2
  <2>4. Counted'
    BY <1>f, <2>1, <2>2, <2>3 DEF Counted
  <2>5. PageKnown'
    BY <2>1, <2>2, <2>3 DEF PageKnown
  <2> QED
    BY <2>4, <2>5 DEF CountsHold
<1>4. CASE ScrollEnds
  <2>1. UNCHANGED <<checkpoint, manifest, run>> /\ at = "scroll" /\ at' = "final"
    BY <1>4 DEF ScrollEnds, filesOfRun
  <2>2. Counted'
    BY <1>f, <1>h, <2>1 DEF Counted
  <2>3. PageKnown'
    BY <1>f, <1>h, <2>1 DEF PageKnown
  <2> QED
    BY <2>2, <2>3 DEF CountsHold
<1>5. CASE ScrollOn
  <2> DEFINE failed == run.failed + Cardinality(Pending)
             next == NextOffset(run.next)
  <2>1. /\ run' = [run EXCEPT !.next = next, !.failed = failed]
        /\ checkpoint' = [next |-> next, succeeded |-> run.succeeded, failed |-> failed]
        /\ at = "scroll" /\ at' \in {"final", "scroll"} /\ manifest' = manifest
    BY <1>5 DEF ScrollOn
  <2> HIDE DEF failed, next
  <2>2. /\ run'.succeeded = run.succeeded /\ run'.done = run.done
        /\ run'.wrote = run.wrote /\ run'.missed = run.missed /\ run'.pairs = run.pairs
        /\ checkpoint'.succeeded = run.succeeded
    BY <1>a, <2>1 DEF RunType
  <2>3. run.wrote = {} /\ InManifest \cup run.wrote = InManifest
    BY <1>f, <2>1 DEF PageKnown
  <2>4. Counted'
    BY <1>f, <1>h, <2>1, <2>2, <2>3 DEF Counted
  <2>5. PageKnown'
    BY <1>f, <1>h, <2>1, <2>2 DEF PageKnown
  <2> QED
    BY <2>4, <2>5 DEF CountsHold
<1>6. ASSUME NEW bad \in SUBSET Points, EmbedPage(bad) PROVE CountsHold'
  <2> DEFINE failed == run.failed + Cardinality(Pending \cap Textless)
             after == NextOffset(run.next)
             pairs == Paired(Pending, bad)
  <2>1. /\ run' = [run EXCEPT !.after = after, !.failed = failed, !.pairs = pairs]
        /\ at = "scroll" /\ at' = "upsert" /\ UNCHANGED <<checkpoint, manifest>>
    BY <1>6 DEF EmbedPage, filesOfRun
  <2>2. /\ pairs \subseteq [point : Pending, vector : Points \cup {0}]
        /\ \A x, y \in pairs : x.point = y.point => x = y
        /\ Pending \cap run.done = {}
    <3>1. Pending \subseteq Points /\ Pending \cap run.done = {}
      BY PendingOnPage DEF IInv, ReindexTypeOK
    <3> QED
      BY <3>1, PairsOfPending
  <2> HIDE DEF failed, after, pairs
  <2>3. /\ run'.succeeded = run.succeeded /\ run'.done = run.done
        /\ run'.wrote = run.wrote /\ run'.missed = run.missed /\ run'.pairs = pairs
    BY <1>a, <2>1 DEF RunType
  <2>4. run.wrote = {} /\ run.missed = {}
    BY <1>f, <2>1 DEF PageKnown
  <2>5. \A x \in pairs : x.point \notin run.done \cup run.missed
    BY <2>2, <2>4
  <2>6. Counted'
    BY <1>f, <1>h, <2>1, <2>3 DEF Counted
  <2>7. PageKnown'
    BY <1>f, <1>h, <2>1, <2>2, <2>3, <2>5 DEF PageKnown
  <2> QED
    BY <2>6, <2>7 DEF CountsHold
<1>7. ASSUME NEW pair \in run.pairs, UpsertPoint(pair) PROVE CountsHold'
  <2> DEFINE p == pair.point
             pairs == run.pairs \ {pair}
             done == run.done \cup {p}
             wrote == run.wrote \cup {p}
             missed == run.missed \cup {p}
             succeeded == run.succeeded + 1
             failed == run.failed + 1
  <2>1. /\ at = "upsert" /\ UNCHANGED <<checkpoint, manifest, at>>
        /\ pair.vector # 0 => run' = [run EXCEPT !.pairs = pairs,
                                                 !.succeeded = succeeded,
                                                 !.done = done,
                                                 !.wrote = wrote]
        /\ pair.vector = 0 => run' = [run EXCEPT !.pairs = pairs,
                                                 !.failed = failed,
                                                 !.missed = missed]
    BY <1>7 DEF UpsertPoint, filesOfRun
  <2>2. /\ p \in Points /\ p \notin run.done \cup run.missed
        /\ \A x \in pairs : x.point \notin run.done \cup run.missed /\ x.point # p
        /\ \A x, y \in pairs : x.point = y.point => x = y
    BY <1>b, <1>f DEF PageKnown
  <2>3. /\ InManifest \subseteq run.done /\ run.wrote \subseteq run.done
        /\ run.missed \cap run.done = {}
    BY <1>f, <2>1 DEF PageKnown
  <2>4. /\ wrote \subseteq done /\ missed \cap run.done = {} /\ run.missed \cap done = {}
        /\ InManifest \subseteq done
        /\ \A x \in pairs : x.point \notin done \cup run.missed
        /\ \A x \in pairs : x.point \notin run.done \cup missed
    BY <2>2, <2>3
  <2>5. /\ InManifest \cup run.wrote \in SUBSET Points
        /\ p \in Points \ (InManifest \cup run.wrote)
    BY <1>b, <1>e, <2>2, <2>3
  <2>6. Cardinality((InManifest \cup run.wrote) \cup {p})
          = Cardinality(InManifest \cup run.wrote) + 1
    BY <2>5, PointSets
  <2>7. InManifest \cup wrote = (InManifest \cup run.wrote) \cup {p}
    OBVIOUS
  <2>8. Cardinality(InManifest \cup run.wrote) \in Nat
    BY <2>5, PointSets
  <2>9. succeeded = run.succeeded + 1 /\ InManifest' = InManifest
    BY <1>h, <2>1
  <2> HIDE DEF p, pairs, done, wrote, missed, succeeded, failed
  <2>10. succeeded <= Cardinality(InManifest \cup wrote)
    <3>1. run.succeeded <= Cardinality(InManifest \cup run.wrote)
      BY <1>f DEF Counted
    <3>2. Cardinality(InManifest \cup wrote) = Cardinality(InManifest \cup run.wrote) + 1
      BY <2>6, <2>7
    <3>3. run.succeeded \in Nat /\ succeeded = run.succeeded + 1
      BY <1>b, <2>9
    <3> QED
      BY <2>8, <3>1, <3>2, <3>3
  <2>11. CASE pair.vector # 0
    <3>1. /\ run'.pairs = pairs /\ run'.succeeded = succeeded /\ run'.done = done
          /\ run'.wrote = wrote /\ run'.missed = run.missed
      BY <1>a, <2>1, <2>11 DEF RunType
    <3>2. Counted'
      BY <1>f, <2>1, <2>9, <2>10, <3>1 DEF Counted
    <3>3. PageKnown'
      BY <2>1, <2>2, <2>4, <2>9, <3>1 DEF PageKnown
    <3> QED
      BY <3>2, <3>3 DEF CountsHold
  <2>12. CASE pair.vector = 0
    <3>1. /\ run'.pairs = pairs /\ run'.succeeded = run.succeeded /\ run'.done = run.done
          /\ run'.wrote = run.wrote /\ run'.missed = missed
      BY <1>a, <2>1, <2>12 DEF RunType
    <3>2. Counted'
      BY <1>f, <2>1, <2>9, <3>1 DEF Counted
    <3>3. PageKnown'
      BY <2>1, <2>2, <2>3, <2>4, <2>9, <3>1 DEF PageKnown
    <3> QED
      BY <3>2, <3>3 DEF CountsHold
  <2> QED
    BY <2>11, <2>12
<1>8. CASE AppendManifest
  <2>1. /\ at = "upsert" /\ at' = "save" /\ run.pairs = {}
        /\ manifest' = Appended(Points) /\ UNCHANGED <<checkpoint, run>>
    BY <1>8 DEF AppendManifest
  <2>2. InManifest' = InManifest \cup run.wrote
    BY <1>g, <2>1, AppendKeepsEntries
  <2>3. InManifest' \cup run.wrote = InManifest'
    BY <2>2
  <2>4. Cardinality(InManifest) <= Cardinality(InManifest')
    BY <1>h, <2>2
  <2>5. Counted'
    BY <1>d, <1>e, <1>f, <2>1, <2>2, <2>3, <2>4 DEF Counted
  <2>6. PageKnown'
    BY <1>f, <2>1, <2>2 DEF PageKnown
  <2> QED
    BY <2>5, <2>6 DEF CountsHold
<1>9. CASE SaveCheckpoint
  <2>1. /\ at = "save" /\ at' \in {"final", "scroll"} /\ manifest' = manifest
        /\ checkpoint' = [next |-> run.after, succeeded |-> run.succeeded,
                          failed |-> run.failed]
        /\ run' = [run EXCEPT !.next = run.after, !.after = 0,
                              !.wrote = {}, !.missed = {}]
    BY <1>9 DEF SaveCheckpoint
  <2>2. /\ run'.succeeded = run.succeeded /\ run'.done = run.done
        /\ run'.wrote = {} /\ run'.missed = {} /\ run'.pairs = run.pairs
        /\ checkpoint'.succeeded = run.succeeded
    BY <1>a, <2>1 DEF RunType
  <2>3. run.wrote \subseteq InManifest
    BY <1>f, <2>1 DEF PageKnown
  <2>4. InManifest \cup run.wrote = InManifest /\ InManifest' \cup run'.wrote = InManifest
    BY <1>h, <2>1, <2>2, <2>3
  <2>5. Counted'
    BY <1>f, <1>h, <2>1, <2>2, <2>4 DEF Counted
  <2>6. PageKnown'
    BY <1>f, <1>h, <2>1, <2>2 DEF PageKnown
  <2> QED
    BY <2>5, <2>6 DEF CountsHold
<1>10. CASE FinishRun
  <2>1. /\ at = "final" /\ at' = "idle" /\ manifest' = manifest /\ run' = NoRun
        /\ checkpoint'.succeeded = run.succeeded
    BY <1>10 DEF FinishRun
  <2>2. InManifest \cup run.wrote = InManifest /\ InManifest' \cup run'.wrote = InManifest
    BY <1>c, <1>f, <1>h, <2>1 DEF PageKnown
  <2>3. Counted'
    BY <1>c, <1>e, <1>f, <1>h, <2>1, <2>2 DEF Counted
  <2>4. PageKnown'
    BY <1>c, <2>1 DEF PageKnown
  <2> QED
    BY <2>3, <2>4 DEF CountsHold
<1>11. CASE CrashReindex
  <2>1. /\ at' = "idle" /\ run' = NoRun /\ checkpoint' = checkpoint
        /\ \/ manifest' = manifest
           \/ at = "upsert" /\ \E p \in run.wrote \cup run.missed :
                                  manifest' = Appended({q \in Points : q < p})
    BY <1>11 DEF CrashReindex
  <2>2. InManifest \subseteq InManifest'
    <3>1. CASE manifest' = manifest
      BY <1>h, <3>1
    <3>2. CASE at = "upsert" /\ \E p \in run.wrote \cup run.missed :
                                   manifest' = Appended({q \in Points : q < p})
      BY <1>g, <3>2, AppendKeepsEntries
    <3> QED
      BY <2>1, <3>1, <3>2
  <2>3. InManifest' \cup run'.wrote = InManifest'
    BY <1>c, <2>1
  <2>4. Counted'
    BY <1>c, <1>d, <1>e, <1>f, <1>h, <2>1, <2>2, <2>3 DEF Counted
  <2>5. PageKnown'
    BY <1>c, <2>1 DEF PageKnown
  <2> QED
    BY <2>4, <2>5 DEF CountsHold
<1>12. CASE SourceGrows \/ UNCHANGED vars
  <2>1. UNCHANGED <<checkpoint, manifest, at, run>>
    BY <1>12 DEF SourceGrows, vars, reindexVars, filesOfRun
  <2>2. Counted'
    BY <1>f, <1>h, <2>1 DEF Counted
  <2>3. PageKnown'
    BY <1>f, <1>h, <2>1 DEF PageKnown
  <2> QED
    BY <2>2, <2>3 DEF CountsHold
<1> QED
  BY <1>1, <1>2, <1>3, <1>4, <1>5, <1>6, <1>7, <1>8, <1>9, <1>10, <1>11, <1>12
     DEF Next, RunStep

\* However often a page is done again after a crash, the successes a checkpoint
\* counts are at most the points the shadow collection holds.
THEOREM CountNeverAhead == Spec => []SuccessesCountedOnce
<1>1. Init => CountsHold
  BY CountsHoldInit
<1>2. IInv /\ CountsHold /\ [Next]_vars => CountsHold'
  BY CountsHoldStep
<1>3. IInv /\ CountsHold => SuccessesCountedOnce
  <2> SUFFICES ASSUME IInv, CountsHold PROVE SuccessesCountedOnce
    OBVIOUS
  <2> DEFINE Written == {p \in Points : shadow[p] # 0}
  <2>1. InManifest \subseteq Written
    BY DEF IInv, FilesHold, ManifestSound, InManifest
  <2>2. InManifest \in SUBSET Points /\ Written \in SUBSET Points
    BY DEF InManifest
  <2>3. /\ Cardinality(InManifest) <= Cardinality(Written)
        /\ Cardinality(InManifest) \in Nat /\ Cardinality(Written) \in Nat
    BY <2>1, <2>2, PointSets
  <2>4. checkpoint.succeeded <= Cardinality(InManifest) /\ checkpoint.succeeded \in Nat
    BY DEF CountsHold, Counted, IInv, ReindexTypeOK, Checkpoint, NoFile
  <2>5. checkpoint.succeeded <= Cardinality(Written)
    BY <2>3, <2>4
  <2> QED
    BY <2>5 DEF SuccessesCountedOnce
<1> QED
  BY <1>1, <1>2, <1>3, ReindexInvariant, PTL DEF Spec

-----------------------------------------------------------------------------
(* The ingestion.  While it has counted no failure, it has passed no chunk *)
(* it has read that is neither completed nor in the batch in hand, and     *)
(* what it calls completed is in the collection.                           *)

\* Chunks the run has dealt with: completed, or embedded and in the batch.
InHand == progress.completed \cup Ingest!Range(batch)

Passed(i) == i < idx \/ (i = idx /\ step \in {"upsert", "save"})

IngestFiles ==
    /\ saved.completed \subseteq source /\ progress.completed \subseteq source
    /\ Ingest!ReadableIngested

IngestRun ==
    /\ IF step = "idle" THEN idx = 1 ELSE progress.status = "running"
    /\ step \in {"upsert", "save"} => idx <= Len(Chunks)
    /\ step \in {"flush", "end"} => idx > Len(Chunks)
    /\ step = "end" => batch = <<>>
    /\ progress.failed = 0 =>
          \A i \in 1..Len(Chunks) : Passed(i) => Chunks[i] \in InHand \cup unread

IngestInv ==
    /\ Ingest!IngestTypeOK /\ {starts, faults} \subseteq Nat
    /\ IngestFiles /\ IngestRun

\* Chunks and batches are sequences of points.
LEMMA ChunksArePoints ==
  /\ Chunks \in Seq(Points) /\ Len(Chunks) \in Nat
  /\ Ingest!ChunkSet = {Chunks[i] : i \in 1..Len(Chunks)}
  /\ Ingest!ChunkSet \subseteq Points
  /\ \A i \in 1..Len(Chunks) : Chunks[i] \in Points
BY IngestionAssumption DEF Ingest!ChunkSet, Ingest!Range

\* The points of a batch, an empty one and one with a point more.
LEMMA RangeOfBatch ==
  ASSUME NEW s \in Seq(Points), NEW p \in Points
  PROVE  /\ Ingest!Range(s) \subseteq Points /\ Ingest!Range(<<>>) = {}
         /\ Append(s, p) \in Seq(Points)
         /\ Ingest!Range(Append(s, p)) = Ingest!Range(s) \cup {p}
<1>1. /\ DOMAIN s = 1..Len(s) /\ Len(s) \in Nat /\ \A i \in 1..Len(s) : s[i] \in Points
  OBVIOUS
<1>2. Ingest!Range(s) = {s[i] : i \in 1..Len(s)}
  BY <1>1 DEF Ingest!Range
<1>3. /\ Append(s, p) \in Seq(Points)
      /\ DOMAIN Append(s, p) = 1..Len(s) + 1
      /\ \A i \in 1..Len(s) : Append(s, p)[i] = s[i]
      /\ Append(s, p)[Len(s) + 1] = p
  OBVIOUS
<1>4. Ingest!Range(Append(s, p)) = {Append(s, p)[i] : i \in 1..Len(s) + 1}
  BY <1>3 DEF Ingest!Range
<1>5. 1..Len(s) + 1 = (1..Len(s)) \cup {Len(s) + 1}
  BY <1>1
<1>6. Ingest!Range(Append(s, p)) = Ingest!Range(s) \cup {p}
  BY <1>2, <1>3, <1>4, <1>5
<1>7. Ingest!Range(<<>>) = {}
  BY DEF Ingest!Range
<1> QED
  BY <1>1, <1>2, <1>3, <1>6, <1>7

\* Before the first run the ingestion has promised nothing.
LEMMA IngestInvInit == PipelineInit => IngestInv
<1> SUFFICES ASSUME PipelineInit PROVE IngestInv
  OBVIOUS
<1> USE DEF PipelineInit, Ingest!Init, Ingest!NoProgress
<1>1. Len(Chunks) \in Nat
  BY ChunksArePoints
<1>2. Ingest!IngestTypeOK /\ {starts, faults} \subseteq Nat
  <2>1. /\ source \subseteq Points /\ interrupted \in BOOLEAN
        /\ step \in {"idle", "chunk", "upsert", "save", "flush", "end"}
    OBVIOUS
  <2>2. {starts, faults} \subseteq Nat
    OBVIOUS
  <2>4. batch \in Seq(Points) /\ idx \in 1..Len(Chunks) + 1
    <3>1. batch = <<>> /\ idx = 1
      OBVIOUS
    <3>2. <<>> \in Seq(Points) /\ 1 \in 1..Len(Chunks) + 1
      BY <1>1
    <3> QED
      BY <3>1, <3>2
  <2>3. {saved, progress, answer} \subseteq Ingest!Progress
    BY DEF Ingest!Progress
  <2> QED
    BY <2>1, <2>2, <2>3, <2>4 DEF Ingest!IngestTypeOK
<1>3. IngestFiles
  BY DEF IngestFiles, Ingest!ReadableIngested
<1>4. IngestRun
  BY DEF IngestRun, Passed
<1> QED
  BY <1>2, <1>3, <1>4 DEF IngestInv

\* A step of the re-embedding only reads what the ingestion writes.
LEMMA ReindexLeavesIngest == IngestInv /\ ReindexStep => IngestInv'
<1> SUFFICES ASSUME IngestInv, ReindexStep PROVE IngestInv'
  OBVIOUS
<1>1. UNCHANGED <<saved, progress, step, idx, batch, interrupted, unread, answer>>
  BY DEF ReindexStep, ingestVars
<1>2. source' = source
  BY DEF ReindexStep, RunStep, StartFresh, Resume, Start, ClearManifest, ScrollEnds, ScrollOn,
     EmbedPage, UpsertPoint, AppendManifest, SaveCheckpoint, FinishRun, CrashReindex
<1>3. starts' \in {starts, starts + 1} /\ faults' \in {faults, faults + 1}
  BY DEF ReindexStep, RunStep, StartFresh, Resume, Start, ClearManifest, ScrollEnds, ScrollOn,
     EmbedPage, UpsertPoint, AppendManifest, SaveCheckpoint, FinishRun, CrashReindex
<1>4. Ingest!IngestTypeOK' /\ {starts', faults'} \subseteq Nat
  BY <1>1, <1>2, <1>3 DEF IngestInv, Ingest!IngestTypeOK
<1>5. IngestFiles'
  BY <1>1, <1>2 DEF IngestInv, IngestFiles, Ingest!ReadableIngested
<1>6. IngestRun'
  BY <1>1 DEF IngestInv, IngestRun, Passed, InHand
<1> QED
  BY <1>4, <1>5, <1>6 DEF IngestInv

\* A step of the ingestion keeps what is promised, and only adds points.
LEMMA IngestKeeps ==
  IngestInv /\ Ingest!IngestStep =>
    /\ IngestInv'
    /\ source \subseteq source' /\ source' \subseteq Points
<1> SUFFICES ASSUME IngestInv, Ingest!IngestStep
             PROVE  IngestInv' /\ source \subseteq source' /\ source' \subseteq Points
  OBVIOUS
<1> USE DEF Ingest!NoProgress
<1>a. /\ source \subseteq Points /\ batch \in Seq(Points) /\ interrupted \in BOOLEAN
      /\ saved \in Ingest!Progress /\ progress \in Ingest!Progress /\ answer \in Ingest!Progress
      /\ step \in {"idle", "chunk", "upsert", "save", "flush", "end"}
      /\ idx \in 1..Len(Chunks) + 1 /\ starts \in Nat /\ faults \in Nat
      /\ unread \subseteq Ingest!ChunkSet
  BY DEF IngestInv, Ingest!IngestTypeOK
<1>b. IngestFiles /\ IngestRun
  BY DEF IngestInv
<1>c. /\ progress.completed \subseteq Points /\ progress.failed \in Nat
      /\ saved.completed \subseteq Points /\ saved.failed \in Nat
      /\ Ingest!NoProgress \in Ingest!Progress /\ <<>> \in Seq(Points)
  BY <1>a DEF Ingest!Progress
<1>d. /\ Len(Chunks) \in Nat /\ idx \in Nat \ {0}
      /\ \A i \in 1..Len(Chunks) : Chunks[i] \in Points
      /\ Ingest!ChunkSet = {Chunks[i] : i \in 1..Len(Chunks)}
      /\ Ingest!ChunkSet \subseteq Points
  BY <1>a, ChunksArePoints
<1>e. Ingest!Range(batch) \subseteq Points /\ Ingest!Range(<<>>) = {}
  <2>1. \A i \in DOMAIN batch : batch[i] \in Points
    BY <1>a
  <2> QED
    BY <2>1 DEF Ingest!Range
<1>f. ASSUME Ingest!Exit, source \subseteq source', source' \subseteq Points,
             saved' \in Ingest!Progress, saved'.completed \subseteq source',
             answer' \in Ingest!Progress, Ingest!ReadableIngested',
             unread' = unread, starts' \in Nat, faults' \in Nat
      PROVE  IngestInv'
  <2>1. /\ step' = "idle" /\ idx' = 1 /\ batch' = <<>> /\ interrupted' = FALSE
        /\ progress' = Ingest!NoProgress
    BY <1>f DEF Ingest!Exit
  <2>2. Ingest!IngestTypeOK' /\ {starts', faults'} \subseteq Nat
    <3>1. idx' \in 1..Len(Chunks) + 1
      BY <1>d, <2>1
    <3>2. progress' \in Ingest!Progress /\ batch' \in Seq(Points) /\ interrupted' \in BOOLEAN
      BY <1>c, <2>1
    <3> QED
      BY <1>a, <1>f, <2>1, <3>1, <3>2 DEF Ingest!IngestTypeOK, Ingest!ChunkSet
  <2>3. IngestFiles'
    BY <1>f, <2>1 DEF IngestFiles
  <2>4. IngestRun'
    BY <2>1 DEF IngestRun, Passed
  <2> QED
    BY <2>2, <2>3, <2>4 DEF IngestInv
<1>1. ASSUME NEW resume \in BOOLEAN, NEW skipExisting \in BOOLEAN,
             Ingest!StartIngest(resume, skipExisting)
      PROVE  IngestInv' /\ source' = source
  <2>1. PICK lost \in SUBSET MemoryFiles, listing \in Ingest!Listings(skipExisting) :
             /\ unread' = UNION lost
             /\ progress' = Ingest!Loaded(resume, listing \ unread')
             /\ faults' \in {faults, faults + 1}
    BY <1>1 DEF Ingest!StartIngest, Ingest!Fault
  <2> DEFINE existing == listing \ unread'
  <2>7. existing \subseteq source
    <3>1. listing \subseteq source
      BY DEF Ingest!Listings
    <3> QED
      BY <3>1
  <2>8. unread' \subseteq Ingest!ChunkSet
    <3>1. UNION MemoryFiles \subseteq Ingest!ChunkSet
      BY IngestionAssumption DEF Ingest!ChunkSet, Ingest!Range
    <3> QED
      BY <2>1, <3>1
  <2> HIDE DEF existing
  <2>2. /\ starts' = starts + 1 /\ faults' \in {faults, faults + 1}
        /\ step = "idle" /\ step' = "chunk" /\ idx' = 1 /\ answer' = Ingest!NoProgress
        /\ UNCHANGED <<source, saved, batch, interrupted>>
    BY <1>1, <2>1 DEF Ingest!StartIngest
  <2>3. /\ progress' \in Ingest!Progress /\ progress'.status = "running"
        /\ progress'.completed \subseteq source
    <3> DEFINE p == IF resume /\ saved.status = "running" THEN saved ELSE Ingest!NewProgress
    <3>1. /\ p \in Ingest!Progress /\ p.status = "running" /\ p.completed \subseteq source
      BY <1>a, <1>b, <1>c DEF IngestFiles, Ingest!NewProgress, Ingest!Progress
    <3>2. progress' = [p EXCEPT !.completed = @ \cup (Ingest!ChunkSet \cap existing)]
      BY <2>1 DEF Ingest!Loaded, existing
    <3> HIDE DEF p
    <3> DEFINE completed == p.completed \cup (Ingest!ChunkSet \cap existing)
    <3>3. completed \subseteq source /\ completed \subseteq Points
      BY <1>a, <2>7, <3>1
    <3>4. progress' = [p EXCEPT !.completed = completed]
      BY <3>2
    <3> HIDE DEF completed
    <3> QED
      BY <3>1, <3>3, <3>4 DEF Ingest!Progress
  <2>4. Ingest!IngestTypeOK' /\ {starts', faults'} \subseteq Nat
    <3>1. idx' \in 1..Len(Chunks) + 1
      BY <1>d, <2>2
    <3>2. starts' \in Nat /\ faults' \in Nat /\ answer' \in Ingest!Progress
      BY <1>a, <1>c, <2>2
    <3> QED
      BY <1>a, <2>2, <2>3, <2>8, <3>1, <3>2 DEF Ingest!IngestTypeOK, Ingest!ChunkSet
  <2>5. IngestFiles'
    BY <1>b, <2>2, <2>3 DEF IngestFiles, Ingest!ReadableIngested
  <2>6. IngestRun'
    BY <2>2, <2>3 DEF IngestRun, Passed
  <2> QED
    BY <2>2, <2>4, <2>5, <2>6 DEF IngestInv
<1>2. ASSUME NEW resume \in BOOLEAN, Ingest!DryRun(resume)
      PROVE  IngestInv' /\ source' = source
  <2>1. /\ starts' = starts + 1 /\ answer' = Ingest!NoProgress /\ unread' = {}
        /\ saved' = [Ingest!Loaded(resume, {}) EXCEPT !.status = "completed"]
        /\ UNCHANGED <<source, progress, step, idx, batch, interrupted, faults>>
    BY <1>2 DEF Ingest!DryRun
  <2>2. saved' \in Ingest!Progress /\ saved'.completed \subseteq source
    <3> DEFINE p == IF resume /\ saved.status = "running" THEN saved ELSE Ingest!NewProgress
    <3>1. p \in Ingest!Progress /\ p.completed \subseteq source
      BY <1>a, <1>b, <1>c DEF IngestFiles, Ingest!NewProgress, Ingest!Progress
    <3>2. Ingest!Loaded(resume, {}) = [p EXCEPT !.completed = @ \cup (Ingest!ChunkSet \cap {})]
      BY DEF Ingest!Loaded
    <3> HIDE DEF p
    <3> QED
      BY <2>1, <3>1, <3>2 DEF Ingest!Progress
  <2>3. starts' \in Nat /\ faults' \in Nat /\ answer' \in Ingest!Progress
    BY <1>a, <1>c, <2>1
  <2>4. Ingest!IngestTypeOK' /\ {starts', faults'} \subseteq Nat
    BY <1>a, <2>1, <2>2, <2>3 DEF Ingest!IngestTypeOK
  <2>5. IngestFiles'
    BY <1>b, <2>1, <2>2 DEF IngestFiles, Ingest!ReadableIngested
  <2>6. step' = "idle" /\ idx' = 1
    BY <1>b, <1>2, <2>1 DEF Ingest!DryRun, IngestRun
  <2>7. IngestRun'
    <3>1. \A i \in 1..Len(Chunks) : ~Passed(i)'
      BY <2>6 DEF Passed
    <3> QED
      BY <2>6, <3>1 DEF IngestRun
  <2> QED
    BY <2>1, <2>4, <2>5, <2>7 DEF IngestInv
<1>3. CASE Ingest!SkipChunk
  <2>1. /\ step = "chunk" /\ idx <= Len(Chunks)
        /\ Chunks[idx] \in progress.completed \cup unread
        /\ idx' = idx + 1
        /\ UNCHANGED <<source, saved, progress, step, batch, interrupted, unread, starts, faults,
                       answer>>
    BY <1>3 DEF Ingest!SkipChunk, Ingest!AtChunk, Ingest!Skipped
  <2>2. idx' \in 1..Len(Chunks) + 1
    BY <1>d, <2>1
  <2>3. Ingest!IngestTypeOK' /\ {starts', faults'} \subseteq Nat
    BY <1>a, <2>1, <2>2 DEF Ingest!IngestTypeOK
  <2>4. IngestFiles'
    BY <1>b, <2>1 DEF IngestFiles, Ingest!ReadableIngested
  <2>5. \A i \in 1..Len(Chunks) : Passed(i)' => Passed(i) \/ i = idx
    BY <1>d, <2>1 DEF Passed
  <2>6. IngestRun'
    BY <1>b, <2>1, <2>5 DEF IngestRun, InHand
  <2> QED
    BY <1>a, <2>1, <2>3, <2>4, <2>6 DEF IngestInv
<1>4. CASE Ingest!Signal
  <2>1. /\ faults' = faults + 1 /\ interrupted' = TRUE
        /\ UNCHANGED <<source, saved, progress, step, idx, batch, unread, starts, answer>>
    BY <1>4 DEF Ingest!Signal, Ingest!Fault
  <2>2. Ingest!IngestTypeOK' /\ {starts', faults'} \subseteq Nat
    BY <1>a, <2>1 DEF Ingest!IngestTypeOK
  <2>3. IngestFiles'
    BY <1>b, <2>1 DEF IngestFiles, Ingest!ReadableIngested
  <2>4. IngestRun'
    BY <1>b, <2>1 DEF IngestRun, Passed, InHand
  <2> QED
    BY <1>a, <2>1, <2>2, <2>3, <2>4 DEF IngestInv
<1>5. CASE Ingest!StopInterrupted
  <2>1. /\ step = "chunk" /\ saved' = progress /\ answer' = progress /\ Ingest!Exit
        /\ UNCHANGED <<source, unread, starts, faults>>
    BY <1>5 DEF Ingest!StopInterrupted, Ingest!AtChunk
  <2>2. progress.status = "running" /\ progress.completed \subseteq source
    BY <1>b, <2>1 DEF IngestRun, IngestFiles
  <2>3. Ingest!ReadableIngested'
    BY <2>1, <2>2 DEF Ingest!ReadableIngested
  <2> QED
    BY <1>a, <1>f, <2>1, <2>2, <2>3
<1>6. CASE Ingest!EmbedFails
  <2> DEFINE failed == progress.failed + 1
  <2>1. /\ step = "chunk" /\ idx <= Len(Chunks) /\ idx' = idx + 1 /\ faults' = faults + 1
        /\ progress' = [progress EXCEPT !.failed = failed]
        /\ UNCHANGED <<source, saved, step, batch, interrupted, unread, starts, answer>>
    BY <1>6 DEF Ingest!EmbedFails, Ingest!Embeds, Ingest!AtChunk, Ingest!Fault
  <2>2. failed \in Nat /\ failed # 0 /\ faults' \in Nat /\ idx' \in 1..Len(Chunks) + 1
    BY <1>a, <1>c, <1>d, <2>1
  <2> HIDE DEF failed
  <2>3. /\ progress' \in Ingest!Progress /\ progress'.failed = failed
        /\ progress'.completed = progress.completed /\ progress'.status = progress.status
    BY <1>a, <2>1, <2>2 DEF Ingest!Progress
  <2>4. Ingest!IngestTypeOK' /\ {starts', faults'} \subseteq Nat
    BY <1>a, <2>1, <2>2, <2>3 DEF Ingest!IngestTypeOK
  <2>5. IngestFiles'
    BY <1>b, <2>1, <2>3 DEF IngestFiles, Ingest!ReadableIngested
  <2>6. IngestRun'
    BY <1>b, <2>1, <2>2, <2>3 DEF IngestRun
  <2> QED
    BY <1>a, <2>1, <2>4, <2>5, <2>6 DEF IngestInv
<1>7. CASE Ingest!EmbedChunk
  <2>1. /\ step = "chunk" /\ idx <= Len(Chunks) /\ step' \in {"upsert", "save"}
        /\ batch' = Append(batch, Chunks[idx])
        /\ UNCHANGED <<source, saved, progress, idx, interrupted, unread, starts, faults,
                       answer>>
    BY <1>7 DEF Ingest!EmbedChunk, Ingest!Embeds, Ingest!AtChunk
  <2>2. Chunks[idx] \in Points
    BY <1>d, <2>1
  <2>3. /\ batch' \in Seq(Points)
        /\ Ingest!Range(batch') = Ingest!Range(batch) \cup {Chunks[idx]}
    BY <1>a, <2>1, <2>2, RangeOfBatch
  <2>4. Ingest!IngestTypeOK' /\ {starts', faults'} \subseteq Nat
    BY <1>a, <2>1, <2>3 DEF Ingest!IngestTypeOK
  <2>5. IngestFiles'
    BY <1>b, <2>1 DEF IngestFiles, Ingest!ReadableIngested
  <2>6. /\ \A i \in 1..Len(Chunks) : Passed(i)' => Passed(i) \/ i = idx
        /\ InHand' = InHand \cup {Chunks[idx]}
    BY <2>1, <2>3 DEF Passed, InHand
  <2>7. IngestRun'
    BY <1>b, <2>1, <2>6 DEF IngestRun
  <2> QED
    BY <1>a, <2>1, <2>4, <2>5, <2>7 DEF IngestInv
<1>8. CASE Ingest!UpsertBatch
  <2> DEFINE completed == progress.completed \cup Ingest!Range(batch)
  <2>1. /\ step \in {"upsert", "flush"} /\ source' = source \cup Ingest!Range(batch)
        /\ progress' = [progress EXCEPT !.completed = completed]
        /\ batch' = <<>> /\ step' = (IF step = "upsert" THEN "save" ELSE "end")
        /\ UNCHANGED <<saved, idx, interrupted, unread, starts, faults, answer>>
    BY <1>8 DEF Ingest!UpsertBatch
  <2>2. completed \subseteq Points /\ completed \subseteq source' /\ completed = InHand
    BY <1>b, <1>c, <1>e, <2>1 DEF IngestFiles, InHand
  <2> HIDE DEF completed
  <2>3. /\ progress' \in Ingest!Progress /\ progress'.failed = progress.failed
        /\ progress'.completed = completed /\ progress'.status = progress.status
    BY <1>a, <2>1, <2>2 DEF Ingest!Progress
  <2>4. source' \subseteq Points /\ source \subseteq source' /\ <<>> \in Seq(Points)
    BY <1>a, <1>c, <1>e, <2>1
  <2>5. Ingest!IngestTypeOK' /\ {starts', faults'} \subseteq Nat
    <3>1. step' \in {"save", "end"}
      BY <2>1
    <3> QED
      BY <1>a, <2>1, <2>3, <2>4, <3>1 DEF Ingest!IngestTypeOK
  <2>6. IngestFiles'
    BY <1>b, <2>1, <2>2, <2>3, <2>4 DEF IngestFiles, Ingest!ReadableIngested
  <2>7. InHand' = InHand
    BY <1>e, <2>1, <2>2, <2>3 DEF InHand
  <2>8. /\ step' = "save" => step = "upsert"
        /\ step' = "end" => step = "flush"
        /\ step' \in {"save", "end"}
        /\ \A i \in 1..Len(Chunks) : Passed(i)' => Passed(i)
    BY <2>1 DEF Passed
  <2>9. IngestRun'
    BY <1>b, <2>1, <2>3, <2>7, <2>8 DEF IngestRun
  <2> QED
    BY <1>a, <2>1, <2>4, <2>5, <2>6, <2>9 DEF IngestInv
<1>9. CASE Ingest!UpsertFails
  <2>1. /\ source' \in {source, source \cup Ingest!Range(batch)} /\ Ingest!Exit
        /\ faults' = faults + 1 /\ UNCHANGED <<saved, unread, starts, answer>>
    BY <1>9 DEF Ingest!UpsertFails, Ingest!Fault
  <2>2. source \subseteq source' /\ source' \subseteq Points
    BY <1>a, <1>e, <2>1
  <2>3. Ingest!ReadableIngested' /\ saved'.completed \subseteq source'
    BY <1>b, <2>1, <2>2 DEF IngestFiles, Ingest!ReadableIngested
  <2>4. faults' \in Nat
    BY <1>a, <2>1
  <2> QED
    BY <1>a, <1>f, <2>1, <2>2, <2>3, <2>4
<1>10. CASE Ingest!SaveIfDue
  <2>1. /\ step = "save" /\ saved' \in {saved, progress} /\ idx' = idx + 1 /\ step' = "chunk"
        /\ UNCHANGED <<source, progress, batch, interrupted, unread, starts, faults, answer>>
    BY <1>10 DEF Ingest!SaveIfDue
  <2>2. idx' \in 1..Len(Chunks) + 1
    BY <1>b, <1>d, <2>1 DEF IngestRun
  <2>3. Ingest!IngestTypeOK' /\ {starts', faults'} \subseteq Nat
    BY <1>a, <2>1, <2>2 DEF Ingest!IngestTypeOK
  <2>4. IngestFiles'
    BY <1>b, <2>1 DEF IngestFiles, Ingest!ReadableIngested
  <2>5. \A i \in 1..Len(Chunks) : Passed(i)' => Passed(i)
    BY <1>d, <2>1 DEF Passed
  <2>6. IngestRun'
    BY <1>b, <2>1, <2>5 DEF IngestRun, InHand
  <2> QED
    BY <1>a, <2>1, <2>3, <2>4, <2>6 DEF IngestInv
<1>11. CASE Ingest!FlushFinal
  <2>1. /\ step = "chunk" /\ idx > Len(Chunks) /\ step' \in {"end", "flush"}
        /\ step' = "end" => batch = <<>>
        /\ UNCHANGED <<source, saved, progress, idx, batch, interrupted, unread, starts, faults,
                       answer>>
    BY <1>11 DEF Ingest!FlushFinal
  <2>2. Ingest!IngestTypeOK' /\ {starts', faults'} \subseteq Nat
    BY <1>a, <2>1 DEF Ingest!IngestTypeOK
  <2>3. IngestFiles'
    BY <1>b, <2>1 DEF IngestFiles, Ingest!ReadableIngested
  <2>4. \A i \in 1..Len(Chunks) : Passed(i)' => Passed(i)
    BY <2>1 DEF Passed
  <2>5. IngestRun'
    BY <1>b, <2>1, <2>4 DEF IngestRun, InHand
  <2> QED
    BY <1>a, <2>1, <2>2, <2>3, <2>5 DEF IngestInv
<1>12. CASE Ingest!Complete
  <2>1. /\ step = "end" /\ saved' = Ingest!NoProgress /\ Ingest!Exit
        /\ answer' = [progress EXCEPT !.status = "completed"]
        /\ UNCHANGED <<source, unread, starts, faults>>
    BY <1>12 DEF Ingest!Complete
  <2>2. /\ answer' \in Ingest!Progress /\ answer'.failed = progress.failed
    BY <1>a, <2>1 DEF Ingest!Progress
  <2>3. progress.failed = 0 => Ingest!ChunkSet \ unread \subseteq source
    <3>1. \A i \in 1..Len(Chunks) : Passed(i)
      BY <1>b, <1>d, <2>1 DEF IngestRun, Passed
    <3>2. InHand = progress.completed
      BY <1>b, <1>e, <2>1 DEF IngestRun, InHand
    <3>3. progress.completed \subseteq source
      BY <1>b DEF IngestFiles
    <3> QED
      BY <1>b, <1>d, <3>1, <3>2, <3>3 DEF IngestRun
  <2>4. Ingest!ReadableIngested'
    BY <2>1, <2>2, <2>3 DEF Ingest!ReadableIngested, Ingest!ChunkSet
  <2> QED
    BY <1>a, <1>c, <1>f, <2>1, <2>2, <2>4
<1>13. CASE Ingest!CrashIngest
  <2>1. /\ Ingest!Exit /\ faults' = faults + 1 /\ saved' \in {saved, Ingest!NoProgress}
        /\ UNCHANGED <<source, unread, starts, answer>>
    BY <1>13 DEF Ingest!CrashIngest, Ingest!Fault
  <2>2. faults' \in Nat
    BY <1>a, <2>1
  <2>3. saved' \in Ingest!Progress
    <3>1. saved \in Ingest!Progress /\ Ingest!NoProgress \in Ingest!Progress
      BY <1>a, <1>c
    <3> HIDE DEF Ingest!NoProgress
    <3> QED
      BY <2>1, <3>1
  <2>4. saved'.completed \subseteq source
    <3>1. saved.completed \subseteq source /\ Ingest!NoProgress.completed = {}
      BY <1>b DEF IngestFiles
    <3> QED
      BY <2>1, <3>1
  <2>5. Ingest!ReadableIngested'
    BY <1>b, <2>1 DEF IngestFiles, Ingest!ReadableIngested
  <2> QED
    BY <1>a, <1>f, <2>1, <2>2, <2>3, <2>4, <2>5
<1> QED
  BY <1>1, <1>2, <1>3, <1>4, <1>5, <1>6, <1>7, <1>8, <1>9, <1>10, <1>11, <1>12, <1>13, <1>a
     DEF Ingest!IngestStep

\* However the two writers interleave, the invariant of the ingestion holds.
THEOREM IngestInvariant == PipelineSpec => []IngestInv
<1>1. PipelineInit => IngestInv
  BY IngestInvInit
<1>2. IngestInv /\ [PipelineNext]_pipelineVars => IngestInv'
  <2> SUFFICES ASSUME IngestInv, [PipelineNext]_pipelineVars PROVE IngestInv'
    OBVIOUS
  <2>1. CASE UNCHANGED pipelineVars
    <3>1. UNCHANGED <<source, starts, faults, saved, progress, step, idx, batch, interrupted,
                      unread, answer>>
      BY <2>1 DEF pipelineVars, vars, ingestVars
    <3> QED
      BY <3>1 DEF IngestInv, Ingest!IngestTypeOK, IngestFiles, Ingest!ReadableIngested,
         IngestRun, Passed, InHand
  <2> QED
    BY <2>1, ReindexLeavesIngest, IngestKeeps DEF PipelineNext, IngestStep
<1> QED
  BY <1>1, <1>2, PTL DEF PipelineSpec

\* What a checkpoint of the ingestion calls completed is in the collection.
THEOREM CheckpointNeverAhead == PipelineSpec => []IngestCheckpointSound
<1>1. IngestInv => IngestCheckpointSound
  BY DEF IngestInv, IngestFiles, IngestCheckpointSound, Ingest!CheckpointSound
<1> QED
  BY <1>1, IngestInvariant, PTL

\* An ingestion that completes without a failure has left every chunk of the files
\* it could read in the collection.
THEOREM CleanIngestIsWhole == PipelineSpec => []ReadableIngested
<1>1. IngestInv => ReadableIngested
  BY DEF IngestInv, IngestFiles, ReadableIngested
<1> QED
  BY <1>1, IngestInvariant, PTL

\* The ingestion is a writer that the re-embedding reckons with, so what Reindex
\* promises of any such writer holds of the two together.
THEOREM PipelineImplementsReindex == PipelineSpec => ReindexSpec
<1>1. PipelineInit => Init
  BY DEF PipelineInit
<1>2. IngestInv /\ [PipelineNext]_pipelineVars => [Next]_vars
  <2> SUFFICES ASSUME IngestInv, [PipelineNext]_pipelineVars PROVE [Next]_vars
    OBVIOUS
  <2>1. CASE UNCHANGED pipelineVars
    BY <2>1 DEF pipelineVars
  <2>2. CASE ReindexStep
    BY <2>2 DEF ReindexStep, Next
  <2>3. CASE IngestStep
    <3>1. IngestInv' /\ source \subseteq source' /\ source' \subseteq Points
      BY <2>3, IngestKeeps DEF IngestStep
    <3>2. SourceGrows
      BY <2>3, <3>1 DEF IngestStep, IngestInv, SourceGrows
    <3> QED
      BY <3>2 DEF Next
  <2> QED
    BY <2>1, <2>2, <2>3 DEF PipelineNext
<1> QED
  BY <1>1, <1>2, IngestInvariant, PTL DEF PipelineSpec, ReindexSpec, Spec

\* Types of the two writers and of their files.
THEOREM PipelineTypes == PipelineSpec => []PipelineTypeOK
<1>1. PipelineSpec => []ReindexTypeOK
  BY PipelineImplementsReindex, TypeCorrect, PTL DEF ReindexSpec
<1>2. ReindexTypeOK /\ IngestInv => PipelineTypeOK
  BY DEF IngestInv, PipelineTypeOK
<1> QED
  BY <1>1, <1>2, IngestInvariant, PTL
=============================================================================
