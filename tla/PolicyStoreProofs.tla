------------------------- MODULE PolicyStoreProofs -------------------------
(***************************************************************************)
(* Proofs about PolicyStore, for any set of policies, any lineage between  *)
(* them, any number of processes and threads, and any number of faults.    *)
(***************************************************************************)
EXTENDS PolicyStore, TLAPS

(***************************************************************************)
(* The inductive invariant.  That only released policies are served rests  *)
(* on where policies wait before they are served: in the files, in the     *)
(* previous slot, in a local variable of a reload.  That a promotion       *)
(* releases a candidate of a released policy rests on what the shadow slot *)
(* may hold, and on nobody emptying it under a running promotion.          *)
(***************************************************************************)

\* c was derived from a policy that has been in force.
Derived(c) == \E p \in released : c \in Children[p]

FilesReleased ==
    /\ Baseline \in released
    /\ activeFile \in released \cup {None, Corrupt}
    /\ previousFile \in released \cup {None, Corrupt}

MemoryReleased ==
    \A p \in Procs : policy[p] \in released /\ previous[p] \in released \cup {None}

ShadowsDerived ==
    /\ candidateFile \notin {None, Corrupt} => Derived(candidateFile)
    /\ \A p \in Procs : shadow[p] # None => Derived(shadow[p])

\* A runner past set_shadow and not past the swap of promote.
InShadowPhase(t) == pc[t] \in {"shadowed", "credited", "promote_active", "promote_stat"}

ThreadsInPlace ==
    \A t \in Threads :
        /\ boot[Home[t]] # "ready" => pc[t] = "idle"
        /\ pc[t] = "install" => reg[t] \in released
        /\ pc[t] \in {"promote_active", "promote_stat"} =>
              reg[t] \in released \cup {None}
        /\ InShadowPhase(t) => t \in Runners /\ shadow[Home[t]] # None
        /\ pc[t] = "promote_stat" => shadow[Home[t]] \in released

IInv == TypeOK /\ FilesReleased /\ MemoryReleased /\ ShadowsDerived /\ ThreadsInPlace

-----------------------------------------------------------------------------
(* IInv is inductive: one step per action.                                 *)

\* The store starts in it.
LEMMA InitInvariant == Init => IInv
  BY StoreAssumption DEF Init, IInv, TypeOK, FilesReleased, MemoryReleased,
     ShadowsDerived, ThreadsInPlace, InShadowPhase, Derived, Slot, File, Locked

\* Every step preserves it.  The invariant speaks about every variable, so the
\* definitions it consists of are visible throughout; each step adds its action.
LEMMA StepInvariant == IInv /\ [Next]_vars => IInv'
<1> SUFFICES ASSUME IInv, [Next]_vars PROVE IInv'
  OBVIOUS
<1> USE StoreAssumption DEF IInv, TypeOK, FilesReleased, MemoryReleased, ShadowsDerived,
     ThreadsInPlace, InShadowPhase, Derived, Slot, File, Locked, Slots,
     fileVars, memVars, ctrlVars, histVars
<1>1. ASSUME NEW p \in Procs, LoadPrevious(p) \/ LoadCandidate(p) PROVE IInv'
  <2>1. CASE LoadPrevious(p)
    BY <2>1 DEF LoadPrevious, ReadSlot
  <2>2. CASE LoadCandidate(p)
    BY <2>2 DEF LoadCandidate, ReadSlot, Fault
  <2> QED
    BY <1>1, <2>1, <2>2
<1>2. ASSUME NEW p \in Procs, LoadActive(p) PROVE IInv'
  BY <1>2 DEF LoadActive
<1>3. ASSUME NEW p \in Procs, RecoverPrevious(p) PROVE IInv'
  BY <1>3 DEF RecoverPrevious, WriteActive
<1>4. ASSUME NEW p \in Procs, FallBackToBaseline(p) PROVE IInv'
  BY <1>4 DEF FallBackToBaseline
<1>5. ASSUME NEW p \in Procs, DiscardStaleShadow(p) PROVE IInv'
  BY <1>5 DEF DiscardStaleShadow, Fault
<1>6. ASSUME NEW p \in Procs, Crash(p) PROVE IInv'
  BY <1>6 DEF Crash, Fault, Terminate
<1>7. ASSUME NEW t \in Threads, ReloadRead(t) PROVE IInv'
  BY <1>7 DEF ReloadRead, At, Goto
<1>8. ASSUME NEW t \in Threads, ReloadInstall(t) PROVE IInv'
  BY <1>8 DEF ReloadInstall, At, Goto, LockFree, RecordMtime
<1>9. ASSUME NEW t \in Threads, RejectShadow(t) PROVE IInv'
  BY <1>9 DEF RejectShadow, At, LockFree
<1>10. ASSUME NEW t \in Threads, RevertWriteActive(t) PROVE IInv'
  BY <1>10 DEF RevertWriteActive, At, Goto, LockFree, WriteActive, RevertTarget
<1>11. ASSUME NEW t \in Threads, RevertSwap(t) PROVE IInv'
  BY <1>11 DEF RevertSwap, At, Goto, RecordMtime, RevertTarget
<1>12. ASSUME NEW t \in Threads, RevertUnlinkPrevious(t) PROVE IInv'
  BY <1>12 DEF RevertUnlinkPrevious, At, Goto, Fault
<1>13. ASSUME NEW t \in Threads, RevertUnlinkCandidate(t) PROVE IInv'
  BY <1>13 DEF RevertUnlinkCandidate, At, Goto, Fault, Done
<1>14. ASSUME NEW t \in Threads, PromoteSavePrevious(t) PROVE IInv'
  BY <1>14 DEF PromoteSavePrevious, At, Goto
<1>15. ASSUME NEW t \in Threads, PromoteWriteActive(t) PROVE IInv'
  BY <1>15 DEF PromoteWriteActive, At, Goto, WriteActive, InForce
<1>16. ASSUME NEW t \in Threads, PromoteFails(t) PROVE IInv'
  BY <1>16 DEF PromoteFails, At, Goto, Fault
<1>17. ASSUME NEW t \in Threads, PromoteSwap(t) PROVE IInv'
  BY <1>17 DEF PromoteSwap, At, Goto, RecordMtime
<1>18. ASSUME NEW t \in Threads, PromoteUnlinkCandidate(t) PROVE IInv'
  BY <1>18 DEF PromoteUnlinkCandidate, At, Goto, Fault, Done
<1>19. ASSUME NEW t \in Threads, SetShadow(t) PROVE IInv'
  BY <1>19 DEF SetShadow, At, Goto, CycleCandidates
<1>20. ASSUME NEW t \in Threads, UpdateShadowMetadata(t) PROVE IInv'
  BY <1>20 DEF UpdateShadowMetadata, At, Goto
<1>21. ASSUME NEW t \in Threads, EndCycle(t) PROVE IInv'
  BY <1>21 DEF EndCycle, At, Goto
<1>22. ASSUME NEW t \in Threads, Exit(t) PROVE IInv'
  BY <1>22 DEF Exit, At, Terminate
<1>23. ASSUME NEW slot \in Slots, Damage(slot) PROVE IInv'
  <2>1. faults' \in 0..MaxFaults
    BY <1>23 DEF Damage, Fault
  <2>2. UNCHANGED <<memVars, ctrlVars, histVars>>
    BY <1>23 DEF Damage
  <2>3. CASE slot = "active"
    <3>1. /\ activeFile' = Corrupt
          /\ fresh' = [p \in Procs |-> FALSE]
          /\ UNCHANGED <<previousFile, candidateFile>>
      BY <1>23, <2>3 DEF Damage
    <3>2. TypeOK'
      BY <2>1, <2>2, <3>1
    <3>3. FilesReleased' /\ MemoryReleased'
      BY <2>2, <3>1
    <3>4. ShadowsDerived'
      BY <2>2, <3>1
    <3>5. ThreadsInPlace'
      BY <2>2, <3>1
    <3> QED
      BY <3>2, <3>3, <3>4, <3>5
  <2>4. CASE slot = "previous"
    BY <1>23, <2>1, <2>2, <2>4 DEF Damage
  <2>5. CASE slot = "candidate"
    BY <1>23, <2>1, <2>2, <2>5 DEF Damage
  <2> QED
    BY <2>3, <2>4, <2>5
<1>24. ASSUME NEW t \in Threads, RevertFails(t) PROVE IInv'
  BY <1>24 DEF RevertFails, At, Goto, Done, Fault
<1>25. CASE UNCHANGED vars
  BY <1>25 DEF vars
<1> HIDE DEF IInv
<1> QED
  BY <1>1, <1>2, <1>3, <1>4, <1>5, <1>6, <1>7, <1>8, <1>9, <1>10, <1>11, <1>12, <1>13, <1>14, <1>15, <1>16, <1>17, <1>18, <1>19, <1>20, <1>21, <1>22, <1>23, <1>24, <1>25 DEF Next, Boot, Reload, Revert, Promote, Cycle

\* IInv holds in every state of every behaviour.
THEOREM Invariant == Spec => []IInv
  BY InitInvariant, StepInvariant, PTL DEF Spec

\* Type correctness, for any instance.
THEOREM TypeCorrect == Spec => []TypeOK
<1>1. IInv => TypeOK
  BY DEF IInv
<1> QED
  BY <1>1, Invariant, PTL

\* No process ever serves a policy that was not in force: what get() returns
\* after a reload, a recovery, a promotion (failed or not) or a rollback.
THEOREM OnlyReleasedPoliciesServed == Spec => []OnlyReleasedServed
<1>1. IInv => OnlyReleasedServed
  BY DEF IInv, MemoryReleased, OnlyReleasedServed
<1> QED
  BY <1>1, Invariant, PTL

-----------------------------------------------------------------------------
(* PolicyStore implements PolicyLifecycle.                                 *)

\* A step that leaves active.json alone is a stutter of the lifecycle ...
LEMMA UnwrittenStutters ==
  ASSUME UNCHANGED <<activeFile, released>>
  PROVE  UNCHANGED Lifecycle!lifecycleVars
  BY DEF Lifecycle!lifecycleVars, InForce

\* ... writing a policy that was in force goes back to it ...
LEMMA ReleasedWriteGoesBack ==
  ASSUME NEW p \in Policies, p \in released, WriteActive(p)
  PROVE  Lifecycle!Next
<1>1. released' = released
  BY DEF WriteActive
<1>2. InForce' = p
  BY DEF WriteActive, InForce
<1> QED
  BY <1>1, <1>2 DEF Lifecycle!Next, Lifecycle!GoBack

\* ... and writing a candidate of such a policy releases it.
LEMMA DerivedWriteReleases ==
  ASSUME NEW c \in Policies, Derived(c), WriteActive(c)
  PROVE  Lifecycle!Next
<1>1. released' = released \cup {c} /\ InForce' = c
  BY DEF WriteActive, InForce
<1> QED
  BY <1>1 DEF Derived, Lifecycle!Next, Lifecycle!Release

\* The first installation starts the lifecycle.
LEMMA InitLifecycle == Init => Lifecycle!Init
  BY StoreAssumption DEF Init, Lifecycle!Init, InForce

\* Three actions write active.json, and damage to it puts the baseline in force;
\* every other action stutters.
LEMMA StepLifecycle == IInv /\ [Next]_vars => [Lifecycle!Next]_Lifecycle!lifecycleVars
<1> SUFFICES ASSUME IInv, [Next]_vars
             PROVE  Lifecycle!Next \/ UNCHANGED Lifecycle!lifecycleVars
  OBVIOUS
<1>1. ASSUME NEW p \in Procs, RecoverPrevious(p) PROVE Lifecycle!Next
  <2>1. previous[p] \in Policies /\ previous[p] \in released
    BY <1>1 DEF RecoverPrevious, IInv, TypeOK, MemoryReleased, Slot
  <2> QED
    BY <1>1, <2>1, ReleasedWriteGoesBack DEF RecoverPrevious
<1>2. ASSUME NEW t \in Threads, RevertWriteActive(t) PROVE Lifecycle!Next
  <2> DEFINE target == RevertTarget(Home[t])
  <2>1. Home[t] \in Procs
    BY StoreAssumption
  <2>2. target \in Policies /\ target \in released
    BY <2>1, StoreAssumption
    DEF RevertTarget, IInv, TypeOK, MemoryReleased, FilesReleased, Slot
  <2> QED
    BY <1>2, <2>2, ReleasedWriteGoesBack DEF RevertWriteActive
<1>3. ASSUME NEW t \in Threads, PromoteWriteActive(t) PROVE Lifecycle!Next
  <2> DEFINE c == shadow[Home[t]]
  <2>1. Home[t] \in Procs
    BY StoreAssumption
  <2>2. c # None
    BY <1>3 DEF PromoteWriteActive, At, IInv, ThreadsInPlace, InShadowPhase
  <2>3. c \in Policies /\ Derived(c)
    BY <2>1, <2>2 DEF IInv, TypeOK, ShadowsDerived, Slot
  <2> QED
    BY <1>3, <2>3, DerivedWriteReleases DEF PromoteWriteActive
<1>4. ASSUME NEW slot \in Slots, Damage(slot)
      PROVE  Lifecycle!Next \/ UNCHANGED Lifecycle!lifecycleVars
  <2>1. released' = released
    BY <1>4 DEF Damage, histVars
  <2>2. CASE slot = "active"
    \* Without a readable active.json the baseline is in force.
    <3>1. InForce' = Baseline
      BY <1>4, <2>2, StoreAssumption DEF Damage, InForce
    <3>2. Baseline \in Policies /\ Baseline \in released
      BY StoreAssumption DEF IInv, FilesReleased
    <3> QED
      BY <2>1, <3>1, <3>2 DEF Lifecycle!Next, Lifecycle!GoBack
  <2>3. CASE slot # "active"
    <3>1. activeFile' = activeFile
      BY <1>4, <2>3 DEF Damage
    <3> QED
      BY <2>1, <3>1, UnwrittenStutters
  <2> QED
    BY <2>2, <2>3
<1>5. ASSUME NEW p \in Procs,
             LoadPrevious(p) \/ LoadCandidate(p) \/ LoadActive(p)
             \/ FallBackToBaseline(p) \/ DiscardStaleShadow(p) \/ Crash(p)
      PROVE  UNCHANGED <<activeFile, released>>
  BY <1>5 DEF LoadPrevious, LoadCandidate, LoadActive, FallBackToBaseline, DiscardStaleShadow,
              Crash, Terminate, fileVars, histVars
<1>6. ASSUME NEW t \in Threads,
             Reload(t) \/ RejectShadow(t) \/ RevertSwap(t) \/ RevertFails(t)
             \/ RevertUnlinkPrevious(t) \/ RevertUnlinkCandidate(t)
      PROVE  UNCHANGED <<activeFile, released>>
  BY <1>6 DEF Reload, ReloadRead, ReloadInstall, RejectShadow, RevertSwap, RevertFails,
              RevertUnlinkPrevious, RevertUnlinkCandidate, fileVars, histVars
<1>7. ASSUME NEW t \in Threads,
             PromoteSavePrevious(t) \/ PromoteFails(t) \/ PromoteSwap(t)
             \/ PromoteUnlinkCandidate(t) \/ Cycle(t)
      PROVE  UNCHANGED <<activeFile, released>>
  BY <1>7 DEF PromoteSavePrevious, PromoteFails, PromoteSwap, PromoteUnlinkCandidate,
              Cycle, SetShadow, UpdateShadowMetadata, EndCycle, Exit, Terminate,
              fileVars, histVars
<1>8. CASE UNCHANGED vars
  BY <1>8, UnwrittenStutters DEF vars, fileVars, histVars
<1> QED
  BY <1>1, <1>2, <1>3, <1>4, <1>5, <1>6, <1>7, <1>8, UnwrittenStutters
  DEF Next, Boot, Revert, Promote

\* Every behaviour of the store, with all its interleavings and faults, is one
\* of the lifecycle: the policy in force changes only by the release of a
\* candidate of a released policy, or back to a released policy.
THEOREM ImplementsLifecycle == Spec => LifecycleSpec
  BY InitLifecycle, StepLifecycle, Invariant, PTL
  DEF Spec, LifecycleSpec, Lifecycle!Spec

-----------------------------------------------------------------------------
(* Where no operator writes, only the cycle does, and its lock lets one    *)
(* runner at a time past its first step.  So nobody unlinks previous.json  *)
(* between the steps of a promotion, and a rollback has taken its          *)
(* promotion back before it unlinks the file.                              *)

\* t is in the middle of a cycle's writes.
Writing(t) == pc[t] \notin {"idle", "install", "exit"}

OneWriter ==
    /\ \A t \in Threads : Writing(t) => t \in Runners
    /\ \A t, u \in Threads : Writing(t) /\ Writing(u) => t = u

PreviousKept ==
    /\ \A t \in Threads : pc[t] = "promote_active" => previousFile # None
    /\ \A t \in Threads : pc[t] \in {"revert_stat", "revert_previous"} => replaced = None
    /\ PromotedHasPrevious

\* A thread of the recalls or the end of a process starts no writer; a writer
\* starts when no other runner is past its first step.
LEMMA OneWriterStep ==
  ASSUME Operators = {}, IInv, OneWriter, [Next]_vars
  PROVE  OneWriter'
<1>a. pc \in [Threads -> Locked \cup {"idle", "install", "shadowed", "credited", "exit"}]
  BY DEF IInv, TypeOK
<1>b. ASSUME NEW t \in Threads, NEW label, Writing(t), Goto(t, label)
      PROVE  OneWriter'
  BY <1>a, <1>b DEF Goto, OneWriter, Writing
<1>c. ASSUME NEW t \in Threads, NEW label \in {"idle", "install", "exit"}, Goto(t, label)
      PROVE  OneWriter'
  BY <1>a, <1>c DEF Goto, OneWriter, Writing
<1>d. ASSUME NEW t \in Runners, NEW label, EvolutionLockFree(t), Goto(t, label)
      PROVE  OneWriter'
  BY <1>a, <1>d, StoreAssumption DEF EvolutionLockFree, Goto, OneWriter, Writing
<1>1. ASSUME UNCHANGED pc PROVE OneWriter'
  BY <1>1 DEF OneWriter, Writing
<1>2. ASSUME NEW p \in Procs, Terminate(p) PROVE OneWriter'
  BY <1>2 DEF Terminate, OneWriter, Writing
<1>3. ASSUME NEW p \in Procs, Boot(p) PROVE OneWriter'
  BY <1>1, <1>3 DEF Boot, LoadPrevious, LoadCandidate, LoadActive, RecoverPrevious,
     FallBackToBaseline, DiscardStaleShadow
<1>4. ASSUME NEW t \in Threads, Reload(t) PROVE OneWriter'
  BY <1>c, <1>4 DEF Reload, ReloadRead, ReloadInstall
<1>5. ASSUME NEW t \in Threads, RejectShadow(t) PROVE OneWriter'
  BY <1>5 DEF RejectShadow
<1>6. ASSUME NEW t \in Threads, Revert(t) PROVE OneWriter'
  <2>1. CASE RevertWriteActive(t)
    BY <1>d, <2>1 DEF RevertWriteActive
  <2>2. CASE RevertSwap(t) \/ RevertFails(t) \/ RevertUnlinkPrevious(t)
               \/ RevertUnlinkCandidate(t)
    <3>1. Writing(t)
      BY <2>2 DEF RevertSwap, RevertFails, RevertUnlinkPrevious, RevertUnlinkCandidate, At,
         Writing
    <3> QED
      BY <1>b, <2>2, <3>1 DEF RevertSwap, RevertFails, RevertUnlinkPrevious,
         RevertUnlinkCandidate
  <2> QED
    BY <1>6, <2>1, <2>2 DEF Revert
<1>7. ASSUME NEW t \in Threads, Promote(t) PROVE OneWriter'
  <2>1. Writing(t)
    BY <1>7 DEF Promote, PromoteSavePrevious, PromoteWriteActive, PromoteFails, PromoteSwap,
       PromoteUnlinkCandidate, At, Writing
  <2> QED
    BY <1>b, <1>7, <2>1 DEF Promote, PromoteSavePrevious, PromoteWriteActive, PromoteFails,
       PromoteSwap, PromoteUnlinkCandidate
<1>8. ASSUME NEW t \in Threads, Cycle(t) PROVE OneWriter'
  <2>1. CASE SetShadow(t)
    BY <1>d, <2>1 DEF SetShadow
  <2>2. CASE UpdateShadowMetadata(t)
    <3>1. Writing(t)
      BY <2>2 DEF UpdateShadowMetadata, At, Writing
    <3> QED
      BY <1>b, <2>2, <3>1 DEF UpdateShadowMetadata
  <2>3. CASE EndCycle(t)
    BY <1>c, <2>3 DEF EndCycle
  <2>4. CASE Exit(t)
    BY <1>2, <2>4, StoreAssumption DEF Exit
  <2> QED
    BY <1>8, <2>1, <2>2, <2>3, <2>4 DEF Cycle
<1>9. ASSUME NEW slot \in Slots, Damage(slot) PROVE OneWriter'
  BY <1>1, <1>9 DEF Damage, ctrlVars
<1>10. CASE UNCHANGED vars
  BY <1>1, <1>10 DEF vars, ctrlVars
<1> QED
  BY <1>2, <1>3, <1>4, <1>5, <1>6, <1>7, <1>8, <1>9, <1>10 DEF Next, Crash

\* previous.json is there when active.json is replaced, and a rollback unlinks it
\* only after it has taken the promotion back.
LEMMA PreviousKeptStep ==
  ASSUME Operators = {}, IInv, OneWriter, PreviousKept, [Next]_vars
  PROVE  PreviousKept'
<1>a. pc \in [Threads -> Locked \cup {"idle", "install", "shadowed", "credited", "exit"}]
  BY DEF IInv, TypeOK
<1>b. \A t, u \in Threads :
         Writing(t) /\ pc[u] \in {"promote_active", "revert_stat", "revert_previous"} => t = u
  BY DEF OneWriter, Writing
\* No thread reaches one of the three points, and the two variables are kept.
<1>c. ASSUME UNCHANGED <<previousFile, replaced>>,
             \A t \in Threads :
                pc'[t] \in {"promote_active", "revert_stat", "revert_previous"} => pc'[t] = pc[t]
      PROVE  PreviousKept'
  BY <1>c DEF PreviousKept, PromotedHasPrevious
<1>d. ASSUME NEW t \in Threads, NEW label, Goto(t, label),
             label \notin {"promote_active", "revert_stat", "revert_previous"}
      PROVE  \A u \in Threads :
                pc'[u] \in {"promote_active", "revert_stat", "revert_previous"} => pc'[u] = pc[u]
  BY <1>a, <1>d DEF Goto
<1>1. ASSUME UNCHANGED <<pc, previousFile, replaced>> PROVE PreviousKept'
  BY <1>c, <1>1
<1>2. ASSUME NEW p \in Procs, Terminate(p) PROVE PreviousKept'
  <2>1. UNCHANGED <<previousFile, replaced>> /\ \A t \in Threads : pc'[t] \in {"idle", pc[t]}
    BY <1>2 DEF Terminate, fileVars, histVars
  <2> QED
    BY <1>c, <2>1
<1>3. ASSUME NEW p \in Procs, Boot(p) PROVE PreviousKept'
  <2>1. UNCHANGED <<pc, previousFile>> /\ replaced' \in {replaced, None}
    BY <1>3 DEF Boot, LoadPrevious, LoadCandidate, LoadActive, RecoverPrevious,
     FallBackToBaseline, DiscardStaleShadow, fileVars, histVars
  <2> QED
    BY <2>1 DEF PreviousKept, PromotedHasPrevious
<1>4. ASSUME NEW t \in Threads, Reload(t) PROVE PreviousKept'
  BY <1>c, <1>d, <1>4 DEF Reload, ReloadRead, ReloadInstall, fileVars, histVars
<1>5. ASSUME NEW t \in Threads, RejectShadow(t) PROVE PreviousKept'
  BY <1>5 DEF RejectShadow
<1>6. ASSUME NEW t \in Threads, RevertWriteActive(t) PROVE PreviousKept'
  <2>1. /\ replaced' = None /\ UNCHANGED previousFile
        /\ pc' = [pc EXCEPT ![t] = "revert_stat"]
    BY <1>6 DEF RevertWriteActive, Goto
  <2> QED
    BY <1>a, <2>1 DEF PreviousKept, PromotedHasPrevious
<1>7. ASSUME NEW t \in Threads, RevertSwap(t) PROVE PreviousKept'
  <2>1. /\ UNCHANGED <<replaced, previousFile>> /\ pc[t] = "revert_stat"
        /\ pc' = [pc EXCEPT ![t] = "revert_previous"]
    BY <1>7 DEF RevertSwap, Goto, At, fileVars, histVars
  <2> QED
    BY <1>a, <2>1 DEF PreviousKept, PromotedHasPrevious
<1>8. ASSUME NEW t \in Threads, RevertFails(t) \/ RevertUnlinkCandidate(t) PROVE PreviousKept'
  BY <1>c, <1>d, <1>8 DEF RevertFails, RevertUnlinkCandidate, Done, fileVars, histVars
<1>9. ASSUME NEW t \in Threads, RevertUnlinkPrevious(t) PROVE PreviousKept'
  <2>1. /\ UNCHANGED replaced /\ pc[t] = "revert_previous"
        /\ pc' = [pc EXCEPT ![t] = "revert_candidate"]
    BY <1>9 DEF RevertUnlinkPrevious, Goto, At, histVars
  <2>2. replaced = None /\ Writing(t)
    BY <2>1 DEF PreviousKept, Writing
  <2>3. \A u \in Threads :
           pc'[u] \notin {"promote_active", "revert_stat", "revert_previous"}
    BY <1>a, <1>b, <2>1, <2>2
  <2> QED
    BY <2>1, <2>2, <2>3 DEF PreviousKept, PromotedHasPrevious
<1>10. ASSUME NEW t \in Threads, PromoteSavePrevious(t) PROVE PreviousKept'
  <2>1. /\ UNCHANGED replaced /\ previousFile' = policy[Home[t]] /\ pc[t] = "credited"
        /\ pc' = [pc EXCEPT ![t] = "promote_active"]
    BY <1>10 DEF PromoteSavePrevious, Goto, At, histVars
  <2>2. previousFile' # None
    BY <2>1, StoreAssumption DEF IInv, TypeOK
  <2> QED
    BY <1>a, <2>1, <2>2 DEF PreviousKept, PromotedHasPrevious
<1>11. ASSUME NEW t \in Threads, PromoteWriteActive(t) PROVE PreviousKept'
  <2>1. /\ UNCHANGED previousFile /\ pc[t] = "promote_active"
        /\ pc' = [pc EXCEPT ![t] = "promote_stat"]
    BY <1>11 DEF PromoteWriteActive, Goto, At
  <2>2. previousFile # None /\ Writing(t)
    BY <2>1 DEF PreviousKept, Writing
  <2>3. \A u \in Threads :
           pc'[u] \notin {"promote_active", "revert_stat", "revert_previous"}
    BY <1>a, <1>b, <2>1, <2>2
  <2> QED
    BY <2>1, <2>2, <2>3 DEF PreviousKept, PromotedHasPrevious
<1>12. ASSUME NEW t \in Threads,
              PromoteFails(t) \/ PromoteSwap(t) \/ PromoteUnlinkCandidate(t)
       PROVE  PreviousKept'
  BY <1>c, <1>d, <1>12 DEF PromoteFails, PromoteSwap, PromoteUnlinkCandidate, Done, fileVars,
     histVars
<1>13. ASSUME NEW t \in Threads, SetShadow(t) \/ UpdateShadowMetadata(t) \/ EndCycle(t)
       PROVE  PreviousKept'
  BY <1>c, <1>d, <1>13 DEF SetShadow, UpdateShadowMetadata, EndCycle, fileVars, histVars
<1>14. ASSUME NEW t \in Threads, Exit(t) PROVE PreviousKept'
  BY <1>2, <1>14, StoreAssumption DEF Exit
<1>15. ASSUME NEW slot \in Slots, Damage(slot) PROVE PreviousKept'
  <2>1. UNCHANGED <<pc, replaced>> /\ previousFile' \in {previousFile, Corrupt}
    BY <1>15 DEF Damage, ctrlVars, histVars
  <2> QED
    BY <2>1, StoreAssumption DEF PreviousKept, PromotedHasPrevious
<1>16. CASE UNCHANGED vars
  BY <1>1, <1>16 DEF vars, fileVars, ctrlVars, histVars
<1> QED
  BY <1>2, <1>3, <1>4, <1>5, <1>6, <1>7, <1>8, <1>9, <1>10, <1>11, <1>12, <1>13, <1>14,
     <1>15, <1>16 DEF Next, Crash, Revert, Promote, Cycle

\* Where only the cycle writes, a promoted policy always has a previous.json to
\* go back to, until it has been rolled back.
THEOREM PromotionIsRecoverable ==
  ASSUME Operators = {}
  PROVE  Spec => []PromotedHasPrevious
<1>1. Init => OneWriter /\ PreviousKept
  BY DEF Init, OneWriter, Writing, PreviousKept, PromotedHasPrevious
<1>2. IInv /\ OneWriter /\ [Next]_vars => OneWriter'
  BY OneWriterStep
<1>3. IInv /\ OneWriter /\ PreviousKept /\ [Next]_vars => PreviousKept'
  BY PreviousKeptStep
<1>4. PreviousKept => PromotedHasPrevious
  BY DEF PreviousKept
<1> QED
  BY <1>1, <1>2, <1>3, <1>4, Invariant, PTL DEF Spec

-----------------------------------------------------------------------------
(* What a store offers when it has started.  A candidate carries the       *)
(* version of the policy it was derived from, and that is all a start can  *)
(* compare.                                                                *)

\* Only the last step of the constructor makes a store ready.
LEMMA ReadyByDiscard ==
  ASSUME [Next]_vars, NEW p \in Procs, IInv, boot[p] # "ready", boot'[p] = "ready"
  PROVE  DiscardStaleShadow(p)
<1>a. boot \in [Procs -> {"down", "previous", "aux", "loaded", "fallback", "ready"}]
  BY DEF IInv, TypeOK
<1>1. boot' # boot
  OBVIOUS
<1>2. ASSUME NEW q \in Procs, Boot(q) PROVE DiscardStaleShadow(p)
  <2>1. CASE DiscardStaleShadow(q)
    <3>1. boot' = [boot EXCEPT ![q] = "ready"]
      BY <2>1 DEF DiscardStaleShadow
    <3>2. q = p
      BY <1>a, <3>1
    <3> QED
      BY <2>1, <3>2
  <2>2. CASE \/ LoadPrevious(q) \/ LoadCandidate(q)
             \/ LoadActive(q) \/ RecoverPrevious(q) \/ FallBackToBaseline(q)
    <3>1. PICK label \in {"previous", "aux", "loaded", "fallback"} :
              boot' = [boot EXCEPT ![q] = label]
      BY <2>2 DEF LoadPrevious, LoadCandidate, LoadActive, RecoverPrevious, FallBackToBaseline
    <3> QED
      BY <1>a, <3>1
  <2> QED
    BY <1>2, <2>1, <2>2 DEF Boot
<1>3. ASSUME NEW q \in Procs, Terminate(q) PROVE FALSE
  BY <1>a, <1>3 DEF Terminate
<1>4. ASSUME NEW t \in Threads, Reload(t) \/ RejectShadow(t) \/ Revert(t) \/ Promote(t)
      PROVE  FALSE
  BY <1>1, <1>4 DEF Reload, ReloadRead, ReloadInstall, RejectShadow, Revert, RevertWriteActive,
     RevertSwap, RevertFails, RevertUnlinkPrevious, RevertUnlinkCandidate, Promote,
     PromoteSavePrevious, PromoteWriteActive, PromoteFails, PromoteSwap, PromoteUnlinkCandidate,
     ctrlVars
<1>5. ASSUME NEW t \in Threads, Cycle(t) PROVE FALSE
  <2>1. CASE SetShadow(t) \/ UpdateShadowMetadata(t) \/ EndCycle(t)
    BY <1>1, <2>1 DEF SetShadow, UpdateShadowMetadata, EndCycle
  <2>2. CASE Exit(t)
    BY <1>3, <2>2, StoreAssumption DEF Exit
  <2> QED
    BY <1>5, <2>1, <2>2 DEF Cycle
<1>6. ASSUME NEW slot \in Slots, Damage(slot) PROVE FALSE
  BY <1>1, <1>6 DEF Damage, ctrlVars
<1>7. CASE UNCHANGED vars
  BY <1>1, <1>7 DEF vars, ctrlVars
<1> QED
  BY <1>2, <1>3, <1>4, <1>5, <1>6, <1>7 DEF Next, Crash

\* A store that starts offers no candidate but one that was derived from a released
\* policy with the version of the one it serves, and has another version itself,
\* wherever a promotion or a rollback was interrupted (policy_store.py,
\* _discard_stale_shadow_after_active_load).
THEOREM StartOffersOwnCandidate == Spec => StartupShadowFits
<1>1. ASSUME IInv, [Next]_vars, NEW p \in Procs,
             boot[p] # "ready", boot'[p] = "ready", shadow'[p] # None
      PROVE  /\ Version[shadow'[p]] # Version[policy'[p]]
             /\ \E q \in released : /\ shadow'[p] \in Children[q]
                                   /\ Version[q] = Version[policy'[p]]
  <2>1. DiscardStaleShadow(p)
    BY <1>1, ReadyByDiscard
  <2>2. /\ shadow \in [Procs -> Slot] /\ policy \in [Procs -> Policies]
        /\ released \subseteq Policies
        /\ shadow[p] # None => Derived(shadow[p])
    BY <1>1 DEF IInv, TypeOK, ShadowsDerived
  <2>3. shadow'[p] = shadow[p] /\ policy'[p] = policy[p] /\ ~Stale(shadow[p], policy[p])
    BY <1>1, <2>1, <2>2 DEF DiscardStaleShadow
  <2>4. PICK q \in released : shadow[p] \in Children[q]
    BY <1>1, <2>2, <2>3 DEF Derived
  <2>5. Parent[shadow[p]] = Version[q] /\ Parent[shadow[p]] # None
    BY <2>2, <2>4, LineageAssumption
  <2> QED
    BY <2>3, <2>4, <2>5 DEF Stale
<1>2. IInv /\ [Next]_vars =>
        [\A p \in Procs :
            boot[p] # "ready" /\ boot'[p] = "ready" /\ shadow'[p] # None =>
                /\ Version[shadow'[p]] # Version[policy'[p]]
                /\ \E q \in released : /\ shadow'[p] \in Children[q]
                                      /\ Version[q] = Version[policy'[p]]]_vars
  BY <1>1
<1> QED
  BY <1>2, Invariant, PTL DEF Spec, StartupShadowFits

-----------------------------------------------------------------------------
(* Rollback, where only the cycle writes and one runner works at a time.   *)
(* Until something fails, the runner's copies are those of the files when  *)
(* it needs them: it was started when the last runner had ended.  A store  *)
(* that starts beside the first promotion may still write active.json, but *)
(* it writes the baseline that was in force anyway.                        *)

\* The endpoints are left alone, and r is the only runner and serves no recalls.
OneRunner(r) == Operators = {} /\ Runners = {r} /\ r \notin Recallers

\* What the process of r has loaded is what the files hold.
CopiesCurrent(r) ==
    LET p == Home[r] IN
    /\ pc[r] # "install"
    /\ boot[p] \in {"previous", "aux"} => policy[p] = Baseline
    /\ boot[p] \in {"previous", "aux", "loaded", "fallback"}
          \/ (boot[p] = "ready" /\ pc[r] \in {"idle", "shadowed", "credited"}) =>
       previous[p] = previousFile
    /\ boot[p] \in {"loaded", "fallback"}
          \/ (boot[p] = "ready" /\ pc[r] \in {"idle", "shadowed", "credited", "promote_active"}) =>
       policy[p] = InForce

\* previous.json is the policy that the last promotion replaced, or that the one
\* under way is about to replace.
PreviousCurrent(r) ==
    /\ activeFile # Corrupt /\ previousFile # Corrupt
    /\ activeFile = None =>
          /\ replaced = None /\ previousFile \in {None, Baseline}
          /\ \A q \in Procs : previous[q] \in {None, Baseline}
    /\ pc[r] = "promote_active" => previousFile = InForce
    /\ pc[r] # "promote_active" /\ replaced # None => previousFile = replaced

Undisturbed(r) == faults = 0 => CopiesCurrent(r) /\ PreviousCurrent(r)

\* The steps of a store that starts.
LEMMA BootUndisturbed ==
  ASSUME NEW r \in Threads, OneRunner(r), IInv, CopiesCurrent(r), PreviousCurrent(r),
         NEW q \in Procs, Boot(q), UNCHANGED faults
  PROVE  CopiesCurrent(r)' /\ PreviousCurrent(r)'
<1> DEFINE P == Home[r]
<1>a. /\ P \in Procs
      /\ boot \in [Procs -> {"down", "previous", "aux", "loaded", "fallback", "ready"}]
      /\ policy \in [Procs -> Policies] /\ previous \in [Procs -> Slot]
      /\ activeFile \in Policies \cup {None, Corrupt}
      /\ previousFile \in Policies \cup {None, Corrupt}
      /\ Baseline \in Policies /\ None \notin Policies /\ Corrupt \notin Policies
      /\ None # Corrupt
  BY StoreAssumption DEF IInv, TypeOK, File, Slot
<1>b. UNCHANGED <<pc, previousFile>>
  BY DEF Boot, LoadPrevious, LoadCandidate, LoadActive, RecoverPrevious,
     FallBackToBaseline, DiscardStaleShadow, fileVars
<1> HIDE DEF P
<1>0. CASE LoadCandidate(q)
  <2>1. /\ boot' = [boot EXCEPT ![q] = "aux"] /\ boot[q] = "previous"
        /\ UNCHANGED <<activeFile, replaced, policy, previous>>
    BY <1>0 DEF LoadCandidate, histVars
  <2>2. PreviousCurrent(r)'
    BY <1>b, <2>1 DEF PreviousCurrent, InForce
  <2>3. CASE q = P
    <3>1. boot'[P] = "aux" /\ policy[P] = Baseline /\ previous[P] = previousFile
      BY <1>a, <2>1, <2>3 DEF CopiesCurrent, P
    <3> QED
      BY <1>b, <2>1, <2>2, <3>1 DEF CopiesCurrent, InForce, P
  <2>4. CASE q # P
    <3>1. boot'[P] = boot[P]
      BY <1>a, <2>1, <2>4
    <3> QED
      BY <1>b, <2>1, <2>2, <3>1 DEF CopiesCurrent, InForce, P
  <2> QED
    BY <2>3, <2>4
<1>1. CASE LoadPrevious(q)
  <2>1. /\ boot' = [boot EXCEPT ![q] = "previous"] /\ policy' = [policy EXCEPT ![q] = Baseline]
        /\ previous' = [previous EXCEPT ![q] = ReadSlot(previousFile)]
        /\ UNCHANGED <<activeFile, replaced>>
    BY <1>1 DEF LoadPrevious, histVars, fileVars
  <2>2. ReadSlot(previousFile) = previousFile
    BY <1>a DEF ReadSlot, PreviousCurrent
  <2>3. PreviousCurrent(r)'
    BY <1>a, <1>b, <2>1, <2>2 DEF PreviousCurrent, InForce
  <2>4. CASE q = P
    BY <1>a, <1>b, <2>1, <2>2, <2>3, <2>4 DEF CopiesCurrent, P
  <2>5. CASE q # P
    <3>1. boot'[P] = boot[P] /\ policy'[P] = policy[P] /\ previous'[P] = previous[P]
      BY <1>a, <2>1, <2>5
    <3> QED
      BY <1>b, <2>1, <2>3, <3>1 DEF CopiesCurrent, InForce, P
  <2> QED
    BY <2>4, <2>5
<1>2. CASE LoadActive(q)
  <2>1. /\ boot' = [boot EXCEPT ![q] = "loaded"] /\ policy' = [policy EXCEPT ![q] = activeFile]
        /\ boot[q] = "aux" /\ activeFile \in Policies
        /\ UNCHANGED <<activeFile, replaced, previous>>
    BY <1>2 DEF LoadActive, histVars, fileVars
  <2>2. PreviousCurrent(r)'
    BY <1>b, <2>1 DEF PreviousCurrent, InForce
  <2>3. CASE q = P
    <3>1. boot'[P] = "loaded" /\ policy'[P] = activeFile /\ previous[P] = previousFile
      BY <1>a, <2>1, <2>3 DEF CopiesCurrent, P
    <3> QED
      BY <1>b, <2>1, <2>2, <3>1 DEF CopiesCurrent, InForce, P
  <2>4. CASE q # P
    <3>1. boot'[P] = boot[P] /\ policy'[P] = policy[P]
      BY <1>a, <2>1, <2>4
    <3> QED
      BY <1>b, <2>1, <2>2, <3>1 DEF CopiesCurrent, InForce, P
  <2> QED
    BY <2>3, <2>4
<1>3. CASE RecoverPrevious(q)
  <2>1. /\ boot' = [boot EXCEPT ![q] = "loaded"] /\ policy' = [policy EXCEPT ![q] = previous[q]]
        /\ boot[q] = "aux" /\ activeFile \notin Policies /\ previous[q] # None
        /\ activeFile' = previous[q] /\ replaced' = None /\ UNCHANGED previous
    BY <1>3 DEF RecoverPrevious, WriteActive
  <2>2. activeFile = None /\ previous[q] = Baseline /\ InForce = Baseline /\ InForce' = Baseline
    BY <1>a, <2>1 DEF PreviousCurrent, InForce
  <2>3. PreviousCurrent(r)'
    BY <1>a, <1>b, <2>1, <2>2 DEF PreviousCurrent
  <2>4. CASE q = P
    <3>1. boot'[P] = "loaded" /\ policy'[P] = InForce' /\ previous[P] = previousFile
      BY <1>a, <2>1, <2>2, <2>4 DEF CopiesCurrent, P
    <3> QED
      BY <1>b, <2>1, <2>3, <3>1 DEF CopiesCurrent, P
  <2>5. CASE q # P
    <3>1. boot'[P] = boot[P] /\ policy'[P] = policy[P]
      BY <1>a, <2>1, <2>5
    <3> QED
      BY <1>b, <2>1, <2>2, <2>3, <3>1 DEF CopiesCurrent, P
  <2> QED
    BY <2>4, <2>5
<1>4. CASE FallBackToBaseline(q)
  <2>1. /\ boot' = [boot EXCEPT ![q] = "fallback"] /\ boot[q] = "aux"
        /\ activeFile \notin Policies /\ UNCHANGED <<activeFile, replaced, previous, policy>>
    BY <1>4 DEF FallBackToBaseline, fileVars, memVars, histVars
  <2>2. PreviousCurrent(r)'
    BY <1>b, <2>1 DEF PreviousCurrent, InForce
  <2>3. CASE q = P
    <3>1. boot'[P] = "fallback" /\ policy[P] = Baseline /\ previous[P] = previousFile
      BY <1>a, <2>1, <2>3 DEF CopiesCurrent, P
    <3> QED
      BY <1>b, <2>1, <2>2, <3>1 DEF CopiesCurrent, InForce, P
  <2>4. CASE q # P
    <3>1. boot'[P] = boot[P]
      BY <1>a, <2>1, <2>4
    <3> QED
      BY <1>b, <2>1, <2>2, <3>1 DEF CopiesCurrent, InForce, P
  <2> QED
    BY <2>3, <2>4
<1>5. CASE DiscardStaleShadow(q)
  <2>1. /\ boot' = [boot EXCEPT ![q] = "ready"] /\ boot[q] \in {"loaded", "fallback"}
        /\ UNCHANGED <<activeFile, replaced, previous, policy>>
    BY <1>5 DEF DiscardStaleShadow, histVars
  <2>2. PreviousCurrent(r)'
    BY <1>b, <2>1 DEF PreviousCurrent, InForce
  <2>3. CASE q = P
    <3>1. boot'[P] = "ready" /\ policy[P] = InForce /\ previous[P] = previousFile
      BY <1>a, <2>1, <2>3 DEF CopiesCurrent, P
    <3> QED
      BY <1>b, <2>1, <2>2, <3>1 DEF CopiesCurrent, InForce, P
  <2>4. CASE q # P
    <3>1. boot'[P] = boot[P]
      BY <1>a, <2>1, <2>4
    <3> QED
      BY <1>b, <2>1, <2>2, <3>1 DEF CopiesCurrent, InForce, P
  <2> QED
    BY <2>3, <2>4
<1> QED
  BY <1>0, <1>1, <1>2, <1>3, <1>4, <1>5 DEF Boot

\* The steps of the runner and of the recalls.
LEMMA CycleUndisturbed ==
  ASSUME NEW r \in Threads, OneRunner(r), IInv, OneWriter, PreviousKept,
         CopiesCurrent(r), PreviousCurrent(r), UNCHANGED faults,
         NEW t \in Threads,
         Reload(t) \/ RejectShadow(t) \/ Revert(t) \/ Promote(t) \/ Cycle(t)
  PROVE  CopiesCurrent(r)' /\ PreviousCurrent(r)'
<1> DEFINE P == Home[r]
<1>a. /\ P \in Procs /\ policy \in [Procs -> Policies] /\ previous \in [Procs -> Slot]
      /\ pc \in [Threads -> Locked \cup {"idle", "install", "shadowed", "credited", "exit"}]
      /\ activeFile \in Policies \cup {None, Corrupt}
      /\ previousFile \in Policies \cup {None, Corrupt}
      /\ Baseline \in Policies /\ None \notin Policies /\ Corrupt \notin Policies
      /\ None # Corrupt
  BY StoreAssumption DEF IInv, TypeOK, File, Slot
<1>b. ~Fault
  BY DEF Fault, IInv, TypeOK
<1>c. Runners = {r} /\ Operators = {} /\ \A u \in Threads : Writing(u) => u = r
  BY DEF OneRunner, OneWriter
<1>d. t # r => Home[t] # P
  BY StoreAssumption, <1>c
<1> HIDE DEF P
\* A step of r that changes none of what the two say, to a place of which they ask less.
<1>e. ASSUME NEW label, Goto(r, label), label \notin {"install", "promote_active"},
             UNCHANGED <<activeFile, previousFile, replaced, policy, previous, boot>>,
             label \in {"idle", "shadowed", "credited"} =>
                pc[r] \in {"idle", "shadowed", "credited"},
             pc[r] # "promote_active"
      PROVE  CopiesCurrent(r)' /\ PreviousCurrent(r)'
  <2>1. pc'[r] = label
    BY <1>a, <1>e DEF Goto
  <2>2. InForce' = InForce
    BY <1>e DEF InForce
  <2>3. PreviousCurrent(r)'
    BY <1>e, <2>1, <2>2 DEF PreviousCurrent
  <2>4. CopiesCurrent(r)'
    BY <1>e, <2>1, <2>2 DEF CopiesCurrent
  <2> QED
    BY <2>3, <2>4
\* At points where the runner no longer asks what its copies are.
<1>f. ASSUME boot'[P] = "ready",
             pc'[r] \notin {"install", "idle", "shadowed", "credited", "promote_active"}
      PROVE  CopiesCurrent(r)'
  BY <1>f DEF CopiesCurrent, P
<1>1. CASE Reload(t)
  <2>1. t # r
    BY <1>1 DEF Reload, ReloadRead, ReloadInstall, At, OneRunner, CopiesCurrent
  <2>2. UNCHANGED <<fileVars, previous, boot, replaced>>
    BY <1>1 DEF Reload, ReloadRead, ReloadInstall, memVars, histVars
  <2>3. policy'[P] = policy[P]
    BY <1>1, <1>a, <1>d, <2>1 DEF Reload, ReloadRead, ReloadInstall, memVars
  <2>4. pc'[r] = pc[r]
    BY <1>1, <1>a, <2>1 DEF Reload, ReloadRead, ReloadInstall, Goto
  <2>5. InForce' = InForce
    BY <2>2 DEF fileVars, InForce
  <2>6. PreviousCurrent(r)'
    BY <2>2, <2>4, <2>5 DEF PreviousCurrent, fileVars
  <2> QED
    BY <2>2, <2>3, <2>4, <2>5, <2>6 DEF CopiesCurrent, fileVars, P
<1>2. CASE RejectShadow(t)
  BY <1>2, <1>c DEF RejectShadow
<1>3. CASE RevertWriteActive(t)
  <2>1. t = r /\ boot[P] = "ready" /\ pc[r] = "idle"
    BY <1>3, <1>c DEF RevertWriteActive, At, P
  <2>2. /\ activeFile' = RevertTarget(P) /\ replaced' = None /\ UNCHANGED <<previousFile, boot>>
        /\ UNCHANGED previous /\ pc' = [pc EXCEPT ![r] = "revert_stat"]
    BY <1>3, <2>1 DEF RevertWriteActive, WriteActive, Goto, P, memVars
  <2>3. pc'[r] = "revert_stat"
    BY <1>a, <2>2
  <2>4. RevertTarget(P) \in Policies
    BY <1>a DEF RevertTarget, Slot
  <2>5. PreviousCurrent(r)'
    BY <1>a, <2>2, <2>3, <2>4 DEF PreviousCurrent
  <2> QED
    BY <1>f, <2>1, <2>2, <2>3, <2>5
<1>4. CASE RevertSwap(t)
  <2>1. t = r /\ boot[P] = "ready" /\ pc[r] = "revert_stat"
    BY <1>4, <1>c DEF RevertSwap, At, Writing, P
  <2>2. /\ UNCHANGED <<activeFile, previousFile, replaced, boot>>
        /\ previous' = [previous EXCEPT ![P] = None] /\ pc' = [pc EXCEPT ![r] = "revert_previous"]
    BY <1>4, <2>1 DEF RevertSwap, Goto, P, fileVars, histVars
  <2>3. pc'[r] = "revert_previous" /\ \A q \in Procs : previous'[q] \in {None, previous[q]}
    BY <1>a, <2>2
  <2>4. PreviousCurrent(r)'
    BY <2>1, <2>2, <2>3 DEF PreviousCurrent
  <2> QED
    BY <1>f, <2>1, <2>2, <2>3, <2>4
<1>5. CASE RevertUnlinkPrevious(t)
  <2>1. t = r /\ boot[P] = "ready" /\ pc[r] = "revert_previous"
    BY <1>5, <1>c DEF RevertUnlinkPrevious, At, Writing, P
  <2>2. /\ UNCHANGED <<activeFile, replaced, boot, previous>> /\ previousFile' = None
        /\ pc' = [pc EXCEPT ![r] = "revert_candidate"]
    BY <1>5, <1>b, <2>1 DEF RevertUnlinkPrevious, Goto, memVars, histVars
  <2>3. pc'[r] = "revert_candidate" /\ replaced = None
    BY <1>a, <2>1, <2>2 DEF PreviousKept
  <2>4. PreviousCurrent(r)'
    BY <1>a, <2>2, <2>3 DEF PreviousCurrent
  <2> QED
    BY <1>f, <2>1, <2>2, <2>3, <2>4
<1>6. CASE RevertFails(t) \/ PromoteFails(t)
  BY <1>6, <1>b DEF RevertFails, PromoteFails
<1>7. CASE RevertUnlinkCandidate(t) \/ PromoteUnlinkCandidate(t)
  <2>1. t = r /\ pc[r] \in {"revert_candidate", "promote_candidate"}
    BY <1>7, <1>c DEF RevertUnlinkCandidate, PromoteUnlinkCandidate, At, Writing
  <2>2. /\ UNCHANGED <<activeFile, previousFile, replaced, policy, previous, boot>>
        /\ Goto(r, "exit")
    BY <1>7, <1>c, <2>1 DEF RevertUnlinkCandidate, PromoteUnlinkCandidate, Done, memVars, histVars
  <2> QED
    BY <1>e, <2>1, <2>2
<1>8. CASE PromoteSavePrevious(t)
  <2>1. t = r /\ boot[P] = "ready" /\ pc[r] = "credited"
    BY <1>8, <1>c DEF PromoteSavePrevious, At, Writing, P
  <2>2. /\ UNCHANGED <<activeFile, replaced, boot, policy>> /\ previousFile' = policy[P]
        /\ previous' = [previous EXCEPT ![P] = policy[P]]
        /\ pc' = [pc EXCEPT ![r] = "promote_active"]
    BY <1>8, <2>1 DEF PromoteSavePrevious, Goto, P, histVars
  <2>3. policy[P] = InForce /\ policy[P] \in Policies /\ InForce' = InForce
    BY <1>a, <2>1, <2>2 DEF CopiesCurrent, InForce, P
  <2>4. pc'[r] = "promote_active" /\ \A q \in Procs : previous'[q] \in {policy[P], previous[q]}
    BY <1>a, <2>2
  <2>5. activeFile = None => policy[P] = Baseline
    BY <1>a, <2>3 DEF InForce
  <2>6. PreviousCurrent(r)'
    BY <1>a, <2>2, <2>3, <2>4, <2>5 DEF PreviousCurrent
  <2>7. CopiesCurrent(r)'
    BY <2>1, <2>2, <2>3, <2>4 DEF CopiesCurrent, P
  <2> QED
    BY <2>6, <2>7
<1>9. CASE PromoteWriteActive(t)
  <2>1. t = r /\ boot[P] = "ready" /\ pc[r] = "promote_active"
    BY <1>9, <1>c DEF PromoteWriteActive, At, Writing, P
  <2>2. /\ UNCHANGED <<previousFile, boot, previous>> /\ activeFile' = shadow[P]
        /\ replaced' = InForce /\ pc' = [pc EXCEPT ![r] = "promote_stat"]
    BY <1>9, <2>1 DEF PromoteWriteActive, WriteActive, Goto, P, memVars
  <2>3. shadow[P] \in Policies
    BY <1>a, <2>1 DEF IInv, TypeOK, ThreadsInPlace, InShadowPhase, Slot, P
  <2>4. pc'[r] = "promote_stat"
    BY <1>a, <2>2
  <2>5. PreviousCurrent(r)'
    BY <1>a, <2>1, <2>2, <2>3, <2>4 DEF PreviousCurrent
  <2> QED
    BY <1>f, <2>1, <2>2, <2>4, <2>5
<1>10. CASE PromoteSwap(t)
  <2>1. t = r /\ boot[P] = "ready" /\ pc[r] = "promote_stat"
    BY <1>10, <1>c DEF PromoteSwap, At, Writing, P
  <2>2. /\ UNCHANGED <<activeFile, previousFile, replaced, boot, previous>>
        /\ pc' = [pc EXCEPT ![r] = "promote_candidate"]
    BY <1>10, <2>1 DEF PromoteSwap, Goto, fileVars, histVars
  <2>3. pc'[r] = "promote_candidate"
    BY <1>a, <2>2
  <2>4. PreviousCurrent(r)'
    BY <2>1, <2>2, <2>3 DEF PreviousCurrent
  <2> QED
    BY <1>f, <2>1, <2>2, <2>3, <2>4
<1>11. CASE SetShadow(t) \/ UpdateShadowMetadata(t) \/ EndCycle(t)
  <2>1. t = r /\ pc[r] \in {"idle", "shadowed", "credited"}
    BY <1>11, <1>c DEF SetShadow, UpdateShadowMetadata, EndCycle, At, Writing
  <2>2. UNCHANGED <<activeFile, previousFile, replaced, policy, previous, boot>>
    BY <1>11 DEF SetShadow, UpdateShadowMetadata, EndCycle, fileVars, memVars, histVars
  <2>3. \E label \in {"shadowed", "credited", "exit"} : Goto(r, label)
    BY <1>11, <2>1 DEF SetShadow, UpdateShadowMetadata, EndCycle
  <2> QED
    BY <1>e, <2>1, <2>2, <2>3
<1>12. CASE Exit(t)
  <2>1. t = r /\ pc[r] = "exit"
    BY <1>12, <1>c DEF Exit, At
  <2>2. /\ UNCHANGED <<activeFile, previousFile, replaced>>
        /\ boot' = [boot EXCEPT ![P] = "down"] /\ previous' = [previous EXCEPT ![P] = None]
        /\ pc' = [u \in Threads |-> IF Home[u] = P THEN "idle" ELSE pc[u]]
    BY <1>12, <2>1 DEF Exit, Terminate, fileVars, histVars, P
  <2>3. /\ boot'[P] = "down" /\ pc'[r] = "idle"
        /\ \A q \in Procs : previous'[q] \in {None, previous[q]}
    BY <1>a, <2>2 DEF P, IInv, TypeOK
  <2>4. PreviousCurrent(r)'
    BY <2>1, <2>2, <2>3 DEF PreviousCurrent
  <2>5. CopiesCurrent(r)'
    BY <2>3 DEF CopiesCurrent, P
  <2> QED
    BY <2>4, <2>5
<1> QED
  BY <1>1, <1>2, <1>3, <1>4, <1>5, <1>6, <1>7, <1>8, <1>9, <1>10, <1>11, <1>12
     DEF Revert, Promote, Cycle

\* Faults are never taken back.
LEMMA FaultsStay == IInv /\ [Next]_vars /\ faults' = 0 => faults = 0
<1> SUFFICES ASSUME IInv, [Next]_vars, faults' = 0 PROVE faults = 0
  OBVIOUS
<1>1. faults \in Nat
  BY StoreAssumption DEF IInv, TypeOK
<1>2. UNCHANGED faults \/ Fault
  BY DEF Next, Boot, LoadPrevious, LoadCandidate, LoadActive, RecoverPrevious, FallBackToBaseline,
     DiscardStaleShadow, Crash, Reload, ReloadRead, ReloadInstall, RejectShadow, Revert,
     RevertWriteActive, RevertSwap, RevertFails, RevertUnlinkPrevious, RevertUnlinkCandidate,
     Promote, PromoteSavePrevious, PromoteWriteActive, PromoteFails, PromoteSwap,
     PromoteUnlinkCandidate, Cycle, SetShadow, UpdateShadowMetadata, EndCycle, Exit, Damage, vars
<1> QED
  BY <1>1, <1>2 DEF Fault

\* Every step keeps the copies and previous.json current, until something fails.
LEMMA UndisturbedStep ==
  ASSUME NEW r \in Threads, OneRunner(r), IInv, OneWriter, PreviousKept, Undisturbed(r),
         [Next]_vars
  PROVE  Undisturbed(r)'
<1> SUFFICES ASSUME faults' = 0 PROVE CopiesCurrent(r)' /\ PreviousCurrent(r)'
  BY DEF Undisturbed
<1>1. faults = 0 /\ UNCHANGED faults /\ ~Fault
  BY FaultsStay DEF Fault
<1>2. CopiesCurrent(r) /\ PreviousCurrent(r)
  BY <1>1 DEF Undisturbed
<1>3. CASE \E p \in Procs : Boot(p)
  BY <1>1, <1>2, <1>3, BootUndisturbed
<1>4. CASE \E t \in Threads :
             Reload(t) \/ RejectShadow(t) \/ Revert(t) \/ Promote(t) \/ Cycle(t)
  BY <1>1, <1>2, <1>4, CycleUndisturbed
<1>5. CASE (\E p \in Procs : Crash(p)) \/ (\E slot \in Slots : Damage(slot))
  BY <1>1, <1>5 DEF Crash, Damage
<1>6. CASE UNCHANGED vars
  BY <1>2, <1>6 DEF vars, fileVars, memVars, ctrlVars, histVars, CopiesCurrent, PreviousCurrent,
     InForce
<1> QED
  BY <1>3, <1>4, <1>5, <1>6 DEF Next

\* With one runner, and until something fails, a rollback puts back the policy that
\* the promotion replaced (policy_store.py, promote and revert).
THEOREM RollbackRestores ==
  ASSUME NEW r \in Threads, OneRunner(r)
  PROVE  Spec => RollbackRestoresReplaced
<1>1. Init => OneWriter /\ PreviousKept /\ Undisturbed(r)
  <2> SUFFICES ASSUME Init PROVE OneWriter /\ PreviousKept /\ Undisturbed(r)
    OBVIOUS
  <2>1. /\ pc[r] = "idle" /\ boot[Home[r]] = "down" /\ replaced = None
        /\ previousFile = None /\ activeFile = None /\ \A q \in Procs : previous[q] = None
    BY StoreAssumption DEF Init
  <2>2. CopiesCurrent(r) /\ PreviousCurrent(r)
    BY <2>1, StoreAssumption DEF CopiesCurrent, PreviousCurrent
  <2> QED
    BY <2>2 DEF Init, OneWriter, Writing, PreviousKept, PromotedHasPrevious, Undisturbed
<1>2. IInv /\ OneWriter /\ PreviousKept /\ Undisturbed(r) /\ [Next]_vars =>
        OneWriter' /\ PreviousKept' /\ Undisturbed(r)'
  BY OneWriterStep, PreviousKeptStep, UndisturbedStep DEF OneRunner
<1>3. ASSUME Undisturbed(r), IInv, NEW t \in Threads, faults = 0, replaced # None,
             RevertWriteActive(t)
      PROVE  activeFile' = replaced
  <2>1. t = r /\ boot[Home[r]] = "ready" /\ pc[r] = "idle"
    BY <1>3 DEF RevertWriteActive, At, OneRunner
  <2>2. previous[Home[r]] = previousFile /\ previousFile = replaced
    BY <1>3, <2>1 DEF Undisturbed, CopiesCurrent, PreviousCurrent
  <2>3. activeFile' = RevertTarget(Home[r])
    BY <1>3, <2>1 DEF RevertWriteActive, WriteActive
  <2> QED
    BY <1>3, <2>2, <2>3 DEF RevertTarget
<1>4. Undisturbed(r) /\ IInv =>
        [\A t \in Threads :
            faults = 0 /\ replaced # None /\ RevertWriteActive(t) => activeFile' = replaced]_vars
  BY <1>3
<1> QED
  BY <1>1, <1>2, <1>4, Invariant, PTL DEF Spec, RollbackRestoresReplaced
=============================================================================
