-------------------------- MODULE GovernanceProofs --------------------------
(***************************************************************************)
(* Proofs about Governance, for any number of shells, collections, runs    *)
(* and faults; about MemoryBrain, the first program of a maintenance pass, *)
(* for any files and collections; and about MemoryJobs, the programs after *)
(* it, for any memories and texts.                                         *)
(*                                                                         *)
(* The inductive invariant of the locks says that at most one launcher     *)
(* holds each, of a waiting governor that its own pass is running, of a    *)
(* governor with a good audit that its own pass ended whole, and of the    *)
(* runs that the one in progress is younger than everything on disk.       *)
(***************************************************************************)
EXTENDS Governance, MemoryBrain, MemoryJobs, FiniteSetTheorems, WellFoundedInduction,
        TLAPS

GovPcs == {"idle", "replay", "maintain", "waiting", "audited", "evolving", "report", "orphan"}

Passes == [pc : {"idle", "running", "orphan"}, pos : 0..LastStep,
           failed : SUBSET (1..LastStep), last : Codes]

Scripts == [pc : GovPcs, run : Nat, feedback : Codes, audit : {0, 1, 75, 137},
            evolution : Codes]

GovTypes ==
    /\ gov \in [Governors -> Scripts]
    /\ maint \in [Launchers -> Passes]
    /\ statusFile \in [result : {"none", "ok", "skipped", "failed", "degraded"}, run : Nat]
    /\ summaryFile \in {"none", "success", "failed"}
    /\ lastExit \in [run : Nat, code : Nat, skipped : BOOLEAN]
    /\ govRuns \in Nat

\* Two shells hold neither lock at once.
OneGovernor ==
    \A g, h \in Governors : gov[g].pc # "idle" /\ gov[h].pc # "idle" => g = h

Waiting == \A g \in Governors : gov[g].pc = "waiting" => maint[g].pc = "running"

WholePass(pass) == pass.pc = "idle" /\ pass.pos = LastStep /\ pass.failed = {}

GoodAudit ==
    \A g \in Governors :
        /\ gov[g].pc = "evolving" => gov[g].audit = 0
        /\ gov[g].pc \in {"audited", "evolving"} /\ gov[g].audit = 0 => WholePass(maint[g])

Younger ==
    /\ statusFile.run =< govRuns /\ lastExit.run =< govRuns
    /\ lastExit.skipped => statusFile.run < lastExit.run
    /\ \A g \in Governors : gov[g].pc \notin {"idle", "orphan"} =>
            /\ statusFile.run < gov[g].run /\ (lastExit.run < gov[g].run \/ lastExit.skipped)
            /\ gov[g].run =< govRuns

GovIInv ==
    /\ GovTypes
    /\ OnePass
    /\ OneGovernor
    /\ Waiting
    /\ GoodAudit
    /\ Younger
    /\ StatusTruthful

-----------------------------------------------------------------------------
\* The codes of a verdict and the results that go with them.
LEMMA VerdictTruthful ==
    ASSUME GovTypes, NEW g \in Governors
    PROVE  /\ Verdict(g).result \in {"ok", "skipped", "failed", "degraded"}
           /\ Verdict(g).code \in Nat
           /\ (Verdict(g).result = "ok") = (Verdict(g).code = 0)
<1>1. gov[g].audit \in {0, 1, 75, 137} /\ gov[g].evolution \in {0, 1}
                                        /\ gov[g].feedback \in {0, 1}
  BY DEF GovTypes, Codes, Scripts
<1>2. CASE gov[g].audit = 75
  BY <1>2 DEF Verdict
<1>3. CASE gov[g].audit \in {1, 137}
  BY <1>3 DEF Verdict
<1>4. CASE gov[g].audit = 0 /\ gov[g].evolution # 0
  BY <1>1, <1>4 DEF Verdict
<1>5. CASE gov[g].audit = 0 /\ gov[g].evolution = 0 /\ gov[g].feedback # 0
  BY <1>1, <1>5 DEF Verdict
<1>6. CASE gov[g].audit = 0 /\ gov[g].evolution = 0 /\ gov[g].feedback = 0
  BY <1>6 DEF Verdict
<1> QED
  BY <1>1, <1>2, <1>3, <1>4, <1>5, <1>6

\* A pass has at least one step.
LEMMA LastStepPositive == LastStep \in Nat /\ LastStep > 0
  BY GovernanceAssumption DEF LastStep

\* At first no shell runs, and there is no status file to lie.
LEMMA GovInitIInv == GovInit => GovIInv
<1> SUFFICES ASSUME GovInit PROVE GovIInv
  OBVIOUS
<1> USE LastStepPositive
<1>1. GovTypes
  BY DEF GovInit, GovTypes, IdleGov, GovAt, PassAt, GovPcs, Codes, Passes, Scripts
<1>2. OnePass /\ OneGovernor /\ Waiting /\ GoodAudit
  BY DEF GovInit, OnePass, OneGovernor, Waiting, GoodAudit, IdleGov, GovAt, PassAt, Launchers
<1>3. Younger /\ StatusTruthful
  BY DEF GovInit, Younger, StatusTruthful, IdleGov, GovAt
<1> QED
  BY <1>1, <1>2, <1>3 DEF GovIInv

-----------------------------------------------------------------------------
(* Steps of a maintenance pass.                                            *)

\* A pass starts under the free lock: nobody else has one running.
LEMMA StartPassSound ==
    ASSUME GovTypes, NEW l \in Launchers, MaintenanceLockFree, StartPass(l)
    PROVE  /\ maint' \in [Launchers -> Passes]
           /\ OnePass'
           /\ maint'[l].pc = "running"
           /\ \A m \in Launchers : m # l => maint'[m] = maint[m]
<1> USE LastStepPositive DEF GovTypes
<1> DEFINE fresh == [pc |-> "running", pos |-> 0, failed |-> {}, last |-> 0]
<1>0. fresh \in Passes /\ fresh.pc = "running"
  BY DEF Passes, Codes
<1>1. maint' = [maint EXCEPT ![l] = fresh]
  BY DEF StartPass, PassAt
<1> HIDE DEF fresh
<1>2. maint' \in [Launchers -> Passes]
  BY <1>0, <1>1
<1>3. maint'[l].pc = "running" /\ \A m \in Launchers : m # l => maint'[m] = maint[m]
  BY <1>0, <1>1
<1>4. OnePass'
  BY <1>3 DEF OnePass, MaintenanceLockFree
<1> QED
  BY <1>2, <1>3, <1>4

\* The daily pass starts only under a lock that nobody holds.
LEMMA StartDailyIInv ==
    ASSUME GovIInv, NEW d \in Dailies, StartDaily(d)
    PROVE  GovIInv'
<1>1. d \in Launchers /\ d \notin Governors
  BY GovernanceAssumption DEF Launchers
<1>2. /\ maint' \in [Launchers -> Passes]
      /\ OnePass'
      /\ \A m \in Launchers : m # d => maint'[m] = maint[m]
  BY <1>1, StartPassSound DEF GovIInv, StartDaily
<1>3. \A g \in Governors : maint'[g] = maint[g]
  BY <1>1, <1>2 DEF Launchers
<1>4. GovTypes'
  BY <1>2 DEF GovIInv, GovTypes, StartDaily
<1>5. OneGovernor' /\ Waiting' /\ GoodAudit'
  BY <1>3 DEF GovIInv, OneGovernor, Waiting, GoodAudit, WholePass, StartDaily
<1>6. govRuns \in Nat /\ govRuns' = govRuns + 1 /\ UNCHANGED <<gov, statusFile, lastExit>>
  BY DEF GovIInv, GovTypes, StartDaily
<1>7. statusFile.run \in Nat /\ lastExit.run \in Nat /\ \A g \in Governors : gov[g].run \in Nat
  BY DEF GovIInv, GovTypes, Scripts
<1>8. Younger'
  BY <1>6, <1>7 DEF GovIInv, Younger
<1>9. StatusTruthful'
  BY <1>6 DEF GovIInv, StatusTruthful
<1> QED
  BY <1>2, <1>4, <1>5, <1>8, <1>9 DEF GovIInv

\* A step ends and its exit code is noted.
LEMMA PassStepIInv ==
    ASSUME GovIInv, NEW l \in Launchers, NEW rc \in Codes, PassStep(l, rc)
    PROVE  GovIInv'
<1> USE LastStepPositive
<1> DEFINE fails == IF rc = 0 THEN maint[l].failed ELSE maint[l].failed \cup {maint[l].pos + 1}
<1>a. maint' = [maint EXCEPT ![l] = [maint[l] EXCEPT !.pos = maint[l].pos + 1, !.last = rc,
                                                     !.failed = fails]]
  BY DEF PassStep, GovIInv, GovTypes
<1>b. maint[l] \in Passes /\ maint[l].pc = "running" /\ maint[l].pos \in 0..LastStep
      /\ maint[l].pos < LastStep /\ maint[l].failed \subseteq 1..LastStep
  BY DEF PassStep, GovIInv, GovTypes, Passes
<1>c. fails \subseteq 1..LastStep
  BY <1>b
<1> HIDE DEF fails
<1> DEFINE next == [maint[l] EXCEPT !.pos = maint[l].pos + 1, !.last = rc, !.failed = fails]
<1>d. next \in Passes /\ next.pc = "running"
  <2>1. maint[l].pos + 1 \in 0..LastStep
    BY <1>b
  <2> QED
    BY <1>b, <1>c, <2>1 DEF Passes
<1>e. maint' = [maint EXCEPT ![l] = next]
  BY <1>a
<1> HIDE DEF next
<1>f. UNCHANGED <<gov, statusFile, summaryFile, lastExit, govRuns>>
  BY DEF PassStep
<1>1. GovTypes'
  <2>1. maint' \in [Launchers -> Passes]
    BY <1>d, <1>e DEF GovIInv, GovTypes
  <2> QED
    BY <1>f, <2>1 DEF GovIInv, GovTypes
<1>2. \A m \in Launchers : maint'[m].pc = maint[m].pc
  BY <1>b, <1>d, <1>e DEF GovIInv, GovTypes
<1>3. \A m \in Launchers : WholePass(maint[m]) => maint'[m] = maint[m]
  BY <1>b, <1>e DEF GovIInv, GovTypes, WholePass
<1>4. OnePass' /\ OneGovernor' /\ Waiting'
  BY <1>2 DEF GovIInv, OnePass, OneGovernor, Waiting, PassStep, Launchers
<1>5. GoodAudit'
  BY <1>3 DEF GovIInv, GoodAudit, PassStep, Launchers, WholePass
<1>6. Younger' /\ StatusTruthful'
  BY DEF GovIInv, Younger, StatusTruthful, PassStep
<1> QED
  BY <1>1, <1>4, <1>5, <1>6 DEF GovIInv

\* However a pass ends, a code of 0 is delivered only for a whole one.
LEMMA DeliverIInv ==
    ASSUME GovIInv, NEW l \in Launchers, NEW p \in {"idle", "orphan"},
           NEW code \in {0, 1, 137},
           maint[l].pc = "running",
           maint' = [maint EXCEPT ![l].pc = p],
           code = 0 => p = "idle" /\ maint[l].pos = LastStep /\ maint[l].failed = {},
           IF l \in Governors /\ gov[l].pc = "waiting"
           THEN gov' = [gov EXCEPT ![l].pc = "audited", ![l].audit = code]
           ELSE gov' = gov,
           summaryFile' \in {"none", "success", "failed"},
           UNCHANGED <<statusFile, lastExit, govRuns>>
    PROVE  GovIInv'
<1>0. maint \in [Launchers -> Passes] /\ maint[l] \in Passes
  BY DEF GovIInv, GovTypes
<1> DEFINE ended == [maint[l] EXCEPT !.pc = p]
<1>a. /\ ended \in Passes
      /\ ended.pc = p /\ ended.pos = maint[l].pos /\ ended.failed = maint[l].failed
  BY <1>0 DEF Passes
<1>b. maint' = [maint EXCEPT ![l] = ended]
  OBVIOUS
<1> HIDE DEF ended
<1>1. /\ maint' \in [Launchers -> Passes]
      /\ \A m \in Launchers : m # l => maint'[m] = maint[m]
      /\ maint'[l].pc = p /\ maint'[l].pos = maint[l].pos /\ maint'[l].failed = maint[l].failed
  BY <1>0, <1>a, <1>b
<1>2. OnePass'
  BY <1>1 DEF GovIInv, OnePass
<1>3. CASE l \in Governors /\ gov[l].pc = "waiting"
  <2>a. gov[l] \in Scripts /\ "audited" \in GovPcs /\ code \in {0, 1, 75, 137}
    BY <1>3 DEF GovIInv, GovTypes, GovPcs
  <2> DEFINE audited == [gov[l] EXCEPT !.pc = "audited", !.audit = code]
  <2>b. /\ audited \in Scripts
        /\ audited.pc = "audited" /\ audited.run = gov[l].run /\ audited.audit = code
    BY ONLY <2>a DEF Scripts
  <2>d. gov' = [gov EXCEPT ![l] = audited]
    BY <1>3
  <2> HIDE DEF audited
  <2>c. /\ gov' \in [Governors -> Scripts] /\ gov'[l] = audited
        /\ \A g \in Governors : g # l => gov'[g] = gov[g]
    BY <1>3, <2>b, <2>d DEF GovIInv, GovTypes
  <2>2. GovTypes'
    BY <1>1, <2>c DEF GovIInv, GovTypes
  <2>3. /\ gov'[l].pc = "audited" /\ gov'[l].audit = code /\ gov'[l].run = gov[l].run
        /\ \A g \in Governors : g # l => gov'[g] = gov[g]
    BY <2>b, <2>c
  <2>4. OneGovernor' /\ Waiting'
    BY <1>1, <1>3, <2>3 DEF GovIInv, OneGovernor, Waiting, Launchers
  <2>5. GoodAudit'
    BY <1>1, <1>3, <2>3 DEF GovIInv, GoodAudit, WholePass, Launchers
  <2>6. Younger' /\ StatusTruthful'
    BY <1>3, <2>3 DEF GovIInv, Younger, StatusTruthful
  <2> QED
    BY <1>2, <2>2, <2>4, <2>5, <2>6 DEF GovIInv
<1>4. CASE ~(l \in Governors /\ gov[l].pc = "waiting")
  <2>1. gov' = gov
    BY <1>4
  <2>2. GovTypes'
    BY <1>1, <2>1 DEF GovIInv, GovTypes
  <2>3. OneGovernor' /\ Waiting'
    BY <1>1, <1>4, <2>1 DEF GovIInv, OneGovernor, Waiting, Launchers
  <2>4. GoodAudit'
    BY <1>1, <2>1 DEF GovIInv, GoodAudit, WholePass, Launchers
  <2>5. Younger' /\ StatusTruthful'
    BY <2>1 DEF GovIInv, Younger, StatusTruthful
  <2> QED
    BY <1>2, <2>2, <2>3, <2>4, <2>5 DEF GovIInv
<1> QED
  BY <1>3, <1>4

\* The last step ends: the code of the whole pass is delivered to the launcher.
LEMMA EndPassIInv ==
    ASSUME GovIInv, NEW l \in Launchers, NEW rc \in Codes, EndPass(l, rc)
    PROVE  GovIInv'
<1>1. PICK code \in {0, 1, 137} :
            code = PassExit(maint[l]) /\ (code = 0 => maint[l].failed = {})
  BY DEF PassExit
<1>2. summaryFile' \in {"none", "success", "failed"}
  BY DEF EndPass, GovIInv, GovTypes
<1>3. IF l \in Governors /\ gov[l].pc = "waiting"
      THEN gov' = [gov EXCEPT ![l].pc = "audited", ![l].audit = code]
      ELSE gov' = gov
  BY <1>1 DEF EndPass, DeliverTo, Audited
<1>4. /\ maint[l].pc = "running" /\ maint[l].pos = LastStep
      /\ maint' = [maint EXCEPT ![l].pc = "idle"]
      /\ UNCHANGED <<statusFile, lastExit, govRuns>>
  BY DEF EndPass
<1> QED
  BY <1>1, <1>2, <1>3, <1>4, DeliverIInv

\* A pass that ends early or is killed, perhaps leaving its step running, has no code 0.
LEMMA CutPassIInv ==
    ASSUME GovIInv, NEW l \in Launchers, AbortPass(l) \/ KillPass(l)
    PROVE  GovIInv'
<1>1. PICK code \in {1, 137} :
        IF l \in Governors /\ gov[l].pc = "waiting"
        THEN gov' = [gov EXCEPT ![l].pc = "audited", ![l].audit = code]
        ELSE gov' = gov
  BY DEF AbortPass, KillPass, DeliverTo, Audited
<1>2. PICK p \in {"idle", "orphan"} : maint' = [maint EXCEPT ![l].pc = p]
  <2> DEFINE p == IF maint[l].pos < LastStep THEN "orphan" ELSE "idle"
  <2>1. p \in {"idle", "orphan"}
    OBVIOUS
  <2>2. CASE AbortPass(l)
    BY <2>2 DEF AbortPass
  <2>3. CASE KillPass(l)
    BY <2>1, <2>3 DEF KillPass
  <2> QED
    BY <2>2, <2>3
<1>3. /\ maint[l].pc = "running"
      /\ summaryFile' \in {"none", "success", "failed"}
      /\ UNCHANGED <<statusFile, lastExit, govRuns>>
  BY DEF AbortPass, KillPass, GovIInv, GovTypes
<1>4. code \in {0, 1, 137} /\ code # 0
  OBVIOUS
<1> QED
  BY <1>1, <1>2, <1>3, <1>4, DeliverIInv

\* A step that has outlived its shell ends and gives back the lock.
LEMMA EndOrphanStepIInv ==
    ASSUME GovIInv, NEW l \in Launchers, EndOrphanStep(l)
    PROVE  GovIInv'
<1>1. /\ maint' \in [Launchers -> Passes]
      /\ \A m \in Launchers : m # l => maint'[m] = maint[m]
      /\ maint[l].pc = "orphan" /\ maint'[l].pc = "idle"
  BY DEF GovIInv, GovTypes, EndOrphanStep, Passes
<1>2. GovTypes'
  BY <1>1 DEF GovIInv, GovTypes, EndOrphanStep
<1>3. OnePass' /\ OneGovernor' /\ Waiting'
  BY <1>1 DEF GovIInv, OnePass, OneGovernor, Waiting, EndOrphanStep, Launchers
<1>4. GoodAudit'
  BY <1>1 DEF GovIInv, GoodAudit, WholePass, EndOrphanStep, Launchers
<1>5. Younger' /\ StatusTruthful'
  BY DEF GovIInv, Younger, StatusTruthful, EndOrphanStep
<1> QED
  BY <1>2, <1>3, <1>4, <1>5 DEF GovIInv

-----------------------------------------------------------------------------
(* Steps of a governance run.                                              *)

\* A step of a run that leaves the passes and both records alone.
LEMMA AdvanceIInv ==
    ASSUME GovIInv, NEW g \in Governors, NEW next \in Scripts,
           gov' = [gov EXCEPT ![g] = next],
           gov[g].pc # "idle", next.pc # "waiting",
           next.pc \notin {"idle", "orphan"} =>
                gov[g].pc # "orphan" /\ next.run = gov[g].run,
           next.pc = "evolving" => next.audit = 0,
           next.pc \in {"audited", "evolving"} /\ next.audit = 0 => WholePass(maint[g]),
           UNCHANGED <<maint, statusFile, summaryFile, lastExit, govRuns>>
    PROVE  GovIInv'
<1>1. /\ gov' \in [Governors -> Scripts] /\ gov'[g] = next
      /\ \A h \in Governors : h # g => gov'[h] = gov[h]
  BY DEF GovIInv, GovTypes
<1>2. GovTypes' /\ OnePass' /\ StatusTruthful'
  BY <1>1 DEF GovIInv, GovTypes, OnePass, StatusTruthful
<1>3. OneGovernor' /\ Waiting'
  BY <1>1 DEF GovIInv, OneGovernor, Waiting
<1>4. GoodAudit'
  BY <1>1 DEF GovIInv, GoodAudit, WholePass
<1>5. Younger'
  BY <1>1 DEF GovIInv, Younger
<1> QED
  BY <1>2, <1>3, <1>4, <1>5 DEF GovIInv

\* A run that exits by itself: either it has written what its code says, or its
\* code is a failure.
LEMMA ExitIInv ==
    ASSUME GovIInv, NEW g \in Governors, NEW code \in Nat,
           NEW result \in {"ok", "skipped", "failed", "degraded"},
           gov[g].pc \notin {"idle", "orphan"},
           Exit(g, code),
           \/ Write(g, result) /\ (result = "ok") = (code = 0)
           \/ UNCHANGED statusFile /\ code # 0,
           UNCHANGED <<maint, summaryFile, govRuns>>
    PROVE  GovIInv'
<1> DEFINE next == GovAt("idle", 0)
<1>1. next \in Scripts /\ next.pc = "idle"
  BY DEF GovAt, Scripts, GovPcs, Codes
<1>2. gov' = [gov EXCEPT ![g] = next]
  BY DEF Exit, IdleGov
<1> HIDE DEF next
<1>3. /\ gov' \in [Governors -> Scripts] /\ gov'[g].pc = "idle"
      /\ \A h \in Governors : h # g => gov'[h] = gov[h]
  BY <1>1, <1>2 DEF GovIInv, GovTypes
<1>4. gov[g].run \in Nat
  BY DEF GovIInv, GovTypes, Scripts
<1>5. /\ lastExit' \in [run : Nat, code : Nat, skipped : BOOLEAN]
      /\ lastExit'.run = gov[g].run /\ lastExit'.code = code /\ ~lastExit'.skipped
  BY <1>4 DEF Exit
<1>6. /\ statusFile' \in [result : {"none", "ok", "skipped", "failed", "degraded"}, run : Nat]
      /\ \/ statusFile'.run = gov[g].run /\ statusFile'.result = result
            /\ (result = "ok") = (code = 0)
         \/ statusFile' = statusFile /\ code # 0
  BY <1>4 DEF Write, GovIInv, GovTypes
<1>7. GovTypes' /\ OnePass'
  BY <1>3, <1>5, <1>6 DEF GovIInv, GovTypes, OnePass
<1>8. OneGovernor' /\ Waiting'
  BY <1>3 DEF GovIInv, OneGovernor, Waiting
<1>9. GoodAudit'
  BY <1>3 DEF GovIInv, GoodAudit, WholePass
<1>10. \A h \in Governors : gov'[h].pc = "idle"
  BY <1>3 DEF GovIInv, OneGovernor
<1>11. Younger'
  BY <1>5, <1>6, <1>10 DEF GovIInv, Younger, GovTypes
<1>12. StatusTruthful'
  BY <1>5, <1>6 DEF GovIInv, Younger, StatusTruthful, GovTypes
<1> QED
  BY <1>7, <1>8, <1>9, <1>11, <1>12 DEF GovIInv

\* A governor starts only under the governance lock.
LEMMA StartGovIInv ==
    ASSUME GovIInv, NEW g \in Governors, StartGov(g)
    PROVE  GovIInv'
<1> DEFINE next == GovAt("replay", govRuns + 1)
<1>0. govRuns \in Nat /\ govRuns' = govRuns + 1
  BY DEF GovIInv, GovTypes, StartGov
<1>1. next \in Scripts /\ next.pc = "replay" /\ next.run = govRuns + 1
  BY <1>0 DEF GovAt, Scripts, GovPcs, Codes
<1>2. gov' = [gov EXCEPT ![g] = next] /\ UNCHANGED <<maint, statusFile, summaryFile, lastExit>>
  BY DEF StartGov
<1> HIDE DEF next
<1>3. /\ gov' \in [Governors -> Scripts] /\ gov'[g] = next
      /\ \A h \in Governors : h # g => gov'[h] = gov[h]
  BY <1>1, <1>2 DEF GovIInv, GovTypes
<1>4. \A h \in Governors : gov[h].pc = "idle"
  BY DEF StartGov, GovernanceLockFree
<1>5. GovTypes' /\ OnePass' /\ StatusTruthful'
  BY <1>0, <1>2, <1>3 DEF GovIInv, GovTypes, OnePass, StatusTruthful
<1>6. OneGovernor' /\ Waiting' /\ GoodAudit'
  BY <1>1, <1>3, <1>4 DEF OneGovernor, Waiting, GoodAudit
<1>7. Younger'
  BY <1>0, <1>1, <1>2, <1>3, <1>4 DEF GovIInv, GovTypes, Younger
<1> QED
  BY <1>5, <1>6, <1>7 DEF GovIInv

\* A run that finds the lock held is younger than any status on disk, and writes none.
LEMMA SkipGovIInv ==
    ASSUME GovIInv, NEW g \in Governors, SkipGov(g)
    PROVE  GovIInv'
<1>1. /\ govRuns \in Nat /\ govRuns' = govRuns + 1
      /\ UNCHANGED <<gov, maint, statusFile, summaryFile>>
      /\ lastExit' = [run |-> govRuns + 1, code |-> 0, skipped |-> TRUE]
  BY DEF GovIInv, GovTypes, SkipGov
<1>2. /\ lastExit' \in [run : Nat, code : Nat, skipped : BOOLEAN]
      /\ lastExit'.run = govRuns + 1 /\ lastExit'.skipped
  BY <1>1
<1>3. statusFile.run \in Nat /\ \A h \in Governors : gov[h].run \in Nat
  BY DEF GovIInv, GovTypes, Scripts
<1>4. GovTypes' /\ OnePass'
  BY <1>1, <1>2 DEF GovIInv, GovTypes, OnePass
<1>5. OneGovernor' /\ Waiting' /\ GoodAudit'
  BY <1>1 DEF GovIInv, OneGovernor, Waiting, GoodAudit, WholePass
<1>6. Younger' /\ StatusTruthful'
  BY <1>1, <1>2, <1>3 DEF GovIInv, Younger, StatusTruthful
<1> QED
  BY <1>4, <1>5, <1>6 DEF GovIInv

\* The governor starts its pass, or gets a 75 because the lock is taken.
LEMMA MaintainIInv ==
    ASSUME GovIInv, NEW g \in Governors, Maintain(g)
    PROVE  GovIInv'
<1>1. CASE MaintenanceLockFree /\ StartPass(g) /\ gov' = [gov EXCEPT ![g].pc = "waiting"]
  <2> DEFINE next == [gov[g] EXCEPT !.pc = "waiting"]
  <2>1. /\ next \in Scripts /\ next.pc = "waiting" /\ next.run = gov[g].run
        /\ gov[g].pc = "maintain" /\ gov' = [gov EXCEPT ![g] = next]
    BY <1>1 DEF GovIInv, GovTypes, Scripts, GovPcs, Maintain
  <2> HIDE DEF next
  <2>2. /\ gov' \in [Governors -> Scripts] /\ gov'[g] = next
        /\ \A h \in Governors : h # g => gov'[h] = gov[h]
    BY <2>1 DEF GovIInv, GovTypes
  <2>3. /\ maint' \in [Launchers -> Passes] /\ OnePass' /\ maint'[g].pc = "running"
        /\ \A m \in Launchers : m # g => maint'[m] = maint[m]
    BY <1>1, StartPassSound DEF GovIInv, Launchers
  <2>4. GovTypes' /\ StatusTruthful'
    BY <2>2, <2>3 DEF GovIInv, GovTypes, StatusTruthful, Maintain
  <2>5. OneGovernor' /\ Waiting'
    BY <2>1, <2>2, <2>3 DEF GovIInv, OneGovernor, Waiting, Launchers
  <2>6. GoodAudit'
    BY <2>1, <2>2, <2>3 DEF GovIInv, GoodAudit, Launchers, WholePass
  <2>7. Younger'
    BY <2>1, <2>2 DEF GovIInv, Younger, Maintain
  <2> QED
    BY <2>3, <2>4, <2>5, <2>6, <2>7 DEF GovIInv
<1>2. CASE Audited(g, 75) /\ UNCHANGED maint
  <2>1. gov[g] \in Scripts /\ gov[g].pc = "maintain"
    BY DEF GovIInv, GovTypes, Maintain
  <2>a. "audited" \in GovPcs /\ 75 \in {0, 1, 75, 137}
    BY DEF GovPcs
  <2> DEFINE next == [gov[g] EXCEPT !.pc = "audited", !.audit = 75]
  <2>2. /\ next \in Scripts
        /\ next.pc = "audited" /\ next.run = gov[g].run /\ next.audit = 75
    BY ONLY <2>1, <2>a DEF Scripts
  <2>b. next.audit # 0
    BY <2>2
  <2>3. gov' = [gov EXCEPT ![g] = next]
    BY <1>2 DEF Audited
  <2> HIDE DEF next
  <2>4. UNCHANGED <<maint, statusFile, summaryFile, lastExit, govRuns>>
    BY <1>2 DEF Maintain
  <2> QED
    BY <2>1, <2>2, <2>b, <2>3, <2>4, AdvanceIInv
<1> QED
  BY <1>1, <1>2 DEF Maintain

\* The replay of feedback ends, the first stage of a run.
LEMMA ReplayIInv ==
    ASSUME GovIInv, NEW g \in Governors, NEW rc \in Codes, Replay(g, rc)
    PROVE  GovIInv'
<1>1. gov[g] \in Scripts /\ gov[g].pc = "replay"
  BY DEF GovIInv, GovTypes, Replay
<1>a. "maintain" \in GovPcs /\ rc \in Codes
  BY DEF GovPcs
<1> DEFINE next == [gov[g] EXCEPT !.pc = "maintain", !.feedback = rc]
<1>2. next \in Scripts /\ next.pc = "maintain" /\ next.run = gov[g].run
  BY ONLY <1>1, <1>a DEF Scripts
<1>3. gov' = [gov EXCEPT ![g] = next]
      /\ UNCHANGED <<maint, statusFile, summaryFile, lastExit, govRuns>>
  BY DEF Replay
<1> HIDE DEF next
<1> QED
  BY <1>1, <1>2, <1>3, AdvanceIInv DEF Replay

\* The evolution starts: the audit was 0, so the pass before it was whole.
LEMMA StartEvolutionIInv ==
    ASSUME GovIInv, NEW g \in Governors, StartEvolution(g)
    PROVE  GovIInv'
<1>1. gov[g] \in Scripts /\ gov[g].pc = "audited"
  BY DEF GovIInv, GovTypes, StartEvolution
<1>2. PICK pc \in {"evolving", "report"} :
          /\ gov' = [gov EXCEPT ![g].pc = pc]
          /\ pc = "evolving" => gov[g].audit = 0
  <2> DEFINE pc == IF gov[g].audit = 0 THEN "evolving" ELSE "report"
  <2>1. /\ pc \in {"evolving", "report"} /\ (pc = "evolving" => gov[g].audit = 0)
        /\ gov' = [gov EXCEPT ![g].pc = pc]
    BY DEF StartEvolution
  <2> HIDE DEF pc
  <2> QED
    BY <2>1
<1>a. pc \in GovPcs
  BY DEF GovPcs
<1> DEFINE next == [gov[g] EXCEPT !.pc = pc]
<1>3. /\ next \in Scripts
      /\ next.pc = pc /\ next.run = gov[g].run /\ next.audit = gov[g].audit
  BY ONLY <1>1, <1>a DEF Scripts
<1>4. gov' = [gov EXCEPT ![g] = next]
      /\ UNCHANGED <<maint, statusFile, summaryFile, lastExit, govRuns>>
  BY <1>2 DEF StartEvolution
<1> HIDE DEF next
<1>5. gov[g].audit = 0 => WholePass(maint[g])
  BY <1>1 DEF GovIInv, GoodAudit
<1> QED
  BY <1>1, <1>2, <1>3, <1>4, <1>5, AdvanceIInv

\* The evolution ends and its code is noted.
LEMMA EndEvolutionIInv ==
    ASSUME GovIInv, NEW g \in Governors, NEW rc \in Codes, EndEvolution(g, rc)
    PROVE  GovIInv'
<1>1. gov[g] \in Scripts /\ gov[g].pc = "evolving"
  BY DEF GovIInv, GovTypes, EndEvolution
<1>a. "report" \in GovPcs /\ rc \in Codes
  BY DEF GovPcs
<1> DEFINE next == [gov[g] EXCEPT !.pc = "report", !.evolution = rc]
<1>2. next \in Scripts /\ next.pc = "report" /\ next.run = gov[g].run
  BY ONLY <1>1, <1>a DEF Scripts
<1>3. gov' = [gov EXCEPT ![g] = next]
      /\ UNCHANGED <<maint, statusFile, summaryFile, lastExit, govRuns>>
  BY DEF EndEvolution
<1> HIDE DEF next
<1> QED
  BY <1>1, <1>2, <1>3, AdvanceIInv

\* A killed run and the end of what it had left running.
LEMMA GoneIInv ==
    ASSUME GovIInv, NEW g \in Governors, KillGov(g) \/ EndOrphan(g)
    PROVE  GovIInv'
<1>1. PICK pc \in {"idle", "orphan"} : gov' = [gov EXCEPT ![g] = GovAt(pc, 0)]
  <2>1. CASE KillGov(g)
    <3> DEFINE pc == IF gov[g].pc \in {"replay", "evolving"} THEN "orphan" ELSE "idle"
    <3>1. pc \in {"idle", "orphan"} /\ gov' = [gov EXCEPT ![g] = GovAt(pc, 0)]
      BY <2>1 DEF KillGov
    <3> QED
      BY <3>1
  <2>2. CASE EndOrphan(g)
    BY <2>2 DEF EndOrphan, IdleGov
  <2> QED
    BY <2>1, <2>2
<1>2. GovAt(pc, 0) \in Scripts /\ GovAt(pc, 0).pc = pc
  BY DEF GovAt, Scripts, GovPcs, Codes
<1>3. gov[g].pc # "idle" /\ UNCHANGED <<maint, statusFile, summaryFile, lastExit, govRuns>>
  BY DEF KillGov, EndOrphan
<1> QED
  BY <1>1, <1>2, <1>3, AdvanceIInv

\* The status is written, for the run that is the youngest to do so.
LEMMA ReportIInv ==
    ASSUME GovIInv, NEW g \in Governors, NEW rc \in Codes, Report(g, rc)
    PROVE  GovIInv'
<1>1. /\ Verdict(g).result \in {"ok", "skipped", "failed", "degraded"}
      /\ Verdict(g).code \in Nat
      /\ (Verdict(g).result = "ok") = (Verdict(g).code = 0)
  BY VerdictTruthful DEF GovIInv
<1>2. gov[g].pc = "report" /\ UNCHANGED <<maint, summaryFile, govRuns>>
  BY DEF Report
<1>3. CASE rc = 0
  <2>1. PICK verdict : verdict = Verdict(g)
    OBVIOUS
  <2>2. gov' = [gov EXCEPT ![g] = IdleGov]
        /\ lastExit' = [run |-> gov[g].run, code |-> verdict.code, skipped |-> FALSE]
        /\ statusFile' = [result |-> verdict.result, run |-> gov[g].run]
    BY <1>3, <2>1 DEF Report, Exit, Write
  <2> QED
    BY <1>1, <1>2, <2>1, <2>2, ExitIInv DEF Exit, Write
<1>4. CASE rc # 0
  <2>1. PICK code \in Nat : code = CodeUnwritten(Verdict(g).code) /\ code # 0
    BY <1>1 DEF CodeUnwritten
  <2>2. gov' = [gov EXCEPT ![g] = IdleGov]
        /\ lastExit' = [run |-> gov[g].run, code |-> code, skipped |-> FALSE]
        /\ UNCHANGED statusFile
    BY <1>4, <2>1 DEF Report, Exit
  <2> QED
    BY <1>2, <2>1, <2>2, ExitIInv DEF Exit, Write
<1> QED
  BY <1>3, <1>4

\* A run without one of its components exits with 1 and no other status than failed.
LEMMA PreflightFailsIInv ==
    ASSUME GovIInv, NEW g \in Governors, PreflightFails(g)
    PROVE  GovIInv'
<1>1. gov[g].pc = "replay" /\ UNCHANGED <<maint, summaryFile, govRuns>>
  BY DEF PreflightFails
<1>2. gov' = [gov EXCEPT ![g] = IdleGov]
      /\ lastExit' = [run |-> gov[g].run, code |-> 1, skipped |-> FALSE]
  BY DEF PreflightFails, Exit
<1>3. \/ statusFile' = [result |-> "failed", run |-> gov[g].run]
      \/ UNCHANGED statusFile
  BY DEF PreflightFails, Write
<1>4. "failed" # "ok" /\ 1 # 0 /\ 1 \in Nat
  OBVIOUS
<1>5. CASE statusFile' = [result |-> "failed", run |-> gov[g].run]
  BY <1>1, <1>2, <1>4, <1>5, ExitIInv DEF Exit, Write
<1>6. CASE UNCHANGED statusFile
  BY <1>1, <1>2, <1>4, <1>6, ExitIInv DEF Exit, Write
<1> QED
  BY <1>3, <1>5, <1>6

-----------------------------------------------------------------------------
\* Every step of the scripts preserves the invariant.
LEMMA GovNextIInv == GovIInv /\ [GovNext]_govVars => GovIInv'
<1> SUFFICES ASSUME GovIInv, [GovNext]_govVars PROVE GovIInv'
  OBVIOUS
<1>1. ASSUME NEW d \in Dailies, StartDaily(d) PROVE GovIInv'
  BY <1>1, StartDailyIInv
<1>2. ASSUME NEW l \in Launchers, NEW rc \in Codes, PassStep(l, rc) \/ EndPass(l, rc)
      PROVE  GovIInv'
  BY <1>2, PassStepIInv, EndPassIInv
<1>3. ASSUME NEW l \in Launchers, AbortPass(l) \/ KillPass(l) \/ EndOrphanStep(l)
      PROVE  GovIInv'
  BY <1>3, CutPassIInv, EndOrphanStepIInv
<1>4. ASSUME NEW g \in Governors,
             StartGov(g) \/ SkipGov(g) \/ PreflightFails(g) \/ Maintain(g) \/ StartEvolution(g)
      PROVE  GovIInv'
  BY <1>4, StartGovIInv, SkipGovIInv, PreflightFailsIInv, MaintainIInv, StartEvolutionIInv
<1>5. ASSUME NEW g \in Governors, NEW rc \in Codes,
             Replay(g, rc) \/ EndEvolution(g, rc) \/ Report(g, rc)
      PROVE  GovIInv'
  BY <1>5, ReplayIInv, EndEvolutionIInv, ReportIInv
<1>6. ASSUME NEW g \in Governors, KillGov(g) \/ EndOrphan(g) PROVE GovIInv'
  BY <1>6, GoneIInv
<1>7. CASE UNCHANGED govVars
  BY <1>7 DEF govVars, GovIInv, GovTypes, OnePass, OneGovernor, Waiting, GoodAudit, WholePass,
              Younger, StatusTruthful
<1> QED
  BY <1>1, <1>2, <1>3, <1>4, <1>5, <1>6, <1>7 DEF GovNext

\* The invariant holds in every state of every behavior.
THEOREM GovernanceInductive == GovSpec => []GovIInv
  BY GovInitIInv, GovNextIInv, PTL DEF GovSpec

\* The types of the locks, the passes, the status and the summary.
THEOREM GovernanceTypeCorrect == GovSpec => []GovTypeOK
<1>1. GovIInv => GovTypeOK
  BY DEF GovIInv, GovTypes, GovTypeOK, Scripts, Passes, GovPcs
<1> QED
  BY <1>1, GovernanceInductive, PTL

\* However many shells start either script and whichever of them are killed, two
\* maintenance passes never run side by side.
THEOREM MaintenanceExclusive == GovSpec => []OnePass
<1>1. GovIInv => OnePass
  BY DEF GovIInv
<1> QED
  BY <1>1, GovernanceInductive, PTL

\* A cycle runs only after a whole pass of its own governance run.
THEOREM EvolutionNeedsWholePass == GovSpec => []EvolvesAfterWholePass
<1>1. GovIInv => EvolvesAfterWholePass
  BY DEF GovIInv, GoodAudit, WholePass, EvolvesAfterWholePass
<1> QED
  BY <1>1, GovernanceInductive, PTL

\* The status file and the exit code tell the operator one story, but for the runs
\* that find the lock held.
THEOREM StatusNeverLies == GovSpec => []StatusTruthful
<1>1. GovIInv => StatusTruthful
  BY DEF GovIInv
<1> QED
  BY <1>1, GovernanceInductive, PTL

-----------------------------------------------------------------------------
(* The memory brain.  While a run reads a file, what it has not yet        *)
(* written or queued of the version it saw is still among the sections     *)
(* that are left; while it works off the queue, every entry on disk is     *)
(* written, given up, or waiting in its memory.                            *)

Accounted == Written \cup Queued \cup lostSections
Settled(f) == TextOf[f][version[f]] \subseteq Accounted
SectionsOf(entries) == {e.section : e \in entries}

Entries == [section : AllSections, content : BOOLEAN, tries : 0..MaxTries]
BrainPcs == {"idle", "files", "read", "sections", "queue", "save", "orient", "dream"}
Mtimes == [Files -> Nat \cup {Damaged}]
Brains == [pc : BrainPcs, collection : BrainCollections \cup {""}, state : Mtimes,
           todo : SUBSET Files, file : Files \cup {""}, mtime : Nat,
           sections : SUBSET AllSections, entries : SUBSET Entries, fresh : SUBSET Entries]

BrainTypes ==
    /\ version \in [Files -> Nat] /\ \A f \in Files : version[f] \in 1..Len(TextOf[f])
    /\ kept \in [BrainCollections -> SUBSET AllSections]
    /\ queue \subseteq Entries /\ storing \in BOOLEAN
    /\ processed \in Mtimes
    /\ brain \in Brains
    /\ brain.pc # "idle" => brain.collection \in BrainCollections
    /\ brain.pc \in {"read", "sections"} => brain.file \in Files

\* A file whose mtime is on record is settled, unless it has been edited since.
OnRecord(mtimes) ==
    \A f \in Files : mtimes[f] <= version[f] /\ (mtimes[f] = version[f] => Settled(f))

FilesAccounted ==
    /\ OnRecord(processed) /\ OnRecord(brain.state)
    /\ brain.pc \in {"read", "sections"} => brain.mtime <= version[brain.file]
    /\ brain.pc = "sections" /\ brain.mtime = version[brain.file] =>
          TextOf[brain.file][version[brain.file]] \subseteq Accounted \cup brain.sections
    /\ brain.pc = "queue" =>
          Queued \subseteq Written \cup lostSections \cup SectionsOf(brain.entries \cup brain.fresh)

BrainInv == BrainTypes /\ FilesAccounted

\* The sections of a version of a file are sections.
LEMMA SectionsOfFile ==
  ASSUME NEW f \in Files, NEW v \in 1..Len(TextOf[f])
  PROVE  TextOf[f][v] \subseteq AllSections
BY DEF AllSections

\* What is accounted for may be read off the entries of the queue.
LEMMA QueuedSections ==
  /\ Queued = SectionsOf(queue)
  /\ \A S, T : SectionsOf(S \cup T) = SectionsOf(S) \cup SectionsOf(T)
  /\ \A S : \A e \in S : e.section \in SectionsOf(S)
BY DEF Queued, SectionsOf

\* Nothing that is accounted for gets lost in a step that leaves the files alone
\* and drops no entry, and the files stay settled.
LEMMA StaysSettled ==
  ASSUME UNCHANGED version, Accounted \subseteq Accounted', NEW mtimes, OnRecord(mtimes)
  PROVE  /\ \A f \in Files : Settled(f) => Settled(f)'
         /\ \A f \in Files :
               mtimes[f] <= version'[f] /\ (mtimes[f] = version'[f] => Settled(f)')
BY DEF OnRecord, Settled

\* A fresh installation satisfies it.
LEMMA BrainInvInit == BrainInit => BrainInv
<1> SUFFICES ASSUME BrainInit PROVE BrainInv
  OBVIOUS
<1>1. /\ version = [f \in Files |-> 1] /\ kept = [c \in BrainCollections |-> {}]
      /\ queue = {} /\ storing \in BOOLEAN
      /\ processed = [f \in Files |-> 0] /\ brain = Sleeping
  BY DEF BrainInit, NoFiles
<1>2. /\ brain.pc = "idle" /\ brain.state = [f \in Files |-> 0]
  BY <1>1 DEF Sleeping, NoFiles
<1>3. /\ \A f \in Files : version[f] = 1 /\ version[f] \in 1..Len(TextOf[f])
      /\ version \in [Files -> Nat]
  BY <1>1, BrainAssumption
<1>4. [f \in Files |-> 0] \in Mtimes
  BY DEF Mtimes
<1>5. brain \in Brains
  BY <1>1, <1>4 DEF Sleeping, NoFiles, Brains, BrainPcs
<1>6. BrainTypes
  BY <1>1, <1>2, <1>3, <1>4, <1>5 DEF BrainTypes
<1>7. OnRecord(processed) /\ OnRecord(brain.state)
  BY <1>1, <1>2, <1>3 DEF OnRecord
<1> QED
  BY <1>2, <1>6, <1>7 DEF BrainInv, FilesAccounted

\* Every step of a run, every edit, failure and crash keeps it.
LEMMA BrainInvStep == BrainInv /\ [BrainNext]_brainVars => BrainInv'
<1> SUFFICES ASSUME BrainInv, [BrainNext]_brainVars PROVE BrainInv'
  OBVIOUS
<1>a. /\ version \in [Files -> Nat] /\ \A f \in Files : version[f] \in 1..Len(TextOf[f])
      /\ kept \in [BrainCollections -> SUBSET AllSections]
      /\ queue \subseteq Entries /\ storing \in BOOLEAN
      /\ processed \in Mtimes /\ brain \in Brains
      /\ brain.pc # "idle" => brain.collection \in BrainCollections
      /\ brain.pc \in {"read", "sections"} => brain.file \in Files
  BY DEF BrainInv, BrainTypes
<1>b. FilesAccounted /\ OnRecord(processed) /\ OnRecord(brain.state)
  BY DEF BrainInv, FilesAccounted
<1>c. /\ Sleeping \in Brains /\ Sleeping.pc = "idle" /\ Sleeping.state = NoFiles
      /\ NoFiles \in Mtimes /\ OnRecord(NoFiles)
  <2>1. NoFiles \in Mtimes
    BY DEF NoFiles, Mtimes
  <2>2. Sleeping \in Brains /\ Sleeping.pc = "idle" /\ Sleeping.state = NoFiles
    BY <2>1 DEF Sleeping, Brains, BrainPcs
  <2>3. OnRecord(NoFiles)
    BY <1>a DEF NoFiles, OnRecord
  <2> QED
    BY <2>1, <2>2, <2>3
\* A step that changes nothing but where the run is, the clock and the dreams.
<1>d. ASSUME UNCHANGED <<version, kept, queue, storing, processed, lostSections>>,
             brain' \in Brains, OnRecord(brain'.state),
             brain'.pc # "idle" => brain'.collection \in BrainCollections,
             brain'.pc \in {"idle", "files", "save", "orient", "dream"}
      PROVE  BrainInv'
  <2>1. BrainTypes'
    BY <1>a, <1>d DEF BrainTypes
  <2>2. Written' = Written /\ Queued' = Queued
    BY <1>d DEF Written, Queued
  <2>3. OnRecord(processed)' /\ OnRecord(brain.state)'
    BY <1>b, <1>d, <2>2 DEF OnRecord, Settled, Accounted
  <2> QED
    BY <1>d, <2>1, <2>3 DEF BrainInv, FilesAccounted
<1>1. CASE HourPasses \/ UNCHANGED brainVars
  <2>1. UNCHANGED <<version, kept, queue, storing, processed, brain, lostSections>>
    BY <1>1 DEF HourPasses, brainVars
  <2> QED
    BY <2>1 DEF BrainInv, BrainTypes, FilesAccounted, OnRecord, Settled, Accounted, Written,
       Queued, SectionsOf
<1>2. ASSUME NEW f \in Files, Edit(f) PROVE BrainInv'
  <2> DEFINE next == version[f] + 1
  <2>1. /\ version' = [version EXCEPT ![f] = next] /\ version[f] < Len(TextOf[f])
        /\ UNCHANGED <<kept, queue, storing, processed, brain, lostSections>>
    BY <1>2 DEF Edit
  <2>2. next \in 1..Len(TextOf[f]) /\ next > version[f] /\ next \in Nat
    BY <1>a, <2>1, BrainAssumption
  <2> HIDE DEF next
  <2>3. BrainTypes'
    BY <1>a, <2>1, <2>2 DEF BrainTypes
  <2>4. Accounted' = Accounted
    BY <2>1 DEF Accounted, Written, Queued
  <2>5. ASSUME NEW g \in Files PROVE version'[g] = version[g] \/ (g = f /\ version'[g] = next)
    BY <1>a, <2>1
  <2>6. ASSUME NEW mtimes \in Mtimes, OnRecord(mtimes)
        PROVE  \A g \in Files :
                 mtimes[g] <= version'[g] /\ (mtimes[g] = version'[g] => Settled(g)')
    <3>1. ASSUME NEW g \in Files
          PROVE  mtimes[g] <= version'[g] /\ (mtimes[g] = version'[g] => Settled(g)')
      <4>1. /\ mtimes[g] \in Int /\ version[g] \in Nat
            /\ mtimes[g] <= version[g] /\ (mtimes[g] = version[g] => Settled(g))
        BY <1>a, <2>6 DEF OnRecord, Mtimes, Damaged
      <4>2. CASE version'[g] = version[g]
        BY <2>4, <4>1, <4>2 DEF Settled
      <4>3. CASE g = f /\ version'[g] = next
        BY <2>2, <4>1, <4>3
      <4> QED
        BY <2>5, <4>2, <4>3
    <3> QED
      BY <3>1
  <2>7. OnRecord(processed)' /\ OnRecord(brain.state)'
    <3>1. processed \in Mtimes /\ brain.state \in Mtimes
      BY <1>a DEF Brains
    <3> QED
      BY <1>b, <2>1, <2>6, <3>1 DEF OnRecord
  <2>8. ASSUME brain.pc \in {"read", "sections"}
        PROVE  /\ brain.mtime <= version'[brain.file]
               /\ brain.mtime = version'[brain.file] => version'[brain.file] = version[brain.file]
    <3>1. /\ brain.file \in Files /\ brain.mtime <= version[brain.file]
          /\ brain.mtime \in Nat /\ version[brain.file] \in Nat
      BY <1>a, <1>b, <2>8 DEF FilesAccounted, Brains
    <3> QED
      BY <2>2, <2>5, <3>1
  <2>9. FilesAccounted'
    <3>1. brain.pc \in {"read", "sections"} => brain.mtime <= version'[brain.file]
      BY <2>8
    <3>2. brain.pc = "sections" /\ brain.mtime = version'[brain.file] =>
            TextOf[brain.file][version'[brain.file]] \subseteq Accounted \cup brain.sections
      BY <1>b, <2>8 DEF FilesAccounted
    <3>3. brain.pc = "queue" =>
            Queued' \subseteq Written' \cup lostSections' \cup SectionsOf(brain.entries \cup brain.fresh)
      BY <1>b, <2>1 DEF FilesAccounted, Queued, Written
    <3> QED
      BY <2>1, <2>4, <2>7, <3>1, <3>2, <3>3 DEF FilesAccounted, SectionsOf
  <2> QED
    BY <2>3, <2>9 DEF BrainInv
<1>3. ASSUME NEW c \in BrainCollections, BeginBrain(c) PROVE BrainInv'
  <2>1. PICK files \in Newest :
          brain' = [Sleeping EXCEPT !.pc = "files", !.collection = c, !.todo = files,
                      !.state = IF processed = [f \in Files |-> Damaged] THEN NoFiles
                                ELSE processed]
    BY <1>3 DEF BeginBrain
  <2>2. files \subseteq Files
    BY DEF Newest
  <2>3. brain' \in Brains /\ brain'.pc = "files" /\ brain'.collection = c
        /\ brain'.state \in {NoFiles, processed}
    BY <1>a, <1>c, <2>1, <2>2 DEF Brains, BrainPcs
  <2>4. UNCHANGED <<version, kept, queue, storing, processed, lostSections>>
    BY <1>3 DEF BeginBrain
  <2> QED
    BY <1>b, <1>c, <1>d, <2>3, <2>4
<1>4. ASSUME NEW f \in Files, StatFile(f) PROVE BrainInv'
  <2>1. UNCHANGED <<version, kept, queue, storing, processed, lostSections>>
    BY <1>4 DEF StatFile
  <2>2. CASE brain' = [brain EXCEPT !.todo = @ \ {f}]
    <3>1. brain' \in Brains /\ brain'.pc = brain.pc /\ brain'.collection = brain.collection
          /\ brain'.state = brain.state
      BY <1>a, <2>2 DEF Brains
    <3>2. brain.pc = "files"
      BY <1>4 DEF StatFile
    <3> QED
      BY <1>a, <1>b, <1>d, <2>1, <3>1, <3>2
  <2>3. CASE brain' = [brain EXCEPT !.pc = "read", !.todo = @ \ {f}, !.file = f,
                                    !.mtime = version[f]]
    <3>1. /\ brain' \in Brains /\ brain'.pc = "read" /\ brain'.collection = brain.collection
          /\ brain'.state = brain.state /\ brain'.file = f /\ brain'.mtime = version[f]
      BY <1>a, <2>3 DEF Brains, BrainPcs
    <3>2. brain.pc = "files"
      BY <1>4 DEF StatFile
    <3>3. BrainTypes'
      BY <1>a, <2>1, <3>1, <3>2 DEF BrainTypes
    <3>4. OnRecord(processed)' /\ OnRecord(brain.state)'
      BY <1>b, <2>1, <3>1 DEF OnRecord, Settled, Accounted, Written, Queued
    <3>5. brain'.mtime <= version'[brain'.file]
      BY <1>a, <2>1, <3>1
    <3> QED
      BY <3>1, <3>3, <3>4, <3>5 DEF BrainInv, FilesAccounted
  <2> QED
    BY <1>4, <2>2, <2>3 DEF StatFile
<1>5. CASE ReadFile
  <2> DEFINE text == TextOf[brain.file][version[brain.file]]
  <2>1. /\ brain.pc = "read" /\ brain' = [brain EXCEPT !.pc = "sections", !.sections = text]
        /\ UNCHANGED <<version, kept, queue, storing, processed, lostSections>>
    BY <1>5 DEF ReadFile
  <2>2. text \subseteq AllSections
    BY <1>a, <2>1, SectionsOfFile
  <2>3. /\ brain' \in Brains /\ brain'.pc = "sections" /\ brain'.sections = text
        /\ brain'.collection = brain.collection /\ brain'.state = brain.state
        /\ brain'.file = brain.file /\ brain'.mtime = brain.mtime
    <3> HIDE DEF text
    <3> QED
      BY <1>a, <2>1, <2>2 DEF Brains, BrainPcs
  <2>4. BrainTypes'
    BY <1>a, <2>1, <2>3 DEF BrainTypes
  <2>5. OnRecord(processed)' /\ OnRecord(brain.state)'
    BY <1>b, <2>1, <2>3 DEF OnRecord, Settled, Accounted, Written, Queued
  <2>6. brain'.mtime <= version'[brain'.file]
    BY <1>b, <2>1, <2>3 DEF FilesAccounted
  <2> QED
    BY <2>1, <2>3, <2>4, <2>5, <2>6 DEF BrainInv, FilesAccounted
<1>6. ASSUME NEW s \in AllSections, IngestSection(s) PROVE BrainInv'
  <2> DEFINE sections == brain.sections \ {s}
             entry == [section |-> s, content |-> storing, tries |-> 0]
  <2>1. /\ brain.pc = "sections" /\ s \in brain.sections
        /\ brain' = [brain EXCEPT !.sections = sections]
        /\ UNCHANGED <<version, storing, processed>>
        /\ \/ /\ kept' = [kept EXCEPT ![brain.collection] = @ \cup {s}]
              /\ queue' = queue /\ lostSections' = lostSections
           \/ /\ queue' = queue \cup {entry}
              /\ kept' = kept /\ lostSections' = lostSections
           \/ /\ lostSections' = lostSections \cup {s}
              /\ kept' = kept /\ queue' = queue
    BY <1>6 DEF IngestSection
  <2>2. sections \subseteq AllSections /\ entry \in Entries /\ entry.section = s
    <3>1. 0 \in 0..MaxTries
      BY BrainAssumption
    <3>2. entry \in Entries /\ entry.section = s
      BY <1>a, <1>6, <3>1 DEF Entries
    <3>3. sections \subseteq AllSections
      BY <1>a DEF Brains
    <3> QED
      BY <3>2, <3>3
  <2>3. brain.collection \in BrainCollections
    BY <1>a, <2>1
  <2>4. brain.sections \subseteq sections \cup {s}
    OBVIOUS
  <2> HIDE DEF sections, entry
  <2>5. /\ brain' \in Brains /\ brain'.pc = "sections" /\ brain'.sections = sections
        /\ brain'.collection = brain.collection /\ brain'.state = brain.state
        /\ brain'.file = brain.file /\ brain'.mtime = brain.mtime
    BY <1>a, <2>1, <2>2 DEF Brains, BrainPcs
  <2>6. /\ kept' \in [BrainCollections -> SUBSET AllSections] /\ queue' \subseteq Entries
        /\ Written \subseteq Written' /\ Queued \subseteq Queued'
        /\ lostSections \subseteq lostSections' /\ s \in Written' \cup Queued' \cup lostSections'
    <3>1. CASE kept' = [kept EXCEPT ![brain.collection] = @ \cup {s}] /\ queue' = queue
                /\ lostSections' = lostSections
      <4>1. /\ kept' \in [BrainCollections -> SUBSET AllSections]
            /\ \A c \in BrainCollections : kept[c] \subseteq kept'[c]
            /\ s \in kept'[brain.collection]
        BY <1>a, <2>3, <3>1
      <4>2. Written \subseteq Written' /\ s \in Written'
        BY <2>3, <4>1 DEF Written
      <4>3. Queued' = Queued
        BY <3>1 DEF Queued
      <4> QED
        BY <1>a, <3>1, <4>1, <4>2, <4>3
    <3>2. CASE queue' = queue \cup {entry} /\ kept' = kept /\ lostSections' = lostSections
      <4>1. Queued \subseteq Queued' /\ s \in Queued'
        BY <2>2, <3>2 DEF Queued
      <4>2. Written' = Written
        BY <3>2 DEF Written
      <4> QED
        BY <1>a, <2>2, <3>2, <4>1, <4>2
    <3>3. CASE lostSections' = lostSections \cup {s} /\ kept' = kept /\ queue' = queue
      <4>1. Queued' = Queued /\ Written' = Written
        BY <3>3 DEF Queued, Written
      <4> QED
        BY <1>a, <3>3, <4>1
    <3> QED
      BY <2>1, <3>1, <3>2, <3>3
  <2>7. Accounted \subseteq Accounted' /\ s \in Accounted'
    BY <2>1, <2>6 DEF Accounted
  <2>8. BrainTypes'
    BY <1>a, <2>1, <2>5, <2>6 DEF BrainTypes
  <2>9. OnRecord(processed)' /\ OnRecord(brain.state)'
    <3>1. /\ \A f \in Files : processed[f] <= version'[f] /\
                              (processed[f] = version'[f] => Settled(f)')
          /\ \A f \in Files : brain.state[f] <= version'[f] /\
                              (brain.state[f] = version'[f] => Settled(f)')
      BY <1>b, <2>1, <2>7, StaysSettled
    <3> QED
      BY <2>1, <2>5, <3>1 DEF OnRecord
  <2>10. FilesAccounted'
    <3>1. brain'.mtime <= version'[brain'.file]
      BY <1>b, <2>1, <2>5 DEF FilesAccounted
    <3>2. brain.mtime = version[brain.file] =>
            TextOf[brain.file][version[brain.file]] \subseteq Accounted \cup brain.sections
      BY <1>b, <2>1 DEF FilesAccounted
    <3>3. Accounted \cup brain.sections \subseteq Accounted' \cup sections
      BY <2>4, <2>7
    <3>4. brain'.mtime = version'[brain'.file] =>
            TextOf[brain'.file][version'[brain'.file]] \subseteq Accounted' \cup brain'.sections
      BY <2>1, <2>5, <3>2, <3>3
    <3> QED
      BY <2>5, <2>9, <3>1, <3>4 DEF FilesAccounted
  <2> QED
    BY <2>8, <2>10 DEF BrainInv
<1>7. CASE EndFile
  <2> DEFINE state == [brain.state EXCEPT ![brain.file] = brain.mtime]
  <2>1. /\ brain.pc = "sections" /\ brain.sections = {}
        /\ brain' = [brain EXCEPT !.pc = "files", !.state = state]
        /\ UNCHANGED <<version, kept, queue, storing, processed, lostSections>>
    BY <1>7 DEF EndFile, MtimeSeen
  <2>2. /\ brain.state \in Mtimes /\ brain.file \in Files /\ brain.mtime \in Nat
    BY <1>a, <2>1 DEF Brains
  <2>3. state \in Mtimes
    BY <2>2 DEF Mtimes
  <2>4. OnRecord(state)
    <3>1. /\ brain.mtime <= version[brain.file]
          /\ brain.mtime = version[brain.file] => Settled(brain.file)
      BY <1>b, <2>1 DEF FilesAccounted, Settled
    <3>2. \A f \in Files : state[f] = (IF f = brain.file THEN brain.mtime ELSE brain.state[f])
      BY <2>2 DEF Mtimes
    <3> HIDE DEF state
    <3> QED
      BY <1>b, <3>1, <3>2 DEF OnRecord
  <2> HIDE DEF state
  <2>5. /\ brain' \in Brains /\ brain'.pc = "files" /\ brain'.state = state
        /\ brain'.collection = brain.collection
    BY <1>a, <2>1, <2>3 DEF Brains, BrainPcs
  <2> QED
    BY <1>a, <1>d, <2>1, <2>4, <2>5
<1>8. CASE BeginQueue
  <2>1. /\ brain.pc = "files" /\ brain' = [brain EXCEPT !.pc = "queue", !.entries = queue]
        /\ UNCHANGED <<version, kept, queue, storing, processed, lostSections>>
    BY <1>8 DEF BeginQueue
  <2>2. /\ brain' \in Brains /\ brain'.pc = "queue" /\ brain'.state = brain.state
        /\ brain'.collection = brain.collection /\ brain'.entries = queue
    BY <1>a, <2>1 DEF Brains, BrainPcs
  <2>3. BrainTypes'
    BY <1>a, <2>1, <2>2 DEF BrainTypes
  <2>4. OnRecord(processed)' /\ OnRecord(brain.state)'
    BY <1>b, <2>1, <2>2 DEF OnRecord, Settled, Accounted, Written, Queued
  <2>5. Queued' \subseteq SectionsOf(brain'.entries \cup brain'.fresh)
    BY <2>1, <2>2 DEF Queued, SectionsOf
  <2> QED
    BY <2>2, <2>3, <2>4, <2>5 DEF BrainInv, FilesAccounted
<1>9. ASSUME NEW e \in brain.entries, RetryEntry(e) PROVE BrainInv'
  <2> DEFINE entries == brain.entries \ {e}
             again == [e EXCEPT !.tries = @ + 1]
             fresh == brain.fresh \cup {again}
  <2>1. /\ brain.pc = "queue" /\ UNCHANGED <<version, queue, storing, processed>>
        /\ \/ /\ lostSections' = lostSections \cup {e.section} /\ kept' = kept
              /\ brain' = [brain EXCEPT !.entries = entries]
           \/ /\ kept' = [kept EXCEPT ![brain.collection] = @ \cup {e.section}]
              /\ brain' = [brain EXCEPT !.entries = entries] /\ lostSections' = lostSections
           \/ /\ Retryable(e) /\ UNCHANGED <<kept, lostSections>>
              /\ brain' = [brain EXCEPT !.entries = entries, !.fresh = fresh]
    BY <1>9 DEF RetryEntry
  <2>2. /\ e \in Entries /\ entries \subseteq Entries /\ brain.fresh \subseteq Entries
        /\ brain.entries \subseteq Entries
    BY <1>a DEF Brains
  <2>3. again.section = e.section /\ (Retryable(e) => again \in Entries)
    <3> DEFINE tries == e.tries + 1
    <3>1. Retryable(e) => tries \in 0..MaxTries
      BY <2>2, BrainAssumption DEF Entries, Retryable
    <3>2. again = [e EXCEPT !.tries = tries]
      OBVIOUS
    <3> HIDE DEF tries, again
    <3> QED
      BY <2>2, <3>1, <3>2 DEF Entries
  <2>4. e.section \in AllSections /\ brain.collection \in BrainCollections
    BY <1>a, <2>1, <2>2 DEF Entries
  <2>5. SectionsOf(brain.entries \cup brain.fresh) =
          SectionsOf(entries \cup brain.fresh) \cup {e.section}
    BY DEF SectionsOf
  <2>6. SectionsOf(entries \cup fresh) = SectionsOf(entries \cup brain.fresh) \cup {e.section}
    <3> HIDE DEF again
    <3> QED
      BY <2>3 DEF SectionsOf
  <2> HIDE DEF entries, again, fresh
  <2>7. fresh = brain.fresh \cup {again}
    BY DEF fresh
  <2>8. /\ brain' \in Brains /\ brain'.pc = "queue" /\ brain'.state = brain.state
        /\ brain'.collection = brain.collection /\ brain'.entries = entries
        /\ brain'.fresh \in {brain.fresh, fresh}
    <3>1. CASE brain' = [brain EXCEPT !.entries = entries]
      BY <1>a, <2>1, <2>2, <3>1 DEF Brains
    <3>2. CASE Retryable(e) /\ brain' = [brain EXCEPT !.entries = entries, !.fresh = fresh]
      <4>1. fresh \subseteq Entries
        BY <2>2, <2>3, <2>7, <3>2
      <4> QED
        BY <1>a, <2>1, <2>2, <3>2, <4>1 DEF Brains
    <3> QED
      BY <2>1, <3>1, <3>2
  <2>9. kept' \in [BrainCollections -> SUBSET AllSections] /\ Written \subseteq Written'
    <3>1. \/ kept' = kept
          \/ kept' = [kept EXCEPT ![brain.collection] = @ \cup {e.section}]
      BY <2>1
    <3>2. /\ kept' \in [BrainCollections -> SUBSET AllSections]
          /\ \A c \in BrainCollections : kept[c] \subseteq kept'[c]
      BY <1>a, <2>4, <3>1
    <3> QED
      BY <3>2 DEF Written
  <2>10. lostSections \subseteq lostSections' /\ Queued' = Queued
    BY <2>1 DEF Queued
  <2>11. \/ e.section \in Written' \cup lostSections' /\ brain'.fresh = brain.fresh
         \/ brain'.fresh = fresh
    <3>1. CASE lostSections' = lostSections \cup {e.section} /\ brain' = [brain EXCEPT !.entries = entries]
      BY <1>a, <3>1 DEF Brains
    <3>2. CASE kept' = [kept EXCEPT ![brain.collection] = @ \cup {e.section}]
               /\ brain' = [brain EXCEPT !.entries = entries]
      <4>1. e.section \in kept'[brain.collection]
        BY <1>a, <2>4, <3>2
      <4>2. e.section \in Written'
        BY <2>4, <4>1 DEF Written
      <4> QED
        BY <1>a, <3>2, <4>2 DEF Brains
    <3>3. CASE brain' = [brain EXCEPT !.entries = entries, !.fresh = fresh]
      BY <1>a, <3>3 DEF Brains
    <3> QED
      BY <2>1, <3>1, <3>2, <3>3
  <2>12. Queued' \subseteq Written' \cup lostSections' \cup SectionsOf(brain'.entries \cup brain'.fresh)
    <3>1. Queued \subseteq Written \cup lostSections \cup SectionsOf(brain.entries \cup brain.fresh)
      BY <1>b, <2>1 DEF FilesAccounted
    <3> QED
      BY <2>5, <2>6, <2>8, <2>9, <2>10, <2>11, <3>1
  <2>13. BrainTypes'
    BY <1>a, <2>1, <2>8, <2>9 DEF BrainTypes
  <2>14. OnRecord(processed)' /\ OnRecord(brain.state)'
    <3>1. Accounted \subseteq Accounted'
      BY <2>9, <2>10 DEF Accounted
    <3>2. /\ \A f \in Files : processed[f] <= version'[f] /\
                              (processed[f] = version'[f] => Settled(f)')
          /\ \A f \in Files : brain.state[f] <= version'[f] /\
                              (brain.state[f] = version'[f] => Settled(f)')
      BY <1>b, <2>1, <3>1, StaysSettled
    <3> QED
      BY <2>1, <2>8, <3>2 DEF OnRecord
  <2> QED
    BY <2>8, <2>12, <2>13, <2>14 DEF BrainInv, FilesAccounted
<1>10. CASE WriteQueue
  <2>1. /\ brain.pc = "queue" /\ brain.entries = {} /\ queue' = brain.fresh
        /\ brain' = [brain EXCEPT !.pc = "save"]
        /\ UNCHANGED <<version, kept, storing, processed, lostSections>>
    BY <1>10 DEF WriteQueue
  <2>2. /\ brain' \in Brains /\ brain'.pc = "save" /\ brain'.state = brain.state
        /\ brain'.collection = brain.collection /\ brain.fresh \subseteq Entries
    BY <1>a, <2>1 DEF Brains, BrainPcs
  <2>3. BrainTypes'
    BY <1>a, <2>1, <2>2 DEF BrainTypes
  <2>4. Accounted \subseteq Accounted'
    <3>1. Queued \subseteq Written \cup lostSections \cup SectionsOf(brain.fresh)
      BY <1>b, <2>1 DEF FilesAccounted, SectionsOf
    <3>2. Queued' = SectionsOf(brain.fresh) /\ Written' = Written
      BY <2>1 DEF Queued, SectionsOf, Written
    <3> QED
      BY <2>1, <3>1, <3>2 DEF Accounted
  <2>5. OnRecord(processed)' /\ OnRecord(brain.state)'
    <3>1. /\ \A f \in Files : processed[f] <= version'[f] /\
                              (processed[f] = version'[f] => Settled(f)')
          /\ \A f \in Files : brain.state[f] <= version'[f] /\
                              (brain.state[f] = version'[f] => Settled(f)')
      BY <1>b, <2>1, <2>4, StaysSettled
    <3> QED
      BY <2>1, <2>2, <3>1 DEF OnRecord
  <2> QED
    BY <2>2, <2>3, <2>5 DEF BrainInv, FilesAccounted
<1>11. CASE SaveBrain
  <2>1. /\ brain.pc = "save" /\ processed' = brain.state
        /\ brain' = [brain EXCEPT !.pc = "orient"]
        /\ UNCHANGED <<version, kept, queue, storing, lostSections>>
    BY <1>11 DEF SaveBrain
  <2>2. /\ brain' \in Brains /\ brain'.pc = "orient" /\ brain'.state = brain.state
        /\ brain'.collection = brain.collection /\ brain.state \in Mtimes
    BY <1>a, <2>1 DEF Brains, BrainPcs
  <2>3. BrainTypes'
    BY <1>a, <2>1, <2>2 DEF BrainTypes
  <2>4. OnRecord(processed)' /\ OnRecord(brain.state)'
    BY <1>b, <2>1, <2>2 DEF OnRecord, Settled, Accounted, Written, Queued
  <2> QED
    BY <2>2, <2>3, <2>4 DEF BrainInv, FilesAccounted
<1>12. CASE Orient \/ EndDream \/ AbortIngest
  <2>1. UNCHANGED <<version, kept, queue, storing, processed, lostSections>>
    BY <1>12 DEF Orient, EndDream, AbortIngest
  <2>2. CASE brain' = Sleeping
    BY <1>c, <1>d, <2>1, <2>2
  <2>3. CASE /\ brain.pc # "idle"
             /\ \E pc \in {"orient", "dream"} : brain' = [brain EXCEPT !.pc = pc]
    <3>1. /\ brain' \in Brains /\ brain'.pc \in {"orient", "dream"}
          /\ brain'.state = brain.state /\ brain'.collection = brain.collection
      BY <1>a, <2>3 DEF Brains, BrainPcs
    <3> QED
      BY <1>a, <1>b, <1>d, <2>1, <2>3, <3>1
  <2> QED
    BY <1>12, <2>2, <2>3 DEF Orient, EndDream, AbortIngest
<1>13. CASE CrashBrain
  <2>1. /\ brain' = Sleeping /\ UNCHANGED <<version, kept, storing>>
        /\ \/ UNCHANGED <<queue, processed, lostSections>>
           \/ /\ brain.pc = "queue" /\ brain.entries = {} /\ processed' = processed
              /\ queue' = {} /\ lostSections' = lostSections \cup SectionsOf(brain.fresh)
           \/ processed' = [f \in Files |-> Damaged] /\ UNCHANGED <<queue, lostSections>>
    BY <1>13 DEF CrashBrain, SectionsOf
  <2>2. queue' \subseteq Entries /\ processed' \in Mtimes
    BY <1>a, <2>1 DEF Mtimes
  <2>3. BrainTypes'
    BY <1>a, <1>c, <2>1, <2>2 DEF BrainTypes
  <2>4. Accounted \subseteq Accounted'
    <3>1. Written' = Written
      BY <2>1 DEF Written
    <3>2. CASE queue' = queue /\ lostSections' = lostSections
      BY <3>1, <3>2 DEF Accounted, Queued
    <3>3. CASE /\ brain.pc = "queue" /\ brain.entries = {}
               /\ lostSections' = lostSections \cup SectionsOf(brain.fresh)
      <4>1. Queued \subseteq Written \cup lostSections \cup SectionsOf(brain.fresh)
        BY <1>b, <3>3 DEF FilesAccounted, SectionsOf
      <4> QED
        BY <3>1, <3>3, <4>1 DEF Accounted
    <3> QED
      BY <2>1, <3>2, <3>3
  <2>5. OnRecord(processed)' /\ OnRecord(brain.state)'
    <3>1. /\ \A f \in Files : processed[f] <= version'[f] /\
                              (processed[f] = version'[f] => Settled(f)')
          /\ \A f \in Files : NoFiles[f] <= version'[f] /\
                              (NoFiles[f] = version'[f] => Settled(f)')
      BY <1>b, <1>c, <2>1, <2>4, StaysSettled
    <3>2. brain'.state = NoFiles
      BY <1>c, <2>1
    <3>3. CASE processed' = processed
      BY <2>1, <3>1, <3>2, <3>3 DEF OnRecord
    <3>4. CASE processed' = [f \in Files |-> Damaged]
      <4>1. \A f \in Files : processed'[f] = -1 /\ version'[f] \in Nat
        BY <1>a, <2>1, <3>4 DEF Damaged
      <4>2. \A f \in Files : processed'[f] <= version'[f] /\ processed'[f] # version'[f]
        BY <4>1
      <4> QED
        BY <3>1, <3>2, <4>2 DEF OnRecord
    <3> QED
      BY <2>1, <3>3, <3>4
  <2> QED
    BY <1>c, <2>1, <2>3, <2>5 DEF BrainInv, FilesAccounted
<1> QED
  BY <1>1, <1>2, <1>3, <1>4, <1>5, <1>6, <1>7, <1>8, <1>9, <1>10, <1>11, <1>12, <1>13
     DEF BrainNext

\* Edits, failures, crashes and damaged state files included, the files on
\* record are settled.
THEOREM BrainInvariant == BrainSpec => []BrainInv
<1>1. BrainInit => BrainInv
  BY BrainInvInit
<1>2. BrainInv /\ [BrainNext]_brainVars => BrainInv'
  BY BrainInvStep
<1> QED
  BY <1>1, <1>2, PTL DEF BrainSpec

\* A file the next run would skip has every section written or queued, but for those
\* whose entry the error queue has lost.
THEOREM OnlyTheQueueLoses == BrainSpec => []AccountedFor
<1>1. BrainInv => AccountedFor
  BY DEF BrainInv, FilesAccounted, OnRecord, Settled, Accounted, AccountedFor
<1> QED
  BY <1>1, BrainInvariant, PTL

-----------------------------------------------------------------------------
(* Consolidations.  The state file holds the time of the last one, or is   *)
(* damaged, and then there is no other.                                    *)

DreamsKept ==
    /\ hour \in Nat /\ dreams \in Seq(Nat)
    /\ dream \in Nat \cup {Damaged, Never}
    /\ dream = Never => dreams = <<>>
    /\ dream \in Nat => dreams # <<>> /\ dreams[Len(dreams)] = dream
    /\ brain.pc = "dream" => dream # Damaged /\ Due
    /\ DreamsSpaced

\* A consolidation that was due when it began still is when it ends: one run at a
\* time, so that only hours pass in between.
LEMMA DreamsKeptStep == BrainInv /\ DreamsKept /\ [BrainNext]_brainVars => DreamsKept'
<1> SUFFICES ASSUME BrainInv, DreamsKept, [BrainNext]_brainVars PROVE DreamsKept'
  OBVIOUS
<1>a. /\ hour \in Nat /\ dreams \in Seq(Nat) /\ Len(dreams) \in Nat
      /\ dream \in Nat \cup {Damaged, Never}
  BY DEF DreamsKept
<1>b. brain \in Brains /\ Sleeping.pc = "idle"
  BY DEF BrainInv, BrainTypes, Sleeping
<1>1. ASSUME UNCHANGED <<hour, dream, dreams>>, brain'.pc = "dream" => brain.pc = "dream"
      PROVE  DreamsKept'
  BY <1>1 DEF DreamsKept, Due, DreamsSpaced
<1>2. ASSUME UNCHANGED <<hour, dream, dreams>>, dream # Damaged, Due PROVE DreamsKept'
  BY <1>2 DEF DreamsKept, Due, DreamsSpaced
<1>3. CASE HourPasses
  <2>1. hour' = hour + 1 /\ UNCHANGED <<dream, dreams, brain>>
    BY <1>3 DEF HourPasses
  <2>2. Due => Due'
    BY <1>a, <2>1, BrainAssumption DEF Due, Damaged, Never
  <2> QED
    BY <1>a, <2>1, <2>2 DEF DreamsKept, DreamsSpaced
<1>4. CASE EndDream
  <2>1. /\ brain.pc = "dream" /\ brain' = Sleeping /\ UNCHANGED hour
        /\ \/ dream' = hour /\ dreams' = Append(dreams, hour)
           \/ UNCHANGED <<dream, dreams>>
    BY <1>4 DEF EndDream
  <2>2. CASE UNCHANGED <<dream, dreams>>
    BY <1>1, <1>b, <2>1, <2>2
  <2>3. CASE dream' = hour /\ dreams' = Append(dreams, hour)
    <3>1. /\ dreams' \in Seq(Nat) /\ Len(dreams') = Len(dreams) + 1
          /\ dreams'[Len(dreams) + 1] = hour
          /\ \A i \in 1..Len(dreams) : dreams'[i] = dreams[i]
      BY <1>a, <2>3
    <3>2. Len(dreams) # 0 => hour - dreams[Len(dreams)] >= DreamMinHours
      BY <1>a, <2>1 DEF DreamsKept, Due
    <3>3. ASSUME NEW i \in 2..Len(dreams')
          PROVE  dreams'[i] - dreams'[i - 1] >= DreamMinHours
      <4>1. CASE i = Len(dreams) + 1
        <5>1. Len(dreams) # 0 /\ i - 1 = Len(dreams) /\ Len(dreams) \in 1..Len(dreams)
          BY <1>a, <4>1
        <5> QED
          BY <3>1, <3>2, <4>1, <5>1
      <4>2. CASE i # Len(dreams) + 1
        <5>1. i \in 2..Len(dreams) /\ i - 1 \in 1..Len(dreams) /\ i \in 1..Len(dreams)
          BY <1>a, <3>1, <4>2
        <5>2. dreams[i] - dreams[i - 1] >= DreamMinHours
          BY <5>1 DEF DreamsKept, DreamsSpaced
        <5> QED
          BY <3>1, <5>1, <5>2
      <4> QED
        BY <4>1, <4>2
    <3>4. DreamsSpaced'
      BY <3>3 DEF DreamsSpaced
    <3>5. dreams' # <<>> /\ dreams'[Len(dreams')] = dream'
      BY <1>a, <2>3, <3>1
    <3>6. dream' \in Nat /\ hour' \in Nat /\ dream' # Never
      BY <1>a, <2>1, <2>3 DEF Never
    <3> QED
      BY <1>b, <2>1, <3>1, <3>4, <3>5, <3>6 DEF DreamsKept
  <2> QED
    BY <2>1, <2>2, <2>3
<1>5. CASE CrashBrain
  <2>1. brain' = Sleeping /\ UNCHANGED <<hour, dreams>> /\ dream' \in {dream, Damaged}
    BY <1>5 DEF CrashBrain
  <2>2. CASE dream' = dream
    BY <1>1, <1>b, <2>1, <2>2
  <2>3. CASE dream' = Damaged
    BY <1>a, <1>b, <2>1, <2>3 DEF DreamsKept, DreamsSpaced, Damaged, Never
  <2> QED
    BY <2>1, <2>2, <2>3
<1>6. CASE Orient
  <2>1. UNCHANGED <<hour, dream, dreams>>
    BY <1>6 DEF Orient
  <2>2. brain' = Sleeping \/ (dream # Damaged /\ Due)
    BY <1>6 DEF Orient
  <2> QED
    BY <1>1, <1>2, <1>b, <2>1, <2>2
<1>7. ASSUME NEW f \in Files, Edit(f) \/ StatFile(f) PROVE DreamsKept'
  <2>1. UNCHANGED <<hour, dream, dreams>>
    BY <1>7 DEF Edit, StatFile
  <2>2. brain'.pc = "dream" => brain.pc = "dream"
    BY <1>b, <1>7 DEF Edit, StatFile, Brains
  <2> QED
    BY <1>1, <2>1, <2>2
<1>8. ASSUME NEW c \in BrainCollections, BeginBrain(c) PROVE DreamsKept'
  <2>1. UNCHANGED <<hour, dream, dreams>> /\ brain'.pc = "files"
    BY <1>8 DEF BeginBrain, Sleeping
  <2> QED
    BY <1>1, <2>1
<1>9. CASE ReadFile \/ EndFile \/ BeginQueue \/ WriteQueue \/ SaveBrain \/ AbortIngest
  <2>1. UNCHANGED <<hour, dream, dreams>>
    BY <1>9 DEF ReadFile, EndFile, BeginQueue, WriteQueue, SaveBrain, AbortIngest
  <2>2. brain'.pc # "dream"
    BY <1>b, <1>9 DEF ReadFile, EndFile, BeginQueue, WriteQueue, SaveBrain, AbortIngest, Brains
  <2> QED
    BY <1>1, <2>1, <2>2
<1>10. ASSUME NEW s \in AllSections, IngestSection(s) PROVE DreamsKept'
  <2>1. UNCHANGED <<hour, dream, dreams>> /\ brain'.pc = brain.pc
    BY <1>b, <1>10 DEF IngestSection, Brains
  <2> QED
    BY <1>1, <2>1
<1>11. ASSUME NEW e \in brain.entries, RetryEntry(e) PROVE DreamsKept'
  <2>1. UNCHANGED <<hour, dream, dreams>> /\ brain'.pc = brain.pc
    BY <1>b, <1>11 DEF RetryEntry, Brains
  <2> QED
    BY <1>1, <2>1
<1>12. CASE UNCHANGED brainVars
  BY <1>1, <1>12 DEF brainVars
<1> QED
  BY <1>3, <1>4, <1>5, <1>6, <1>7, <1>8, <1>9, <1>10, <1>11, <1>12 DEF BrainNext

\* Whatever crashes or fails in between, consolidations end DREAM_MIN_HOURS apart.
THEOREM DreamsAreSpaced == BrainSpec => []DreamsSpaced
<1>1. BrainInit => DreamsKept
  <2> SUFFICES ASSUME BrainInit PROVE DreamsKept
    OBVIOUS
  <2>1. hour = 0 /\ dream = Never /\ dreams = <<>> /\ brain.pc = "idle"
    BY DEF BrainInit, Sleeping
  <2>2. dreams \in Seq(Nat) /\ Len(dreams) = 0
    BY <2>1
  <2>3. DreamsSpaced
    BY <2>2 DEF DreamsSpaced
  <2> QED
    BY <2>1, <2>2, <2>3 DEF DreamsKept, Never, Damaged
<1>2. BrainInv /\ DreamsKept /\ [BrainNext]_brainVars => DreamsKept'
  BY DreamsKeptStep
<1>3. DreamsKept => DreamsSpaced
  BY DEF DreamsKept
<1> QED
  BY <1>1, <1>2, <1>3, BrainInvariant, PTL DEF BrainSpec

\* Hours are bounded, and so are the times of consolidations.
HoursBounded == hour \in 0..MaxHours /\ dream \in {Damaged, Never} \cup 0..MaxHours

\* Types of the files, the queue, the state files and the run.
THEOREM BrainTypeCorrect == BrainSpec => []BrainTypeOK
<1>1. BrainInit => HoursBounded
  BY BrainAssumption DEF BrainInit, HoursBounded, Never
<1>2. HoursBounded /\ [BrainNext]_brainVars => HoursBounded'
  <2> SUFFICES ASSUME HoursBounded, [BrainNext]_brainVars PROVE HoursBounded'
    OBVIOUS
  <2>1. \/ UNCHANGED <<hour, dream>>
        \/ hour < MaxHours /\ hour' = hour + 1 /\ UNCHANGED dream
        \/ UNCHANGED hour /\ dream' \in {hour, Damaged}
    BY DEF BrainNext, HourPasses, Edit, StatFile, BeginBrain, ReadFile, IngestSection, EndFile,
       BeginQueue, RetryEntry, WriteQueue, SaveBrain, Orient, EndDream, AbortIngest, CrashBrain,
       brainVars
  <2>2. hour \in 0..MaxHours /\ MaxHours \in Nat
    BY BrainAssumption DEF HoursBounded
  <2>3. hour' \in 0..MaxHours
    BY <2>1, <2>2
  <2> QED
    BY <2>1, <2>2, <2>3 DEF HoursBounded
<1>3. BrainInv /\ HoursBounded => BrainTypeOK
  <2> SUFFICES ASSUME BrainInv, HoursBounded PROVE BrainTypeOK
    OBVIOUS
  <2>1. BrainTypes /\ OnRecord(processed)
    BY DEF BrainInv, FilesAccounted
  <2>2. /\ \A f \in Files : version[f] \in 1..Len(TextOf[f])
        /\ \A c \in BrainCollections : kept[c] \subseteq AllSections
        /\ \A e \in queue : e.section \in AllSections /\ e.tries \in 0..MaxTries
    BY <2>1 DEF BrainTypes, Entries
  <2>3. ASSUME NEW f \in Files PROVE processed[f] \in {Damaged} \cup 0..Len(TextOf[f])
    <3>1. /\ processed[f] \in Nat \cup {Damaged} /\ processed[f] <= version[f]
          /\ version[f] \in 1..Len(TextOf[f]) /\ Len(TextOf[f]) \in Nat
      BY <2>1, BrainAssumption DEF BrainTypes, OnRecord, Mtimes
    <3> QED
      BY <3>1
  <2> QED
    BY <2>2, <2>3 DEF HoursBounded, BrainTypeOK
<1> QED
  BY <1>1, <1>2, <1>3, BrainInvariant, PTL DEF BrainSpec

-----------------------------------------------------------------------------
(* The jobs on the memories.  A link leads to a memory that is later; what *)
(* a worker has read or plans is fit for the memory it is about, however   *)
(* old it is; and until something fails, the classification of a run has   *)
(* left no memory of its time without a tier.                              *)

\* The order along which links go: the day, and on one day the scroll.
Later(q, p) == DateOf[q] > DateOf[p] \/ (DateOf[q] = DateOf[p] /\ q > p)

\* Where a link may lead: undated memories of one topic can be in two orders.
Forward(q, p) == Later(q, p) \/ Ambiguous(p, q)

\* What the jobs must leave alone.
Untouchable(p) == jobFaults = 0 /\ p \notin late /\ TierOf[p] \in {"core", "long"}

\* A memory that a classification has nothing to set in for its tier.
Tiered(p) == p \in Present /\ (jobFaults = 0 /\ p \notin late => mem[p].tier = TierOf[p])

TierUpdate(p) == [tier |-> TierOf[p]]
LinkUpdate(q) == [status |-> "superseded", by |-> q, reason |-> "similar"]
TagUpdate == [reason |-> "near_duplicate"]
ExpiryUpdate == [status |-> "expired", reason |-> "expired"]
FieldSets == {NoTier, TagUpdate, ExpiryUpdate} \cup {TierUpdate(p) : p \in Memories}
                \cup {LinkUpdate(q) : q \in Memories}
Updates == [id : Memories, set : FieldSets]

Payloads == [status : {"absent", "active", "superseded", "expired"}, by : Memories \cup {0},
             tier : {""} \cup {TierOf[p] : p \in Memories},
             reason : {"", "similar", "near_duplicate", "expired"}]
JobNames == {"none", "classify", "supersede", "expire"}
JobRuns == [job : JobNames, pc : {"idle", "scroll", "apply", "put"}, auto : BOOLEAN,
            topic : BOOLEAN, plan : Seq(SUBSET Updates), id : Memories \cup {0},
            set : FieldSets, got : Payloads]

PayloadFits(p, payload) ==
    /\ payload.status = "superseded" => payload.by \in Memories /\ Forward(payload.by, p)
    /\ payload.tier \in {"", TierOf[p]}
    /\ Untouchable(p) => payload.status \in {"absent", "active"}

\* What a job may set on a memory.
UpdateFits(job, p, set) ==
    \/ job = "classify" /\ (set = TierUpdate(p) \/ (set = NoTier /\ Tiered(p)))
    \/ job = "supersede" /\ set = TagUpdate
    \/ /\ job = "supersede" /\ ~Untouchable(p)
       /\ \E q \in Memories : Forward(q, p) /\ set = LinkUpdate(q)
    \/ job = "expire" /\ ~Untouchable(p) /\ set = ExpiryUpdate

Planned(job) == {u \in Updates : u.id \in Present /\ UpdateFits(job, u.id, u.set)}

PutFits(run) ==
    /\ run.id \in Present /\ UpdateFits(run.job, run.id, run.set)
    /\ PayloadFits(run.id, run.got) /\ run.got.status # "absent"
    /\ jobFaults = 0 /\ (run.job # "classify" \/ run.set = NoTier) /\ run.id \notin late =>
          run.got.tier = TierOf[run.id]

RunFits(run) ==
    /\ run \in JobRuns /\ ((run.job = "none") = (run.pc = "idle"))
    /\ run.plan \in Seq(SUBSET Planned(run.job))
    /\ IF run.pc = "put" THEN PutFits(run) ELSE run.id = 0

\* A memory whose classification the run has planned and not yet finished.
InHand(run, p) ==
    \/ run.pc = "put" /\ run.id = p
    \/ \E i \in DOMAIN run.plan : \E u \in run.plan[i] : u.id = p

TiersWritten(run) ==
    jobFaults = 0 =>
        \A p \in Present \ late :
            \/ run.job = "none"
            \/ run.job = "classify" /\ run.pc = "scroll"
            \/ mem[p].tier = TierOf[p]
            \/ run.job = "classify" /\ InHand(run, p)

\* What is read goes no further than what is there, and the other way round: the
\* pipeline alone puts memories away, and the dashboard alone overtakes it.  A summary
\* may be written anew in between.
PutAway == {"superseded", "expired"}
ReadsInOrder ==
    /\ LET run == worker["dashboard"] IN
          run.pc = "put" /\ run.id \notin Summaries /\ run.got.status \in PutAway =>
             mem[run.id].status \in PutAway
    /\ LET run == worker["pipeline"] IN
          run.pc = "put" /\ run.id \notin Summaries /\ run.got.status = "active" =>
             mem[run.id].status = "active"

JobsInv ==
    /\ mem \in [Memories -> Payloads] /\ jobFaults \in Nat
    /\ DOMAIN worker = Workers
    /\ \A p \in Memories : PayloadFits(p, mem[p])
    /\ \A w \in Workers : RunFits(worker[w])
    /\ worker["dashboard"].job \in {"none", "classify"}
    /\ TiersWritten(worker["pipeline"]) /\ ReadsInOrder

\* Steps only add memories, latecomers and failures, so what was fit stays so.
LEMMA JobsGrow ==
  ASSUME Present \subseteq Present', late \subseteq late', jobFaults' = 0 => jobFaults = 0,
         \A p : Tiered(p) => Tiered(p)'
  PROVE  /\ \A p : Untouchable(p)' => Untouchable(p)
         /\ \A p, x : PayloadFits(p, x) => PayloadFits(p, x)'
         /\ \A job, p, set : UpdateFits(job, p, set) => UpdateFits(job, p, set)'
         /\ \A job : Planned(job) \subseteq Planned(job)'
         /\ \A run : RunFits(run) => RunFits(run)'
<1>1. \A p : Untouchable(p)' => Untouchable(p)
  BY DEF Untouchable
<1>2. \A p, x : PayloadFits(p, x) => PayloadFits(p, x)'
  BY <1>1 DEF PayloadFits
<1>3. \A job, p, set : UpdateFits(job, p, set) => UpdateFits(job, p, set)'
  BY <1>1 DEF UpdateFits
<1>4. \A job : Planned(job) \subseteq Planned(job)'
  BY <1>3 DEF Planned
<1>5. \A run : PutFits(run) => PutFits(run)'
  BY <1>2, <1>3 DEF PutFits
<1>6. ASSUME NEW run, RunFits(run) PROVE RunFits(run)'
  <2>1. run.plan \in Seq(SUBSET Planned(run.job)')
    <3>1. SUBSET Planned(run.job) \subseteq SUBSET Planned(run.job)'
      BY <1>4
    <3>2. run.plan \in Seq(SUBSET Planned(run.job))
      BY <1>6 DEF RunFits
    <3> QED
      BY <3>1, <3>2
  <2> QED
    BY <1>5, <1>6, <2>1 DEF RunFits
<1> QED
  BY <1>1, <1>2, <1>3, <1>4, <1>6

\* Writing a fitting update over a fitting payload gives a fitting payload.
LEMMA MergeFits ==
  ASSUME NEW p \in Memories, NEW x \in Payloads, NEW job, NEW set,
         PayloadFits(p, x), x.status # "absent", UpdateFits(job, p, set)
  PROVE  /\ MergedPayload(x, set) \in Payloads /\ PayloadFits(p, MergedPayload(x, set))
         /\ MergedPayload(x, set).status # "absent"
         /\ \/ MergedPayload(x, set).status = x.status
            \/ MergedPayload(x, set).status \in PutAway /\ job # "classify"
         /\ job = "classify" /\ set # NoTier => MergedPayload(x, set).tier = TierOf[p]
         /\ job # "classify" \/ set = NoTier => MergedPayload(x, set).tier = x.tier
<1> DEFINE y == MergedPayload(x, set)
<1>1. ASSUME job = "classify", set = TierUpdate(p)
      PROVE  /\ y \in Payloads /\ PayloadFits(p, y) /\ y.status = x.status
             /\ y.tier = TierOf[p] /\ set # NoTier
  <2>1. /\ y \in Payloads /\ y.status = x.status /\ y.by = x.by /\ y.tier = TierOf[p]
    BY <1>1 DEF MergedPayload, Payloads, TierUpdate
  <2>2. set # NoTier
    <3>1. DOMAIN TierUpdate(p) = {"tier"} /\ DOMAIN NoTier = {}
      BY DEF TierUpdate, NoTier
    <3> QED
      BY <1>1, <3>1
  <2> QED
    BY <1>1, <2>1, <2>2 DEF PayloadFits
<1>0. ASSUME job = "classify", set = NoTier
      PROVE  /\ y \in Payloads /\ PayloadFits(p, y) /\ y.status = x.status
             /\ y.tier = x.tier
  <2>1. /\ y \in Payloads /\ y.status = x.status /\ y.by = x.by /\ y.tier = x.tier
    BY <1>0 DEF MergedPayload, Payloads, NoTier
  <2> QED
    BY <1>0, <2>1 DEF PayloadFits
<1>2. ASSUME job = "supersede", set = TagUpdate
      PROVE  /\ y \in Payloads /\ PayloadFits(p, y) /\ y.status = x.status /\ y.tier = x.tier
  <2>1. /\ y \in Payloads /\ y.status = x.status /\ y.by = x.by /\ y.tier = x.tier
    BY <1>2 DEF MergedPayload, Payloads, TagUpdate
  <2> QED
    BY <1>2, <2>1 DEF PayloadFits
<1>3. ASSUME job = "supersede", ~Untouchable(p), NEW q \in Memories, Forward(q, p),
             set = LinkUpdate(q)
      PROVE  /\ y \in Payloads /\ PayloadFits(p, y) /\ y.status # "absent"
             /\ y.status \in PutAway /\ y.tier = x.tier
  <2>1. /\ y \in Payloads /\ y.status = "superseded" /\ y.by = q /\ y.tier = x.tier
    BY <1>3 DEF MergedPayload, Payloads, LinkUpdate
  <2> QED
    BY <1>3, <2>1 DEF PayloadFits, PutAway
<1>4. ASSUME job = "expire", ~Untouchable(p), set = ExpiryUpdate
      PROVE  /\ y \in Payloads /\ PayloadFits(p, y) /\ y.status # "absent"
             /\ y.status \in PutAway /\ y.tier = x.tier
  <2>1. /\ y \in Payloads /\ y.status = "expired" /\ y.tier = x.tier
    BY <1>4 DEF MergedPayload, Payloads, ExpiryUpdate
  <2> QED
    BY <1>4, <2>1 DEF PayloadFits, PutAway
<1> HIDE DEF y
<1>5. /\ y \in Payloads /\ PayloadFits(p, y) /\ y.status # "absent"
      /\ y.status = x.status \/ (y.status \in PutAway /\ job # "classify")
      /\ job = "classify" /\ set # NoTier => y.tier = TierOf[p]
      /\ job # "classify" \/ set = NoTier => y.tier = x.tier
  BY <1>0, <1>1, <1>2, <1>3, <1>4 DEF UpdateFits
<1> QED
  BY <1>5 DEF y

\* What the classification plans covers every memory without its tier.
LEMMA ClassifyPlanFits ==
  ASSUME NEW plan \in ClassifyPlans
  PROVE  /\ plan \in Seq(SUBSET Planned("classify"))
         /\ \A p \in Present : mem[p].tier # TierOf[p] =>
               \E i \in DOMAIN plan : \E u \in plan[i] : u.id = p
<1> DEFINE differing == {p \in Present : mem[p].tier # TierOf[p]}
           tiers == {[id |-> p, set |-> [tier |-> TierOf[p]]] : p \in differing}
           rest(others) == {[id |-> p, set |-> NoTier] : p \in others}
<1>1. PICK others \in SUBSET ((Present \ differing) \cap Drifting) :
         plan = <<tiers \cup rest(others)>>
  BY DEF ClassifyPlans
<1> DEFINE batch == tiers \cup rest(others)
<1>2. tiers \subseteq Planned("classify")
  BY DEF Planned, Updates, FieldSets, UpdateFits, TierUpdate, Present
<1>3. rest(others) \subseteq Planned("classify")
  <2>1. ASSUME NEW p \in others PROVE [id |-> p, set |-> NoTier] \in Planned("classify")
    <3>1. p \in Present /\ p \in Memories /\ Tiered(p)
      BY <1>1 DEF Tiered, Present
    <3> QED
      BY <3>1 DEF Planned, Updates, FieldSets, UpdateFits
  <2> QED
    BY <2>1
<1>4. ASSUME NEW p \in Present, mem[p].tier # TierOf[p] PROVE \E u \in batch : u.id = p
  <2>1. [id |-> p, set |-> [tier |-> TierOf[p]]] \in batch
    BY <1>4
  <2>2. [id |-> p, set |-> [tier |-> TierOf[p]]].id = p
    OBVIOUS
  <2> QED
    BY <2>1, <2>2
<1>5. plan = <<batch>> /\ batch \subseteq Planned("classify")
  BY <1>1, <1>2, <1>3
<1> HIDE DEF batch
<1>6. DOMAIN <<batch>> = {1} /\ <<batch>>[1] = batch
  OBVIOUS
<1> QED
  BY <1>4, <1>5, <1>6

\* A link leads to a later memory, and away from none that is protected.
LEMMA LinksFit ==
  ASSUME NEW link \in TopicLinks \cup ContentLinks,
         \A p \in Present : Untouchable(p) => mem[p].tier = TierOf[p]
  PROVE  /\ link[1] \in Present /\ link[2] \in Memories /\ Forward(link[2], link[1])
         /\ ~Untouchable(link[1])
<1> DEFINE old == link[1]
           new == link[2]
<1>1. CASE link \in TopicLinks
  <2>1. /\ old \in NotSuperseded /\ new \in NotSuperseded
        /\ TopicOf[old] # "none" /\ ~Protected(old)
        /\ old # new /\ TopicOf[old] = TopicOf[new]
    BY <1>1 DEF TopicLinks
  <2>2. \/ DateOf[new] > DateOf[old]
        \/ DateOf[new] = DateOf[old] /\ TextRank[new] > TextRank[old]
    <3> DEFINE Items == {p \in NotSuperseded : TopicOf[p] # "none" /\ ~Protected(p)}
               Newer(p, q) == \/ DateOf[p] > DateOf[q]
                              \/ DateOf[p] = DateOf[q] /\ TextRank[p] > TextRank[q]
    <3>1. \A q \in Items \ {new} : TopicOf[q] = TopicOf[new] => Newer(new, q)
      BY <1>1 DEF TopicLinks
    <3>2. old \in Items \ {new}
      BY <2>1
    <3>3. Newer(new, old)
      <4> HIDE DEF Items, Newer
      <4> QED
        BY <2>1, <3>1, <3>2
    <3> QED
      BY <3>3
  <2>3. ~(DateOf[new] # 0 /\ DateOf[old] # 0 /\ DateOf[new] - DateOf[old] < Gap)
    BY <1>1 DEF TopicLinks
  <2>4. old \in Present /\ new \in Present /\ Present \subseteq Memories
    BY <2>1 DEF NotSuperseded, Present
  <2>5. DateOf[old] \in Nat /\ DateOf[new] \in Nat /\ Gap \in Nat /\ Gap > 0
    <3>1. DateOf \in [Memories -> Nat] /\ Gap \in Nat \ {0}
      BY JobsAssumption
    <3>2. Gap \in Nat /\ Gap > 0
      BY <3>1
    <3>3. DateOf[old] \in Nat /\ DateOf[new] \in Nat
      BY <2>4, <3>1
    <3> QED
      BY <3>2, <3>3
  <2>6. Forward(new, old)
    <3>1. CASE DateOf[new] = DateOf[old]
      <4>1. DateOf[new] = 0 /\ DateOf[old] = 0
        BY <2>3, <2>5, <3>1
      <4>2. TextRank[new] > TextRank[old]
        BY <2>2, <2>5, <3>1
      <4>3. new \in Nat /\ old \in Nat
        BY <2>4, JobsAssumption
      <4>4. new > old \/ new < old
        BY <2>1, <4>3
      <4> QED
        BY <2>1, <3>1, <4>1, <4>2, <4>4 DEF Forward, Later, Ambiguous
    <3> QED
      BY <2>2, <3>1 DEF Forward, Later
  <2> QED
    BY <2>1, <2>4, <2>6 DEF Protected, Untouchable
<1>2. CASE link \in ContentLinks
  <2>1. PICK pair \in Pairs(Alike) : Mergeable(pair) /\ link = Link(pair)
    BY <1>2 DEF ContentLinks
  <2>2. /\ pair \in Alike /\ pair[1] \in Present /\ pair[2] \in Present
        /\ ~Protected(pair[1]) /\ ~Protected(pair[2]) /\ Present \subseteq Memories
    BY <2>1 DEF Pairs, NotSuperseded, Mergeable, Present
  <2>3. /\ pair[1] < pair[2] /\ pair[1] \in Nat /\ pair[2] \in Nat
        /\ DateOf[pair[1]] \in Nat /\ DateOf[pair[2]] \in Nat
    BY <2>2, JobsAssumption
  <2>4. \/ old = pair[2] /\ new = pair[1] /\ DateOf[pair[1]] > DateOf[pair[2]]
        \/ old = pair[1] /\ new = pair[2] /\ ~(DateOf[pair[1]] > DateOf[pair[2]])
    BY <2>1 DEF Link
  <2>5. Forward(new, old)
    BY <2>3, <2>4 DEF Forward, Later
  <2> QED
    BY <2>2, <2>4, <2>5 DEF Protected, Untouchable
<1> QED
  BY <1>1, <1>2

\* So is everything the supersession plans fit, capped or not.
LEMMA SupersedePlanFits ==
  ASSUME NEW auto, NEW topic, NEW plan \in SupersedePlans(auto, topic),
         \A p \in Present : Untouchable(p) => mem[p].tier = TierOf[p]
  PROVE  plan \in Seq(SUBSET Planned("supersede"))
<1> DEFINE tagged == NearDuplicates \cup
                     (IF auto THEN {} ELSE UNION {{l[1], l[2]} : l \in ContentLinks})
           topicLinks == IF topic THEN TopicLinks ELSE {}
           contentLinks == IF auto THEN ContentLinks ELSE {}
           superseding(links) ==
             {[id |-> l[1], set |-> [status |-> "superseded", by |-> l[2], reason |-> "similar"]] :
                l \in links}
           tagging == {[id |-> p, set |-> [reason |-> "near_duplicate"]] : p \in tagged}
<1>1. PICK links \in UNION {Capped(m) : m \in Merges(topicLinks, contentLinks)} :
         plan = <<superseding(links), tagging>>
  BY DEF SupersedePlans
<1>2. links \subseteq TopicLinks \cup ContentLinks
  <2>1. PICK m \in Merges(topicLinks, contentLinks) : links \in Capped(m)
    BY <1>1
  <2>2. links \subseteq m
    BY <2>1 DEF Capped
  <2>3. m \subseteq topicLinks \cup contentLinks
    <3> HIDE DEF topicLinks, contentLinks
    <3> QED
      BY <2>1 DEF Merges
  <2> QED
    BY <2>2, <2>3
<1>3. superseding(links) \subseteq Planned("supersede")
  <2>1. ASSUME NEW l \in links
        PROVE  [id |-> l[1], set |-> LinkUpdate(l[2])] \in Planned("supersede")
    <3>1. /\ l[1] \in Present /\ l[2] \in Memories /\ Forward(l[2], l[1]) /\ ~Untouchable(l[1])
      BY <1>2, LinksFit
    <3>2. LinkUpdate(l[2]) \in FieldSets /\ l[1] \in Memories
      BY <3>1 DEF FieldSets, Present
    <3>3. UpdateFits("supersede", l[1], LinkUpdate(l[2]))
      BY <3>1 DEF UpdateFits
    <3> QED
      BY <3>1, <3>2, <3>3 DEF Planned, Updates
  <2> QED
    BY <2>1 DEF LinkUpdate
<1>4. tagged \subseteq Present
  <2>1. ASSUME NEW S, NEW pair \in Pairs(S) PROVE pair[1] \in Present /\ pair[2] \in Present
    BY DEF Pairs, NotSuperseded
  <2>2. NearDuplicates \subseteq Present
    BY <2>1 DEF NearDuplicates
  <2>3. ASSUME NEW l \in ContentLinks PROVE l[1] \in Present /\ l[2] \in Present
    BY <2>1 DEF ContentLinks, Link
  <2> QED
    BY <2>2, <2>3
<1>5. tagging \subseteq Planned("supersede")
  <2>1. ASSUME NEW p \in Present PROVE [id |-> p, set |-> TagUpdate] \in Planned("supersede")
    BY DEF Planned, Updates, FieldSets, UpdateFits, Present
  <2> HIDE DEF tagged
  <2> QED
    BY <1>4, <2>1 DEF TagUpdate
<1> HIDE DEF superseding, tagging
<1> QED
  BY <1>1, <1>3, <1>5

\* Only working memories expire.
LEMMA ExpirePlanFits ==
  ASSUME \A p \in Present : Untouchable(p) => mem[p].tier = TierOf[p]
  PROVE  ExpirePlan \in Seq(SUBSET Planned("expire"))
<1> DEFINE batch == {[id |-> p, set |-> [status |-> "expired", reason |-> "expired"]] :
                       p \in {q \in Present : mem[q].status # "expired" /\ mem[q].tier = "working"
                                                /\ q \in Expirable}}
<1>1. ASSUME NEW p \in Present, mem[p].tier = "working"
      PROVE  [id |-> p, set |-> ExpiryUpdate] \in Planned("expire")
  BY <1>1 DEF Planned, Updates, FieldSets, UpdateFits, Untouchable, Present
<1>2. batch \subseteq Planned("expire")
  BY <1>1 DEF ExpiryUpdate
<1>3. ExpirePlan = <<batch>>
  BY DEF ExpirePlan
<1> HIDE DEF batch
<1> QED
  BY <1>2, <1>3

\* The records a step leaves in a worker.
LEMMA RestingFits == Resting \in JobRuns /\ RunFits(Resting) /\ TiersWritten(Resting)
<1>1. Absent \in Payloads /\ NoTier \in FieldSets
  BY DEF Absent, Payloads, FieldSets
<1>2. Resting \in JobRuns /\ Resting.job = "none" /\ Resting.pc = "idle" /\ Resting.id = 0
      /\ Resting.plan = <<>>
  BY <1>1 DEF Resting, JobRuns, JobNames, NoTier
<1> QED
  BY <1>2 DEF RunFits, TiersWritten

\* A step of one worker that leaves the memories alone.
LEMMA WorkerMoves ==
  ASSUME JobsInv, NEW w \in Workers,
         UNCHANGED <<mem, late>>, jobFaults' \in {jobFaults, jobFaults + 1},
         DOMAIN worker' = Workers, \A v \in Workers : v # w => worker'[v] = worker[v],
         RunFits(worker'[w]),
         w = "dashboard" => worker'[w].job \in {"none", "classify"},
         w = "pipeline" /\ jobFaults' = jobFaults => TiersWritten(worker'[w]),
         worker'[w].pc = "put" => worker'[w].got = mem[worker'[w].id]
  PROVE  JobsInv'
<1>1. /\ mem \in [Memories -> Payloads] /\ jobFaults \in Nat
      /\ \A p \in Memories : PayloadFits(p, mem[p])
      /\ \A v \in Workers : RunFits(worker[v])
      /\ worker["dashboard"].job \in {"none", "classify"}
      /\ TiersWritten(worker["pipeline"]) /\ ReadsInOrder
  BY DEF JobsInv
<1>2. jobFaults' \in Nat /\ (jobFaults' = 0 => jobFaults = 0 /\ jobFaults' = jobFaults)
  BY <1>1
<1>3. Present' = Present /\ late' = late
  BY DEF Present
<1>4. /\ \A p, x : PayloadFits(p, x) => PayloadFits(p, x)'
      /\ \A run : RunFits(run) => RunFits(run)'
  <2>1. \A p : Tiered(p) => Tiered(p)'
    BY <1>2, <1>3 DEF Tiered
  <2> QED
    BY <1>2, <1>3, <2>1, JobsGrow
<1>5. \A p \in Memories : PayloadFits(p, mem[p])'
  BY <1>1, <1>4
<1>6. ASSUME NEW v \in Workers PROVE RunFits(worker[v])'
  <2>1. RunFits(worker'[v])
    BY <1>1
  <2> QED
    BY <1>4, <2>1
<1>7. "dashboard" \in Workers /\ "pipeline" \in Workers
  BY DEF Workers
<1>8. worker'["dashboard"].job \in {"none", "classify"}
  BY <1>1, <1>7
<1>9. TiersWritten(worker["pipeline"])'
  <2>1. jobFaults' = jobFaults => TiersWritten(worker'["pipeline"])
    BY <1>1, <1>7
  <2> QED
    BY <1>2, <1>3, <2>1 DEF TiersWritten, InHand
<1>10. ReadsInOrder'
  <2>1. ASSUME NEW v \in Workers
        PROVE  worker'[v] = worker[v]
                 \/ (worker'[v].pc = "put" => worker'[v].got.status = mem[worker'[v].id].status)
    BY <2>1
  <2> QED
    BY <1>1, <1>7, <2>1 DEF ReadsInOrder
<1> QED
  BY <1>1, <1>2, <1>5, <1>6, <1>8, <1>9, <1>10 DEF JobsInv

\* Nothing is planned at the start, and no memory has a tier.
LEMMA JobsInvInit == JobsInit => JobsInv
<1> SUFFICES ASSUME JobsInit PROVE JobsInv
  OBVIOUS
<1>1. /\ mem = [p \in Memories |-> IF p \in InitialMemories THEN New ELSE Absent]
      /\ worker = [w \in Workers |-> Resting] /\ jobFaults = 0
  BY DEF JobsInit
<1>2. /\ New \in Payloads /\ Absent \in Payloads
      /\ \A p : PayloadFits(p, New) /\ PayloadFits(p, Absent)
  BY DEF New, Absent, Payloads, PayloadFits
<1>3. /\ mem \in [Memories -> Payloads] /\ \A p \in Memories : PayloadFits(p, mem[p])
  BY <1>1, <1>2
<1>4. Resting.job = "none" /\ Resting.pc = "idle"
  BY DEF Resting
<1>5. "dashboard" \in Workers /\ "pipeline" \in Workers
  BY DEF Workers
<1>6. /\ \A w \in Workers : RunFits(worker[w])
      /\ worker["dashboard"].job = "none" /\ TiersWritten(worker["pipeline"])
  BY <1>1, <1>4, <1>5, RestingFits
<1>7. ReadsInOrder
  BY <1>1, <1>4, <1>5 DEF ReadsInOrder
<1> QED
  BY <1>1, <1>3, <1>6, <1>7 DEF JobsInv

\* The next job of a worker, when the one before it failed or is through.
LEMMA AdvanceFits ==
  ASSUME JobsInv, NEW w \in Workers, Advance(w), UNCHANGED <<mem, late>>,
         jobFaults' \in {jobFaults, jobFaults + 1},
         worker[w].job # "none", worker[w].pc \in {"scroll", "apply"},
         jobFaults' = jobFaults => worker[w].pc = "apply" /\ worker[w].plan = <<>>
  PROVE  JobsInv'
<1> DEFINE job == NextJob(w, worker[w].job)
           r == IF job = "none" THEN Resting
                ELSE [worker[w] EXCEPT !.job = job, !.pc = "scroll", !.plan = <<>>]
<1>1. /\ DOMAIN worker = Workers /\ RunFits(worker[w])
      /\ worker["dashboard"].job \in {"none", "classify"}
      /\ TiersWritten(worker["pipeline"])
  BY DEF JobsInv
<1>2. worker[w] \in JobRuns /\ worker[w].job \in JobNames /\ worker[w].id = 0
  BY <1>1 DEF RunFits, JobRuns
<1>3. worker' = [worker EXCEPT ![w] = r]
  BY DEF Advance
<1>4. job \in JobNames /\ (w = "dashboard" => job = "none") /\ job # "classify"
  BY <1>2 DEF NextJob, Workers, JobNames
<1>5. RunFits(r) /\ r.job = job /\ r.pc # "put" /\ r.id = 0 /\ (job # "none" => r.pc = "scroll")
  <2>1. CASE job = "none"
    BY <2>1, RestingFits DEF Resting
  <2>2. CASE job # "none"
    <3>1. /\ r \in JobRuns /\ r.job = job /\ r.pc = "scroll" /\ r.plan = <<>> /\ r.id = 0
      <4> DEFINE x == worker[w]
      <4>1. r = [x EXCEPT !.job = job, !.pc = "scroll", !.plan = <<>>]
        BY <2>2
      <4>2. x \in JobRuns /\ job \in JobNames /\ x.id = 0 /\ <<>> \in Seq(SUBSET Updates)
        BY <1>2, <1>4
      <4> HIDE DEF job, r, x
      <4> QED
        BY <4>1, <4>2 DEF JobRuns
    <3> HIDE DEF r, job
    <3> QED
      BY <2>2, <3>1 DEF RunFits
  <2> QED
    BY <2>1, <2>2
<1>6. ASSUME w = "pipeline", jobFaults' = jobFaults PROVE TiersWritten(r)
  <2>1. worker[w].pc = "apply" /\ ~(\E p : InHand(worker[w], p))
    BY <1>6 DEF InHand
  <2> QED
    BY <1>1, <1>6, <2>1 DEF TiersWritten
<1> HIDE DEF r, job
<1>7. worker'[w] = r /\ DOMAIN worker' = Workers
      /\ \A v \in Workers : v # w => worker'[v] = worker[v]
  BY <1>1, <1>3
<1> QED
  BY <1>4, <1>5, <1>6, <1>7, WorkerMoves

\* A failure is counted, and none is taken back.
LEMMA FaultCounts ==
  ASSUME jobFaults \in Nat, jobFaults' = jobFaults + 1
  PROVE  jobFaults' \in Nat /\ jobFaults' # 0 /\ jobFaults' # jobFaults
OBVIOUS

\* Planning: whatever Plans offers is fit.
LEMMA PlansFit ==
  ASSUME JobsInv, NEW w \in Workers, worker[w].pc = "scroll", NEW plan \in Plans(w)
  PROVE  /\ plan \in Seq(SUBSET Planned(worker[w].job))
         /\ worker[w].job = "classify" => plan \in ClassifyPlans
<1>1. /\ RunFits(worker[w]) /\ worker["dashboard"].job \in {"none", "classify"}
      /\ TiersWritten(worker["pipeline"])
  BY DEF JobsInv
<1>2. worker[w].job \in {"classify", "supersede", "expire"}
  BY <1>1 DEF RunFits, JobRuns, JobNames
<1>3. ASSUME worker[w].job # "classify"
      PROVE  \A p \in Present : Untouchable(p) => mem[p].tier = TierOf[p]
  <2>1. w = "pipeline" /\ worker[w].job \notin {"none", "classify"}
    BY <1>1, <1>2, <1>3 DEF Workers
  <2> QED
    BY <1>1, <2>1 DEF TiersWritten, Untouchable
<1>4. CASE worker[w].job = "classify"
  <2>1. plan \in ClassifyPlans
    BY <1>4 DEF Plans
  <2> QED
    BY <1>4, <2>1, ClassifyPlanFits
<1>5. CASE worker[w].job = "supersede"
  <2>1. plan \in SupersedePlans(worker[w].auto, worker[w].topic)
    BY <1>5 DEF Plans
  <2>2. plan \in Seq(SUBSET Planned("supersede"))
    BY <1>3, <1>5, <2>1, SupersedePlanFits
  <2> QED
    BY <1>5, <2>2
<1>6. CASE worker[w].job = "expire"
  <2>1. plan = ExpirePlan
    BY <1>6 DEF Plans
  <2>2. plan \in Seq(SUBSET Planned("expire"))
    BY <1>3, <1>6, <2>1, ExpirePlanFits
  <2> QED
    BY <1>6, <2>2
<1> QED
  BY <1>2, <1>4, <1>5, <1>6

\* A scroll plans, or fails and gives its turn to the next job.
LEMMA ScrollKeeps == ASSUME JobsInv, NEW w \in Workers, Scroll(w) PROVE JobsInv'
<1>1. /\ worker[w].pc = "scroll" /\ UNCHANGED <<mem, late>> /\ jobFaults \in Nat
      /\ DOMAIN worker = Workers /\ RunFits(worker[w])
      /\ worker["dashboard"].job \in {"none", "classify"}
      /\ TiersWritten(worker["pipeline"])
  BY DEF Scroll, JobsInv
<1>2. worker[w] \in JobRuns /\ worker[w].job # "none" /\ worker[w].id = 0
  BY <1>1 DEF RunFits
<1>3. ASSUME NEW plan \in Plans(w), jobFaults' = jobFaults,
             worker' = [worker EXCEPT ![w].pc = "apply", ![w].plan = plan]
      PROVE  JobsInv'
  <2> DEFINE r == [worker[w] EXCEPT !.pc = "apply", !.plan = plan]
  <2>1. worker' = [worker EXCEPT ![w] = r]
    BY <1>1, <1>3
  <2>2. /\ plan \in Seq(SUBSET Planned(worker[w].job))
        /\ worker[w].job = "classify" => plan \in ClassifyPlans
    BY <1>1, PlansFit
  <2>3. /\ r.job = worker[w].job /\ r.pc = "apply" /\ r.plan = plan /\ r.id = 0
        /\ r \in JobRuns
    <3>1. SUBSET Planned(worker[w].job) \subseteq SUBSET Updates
      BY DEF Planned
    <3>2. plan \in Seq(SUBSET Updates)
      BY <2>2, <3>1
    <3> QED
      BY <1>2, <3>2 DEF JobRuns
  <2> HIDE DEF r
  <2>4. RunFits(r)
    BY <1>2, <2>2, <2>3 DEF RunFits
  <2>5. ASSUME w = "pipeline" PROVE TiersWritten(r)
    <3>1. CASE r.job = "classify"
      BY <2>2, <2>3, <3>1, ClassifyPlanFits DEF TiersWritten, InHand
    <3>2. CASE r.job # "classify"
      BY <1>1, <1>2, <2>3, <2>5, <3>2 DEF TiersWritten
    <3> QED
      BY <3>1, <3>2
  <2>6. worker'[w] = r /\ DOMAIN worker' = Workers
        /\ \A v \in Workers : v # w => worker'[v] = worker[v]
    BY <1>1, <2>1
  <2>7. w = "dashboard" => r.job \in {"none", "classify"}
    BY <1>1, <2>3
  <2> QED
    BY <1>1, <1>3, <2>3, <2>4, <2>5, <2>6, <2>7, WorkerMoves
<1>4. CASE JobFault /\ Advance(w)
  <2>1. jobFaults' = jobFaults + 1 /\ jobFaults' # jobFaults
    BY <1>1, <1>4 DEF JobFault
  <2> QED
    BY <1>1, <1>2, <1>4, <2>1, AdvanceFits
<1> QED
  BY <1>3, <1>4 DEF Scroll

\* A GET takes one update out of the plan into the hand, or drops it.
LEMMA GetKeeps ==
  ASSUME JobsInv, NEW w \in Workers, worker[w].plan # <<>>, NEW u \in Head(worker[w].plan),
         Get(w, u)
  PROVE  JobsInv'
<1> DEFINE plan == worker[w].plan
           rest == [plan EXCEPT ![1] = @ \ {u}]
           taken == [worker[w] EXCEPT !.pc = "put", !.plan = rest, !.id = u.id, !.set = u.set,
                                      !.got = mem[u.id]]
           skipped == [worker[w] EXCEPT !.plan = rest]
<1>1. /\ worker[w].pc = "apply" /\ UNCHANGED <<mem, late>> /\ jobFaults \in Nat
      /\ DOMAIN worker = Workers /\ RunFits(worker[w])
      /\ worker["dashboard"].job \in {"none", "classify"}
      /\ TiersWritten(worker["pipeline"])
      /\ mem \in [Memories -> Payloads] /\ \A p \in Memories : PayloadFits(p, mem[p])
  BY DEF Get, JobsInv
<1>2. worker[w] \in JobRuns /\ worker[w].job # "none" /\ worker[w].id = 0
      /\ plan \in Seq(SUBSET Planned(worker[w].job)) /\ plan # <<>>
  BY <1>1 DEF RunFits
<1>3. /\ Head(plan) \in SUBSET Planned(worker[w].job) /\ Head(plan) = plan[1]
      /\ plan[1] \ {u} \in SUBSET Planned(worker[w].job)
      /\ u \in Planned(worker[w].job)
  <2> HIDE DEF plan
  <2>1. Head(plan) \in SUBSET Planned(worker[w].job) /\ Head(plan) = plan[1]
    BY <1>2
  <2>2. u \in plan[1]
    BY <2>1 DEF plan
  <2> QED
    BY <2>1, <2>2
<1>4. /\ rest \in Seq(SUBSET Planned(worker[w].job))
      /\ rest[1] = plan[1] \ {u} /\ DOMAIN rest = DOMAIN plan
      /\ \A i \in DOMAIN plan : i # 1 => rest[i] = plan[i]
  <2> HIDE DEF plan
  <2> QED
    BY <1>2, <1>3
<1>5. rest \in Seq(SUBSET Updates)
  <2>1. SUBSET Planned(worker[w].job) \subseteq SUBSET Updates
    BY DEF Planned
  <2> HIDE DEF rest
  <2> QED
    BY <1>4, <2>1
<1>6. /\ u.id \in Memories /\ u.set \in FieldSets /\ u.id \in Present
      /\ UpdateFits(worker[w].job, u.id, u.set) /\ mem[u.id] \in Payloads
  BY <1>1, <1>3 DEF Planned, Updates
<1>7. ASSUME jobFaults' = jobFaults, worker' = [worker EXCEPT ![w] = taken] PROVE JobsInv'
  <2>1. /\ taken \in JobRuns /\ taken.job = worker[w].job /\ taken.pc = "put"
        /\ taken.plan = rest /\ taken.id = u.id /\ taken.set = u.set /\ taken.got = mem[u.id]
    <3> HIDE DEF rest
    <3> QED
      BY <1>2, <1>5, <1>6 DEF JobRuns
  <2> HIDE DEF taken
  <2>2. PutFits(taken)
    <3>1. mem[u.id].status # "absent" /\ PayloadFits(u.id, mem[u.id])
      BY <1>1, <1>6 DEF Present
    <3>2. jobFaults = 0 /\ (worker[w].job # "classify" \/ u.set = NoTier) /\ u.id \notin late =>
            mem[u.id].tier = TierOf[u.id]
      <4>1. worker[w].job # "classify" => w = "pipeline"
        BY <1>1, <1>2 DEF Workers
      <4>2. worker[w].job = "classify" /\ u.set = NoTier => Tiered(u.id)
        <5>1. DOMAIN TierUpdate(u.id) = {"tier"} /\ DOMAIN NoTier = {}
          BY DEF TierUpdate, NoTier
        <5> QED
          BY <1>6, <5>1 DEF UpdateFits
      <4> QED
        BY <1>1, <1>2, <1>6, <4>1, <4>2 DEF TiersWritten, Tiered
    <3> QED
      BY <1>6, <2>1, <3>1, <3>2 DEF PutFits
  <2>3. RunFits(taken)
    BY <1>2, <1>4, <2>1, <2>2 DEF RunFits
  <2>4. ASSUME w = "pipeline" PROVE TiersWritten(taken)
    <3>1. ASSUME NEW p, InHand(worker[w], p) PROVE InHand(taken, p)
      <4>1. PICK i \in DOMAIN plan : \E x \in plan[i] : x.id = p
        BY <1>1, <3>1 DEF InHand
      <4>2. PICK x \in plan[i] : x.id = p
        BY <4>1
      <4>3. x = u \/ x \in rest[i]
        <5> HIDE DEF rest, plan
        <5> QED
          BY <1>4, <4>1, <4>2
      <4> QED
        BY <1>4, <2>1, <4>1, <4>2, <4>3 DEF InHand
    <3> QED
      BY <1>1, <1>2, <2>1, <2>4, <3>1 DEF TiersWritten
  <2>5. worker'[w] = taken /\ DOMAIN worker' = Workers
        /\ \A v \in Workers : v # w => worker'[v] = worker[v]
    BY <1>1, <1>7
  <2>6. w = "dashboard" => taken.job \in {"none", "classify"}
    BY <1>1, <2>1
  <2> QED
    BY <1>1, <1>7, <2>1, <2>3, <2>4, <2>5, <2>6, WorkerMoves
<1>8. ASSUME jobFaults' = jobFaults + 1, worker' = [worker EXCEPT ![w] = skipped] PROVE JobsInv'
  <2>1. /\ skipped \in JobRuns /\ skipped.job = worker[w].job /\ skipped.pc = "apply"
        /\ skipped.plan = rest /\ skipped.id = 0
    <3> HIDE DEF rest
    <3> QED
      BY <1>1, <1>2, <1>5 DEF JobRuns
  <2> HIDE DEF skipped
  <2>2. RunFits(skipped)
    BY <1>2, <1>4, <2>1 DEF RunFits
  <2>3. worker'[w] = skipped /\ DOMAIN worker' = Workers
        /\ \A v \in Workers : v # w => worker'[v] = worker[v]
    BY <1>1, <1>8
  <2>4. jobFaults' # jobFaults /\ (w = "dashboard" => skipped.job \in {"none", "classify"})
    BY <1>1, <1>8, <2>1
  <2> QED
    BY <1>1, <1>8, <2>1, <2>2, <2>3, <2>4, WorkerMoves
<1>9. \/ worker' = [worker EXCEPT ![w] = taken] /\ jobFaults' = jobFaults
      \/ JobFault /\ worker' = [worker EXCEPT ![w].plan = rest]
  BY DEF Get
<1>10. [worker EXCEPT ![w].plan = rest] = [worker EXCEPT ![w] = skipped]
  BY <1>1
<1> QED
  BY <1>7, <1>8, <1>9, <1>10 DEF JobFault

\* A PUT writes the update over what the GET returned, however old that is.
LEMMA PutKeeps == ASSUME JobsInv, NEW w \in Workers, Put(w) PROVE JobsInv'
<1> DEFINE run == worker[w]
           y == MergedPayload(run.got, run.set)
           r == [run EXCEPT !.pc = "apply", !.id = 0, !.set = NoTier, !.got = Absent]
<1>1. /\ run.pc = "put" /\ late' = late /\ jobFaults \in Nat
      /\ DOMAIN worker = Workers /\ \A v \in Workers : RunFits(worker[v])
      /\ worker["dashboard"].job \in {"none", "classify"}
      /\ TiersWritten(worker["pipeline"]) /\ ReadsInOrder
      /\ mem \in [Memories -> Payloads] /\ \A p \in Memories : PayloadFits(p, mem[p])
      /\ worker' = [worker EXCEPT ![w] = r]
  BY DEF Put, JobsInv
<1>2. /\ run \in JobRuns /\ run.job # "none" /\ PutFits(run)
      /\ run.plan \in Seq(SUBSET Planned(run.job))
  BY <1>1 DEF RunFits
<1>3. /\ r \in JobRuns /\ r.job = run.job /\ r.pc = "apply" /\ r.plan = run.plan /\ r.id = 0
  <2>1. Absent \in Payloads /\ NoTier \in FieldSets
    BY DEF Absent, Payloads, FieldSets
  <2> HIDE DEF run
  <2> QED
    BY <1>2, <2>1 DEF JobRuns
<1>4. RunFits(r)
  <2> HIDE DEF r, run
  <2> QED
    BY <1>2, <1>3 DEF RunFits
<1>5. /\ worker'[w] = r /\ DOMAIN worker' = Workers
      /\ \A v \in Workers : v # w => worker'[v] = worker[v]
  <2> HIDE DEF r
  <2> QED
    BY <1>1
<1>6. w = "dashboard" => r.job \in {"none", "classify"}
  BY <1>1, <1>3
<1>7. CASE jobFaults' = jobFaults + 1 /\ mem' = mem
  <2>1. jobFaults' # jobFaults
    BY <1>1, <1>7
  <2> HIDE DEF r
  <2> QED
    BY <1>1, <1>3, <1>4, <1>5, <1>6, <1>7, <2>1, WorkerMoves
<1>8. CASE jobFaults' = jobFaults /\ mem' = [mem EXCEPT ![run.id] = y]
  <2>1. /\ run.id \in Memories /\ run.id \in Present /\ run.got \in Payloads
        /\ PayloadFits(run.id, run.got) /\ run.got.status # "absent"
        /\ UpdateFits(run.job, run.id, run.set)
    BY <1>2 DEF PutFits, JobRuns, Present
  <2>2. /\ y \in Payloads /\ PayloadFits(run.id, y) /\ y.status # "absent"
        /\ y.status = run.got.status \/ (y.status \in PutAway /\ run.job # "classify")
        /\ run.job = "classify" /\ run.set # NoTier => y.tier = TierOf[run.id]
        /\ run.job # "classify" \/ run.set = NoTier => y.tier = run.got.tier
    <3> HIDE DEF run
    <3> QED
      BY <2>1, MergeFits
  <2> HIDE DEF r, y
  <2>3. /\ mem' \in [Memories -> Payloads] /\ mem'[run.id] = y
        /\ \A p \in Memories : p # run.id => mem'[p] = mem[p]
    BY <1>1, <1>8, <2>1, <2>2
  <2>4. Present' = Present
    BY <2>1, <2>2, <2>3 DEF Present
  <2>5. /\ \A p, x : PayloadFits(p, x) => PayloadFits(p, x)'
        /\ \A q : RunFits(q) => RunFits(q)'
    <3>1. ASSUME NEW p, Tiered(p) PROVE Tiered(p)'
      <4>1. p \in Memories /\ p \in Present'
        BY <2>4, <3>1 DEF Tiered, Present
      <4>2. CASE p = run.id
        <5>1. jobFaults = 0 /\ p \notin late => y.tier = TierOf[p]
          BY <1>2, <2>2, <4>2 DEF PutFits
        <5> QED
          BY <1>1, <1>8, <2>3, <4>1, <4>2, <5>1 DEF Tiered
      <4>3. CASE p # run.id
        BY <1>1, <1>8, <2>3, <3>1, <4>1, <4>3 DEF Tiered
      <4> QED
        BY <4>2, <4>3
    <3> QED
      BY <1>1, <1>8, <2>4, <3>1, JobsGrow
  <2>6. \A p \in Memories : PayloadFits(p, mem[p])'
    <3>1. ASSUME NEW p \in Memories PROVE PayloadFits(p, mem'[p])
      BY <1>1, <2>2, <2>3
    <3> QED
      BY <2>5, <3>1
  <2>7. \A v \in Workers : RunFits(worker[v])'
    <3>1. ASSUME NEW v \in Workers PROVE RunFits(worker'[v])
      BY <1>1, <1>4, <1>5
    <3> QED
      BY <2>5, <3>1
  <2>8. "dashboard" \in Workers /\ "pipeline" \in Workers /\ w \in {"dashboard", "pipeline"}
    BY DEF Workers
  <2>9. worker'["dashboard"].job \in {"none", "classify"}
    BY <1>1, <1>5, <1>6, <2>8
  <2>10. TiersWritten(worker["pipeline"])'
    <3> DEFINE pipe == worker["pipeline"]
               after == worker'["pipeline"]
    <3>1. /\ after.job = pipe.job /\ after.plan = pipe.plan
          /\ w # "pipeline" => after = pipe
          /\ w = "pipeline" => pipe = run
      BY <1>3, <1>5, <2>8
    <3>2. ASSUME jobFaults = 0, NEW p \in Present \ late
          PROVE  \/ after.job = "none"
                 \/ after.job = "classify" /\ after.pc = "scroll"
                 \/ mem'[p].tier = TierOf[p]
                 \/ after.job = "classify" /\ InHand(after, p)
      <4>1. p \in Memories
        BY DEF Present
      <4>2. CASE p = run.id
        <5>1. run.job # "classify" \/ run.set = NoTier => run.got.tier = TierOf[p]
          BY <1>2, <3>2, <4>2 DEF PutFits
        <5> QED
          BY <2>2, <2>3, <4>2, <5>1
      <4>3. CASE p # run.id
        <5>1. mem'[p] = mem[p]
          BY <2>3, <4>1, <4>3
        <5>2. InHand(pipe, p) => InHand(after, p)
          BY <1>1, <3>1, <4>3 DEF InHand
        <5>3. pipe.pc = "scroll" => after = pipe
          BY <1>1, <3>1
        <5> QED
          BY <1>1, <3>1, <3>2, <5>1, <5>2, <5>3 DEF TiersWritten
      <4> QED
        BY <4>2, <4>3
    <3> HIDE DEF pipe
    <3> QED
      BY <1>1, <1>8, <2>4, <3>2 DEF TiersWritten, InHand
  <2>11. ReadsInOrder'
    <3>1. CASE w = "dashboard"
      <4>1. worker'["pipeline"] = worker["pipeline"] /\ worker'["dashboard"].pc # "put"
        BY <1>3, <1>5, <2>8, <3>1
      <4>2. ASSUME worker["pipeline"].pc = "put", worker["pipeline"].id \notin Summaries,
                   worker["pipeline"].got.status = "active"
            PROVE  mem'[worker["pipeline"].id].status = "active"
        <5>1. worker["pipeline"].id \in Memories
              /\ mem[worker["pipeline"].id].status = "active"
          BY <1>1, <2>8, <4>2 DEF RunFits, PutFits, Present, ReadsInOrder
        <5>2. CASE worker["pipeline"].id = run.id
          <6>1. run.got.status \notin PutAway /\ run.job = "classify"
            BY <1>1, <1>2, <3>1, <4>2, <5>1, <5>2 DEF ReadsInOrder, PutAway
          <6>2. y.status = "active"
            BY <2>1, <2>2, <6>1 DEF Payloads, PutAway
          <6> QED
            BY <2>3, <5>2, <6>2
        <5> QED
          BY <2>3, <5>1, <5>2
      <4> QED
        BY <4>1, <4>2 DEF ReadsInOrder
    <3>2. CASE w = "pipeline"
      <4>1. worker'["dashboard"] = worker["dashboard"] /\ worker'["pipeline"].pc # "put"
        BY <1>3, <1>5, <2>8, <3>2
      <4>2. ASSUME worker["dashboard"].pc = "put", worker["dashboard"].id \notin Summaries,
                   worker["dashboard"].got.status \in PutAway
            PROVE  mem'[worker["dashboard"].id].status \in PutAway
        <5>1. worker["dashboard"].id \in Memories
              /\ mem[worker["dashboard"].id].status \in PutAway
          BY <1>1, <2>8, <4>2 DEF RunFits, PutFits, Present, ReadsInOrder
        <5>2. CASE worker["dashboard"].id = run.id
          <6>1. run.got.status # "active"
            BY <1>1, <3>2, <4>2, <5>1, <5>2 DEF ReadsInOrder, PutAway
          <6>2. y.status \in PutAway
            BY <2>1, <2>2, <6>1 DEF Payloads, PutAway
          <6> QED
            BY <2>3, <5>2, <6>2
        <5> QED
          BY <2>3, <5>1, <5>2
      <4> QED
        BY <4>1, <4>2 DEF ReadsInOrder
    <3> QED
      BY <2>8, <3>1, <3>2
  <2> QED
    BY <1>1, <1>5, <1>8, <2>3, <2>6, <2>7, <2>9, <2>10, <2>11 DEF JobsInv
<1>9. \/ mem' = [mem EXCEPT ![run.id] = y] /\ jobFaults' = jobFaults
      \/ JobFault /\ mem' = mem
  BY DEF Put
<1> QED
  BY <1>7, <1>8, <1>9 DEF JobFault

\* A batch is left when nothing in it is.
LEMMA NextBatchKeeps == ASSUME JobsInv, NEW w \in Workers, NextBatch(w) PROVE JobsInv'
<1> DEFINE plan == worker[w].plan
           r == [worker[w] EXCEPT !.plan = Tail(plan)]
<1>1. /\ worker[w].pc = "apply" /\ plan # <<>> /\ Head(plan) = {}
      /\ UNCHANGED <<mem, late, jobFaults>> /\ jobFaults \in Nat
      /\ DOMAIN worker = Workers /\ RunFits(worker[w])
      /\ worker["dashboard"].job \in {"none", "classify"}
      /\ TiersWritten(worker["pipeline"])
      /\ worker' = [worker EXCEPT ![w] = r]
  BY DEF NextBatch, JobsInv
<1>2. worker[w] \in JobRuns /\ worker[w].id = 0 /\ plan \in Seq(SUBSET Planned(worker[w].job))
      /\ plan \in Seq(SUBSET Updates) /\ worker[w].job # "none"
  BY <1>1 DEF RunFits, JobRuns
<1>3. /\ Tail(plan) \in Seq(SUBSET Planned(worker[w].job)) /\ Tail(plan) \in Seq(SUBSET Updates)
      /\ \A i \in DOMAIN plan : plan[i] # {} =>
            \E j \in DOMAIN Tail(plan) : Tail(plan)[j] = plan[i]
  <2> HIDE DEF plan
  <2>1. /\ Tail(plan) \in Seq(SUBSET Planned(worker[w].job))
        /\ Tail(plan) \in Seq(SUBSET Updates) /\ Head(plan) = plan[1]
    BY <1>1, <1>2
  <2>2. ASSUME NEW i \in DOMAIN plan, plan[i] # {}
        PROVE  \E j \in DOMAIN Tail(plan) : Tail(plan)[j] = plan[i]
    <3>1. i \in 1..Len(plan) /\ i # 1
      BY <1>1, <1>2, <2>1, <2>2
    <3>2. i - 1 \in DOMAIN Tail(plan) /\ Tail(plan)[i - 1] = plan[i]
      BY <1>1, <1>2, <3>1
    <3> QED
      BY <3>2
  <2> QED
    BY <2>1, <2>2
<1>4. /\ r \in JobRuns /\ r.job = worker[w].job /\ r.pc = "apply" /\ r.plan = Tail(plan)
      /\ r.id = 0
  <2> DEFINE rest == Tail(plan)
  <2> HIDE DEF rest
  <2>1. rest \in Seq(SUBSET Updates)
    BY <1>3 DEF rest
  <2>2. r = [worker[w] EXCEPT !.plan = rest]
    BY DEF rest
  <2>3. r \in JobRuns /\ r.job = worker[w].job /\ r.pc = "apply" /\ r.plan = rest /\ r.id = 0
    <3> HIDE DEF r
    <3> QED
      BY <1>1, <1>2, <2>1, <2>2 DEF JobRuns
  <2> QED
    BY <2>3 DEF rest
<1> HIDE DEF r
<1>5. RunFits(r)
  BY <1>2, <1>3, <1>4 DEF RunFits
<1>6. ASSUME w = "pipeline" PROVE TiersWritten(r)
  <2>1. ASSUME NEW p, InHand(worker[w], p) PROVE InHand(r, p)
    <3>1. PICK i \in DOMAIN plan : \E u \in plan[i] : u.id = p
      BY <1>1, <2>1 DEF InHand
    <3>2. PICK j \in DOMAIN Tail(plan) : Tail(plan)[j] = plan[i]
      BY <1>3, <3>1
    <3> HIDE DEF plan
    <3> QED
      BY <1>4, <3>1, <3>2 DEF InHand
  <2> QED
    BY <1>1, <1>4, <1>6, <2>1 DEF TiersWritten
<1>7. worker'[w] = r /\ DOMAIN worker' = Workers
      /\ \A v \in Workers : v # w => worker'[v] = worker[v]
  BY <1>1
<1>8. w = "dashboard" => r.job \in {"none", "classify"}
  BY <1>1, <1>4
<1> QED
  BY <1>1, <1>4, <1>5, <1>6, <1>7, <1>8, WorkerMoves

\* A worker starts with the classification.
LEMMA StartKeeps ==
  ASSUME JobsInv, NEW w \in Workers, NEW auto \in BOOLEAN, NEW topic \in BOOLEAN,
         StartWorker(w, auto, topic)
  PROVE  JobsInv'
<1> DEFINE r == [Resting EXCEPT !.job = "classify", !.pc = "scroll", !.auto = auto,
                                !.topic = topic]
<1>1. /\ worker' = [worker EXCEPT ![w] = r] /\ DOMAIN worker = Workers
      /\ UNCHANGED <<mem, late, jobFaults>>
  BY DEF StartWorker, JobsInv
<1>2. /\ r \in JobRuns /\ r.job = "classify" /\ r.pc = "scroll" /\ r.plan = <<>> /\ r.id = 0
  <2>1. Resting \in JobRuns /\ Resting.plan = <<>> /\ Resting.id = 0
    BY RestingFits DEF Resting
  <2> QED
    BY <2>1 DEF JobRuns, JobNames
<1> HIDE DEF r
<1>3. RunFits(r) /\ TiersWritten(r)
  BY <1>2 DEF RunFits, TiersWritten
<1>4. worker'[w] = r /\ DOMAIN worker' = Workers
      /\ \A v \in Workers : v # w => worker'[v] = worker[v]
  BY <1>1
<1> QED
  BY <1>1, <1>2, <1>3, <1>4, WorkerMoves

\* A killed worker holds nothing.
LEMMA KilledKeeps == ASSUME JobsInv, NEW w \in Workers, Killed(w) PROVE JobsInv'
<1>1. /\ worker' = [worker EXCEPT ![w] = Resting] /\ DOMAIN worker = Workers
      /\ UNCHANGED <<mem, late>> /\ jobFaults' = jobFaults + 1
  BY DEF Killed, JobFault, JobsInv
<1>2. Resting.job = "none" /\ Resting.pc = "idle"
  BY DEF Resting
<1>3. worker'[w] = Resting /\ DOMAIN worker' = Workers
      /\ \A v \in Workers : v # w => worker'[v] = worker[v]
  BY <1>1
<1> QED
  BY <1>1, <1>2, <1>3, RestingFits, WorkerMoves

\* A memory that arrives while the pipeline runs is late.
LEMMA ArriveKeeps == ASSUME JobsInv, NEW p \in Memories, Arrive(p) PROVE JobsInv'
<1>1. /\ p \notin Present /\ mem' = [mem EXCEPT ![p] = New] /\ UNCHANGED <<worker, jobFaults>>
      /\ late' = IF worker["pipeline"].job = "none" THEN late ELSE late \cup {p}
  BY DEF Arrive
<1>2. /\ mem \in [Memories -> Payloads] /\ jobFaults \in Nat
      /\ DOMAIN worker = Workers
      /\ \A q \in Memories : PayloadFits(q, mem[q])
      /\ \A w \in Workers : RunFits(worker[w])
      /\ worker["dashboard"].job \in {"none", "classify"}
      /\ TiersWritten(worker["pipeline"]) /\ ReadsInOrder
  BY DEF JobsInv
<1>3. New \in Payloads /\ New.status = "active" /\ PayloadFits(p, New)
  BY DEF New, Payloads, PayloadFits
<1>4. /\ mem' \in [Memories -> Payloads] /\ mem'[p] = New
      /\ \A q \in Memories : q # p => mem'[q] = mem[q]
  BY <1>1, <1>2, <1>3
<1>5. Present' = Present \cup {p} /\ late \subseteq late'
  BY <1>1, <1>3, <1>4 DEF Present
<1>6. /\ \A q, x : PayloadFits(q, x) => PayloadFits(q, x)'
      /\ \A run : RunFits(run) => RunFits(run)'
  <2>1. \A q : Tiered(q) => Tiered(q)'
    BY <1>1, <1>4, <1>5 DEF Tiered, Present
  <2> QED
    BY <1>1, <1>5, <2>1, JobsGrow
<1>7. \A q \in Memories : PayloadFits(q, mem[q])'
  <2>1. ASSUME NEW q \in Memories PROVE PayloadFits(q, mem'[q])
    BY <1>2, <1>3, <1>4
  <2> QED
    BY <1>6, <2>1
<1>8. \A w \in Workers : RunFits(worker[w])'
  BY <1>1, <1>2, <1>6
<1>9. TiersWritten(worker["pipeline"])'
  <2>1. ASSUME NEW q \in Present' \ late', worker["pipeline"].job # "none"
        PROVE  q \in Present \ late /\ mem'[q] = mem[q]
    BY <1>1, <1>4, <1>5, <2>1 DEF Present
  <2> QED
    BY <1>1, <1>2, <2>1 DEF TiersWritten, InHand
<1>10. ReadsInOrder'
  <2>1. ASSUME NEW w \in Workers, worker[w].pc = "put"
        PROVE  mem'[worker[w].id] = mem[worker[w].id]
    <3>1. worker[w].id \in Present
      BY <1>2, <2>1 DEF RunFits, PutFits
    <3> QED
      BY <1>1, <1>4, <3>1 DEF Present
  <2>2. "dashboard" \in Workers /\ "pipeline" \in Workers
    BY DEF Workers
  <2> QED
    BY <1>1, <1>2, <2>1, <2>2 DEF ReadsInOrder
<1> QED
  BY <1>1, <1>2, <1>4, <1>7, <1>8, <1>9, <1>10 DEF JobsInv

\* A summary that is written anew counts as late from then on.
LEMMA RewriteKeeps == ASSUME JobsInv, NEW p \in Memories, Rewrite(p) PROVE JobsInv'
<1>1. /\ p \in Present /\ p \in Summaries /\ mem' = [mem EXCEPT ![p] = New]
      /\ UNCHANGED <<worker, jobFaults>> /\ late' = late \cup {p}
  BY DEF Rewrite
<1>2. /\ mem \in [Memories -> Payloads] /\ jobFaults \in Nat
      /\ DOMAIN worker = Workers
      /\ \A q \in Memories : PayloadFits(q, mem[q])
      /\ \A w \in Workers : RunFits(worker[w])
      /\ worker["dashboard"].job \in {"none", "classify"}
      /\ TiersWritten(worker["pipeline"]) /\ ReadsInOrder
  BY DEF JobsInv
<1>3. New \in Payloads /\ New.status = "active" /\ PayloadFits(p, New)
  BY DEF New, Payloads, PayloadFits
<1>4. /\ mem' \in [Memories -> Payloads] /\ mem'[p] = New
      /\ \A q \in Memories : q # p => mem'[q] = mem[q]
  BY <1>1, <1>2, <1>3
<1>5. Present' = Present
  BY <1>1, <1>3, <1>4 DEF Present
<1>6. /\ \A q, x : PayloadFits(q, x) => PayloadFits(q, x)'
      /\ \A run : RunFits(run) => RunFits(run)'
  <2>1. \A q : Tiered(q) => Tiered(q)'
    BY <1>1, <1>4, <1>5 DEF Tiered, Present
  <2> QED
    BY <1>1, <1>5, <2>1, JobsGrow
<1>7. \A q \in Memories : PayloadFits(q, mem[q])'
  <2>1. ASSUME NEW q \in Memories PROVE PayloadFits(q, mem'[q])
    BY <1>2, <1>3, <1>4
  <2> QED
    BY <1>6, <2>1
<1>8. \A w \in Workers : RunFits(worker[w])'
  BY <1>1, <1>2, <1>6
<1>9. TiersWritten(worker["pipeline"])'
  <2>1. ASSUME NEW q \in Present' \ late' PROVE q \in Present \ late /\ mem'[q] = mem[q]
    BY <1>1, <1>4, <1>5, <2>1 DEF Present
  <2> QED
    BY <1>1, <1>2, <2>1 DEF TiersWritten, InHand
<1>10. ReadsInOrder'
  <2>1. ASSUME NEW w \in Workers, worker[w].pc = "put", worker[w].id \notin Summaries
        PROVE  mem'[worker[w].id] = mem[worker[w].id]
    <3>1. worker[w].id \in Memories /\ worker[w].id # p
      BY <1>1, <1>2, <2>1 DEF RunFits, PutFits, Present
    <3> QED
      BY <1>4, <3>1
  <2>2. "dashboard" \in Workers /\ "pipeline" \in Workers
    BY DEF Workers
  <2> QED
    BY <1>1, <1>2, <2>1, <2>2 DEF ReadsInOrder
<1> QED
  BY <1>1, <1>2, <1>4, <1>7, <1>8, <1>9, <1>10 DEF JobsInv

\* Every step of either worker keeps the invariant.
LEMMA JobsInvStep == JobsInv /\ [JobsNext]_jobVars => JobsInv'
<1> SUFFICES ASSUME JobsInv, [JobsNext]_jobVars PROVE JobsInv'
  OBVIOUS
<1>1. ASSUME NEW p \in Memories, Arrive(p) PROVE JobsInv'
  BY <1>1, ArriveKeeps
<1>0. ASSUME NEW p \in Memories, Rewrite(p) PROVE JobsInv'
  BY <1>0, RewriteKeeps
<1>2. ASSUME NEW w \in Workers, NEW auto \in BOOLEAN, NEW topic \in BOOLEAN,
             StartWorker(w, auto, topic)
      PROVE  JobsInv'
  BY <1>2, StartKeeps
<1>3. ASSUME NEW w \in Workers, Scroll(w) PROVE JobsInv'
  BY <1>3, ScrollKeeps
<1>4. ASSUME NEW w \in Workers, worker[w].plan # <<>>, NEW u \in Head(worker[w].plan), Get(w, u)
      PROVE  JobsInv'
  BY <1>4, GetKeeps
<1>5. ASSUME NEW w \in Workers, Put(w) PROVE JobsInv'
  BY <1>5, PutKeeps
<1>6. ASSUME NEW w \in Workers, NextBatch(w) PROVE JobsInv'
  BY <1>6, NextBatchKeeps
<1>7. ASSUME NEW w \in Workers, EndJob(w) PROVE JobsInv'
  <2>1. /\ worker[w].pc = "apply" /\ worker[w].plan = <<>> /\ Advance(w)
        /\ UNCHANGED <<mem, late, jobFaults>>
    BY <1>7 DEF EndJob
  <2>2. worker[w].job # "none"
    BY <2>1 DEF JobsInv, RunFits
  <2> QED
    BY <2>1, <2>2, AdvanceFits
<1>8. ASSUME NEW w \in Workers, Killed(w) PROVE JobsInv'
  BY <1>8, KilledKeeps
<1>9. CASE UNCHANGED jobVars
  <2>1. UNCHANGED <<mem, worker, late, jobFaults>>
    BY <1>9 DEF jobVars
  <2>2. Present' = Present
    BY <2>1 DEF Present
  <2>3. /\ \A p, x : PayloadFits(p, x) => PayloadFits(p, x)'
        /\ \A run : RunFits(run) => RunFits(run)'
    <3>1. \A p : Tiered(p) => Tiered(p)'
      BY <2>1, <2>2 DEF Tiered
    <3> QED
      BY <2>1, <2>2, <3>1, JobsGrow
  <2>4. TiersWritten(worker["pipeline"])' /\ ReadsInOrder'
    BY <2>1, <2>2 DEF JobsInv, TiersWritten, InHand, ReadsInOrder
  <2>5. /\ \A p \in Memories : PayloadFits(p, mem[p])'
        /\ \A w \in Workers : RunFits(worker[w])'
    BY <2>1, <2>3 DEF JobsInv
  <2> QED
    BY <2>1, <2>4, <2>5 DEF JobsInv
<1> QED
  BY <1>0, <1>1, <1>2, <1>3, <1>4, <1>5, <1>6, <1>7, <1>8, <1>9 DEF JobsNext

\* The inductive invariant of the jobs.
THEOREM JobsInvariant == JobsSpec => []JobsInv
<1>1. JobsInit => JobsInv
  BY JobsInvInit
<1>2. JobsInv /\ [JobsNext]_jobVars => JobsInv'
  BY JobsInvStep
<1> QED
  BY <1>1, <1>2, PTL DEF JobsSpec

\* Types of the payloads and of the workers.
THEOREM JobsTypes == JobsSpec => []JobsTypeOK
<1>1. JobsInv => JobsTypeOK
  <2> SUFFICES ASSUME JobsInv PROVE JobsTypeOK
    OBVIOUS
  <2>1. mem \in [Memories -> Payloads] /\ \A w \in Workers : RunFits(worker[w])
    BY DEF JobsInv
  <2>2. 0 \notin Memories
    BY JobsAssumption
  <2>3. ASSUME NEW w \in Workers
        PROVE  /\ worker[w].job \in JobNames /\ (worker[w].job = "none") = (worker[w].pc = "idle")
               /\ (worker[w].pc = "put") = (worker[w].id \in Memories)
    <3>1. worker[w] \in JobRuns /\ RunFits(worker[w])
      BY <2>1 DEF RunFits
    <3>2. worker[w].job \in JobNames /\ (worker[w].job = "none") = (worker[w].pc = "idle")
      BY <3>1 DEF RunFits, JobRuns
    <3>3. worker[w].pc = "put" => worker[w].id \in Memories
      BY <3>1 DEF RunFits, PutFits, Present
    <3>4. worker[w].pc # "put" => worker[w].id \notin Memories
      BY <2>2, <3>1 DEF RunFits
    <3> QED
      BY <3>2, <3>3, <3>4
  <2> QED
    BY <2>1, <2>3 DEF JobsTypeOK, Payloads, JobNames
<1> QED
  BY <1>1, JobsInvariant, PTL

\* Of a set of memories one is the last in the order of links.
LEMMA LatestMemory ==
  ASSUME NEW S, S \subseteq Memories, S # {}
  PROVE  \E m \in S : \A q \in S : ~Later(q, m)
<1> DEFINE After(p) == {q \in S : Later(q, p)}
           Rests == {After(p) : p \in S}
<1>0. IsFiniteSet(S)
  BY JobsAssumption, FS_Subset
<1>1. Rests \subseteq FiniteSubsetsOf(S) /\ Rests # {}
  <2>1. ASSUME NEW p \in S PROVE After(p) \subseteq S /\ IsFiniteSet(After(p))
    BY <1>0, FS_Subset
  <2> QED
    BY <2>1 DEF FiniteSubsetsOf
<1>2. IsWellFoundedOn(StrictSubsetOrdering(S), FiniteSubsetsOf(S))
  BY FS_StrictSubsetOrderingWellFounded
<1> HIDE DEF Rests
<1>3. PICK D \in Rests : \A E \in Rests : <<E, D>> \notin StrictSubsetOrdering(S)
  BY <1>1, <1>2, WFMin
<1>4. PICK m \in S : D = After(m)
  BY <1>3 DEF Rests
<1>5. ASSUME NEW q \in S, Later(q, m) PROVE FALSE
  <2>1. After(q) \in Rests
    BY DEF Rests
  <2>2. \A r \in S : r \in Nat /\ DateOf[r] \in Nat
    BY JobsAssumption
  <2>3. ~Later(q, q) /\ \A r \in S : Later(r, q) => Later(r, m)
    BY <1>5, <2>2 DEF Later
  <2>4. After(q) \subseteq D /\ q \in D /\ q \notin After(q)
    BY <1>4, <1>5, <2>3
  <2>5. <<After(q), D>> \in StrictSubsetOrdering(S)
    BY <1>4, <2>4 DEF StrictSubsetOrdering
  <2> QED
    BY <1>3, <2>1, <2>5
<1> QED
  BY <1>5

\* Every chain of superseded memories ends, at one that is in force or at a link that the
\* two orders of undated memories allow: all other links of both passes, of however many
\* runs, and whatever is lost of them, lead to later memories.
THEOREM EveryChainEnds == JobsSpec => []ChainsEnd
<1>1. JobsInv => ChainsEnd
  <2> SUFFICES ASSUME JobsInv,
                      NEW S \in SUBSET {p \in Memories : mem[p].status = "superseded"}, S # {}
               PROVE  \E p \in S : mem[p].by \notin S \/ Ambiguous(p, mem[p].by)
    BY DEF ChainsEnd
  <2>1. PICK m \in S : \A q \in S : ~Later(q, m)
    BY LatestMemory
  <2>2. Later(mem[m].by, m) \/ Ambiguous(m, mem[m].by)
    BY DEF JobsInv, PayloadFits, Forward
  <2> QED
    BY <2>1, <2>2
<1> QED
  BY <1>1, JobsInvariant, PTL

\* Without a failure nothing that its text protects is put away.
THEOREM ProtectedStay == JobsSpec => []ProtectedKept
<1>1. JobsInv => ProtectedKept
  BY DEF JobsInv, PayloadFits, Untouchable, ProtectedKept
<1> QED
  BY <1>1, JobsInvariant, PTL

\* Of all steps only a PUT of the dashboard, over something newer than it has read,
\* brings a memory back.
THEOREM OnlyOverlapRevives == JobsSpec => RevivalNeedsOverlap
<1>1. ASSUME JobsInv, [JobsNext]_jobVars, NEW p \in Memories \ Summaries,
             mem[p].status \in {"superseded", "expired"}, mem'[p].status = "active"
      PROVE  worker["dashboard"].id = p /\ worker["dashboard"].got # mem[p]
  <2>1. /\ mem \in [Memories -> Payloads] /\ \A w \in Workers : RunFits(worker[w])
        /\ ReadsInOrder /\ mem' # mem
    BY <1>1 DEF JobsInv
  <2>2. PICK w \in Workers : Put(w)
    <3>1. ASSUME NEW q \in Memories, Arrive(q) PROVE FALSE
      BY <1>1, <2>1, <3>1 DEF Arrive, Present
    <3>2. ASSUME NEW q \in Memories, Rewrite(q) PROVE FALSE
      BY <1>1, <2>1, <3>2 DEF Rewrite
    <3> QED
      BY <1>1, <2>1, <3>1, <3>2 DEF JobsNext, jobVars, StartWorker, Scroll, Get, NextBatch, EndJob,
         Killed
  <2> DEFINE run == worker[w]
             y == MergedPayload(run.got, run.set)
  <2>3. /\ run.pc = "put" /\ mem' = [mem EXCEPT ![run.id] = y] /\ PutFits(run) /\ run \in JobRuns
    BY <2>1, <2>2 DEF Put, RunFits
  <2>4. /\ run.id \in Memories /\ run.got \in Payloads
        /\ PayloadFits(run.id, run.got) /\ run.got.status # "absent"
        /\ UpdateFits(run.job, run.id, run.set)
    BY <2>3 DEF PutFits, JobRuns, Present
  <2>5. y.status = run.got.status \/ y.status \in PutAway
    <3> HIDE DEF run
    <3> QED
      BY <2>4, MergeFits
  <2> HIDE DEF y
  <2>6. run.id = p /\ y.status = "active"
    BY <1>1, <2>1, <2>3, <2>4
  <2>7. run.got.status = "active"
    BY <2>5, <2>6 DEF PutAway
  <2>8. w = "dashboard"
    BY <1>1, <2>1, <2>3, <2>6, <2>7 DEF ReadsInOrder, Workers
  <2> QED
    BY <1>1, <2>6, <2>7, <2>8
<1>2. JobsInv /\ [JobsNext]_jobVars =>
        [\A p \in Memories \ Summaries :
           mem[p].status \in {"superseded", "expired"} /\ mem'[p].status = "active" =>
              worker["dashboard"].id = p /\ worker["dashboard"].got # mem[p]]_jobVars
  BY <1>1
<1> QED
  BY <1>2, JobsInvariant, PTL DEF JobsSpec, RevivalNeedsOverlap
=============================================================================
