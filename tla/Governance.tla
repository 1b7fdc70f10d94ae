----------------------------- MODULE Governance -----------------------------
(***************************************************************************)
(* autonomous_governance.sh and maintenance.sh: the two locks, the stages  *)
(* of a governance run, the steps of a maintenance pass, exit codes, the   *)
(* status file of governance and the summary file of daily maintenance.    *)
(*                                                                         *)
(* A shell may be killed while a program it has started goes on; that      *)
(* program has inherited the lock (file descriptor 9), except maintenance. *)
(* sh, which opens its own lock in place of it.                            *)
(***************************************************************************)
EXTENDS Integers, FiniteSets

CONSTANTS
    Governors, Dailies,     \* shells that may run the one and the other script
    NumCollections,
    MaxGovRuns,             \* bound: starts
    MaxGovFaults            \* bound: failures and kills

ASSUME GovernanceAssumption == Governors \cap Dailies = {} /\ NumCollections \in Nat \ {0}

VARIABLES
    gov,        \* per governor: where its script is and the codes it has collected
    maint,      \* per launcher: the maintenance pass it has started last
    statusFile, \* autonomous-governance.json: the result, and the run that wrote it
    summaryFile,
    lastExit,   \* history: the last governance run that exited by itself, its code,
                \* and whether it had found the lock held
    govRuns, govFaults

govVars == <<gov, maint, statusFile, summaryFile, lastExit, govRuns, govFaults>>

Launchers == Governors \cup Dailies

\* Per collection memory brain, ingest, reclassify, supersede, expire and
\* snapshot, and at the end the lexical index.
LastStep == 6 * NumCollections + 1

GovFault == govFaults < MaxGovFaults /\ govFaults' = govFaults + 1
\* The outcome of a program: its exit code.
Outcome(rc) == IF rc = 0 THEN UNCHANGED govFaults ELSE GovFault
Codes == {0, 1}

GovAt(pc, run) == [pc |-> pc, run |-> run, feedback |-> 0, audit |-> 0, evolution |-> 0]
IdleGov == GovAt("idle", 0)
\* pos: steps that have ended.  failed: those that failed.
PassAt(pc) == [pc |-> pc, pos |-> 0, failed |-> {}, last |-> 0]

GovInit ==
    /\ gov = [g \in Governors |-> IdleGov]
    /\ maint = [l \in Launchers |-> PassAt("idle")]
    /\ statusFile = [result |-> "none", run |-> 0] /\ summaryFile = "none"
    /\ lastExit = [run |-> 0, code |-> 0, skipped |-> FALSE]
    /\ govRuns = 0 /\ govFaults = 0

\* Mutant of MaintenanceLockFree: a lock is released when its shell is killed.
LockFreeOfShells == \A l \in Launchers : maint[l].pc # "running"

MaintenanceLockFree == \A l \in Launchers : maint[l].pc = "idle"

GovernanceLockFree == \A g \in Governors : gov[g].pc = "idle"

-----------------------------------------------------------------------------
(* maintenance.sh                                                          *)

StartPass(l) == maint' = [maint EXCEPT ![l] = PassAt("running")]

StartDaily(d) ==
    /\ govRuns < MaxGovRuns /\ maint[d].pc = "idle" /\ MaintenanceLockFree
    /\ govRuns' = govRuns + 1
    /\ StartPass(d)
    /\ UNCHANGED <<gov, statusFile, summaryFile, lastExit, govFaults>>

\* A failed step is counted, and the next one follows.
PassStep(l, rc) ==
    /\ maint[l].pc = "running" /\ maint[l].pos < LastStep
    /\ Outcome(rc)
    /\ maint' = [maint EXCEPT ![l].pos = @ + 1, ![l].last = rc,
                              ![l].failed = IF rc = 0 THEN @ ELSE @ \cup {maint[l].pos + 1}]
    /\ UNCHANGED <<gov, statusFile, summaryFile, lastExit, govRuns>>

\* Mutant of PassExit: the script ends with the code of its last step.
PassExitOfLast(pass) == pass.last

PassExit(pass) == IF pass.failed # {} THEN 1 ELSE 0

\* The code reaches the governor that waits for it.
Audited(g, code) == gov' = [gov EXCEPT ![g].pc = "audited", ![g].audit = code]
DeliverTo(l, code) ==
    IF l \in {g \in Governors : gov[g].pc = "waiting"} THEN Audited(l, code) ELSE UNCHANGED gov

\* Governance leaves the summary of the daily pass alone.  A failed write of it
\* is only logged.
EndPass(l, rc) ==
    /\ maint[l].pc = "running" /\ maint[l].pos = LastStep
    /\ Outcome(rc)
    /\ summaryFile' = IF l \in Governors \/ rc # 0 THEN summaryFile
                      ELSE IF PassExit(maint[l]) = 0 THEN "success" ELSE "failed"
    /\ maint' = [maint EXCEPT ![l].pc = "idle"]
    /\ DeliverTo(l, PassExit(maint[l]))
    /\ UNCHANGED <<statusFile, lastExit, govRuns>>

\* No virtual environment: the pass ends before its first step.
AbortPass(l) ==
    /\ maint[l].pc = "running" /\ maint[l].pos = 0 /\ GovFault
    /\ maint' = [maint EXCEPT ![l].pc = "idle"]
    /\ DeliverTo(l, 1)
    /\ UNCHANGED <<statusFile, summaryFile, lastExit, govRuns>>

\* The shell is killed; the program of the step goes on and keeps the lock.
KillPass(l) ==
    /\ maint[l].pc = "running" /\ GovFault
    /\ maint' = [maint EXCEPT ![l].pc = IF maint[l].pos < LastStep THEN "orphan" ELSE "idle"]
    /\ DeliverTo(l, 137)
    /\ UNCHANGED <<statusFile, summaryFile, lastExit, govRuns>>

EndOrphanStep(l) ==
    /\ maint[l].pc = "orphan" /\ maint' = [maint EXCEPT ![l].pc = "idle"]
    /\ UNCHANGED <<gov, statusFile, summaryFile, lastExit, govRuns, govFaults>>

-----------------------------------------------------------------------------
(* autonomous_governance.sh                                                *)

StartGov(g) ==
    /\ govRuns < MaxGovRuns /\ GovernanceLockFree
    /\ govRuns' = govRuns + 1
    /\ gov' = [gov EXCEPT ![g] = GovAt("replay", govRuns + 1)]
    /\ UNCHANGED <<maint, statusFile, summaryFile, lastExit, govFaults>>

\* Another instance holds the lock: exit with 0, and the status is left alone.
SkipGov(g) ==
    /\ govRuns < MaxGovRuns /\ gov[g].pc = "idle" /\ ~GovernanceLockFree
    /\ govRuns' = govRuns + 1
    /\ lastExit' = [run |-> govRuns + 1, code |-> 0, skipped |-> TRUE]
    /\ UNCHANGED <<gov, maint, statusFile, summaryFile, govFaults>>

Write(g, result) == statusFile' = [result |-> result, run |-> gov[g].run]
Exit(g, code) ==
    /\ gov' = [gov EXCEPT ![g] = IdleGov]
    /\ lastExit' = [run |-> gov[g].run, code |-> code, skipped |-> FALSE]

\* A component is missing: the status says so, if it can be written.
PreflightFails(g) ==
    /\ gov[g].pc = "replay" /\ GovFault
    /\ Write(g, "failed") \/ UNCHANGED statusFile
    /\ Exit(g, 1)
    /\ UNCHANGED <<maint, summaryFile, govRuns>>

Replay(g, rc) ==
    /\ gov[g].pc = "replay" /\ Outcome(rc)
    /\ gov' = [gov EXCEPT ![g].pc = "maintain", ![g].feedback = rc]
    /\ UNCHANGED <<maint, statusFile, summaryFile, lastExit, govRuns>>

\* maintenance.sh exits with 75 if its lock is taken.
Maintain(g) ==
    /\ gov[g].pc = "maintain"
    /\ \/ /\ MaintenanceLockFree
          /\ StartPass(g)
          /\ gov' = [gov EXCEPT ![g].pc = "waiting"]
       \/ /\ ~MaintenanceLockFree
          /\ Audited(g, 75)
          /\ UNCHANGED maint
    /\ UNCHANGED <<statusFile, summaryFile, lastExit, govRuns, govFaults>>

StartEvolution(g) ==
    /\ gov[g].pc = "audited"
    /\ gov' = [gov EXCEPT ![g].pc = IF gov[g].audit = 0 THEN "evolving" ELSE "report"]
    /\ UNCHANGED <<maint, statusFile, summaryFile, lastExit, govRuns, govFaults>>

EndEvolution(g, rc) ==
    /\ gov[g].pc = "evolving" /\ Outcome(rc)
    /\ gov' = [gov EXCEPT ![g].pc = "report", ![g].evolution = rc]
    /\ UNCHANGED <<maint, statusFile, summaryFile, lastExit, govRuns>>

\* The first of these that is not 0 decides the result and the exit code.
Verdict(g) ==
    IF gov[g].audit = 75         THEN [result |-> "skipped",  code |-> 75]
    ELSE IF gov[g].audit # 0     THEN [result |-> "failed",   code |-> gov[g].audit]
    ELSE IF gov[g].evolution # 0 THEN [result |-> "failed",   code |-> gov[g].evolution]
    ELSE IF gov[g].feedback # 0  THEN [result |-> "degraded", code |-> gov[g].feedback]
    ELSE                              [result |-> "ok",       code |-> 0]

\* Mutant of CodeUnwritten: a failed write of the status is only logged.
CodeUnwrittenIgnored(code) == code

\* If the status cannot be written, the run has failed.
CodeUnwritten(code) == IF code # 0 THEN code ELSE 1

Report(g, rc) ==
    /\ gov[g].pc = "report" /\ Outcome(rc)
    /\ IF rc = 0 THEN Write(g, Verdict(g).result) /\ Exit(g, Verdict(g).code)
       ELSE UNCHANGED statusFile /\ Exit(g, CodeUnwritten(Verdict(g).code))
    /\ UNCHANGED <<maint, summaryFile, govRuns>>

\* The replay or the cycle that is running keeps the lock, a maintenance pass
\* does not; nobody waits for its code any more.
KillGov(g) ==
    /\ gov[g].pc \notin {"idle", "orphan"} /\ GovFault
    /\ gov' = [gov EXCEPT ![g] =
                    GovAt(IF gov[g].pc \in {"replay", "evolving"} THEN "orphan" ELSE "idle", 0)]
    /\ UNCHANGED <<maint, statusFile, summaryFile, lastExit, govRuns>>

EndOrphan(g) ==
    /\ gov[g].pc = "orphan" /\ gov' = [gov EXCEPT ![g] = IdleGov]
    /\ UNCHANGED <<maint, statusFile, summaryFile, lastExit, govRuns, govFaults>>

GovNext ==
    \/ \E d \in Dailies : StartDaily(d)
    \/ \E l \in Launchers :
         \/ \E rc \in Codes : PassStep(l, rc) \/ EndPass(l, rc)
         \/ AbortPass(l) \/ KillPass(l) \/ EndOrphanStep(l)
    \/ \E g \in Governors :
         \/ StartGov(g) \/ SkipGov(g) \/ PreflightFails(g) \/ Maintain(g) \/ StartEvolution(g)
         \/ \E rc \in Codes : Replay(g, rc) \/ EndEvolution(g, rc) \/ Report(g, rc)
         \/ KillGov(g) \/ EndOrphan(g)

GovSpec == GovInit /\ [][GovNext]_govVars

-----------------------------------------------------------------------------
GovTypeOK ==
    /\ \A g \in Governors :
         /\ gov[g].pc \in {"idle", "replay", "maintain", "waiting", "audited", "evolving",
                           "report", "orphan"}
         /\ gov[g].audit \in {0, 1, 75, 137}
    /\ \A l \in Launchers : maint[l].pos \in 0..LastStep /\ maint[l].failed \subseteq 1..LastStep
    /\ statusFile.result \in {"none", "ok", "skipped", "failed", "degraded"}
    /\ summaryFile \in {"none", "success", "failed"}

\* At no time do the steps of two maintenance passes run side by side, whichever
\* scripts start them and whichever shells are killed on the way: jobs that read
\* and write whole payloads rely on it (maintenance.sh, flock).
OnePass ==
    \A l, m \in Launchers : maint[l].pc # "idle" /\ maint[m].pc # "idle" => l = m

\* A cycle runs only after a pass of the same governance run in which every step
\* of every collection ended well (autonomous_governance.sh, stage 3): a cycle on
\* a partly maintained corpus would compare policies on it.
EvolvesAfterWholePass ==
    \A g \in Governors : gov[g].pc = "evolving" =>
        maint[g].pc = "idle" /\ maint[g].pos = LastStep /\ maint[g].failed = {}

\* What the status file and the exit code tell the operator agree, except that a
\* run which finds the lock held exits with 0 although no stage has succeeded: the
\* header of the script says otherwise (autonomous_governance.sh:8).  Any other
\* run that exits with 0 has written its status, and it is "ok"; "ok" stays on disk
\* after a failed run only under the number of an earlier run, and then the run
\* itself has exited with a failure (a failed write must not look green).
StatusTruthful ==
    /\ lastExit.code = 0 /\ lastExit.run # 0 /\ ~lastExit.skipped =>
            statusFile.run >= lastExit.run
    /\ statusFile.run = lastExit.run /\ lastExit.run # 0 =>
            ~lastExit.skipped /\ (statusFile.result = "ok") = (lastExit.code = 0)
=============================================================================
