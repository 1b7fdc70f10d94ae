---------------------------- MODULE PolicyStore ----------------------------
(***************************************************************************)
(* The policy files (active.json, previous.json, candidate.json) and the   *)
(* processes that share them (src/openclaw_memory_os/policy_store.py).     *)
(*                                                                         *)
(* Every process - the web server, and one run of the governance cycle -   *)
(* builds a PolicyStore of its own: a copy of the three policies in memory *)
(* and a lock that orders the threads of THIS process only.  Nothing       *)
(* orders the processes: the web server never takes the cycle's lock.      *)
(*                                                                         *)
(* Steps are as fine as the file operations: a method is one action per    *)
(* file it replaces or unlinks, and a read that is followed by a stat is   *)
(* two actions.  Each replacement of a file is atomic (os.replace), and a  *)
(* process may die between any two steps.                                  *)
(***************************************************************************)
EXTENDS Naturals

CONSTANTS
    Policies,      \* policies, by content
    Baseline,      \* baseline_policy
    None,          \* no policy in a slot, no such file
    Corrupt,       \* a file that _read_policy_file refuses
    Version,       \* Version[p], the field "version"
    Parent,        \* Parent[p], the field "parent_version", None if unset
    Children,      \* Children[p]: what generate_candidates derives from p
    Procs,         \* processes: the web server, the cycle's runner
    Threads,       \* threads of all processes
    Home,          \* Home[t]: the process thread t runs in
    Recallers,     \* threads that serve POST /api/recall-test
    Operators,     \* threads that serve the evolution endpoints
    Runners,       \* main threads of run_evolution_cycle.py
    Damageable,    \* files that may be damaged from outside
    MaxFaults      \* bound: crashes, failed file operations and damage, together

Slots == {"active", "previous", "candidate"}

ASSUME StoreAssumption ==
    /\ Baseline \in Policies
    /\ None \notin Policies
    /\ Corrupt \notin Policies \cup {None}
    /\ Children \in [Policies -> SUBSET Policies]
    /\ Home \in [Threads -> Procs]
    /\ Recallers \subseteq Threads
    /\ Operators \subseteq Threads
    /\ Runners \subseteq Threads
    /\ \A t \in Runners : \A u \in Threads \ {t} : Home[u] # Home[t]  \* alone
    /\ Damageable \subseteq Slots
    /\ MaxFaults \in Nat

\* generate_candidates writes the version of the policy it starts from into
\* every candidate.
ASSUME LineageAssumption ==
    \A p \in Policies : \A c \in Children[p] : Parent[c] = Version[p] /\ Parent[c] # None

VARIABLES
    activeFile, previousFile, candidateFile,   \* the files
    policy, previous, shadow,  \* _policy, _previous, _shadow of each process
    fresh,       \* fresh[p]: active.json's mtime equals p's _last_mtime_ns
    boot,        \* boot[p]: how far the process and its store are started
    pc,          \* pc[t]: where thread t is
    reg,         \* reg[t]: a policy that t holds in a local variable
    faults,      \* faults so far
    released,    \* history: every policy active.json ever held
    replaced     \* history: the policy the last promotion replaced, None
                 \* once it has been rolled back

fileVars == <<activeFile, previousFile, candidateFile>>
memVars  == <<policy, previous, shadow>>
ctrlVars == <<boot, pc, reg>>
histVars == <<released, replaced>>
vars == <<fileVars, memVars, fresh, ctrlVars, faults, histVars>>

Slot == Policies \cup {None}
File == Slot \cup {Corrupt}

\* Threads at these points hold their store's RLock.
Locked == {"revert_stat", "revert_previous", "revert_candidate",
           "promote_active", "promote_stat", "promote_candidate"}

TypeOK ==
    /\ activeFile \in File /\ previousFile \in File /\ candidateFile \in File
    /\ policy \in [Procs -> Policies]
    /\ previous \in [Procs -> Slot]
    /\ shadow \in [Procs -> Slot]
    /\ fresh \in [Procs -> BOOLEAN]
    /\ boot \in [Procs -> {"down", "previous", "aux", "loaded", "fallback", "ready"}]
    /\ pc \in [Threads -> Locked \cup
                  {"idle", "install", "shadowed", "credited", "exit"}]
    /\ reg \in [Threads -> Slot]
    /\ faults \in 0..MaxFaults
    /\ released \subseteq Policies
    /\ replaced \in Slot

\* First installation: no file yet, no process running.
Init ==
    /\ activeFile = None /\ previousFile = None /\ candidateFile = None
    /\ policy = [p \in Procs |-> Baseline]
    /\ previous = [p \in Procs |-> None]
    /\ shadow = [p \in Procs |-> None]
    /\ fresh = [p \in Procs |-> FALSE]
    /\ boot = [p \in Procs |-> "down"]
    /\ pc = [t \in Threads |-> "idle"]
    /\ reg = [t \in Threads |-> None]
    /\ faults = 0
    /\ released = {Baseline}
    /\ replaced = None

-----------------------------------------------------------------------------
(* Helpers.                                                                *)

\* What active.json puts in force: without a readable file, the baseline.
InForce == IF activeFile \in Policies THEN activeFile ELSE Baseline

\* Mutant of ReadSlot: the checks of _read_policy_file are skipped.
ReadSlotUnchecked(file) == file

\* A file as a store reads it: only a readable policy fills the slot.
ReadSlot(file) == IF file \in Policies THEN file ELSE None

Fault == faults < MaxFaults /\ faults' = faults + 1

LockFree(t) ==
    \A u \in Threads \ {t} : Home[u] = Home[t] => pc[u] \notin Locked

\* The cycle's file lock: one runner at a time is past its first step.  (Its
\* store was built before the lock is taken, and may be out of date by then.)
EvolutionLockFree(t) ==
    t \in Runners => \A u \in Runners \ {t} : pc[u] \in {"idle", "exit"}

\* Thread t may start or go on: its process has a complete store.
At(t, label) == boot[Home[t]] = "ready" /\ pc[t] = label

Goto(t, label) == pc' = [pc EXCEPT ![t] = label]

\* Where a thread goes when an operation is over: the runner's cycle ends
\* with it, a thread of the web server waits for the next request.
Done(t) == IF t \in Runners THEN "exit" ELSE "idle"

\* A write of active.json gives it an mtime that no process has recorded.
WriteActive(p) ==
    /\ activeFile' = p
    /\ fresh' = [q \in Procs |-> FALSE]
    /\ released' = released \cup {p}

\* os.stat after a write or a load, by a thread of process p.
RecordMtime(p) == fresh' = [fresh EXCEPT ![p] = TRUE]

-----------------------------------------------------------------------------
(* PolicyStore.__init__: previous and candidate first, then active, then   *)
(* the candidate is dropped when it does not belong to the active policy.  *)

\* _load_auxiliary_policies: previous.json, if it is readable ...
LoadPrevious(p) ==
    /\ boot[p] = "down"
    /\ boot' = [boot EXCEPT ![p] = "previous"]
    /\ policy' = [policy EXCEPT ![p] = Baseline]
    /\ previous' = [previous EXCEPT ![p] = ReadSlot(previousFile)]
    /\ UNCHANGED <<fileVars, shadow, fresh, pc, reg, faults, histVars>>

\* ... then candidate.json; an unreadable one is moved away, unless that fails.
LoadCandidate(p) ==
    /\ boot[p] = "previous"
    /\ boot' = [boot EXCEPT ![p] = "aux"]
    /\ shadow' = [shadow EXCEPT ![p] = ReadSlot(candidateFile)]
    /\ \/ candidateFile' = ReadSlot(candidateFile) /\ UNCHANGED faults
       \/ candidateFile = Corrupt /\ UNCHANGED candidateFile /\ Fault
    /\ UNCHANGED <<activeFile, previousFile, policy, previous, fresh, pc, reg, histVars>>

\* active.json is there and readable.
LoadActive(p) ==
    /\ boot[p] = "aux"
    /\ activeFile \in Policies
    /\ boot' = [boot EXCEPT ![p] = "loaded"]
    /\ policy' = [policy EXCEPT ![p] = activeFile]
    /\ UNCHANGED <<fileVars, previous, shadow, fresh, pc, reg, faults, histVars>>

\* active.json is missing or unreadable, previous.json was readable: the
\* store goes back to it and saves it as active.json.
RecoverPrevious(p) ==
    /\ boot[p] = "aux"
    /\ activeFile \notin Policies
    /\ previous[p] # None
    /\ boot' = [boot EXCEPT ![p] = "loaded"]
    /\ policy' = [policy EXCEPT ![p] = previous[p]]
    /\ WriteActive(previous[p])
    /\ replaced' = None
    /\ UNCHANGED <<previousFile, candidateFile, previous, shadow, pc, reg, faults>>

\* ... neither is there: the shipped baseline, in memory only.
FallBackToBaseline(p) ==
    /\ boot[p] = "aux"
    /\ activeFile \notin Policies
    /\ previous[p] = None
    /\ boot' = [boot EXCEPT ![p] = "fallback"]
    /\ UNCHANGED <<fileVars, memVars, fresh, pc, reg, faults, histVars>>

\* Mutant of Stale: the parent is not compared.
StaleByVersion(c, active) == Version[c] = Version[active]

\* A candidate that was promoted already, or derived from another version.
Stale(c, active) ==
    \/ Version[c] = Version[active]
    \/ Parent[c] # None /\ Parent[c] # Version[active]

\* The stat that ends the load, and _discard_stale_shadow_after_active_load.
\* Whatever candidate.json holds by now is moved away; if that fails, the
\* file stays and only the memory forgets it.
DiscardStaleShadow(p) ==
    /\ boot[p] \in {"loaded", "fallback"}
    /\ boot' = [boot EXCEPT ![p] = "ready"]
    /\ fresh' = [fresh EXCEPT ![p] = (boot[p] = "loaded")]
    /\ IF shadow[p] # None /\ Stale(shadow[p], policy[p])
       THEN /\ shadow' = [shadow EXCEPT ![p] = None]
            /\ \/ candidateFile' = None /\ UNCHANGED faults
               \/ UNCHANGED candidateFile /\ Fault
       ELSE UNCHANGED <<shadow, candidateFile, faults>>
    /\ UNCHANGED <<activeFile, previousFile, policy, previous, pc, reg, histVars>>

\* The process is gone, and with it all memory.
Terminate(p) ==
    /\ boot' = [boot EXCEPT ![p] = "down"]
    /\ policy' = [policy EXCEPT ![p] = Baseline]
    /\ previous' = [previous EXCEPT ![p] = None]
    /\ shadow' = [shadow EXCEPT ![p] = None]
    /\ fresh' = [fresh EXCEPT ![p] = FALSE]
    /\ pc' = [t \in Threads |-> IF Home[t] = p THEN "idle" ELSE pc[t]]
    /\ reg' = [t \in Threads |-> IF Home[t] = p THEN None ELSE reg[t]]
    /\ UNCHANGED <<fileVars, histVars>>

\* A crash, a kill, or the recovery save that fails in the constructor.
Crash(p) == boot[p] # "down" /\ Fault /\ Terminate(p)

\* The runner prints its result and exits; the next cycle is a new process.
Exit(t) == t \in Runners /\ At(t, "exit") /\ Terminate(Home[t]) /\ UNCHANGED faults

-----------------------------------------------------------------------------
(* reload_if_changed, on each recall request, without the lock until the   *)
(* policy is installed.                                                    *)

\* The mtime differs: read the file.  An unreadable file leaves everything
\* as it is, a matching mtime too.
ReloadRead(t) ==
    /\ t \in Recallers /\ At(t, "idle")
    /\ ~fresh[Home[t]]
    /\ activeFile \in Policies
    /\ reg' = [reg EXCEPT ![t] = activeFile]
    /\ Goto(t, "install")
    /\ UNCHANGED <<fileVars, memVars, fresh, boot, faults, histVars>>

\* Mutant of ReloadInstall: the mtime is not recorded.
ReloadInstallForgetsMtime(t) ==
    /\ At(t, "install")
    /\ LockFree(t)
    /\ policy' = [policy EXCEPT ![Home[t]] = reg[t]]
    /\ reg' = [reg EXCEPT ![t] = None]
    /\ Goto(t, "idle")
    /\ UNCHANGED <<fileVars, previous, shadow, fresh, boot, faults, histVars>>

\* With the lock: install what was read, then stat the file as it is now.
ReloadInstall(t) ==
    /\ At(t, "install")
    /\ LockFree(t)
    /\ policy' = [policy EXCEPT ![Home[t]] = reg[t]]
    /\ RecordMtime(Home[t])
    /\ reg' = [reg EXCEPT ![t] = None]
    /\ Goto(t, "idle")
    /\ UNCHANGED <<fileVars, previous, shadow, boot, faults, histVars>>

-----------------------------------------------------------------------------
(* reject_shadow, by an operator.  The file goes first; if that fails,     *)
(* nothing has changed and the request fails.                              *)

RejectShadow(t) ==
    /\ t \in Operators /\ At(t, "idle")
    /\ LockFree(t)
    /\ candidateFile' = None
    /\ shadow' = [shadow EXCEPT ![Home[t]] = None]
    /\ UNCHANGED <<activeFile, previousFile, policy, previous, fresh, ctrlVars,
                   faults, histVars>>

-----------------------------------------------------------------------------
(* revert, by an operator or by a cycle that found the active policy       *)
(* degraded.  It goes back to what THIS process believes is the previous   *)
(* policy; previous.json is not read again.                                *)

\* Mutant of RevertTarget: always to the shipped baseline.
RevertTargetBaseline(p) == Baseline

RevertTarget(p) == IF previous[p] # None THEN previous[p] ELSE Baseline

RevertWriteActive(t) ==
    /\ t \in Operators \cup Runners /\ At(t, "idle")
    /\ LockFree(t)
    /\ EvolutionLockFree(t)
    /\ WriteActive(RevertTarget(Home[t]))
    /\ replaced' = None
    /\ Goto(t, "revert_stat")
    /\ UNCHANGED <<previousFile, candidateFile, memVars, boot, reg, faults>>

\* os.stat, and the swap in memory.
RevertSwap(t) ==
    /\ At(t, "revert_stat")
    /\ LET p == Home[t] IN
       /\ RecordMtime(p)
       /\ policy' = [policy EXCEPT ![p] = RevertTarget(p)]
       /\ previous' = [previous EXCEPT ![p] = None]
       /\ shadow' = [shadow EXCEPT ![p] = None]
    /\ Goto(t, "revert_previous")
    /\ UNCHANGED <<fileVars, boot, reg, faults, histVars>>

\* The chmod or the stat after the write fails: the file is reverted, the memory
\* is not, and the request or the cycle ends in an error.
RevertFails(t) ==
    /\ At(t, "revert_stat")
    /\ Fault
    /\ Goto(t, Done(t))
    /\ UNCHANGED <<fileVars, memVars, fresh, boot, reg, histVars>>

\* Each file that is unlinked may resist: that is logged and forgotten.
RevertUnlinkPrevious(t) ==
    /\ At(t, "revert_previous")
    /\ \/ previousFile' = None /\ UNCHANGED faults
       \/ previousFile # None /\ UNCHANGED previousFile /\ Fault
    /\ Goto(t, "revert_candidate")
    /\ UNCHANGED <<activeFile, candidateFile, memVars, fresh, boot, reg, histVars>>

RevertUnlinkCandidate(t) ==
    /\ At(t, "revert_candidate")
    /\ \/ candidateFile' = None /\ UNCHANGED faults
       \/ candidateFile # None /\ UNCHANGED candidateFile /\ Fault
    /\ Goto(t, Done(t))
    /\ UNCHANGED <<activeFile, previousFile, memVars, fresh, boot, reg, histVars>>

-----------------------------------------------------------------------------
(* The cycle's own path through the store: set_shadow, update_shadow_      *)
(* metadata, promote, each only if the verdict before it allows.  The      *)
(* verdicts are EvolutionCycle.tla's subject: any of them may come here.   *)

\* Mutant of CycleCandidates: the search goes on from the candidate in shadow.
CandidatesOfShadow(p) ==
    Children[policy[p]] \cup (IF shadow[p] # None THEN Children[shadow[p]] ELSE {})

\* Candidates of this cycle: derived from the active policy in memory, or
\* the shadow the store found on disk, when its parent is that policy.
CycleCandidates(p) ==
    Children[policy[p]] \cup
        {c \in {shadow[p]} \ {None} : Parent[c] \in {None, Version[policy[p]]}}

SetShadow(t) ==
    /\ t \in Runners /\ At(t, "idle")
    /\ EvolutionLockFree(t)
    /\ \E c \in CycleCandidates(Home[t]) :
        /\ shadow' = [shadow EXCEPT ![Home[t]] = c]
        /\ candidateFile' = c
    /\ Goto(t, "shadowed")
    /\ UNCHANGED <<activeFile, previousFile, policy, previous, fresh, boot, reg,
                   faults, histVars>>

UpdateShadowMetadata(t) ==
    /\ At(t, "shadowed")
    /\ candidateFile' = shadow[Home[t]]
    /\ Goto(t, "credited")
    /\ UNCHANGED <<activeFile, previousFile, memVars, fresh, boot, reg, faults, histVars>>

\* The cycle ends early: a gate refused, or a write raised an exception.
\* (A refused write changes no file, and the runner's memory dies with it.)
EndCycle(t) ==
    /\ t \in Runners
    /\ At(t, "idle") \/ At(t, "shadowed") \/ At(t, "credited")
    /\ Goto(t, "exit")
    /\ UNCHANGED <<fileVars, memVars, fresh, boot, reg, faults, histVars>>

\* Mutant of PromoteSavePrevious: the previous policy is kept in memory only.
PromoteKeepPreviousInMemory(t) ==
    /\ At(t, "credited")
    /\ LET p == Home[t] IN
       /\ reg' = [reg EXCEPT ![t] = previous[p]]
       /\ previous' = [previous EXCEPT ![p] = policy[p]]
    /\ Goto(t, "promote_active")
    /\ UNCHANGED <<fileVars, policy, shadow, fresh, boot, faults, histVars>>

\* promote: previous.json first ...
PromoteSavePrevious(t) ==
    /\ At(t, "credited")
    /\ LET p == Home[t] IN
       /\ reg' = [reg EXCEPT ![t] = previous[p]]
       /\ previous' = [previous EXCEPT ![p] = policy[p]]
       /\ previousFile' = policy[p]
    /\ Goto(t, "promote_active")
    /\ UNCHANGED <<activeFile, candidateFile, policy, shadow, fresh, boot, faults, histVars>>

\* ... then active.json ...
PromoteWriteActive(t) ==
    /\ At(t, "promote_active")
    /\ WriteActive(shadow[Home[t]])
    /\ replaced' = InForce
    /\ Goto(t, "promote_stat")
    /\ UNCHANGED <<previousFile, candidateFile, memVars, boot, reg, faults>>

\* Mutant of PromoteFails: the memory was swapped before the write.
PromoteFailsAfterSwap(t) ==
    /\ At(t, "promote_active")
    /\ Fault
    /\ policy' = [policy EXCEPT ![Home[t]] = shadow[Home[t]]]
    /\ Goto(t, "exit")
    /\ UNCHANGED <<fileVars, previous, shadow, fresh, boot, reg, histVars>>

\* ... or its write fails, or the chmod or stat after the write: the previous
\* policy is put back in memory only.
PromoteFails(t) ==
    /\ At(t, "promote_active") \/ At(t, "promote_stat")
    /\ Fault
    /\ previous' = [previous EXCEPT ![Home[t]] = reg[t]]
    /\ Goto(t, "exit")
    /\ UNCHANGED <<fileVars, policy, shadow, fresh, boot, reg, histVars>>

\* ... then the swap in memory with the mtime of the file ...
PromoteSwap(t) ==
    /\ At(t, "promote_stat")
    /\ LET p == Home[t] IN
       /\ RecordMtime(p)
       /\ policy' = [policy EXCEPT ![p] = shadow[p]]
       /\ shadow' = [shadow EXCEPT ![p] = None]
    /\ Goto(t, "promote_candidate")
    /\ UNCHANGED <<fileVars, previous, boot, reg, faults, histVars>>

\* ... and candidate.json goes, if it does not resist.
PromoteUnlinkCandidate(t) ==
    /\ At(t, "promote_candidate")
    /\ \/ candidateFile' = None /\ UNCHANGED faults
       \/ candidateFile # None /\ UNCHANGED candidateFile /\ Fault
    /\ Goto(t, Done(t))
    /\ UNCHANGED <<activeFile, previousFile, memVars, fresh, boot, reg, histVars>>

-----------------------------------------------------------------------------
(* A file is damaged from outside: a bad edit, a disk error.               *)

Damage(slot) ==
    /\ slot \in Damageable
    /\ Fault
    /\ \/ slot = "active" /\ activeFile # None /\ activeFile' = Corrupt
          /\ fresh' = [p \in Procs |-> FALSE]
          /\ UNCHANGED <<previousFile, candidateFile>>
       \/ slot = "previous" /\ previousFile # None /\ previousFile' = Corrupt
          /\ UNCHANGED <<activeFile, candidateFile, fresh>>
       \/ slot = "candidate" /\ candidateFile # None /\ candidateFile' = Corrupt
          /\ UNCHANGED <<activeFile, previousFile, fresh>>
    /\ UNCHANGED <<memVars, ctrlVars, histVars>>

Boot(p) ==
    \/ LoadPrevious(p) \/ LoadCandidate(p) \/ LoadActive(p) \/ RecoverPrevious(p)
    \/ FallBackToBaseline(p) \/ DiscardStaleShadow(p)

Reload(t) == ReloadRead(t) \/ ReloadInstall(t)

Revert(t) ==
    \/ RevertWriteActive(t) \/ RevertSwap(t) \/ RevertFails(t)
    \/ RevertUnlinkPrevious(t) \/ RevertUnlinkCandidate(t)

Promote(t) ==
    \/ PromoteSavePrevious(t) \/ PromoteWriteActive(t) \/ PromoteFails(t)
    \/ PromoteSwap(t) \/ PromoteUnlinkCandidate(t)

Cycle(t) == SetShadow(t) \/ UpdateShadowMetadata(t) \/ EndCycle(t) \/ Exit(t)

Next ==
    \/ \E p \in Procs : Boot(p) \/ Crash(p)
    \/ \E t \in Threads : Reload(t) \/ RejectShadow(t) \/ Revert(t)
                          \/ Promote(t) \/ Cycle(t)
    \/ \E slot \in Slots : Damage(slot)

Spec == Init /\ [][Next]_vars

\* Recall requests keep coming, and a thread that holds its store's lock goes
\* on: what it does there is straight-line file code that waits for no one.
Fairness ==
    /\ \A t \in Recallers : WF_vars(Reload(t))
    /\ \A t \in Threads : WF_vars(pc[t] \in Locked /\ (Revert(t) \/ Promote(t)))

FairSpec == Spec /\ Fairness

-----------------------------------------------------------------------------
(* Properties.                                                             *)

\* PolicyStore implements PolicyLifecycle: whatever the interleaving of the
\* web server and the cycle, and whichever writes fail, processes die or files
\* are damaged, the active file only ever moves to a candidate derived from a
\* policy that was in force (promote) or back to one that was (revert,
\* recovery in __init__).
Lifecycle == INSTANCE PolicyLifecycle WITH inForce <- InForce

LifecycleSpec == Lifecycle!Spec

\* No process ever serves a policy that was not in force: neither a candidate
\* in shadow nor the target of a promotion whose write failed gets into the
\* memory get() reads, by reload, recovery, promotion or rollback.
OnlyReleasedServed == \A p \in Procs : policy[p] \in released

\* A promotion preserves a recoverable Previous (promote's docstring): from the
\* moment active.json holds a promoted policy until it is rolled back, there
\* is a previous.json, whatever crashes or fails in between.
PromotedHasPrevious == replaced # None => previousFile # None

\* A store that starts never offers a candidate that was promoted already, nor
\* one that was derived from another policy than the one it will serve, as far
\* as versions tell policies apart: whatever an interrupted promotion or
\* rollback left in candidate.json, and whatever another process changed while
\* it was reading (_discard_stale_shadow_after_active_load).
StartupShadowFits ==
    [][\A p \in Procs :
          boot[p] # "ready" /\ boot'[p] = "ready" /\ shadow'[p] # None =>
              /\ Version[shadow'[p]] # Version[policy'[p]]
              /\ \E q \in released : /\ shadow'[p] \in Children[q]
                                    /\ Version[q] = Version[policy'[p]]]_vars

\* A rollback reverts the active policy to the last good state
\* (docs/self-evolution.md): while a promoted policy is in force, and as long as
\* nothing has failed, a rollback puts back the policy the promotion replaced.
RollbackRestoresReplaced ==
    [][\A t \in Threads :
          faults = 0 /\ replaced # None /\ RevertWriteActive(t) =>
              activeFile' = replaced]_vars

\* Hot reload (api_recall_test): as long as recalls keep coming, a server whose
\* active.json was replaced behind its back does not go on without a reload,
\* unless it stops or the file becomes unreadable.  (Whether the reload
\* installs what the file then holds is ReloadMatchesMtime.)
CatchingUp(p) == boot[p] = "ready" /\ ~fresh[p] /\ activeFile \in Policies

HotReloadCatchesUp ==
    \A t \in Recallers : CatchingUp(Home[t]) ~> ~CatchingUp(Home[t])

\* "Reload from disk if the file changed since last load" (reload_if_changed):
\* the mtime that a reload records, and that makes later calls skip the file,
\* belongs to the policy it installed.
ReloadMatchesMtime ==
    [][\A t \in Recallers :
          ReloadInstall(t) /\ activeFile \in Policies =>
              policy'[Home[t]] = activeFile]_vars
=============================================================================
