--------------------------- MODULE EvolutionCycle ---------------------------
(***************************************************************************)
(* The governance of the policy (src/openclaw_memory_os/evolution.py and   *)
(* the /api/evolution endpoints of app.py): when a candidate may replace   *)
(* the active policy, and what the cycle remembers between its weekly runs *)
(* in evolution-state.json.                                                *)
(*                                                                         *)
(* A cycle is a process of its own.  It loads the policy files, takes a    *)
(* file lock that makes cycles exclude each other, and only then reads the *)
(* state; it changes its copy, and writes the copy back when it ends.  The *)
(* policies it works on may be outdated by then, because another cycle has *)
(* held the lock meanwhile.  An endpoint of the web server loads and saves *)
(* the state without that lock.  The file is truncated and then written in *)
(* place, and whoever reads it in between, or after a crash, takes the     *)
(* defaults.                                                               *)
(*                                                                         *)
(* Rankings and metrics are abstracted to the verdict a cycle reaches: the *)
(* active policy is degraded; no candidate passes; one candidate passes    *)
(* every threshold.  The active, the previous and the candidate file are   *)
(* read, and changed, in one step: PolicyStore.tla looks inside that.      *)
(***************************************************************************)
EXTENDS Integers, Sequences, FiniteSets

CONSTANTS
    Slots,              \* what tells the candidates of one cycle apart
    Requests,           \* concurrent requests to /api/evolution
    Ops,                \* endpoints that are called
    Never,              \* no timestamp
    Nil,                \* no version, no policy, a file cut short
    WindowGap,          \* _PASS_WINDOW_MIN_GAP_SECONDS
    BreakerCooldown,    \* EVOLUTION_COOLDOWN_HOURS
    PromotionCooldown,  \* _PROMOTION_COOLDOWN_DAYS
    Period,             \* the 30 days of promotion_count_30d
    MaxPromotions,      \* _MAX_PROMOTIONS_PER_30D
    MaxRollbacks,       \* _MAX_CONSECUTIVE_ROLLBACKS
    MaxTime,            \* bound: the clock
    MaxDepth,           \* bound: generations of candidates
    MaxCount,           \* bound: rollbacks and passes counted in a row
    MaxCycles,          \* bound: cycles that are not skipped
    MaxRequests,        \* bound: requests
    MaxFaults           \* bound: crashes and failed saves

ASSUME EvolutionAssumption ==
    /\ Cardinality(Slots) \in Nat /\ 0 \notin Slots /\ Nil \notin Slots
    /\ Ops \subseteq {"pause", "resume", "reject", "rollback"}
    /\ {WindowGap, BreakerCooldown, PromotionCooldown, Period} \subseteq Nat
    /\ {MaxPromotions, MaxRollbacks} \subseteq Nat \ {0}
    /\ {MaxTime, MaxDepth, MaxCount, MaxCycles, MaxRequests, MaxFaults} \subseteq Nat
    /\ "cycle" \notin Requests
    /\ Never \notin Nat
    /\ Nil \notin [at : Nat, policy : Seq([slot : Slots, delta : {3, 5}])]

VARIABLES
    now,        \* the clock
    active,     \* the policy in force
    previous,   \* the policy it replaced, Nil if there is none
    released,   \* history: every policy that was ever in force
    retired,    \* history: every policy that ever was the previous one
    shadow,     \* the candidate in candidate.json, Nil if there is none
    maxDelta,   \* how far a candidate may be from its parent, in percent
    store,      \* the policies a runner without the lock has loaded, or Nil
    file,       \* evolution-state.json, Nil while it is cut short
    pc,         \* pc[a]: where the cycle or the request a is
    state,      \* state[a]: its copy of the state, the defaults without one
    base,       \* what the cycle that holds the lock has loaded
    cycles,     \* cycles so far that were not skipped
    calls,      \* requests so far
    faults,     \* crashes and failed saves so far
    history     \* what really happened, as far as no update of the file is
                \* lost to a race or a crash; Nil afterwards

policyVars == <<active, previous, released, retired>>
fileVars == <<policyVars, shadow, file>>
waitVars == <<maxDelta, store>>
boundVars == <<cycles, calls, faults>>
vars == <<now, fileVars, waitVars, pc, state, base, boundVars, history>>

Actors == Requests \cup {"cycle"}

\* Where a cycle evaluates: without, and with its candidate in candidate.json.
Evaluating == {"run", "shadowed"}

-----------------------------------------------------------------------------
(* Policies and versions.  generate_candidates perturbs the active policy  *)
(* along one coordinate per candidate, by 3 percent or, from 100 judged    *)
(* queries on, by 5, and draws the versions from a generator with a fixed  *)
(* seed: the candidate of a slot has the same version in every cycle,      *)
(* whatever policy it is derived from and however far.  A policy is the    *)
(* sequence of steps that leads to it from the baseline.                   *)

Narrow == 3
Wide == 5

Steps == [slot : Slots, delta : {Narrow, Wide}]

Baseline == <<>>

Policies == UNION {[1..n -> Steps] : n \in 0..MaxDepth}
Derived == Policies \ {Baseline}

Version(policy) == IF policy = Baseline THEN 0 ELSE policy[Len(policy)].slot

Parent(policy) == SubSeq(policy, 1, Len(policy) - 1)

\* generate_candidates.
Generated(policy, delta) ==
    IF Len(policy) < MaxDepth
    THEN {Append(policy, [slot |-> s, delta |-> delta]) : s \in Slots} ELSE {}

\* The candidates of a cycle that has loaded b: the one in shadow, if its parent
\* has the version of the active policy, and those generated of other versions.
PersistedShadow(b) ==
    {c \in {b.shadow} \ {Nil} : Version(Parent(c)) = Version(b.active)}

Candidates(b) ==
    PersistedShadow(b) \cup
        {c \in Generated(b.active, b.delta) : \A k \in PersistedShadow(b) : Version(k) # Version(c)}

\* PolicyStore.revert: the previous policy, or the baseline if there is none.
RevertTarget(prev) == IF prev # Nil THEN prev ELSE Baseline

\* The policy p replaces the active one.
PutInForce(p) == active' = p /\ released' = released \cup {p}

-----------------------------------------------------------------------------
(* The state.                                                              *)

Time == 0..MaxTime
Versions == Slots \cup {0}

Window == [cycle : Time \cup {Never}, result : {"passed", "failed"}, candidate_version : Versions \cup {Nil}]

State ==
    [promotion_count_30d    : 0..MaxPromotions,
     consecutive_rollbacks  : 0..MaxCount,
     last_promotion_at      : Time \cup {Never},
     pass_windows           : UNION {[1..n -> Window] : n \in 0..2},
     consecutive_passes     : 0..MaxCount,
     pass_candidate_version : Versions \cup {Nil},
     cooldown_start_at      : Time \cup {Never},
     paused                 : BOOLEAN]

\* No file, or one that does not parse.
Defaults ==
    [promotion_count_30d    |-> 0,
     consecutive_rollbacks  |-> 0,
     last_promotion_at      |-> Never,
     pass_windows           |-> <<>>,
     consecutive_passes     |-> 0,
     pass_candidate_version |-> Nil,
     cooldown_start_at      |-> Never,
     paused                 |-> FALSE]

LoadState == IF file = Nil THEN Defaults ELSE file

\* Mutant of AppendWindow: the ring buffer is never cut.
AppendWindowUncut(windows, w) == Append(windows, w)

\* pass_windows keeps the last two.
AppendWindow(windows, w) ==
    IF Len(windows) < 2 THEN Append(windows, w) ELSE <<windows[2], w>>

\* When and with which candidate a cycle failed makes no difference later.
RecordFailed(s) ==
    [s EXCEPT !.pass_windows = AppendWindow(@,
                  [cycle |-> Never, result |-> "failed", candidate_version |-> Nil]),
              !.consecutive_passes = 0,
              !.pass_candidate_version = Nil]

\* Another version than the one the bank was for starts the bank anew.
RecordPassed(s, version) ==
    LET same == s.pass_candidate_version = version IN
    [s EXCEPT !.pass_windows = AppendWindow(IF same THEN @ ELSE <<>>,
                  [cycle |-> now, result |-> "passed", candidate_version |-> version]),
              !.consecutive_passes = (IF same THEN @ ELSE 0) + 1,
              !.pass_candidate_version = version]

\* Mutant of RecordRollback: the windows are cleared, the count is not.
RecordRollbackKeepsCount(s) ==
    [s EXCEPT !.consecutive_rollbacks = @ + 1,
              !.cooldown_start_at = IF s.consecutive_rollbacks + 1 >= MaxRollbacks
                                    THEN now ELSE @,
              !.pass_windows = <<>>]

\* _force_rollback_with_metrics: the bank is emptied, the breaker counts.
RecordRollback(s) ==
    [s EXCEPT !.consecutive_rollbacks = @ + 1,
              !.cooldown_start_at = IF s.consecutive_rollbacks + 1 >= MaxRollbacks
                                    THEN now ELSE @,
              !.consecutive_passes = 0,
              !.pass_windows = <<>>]

RecordPromotion(s) ==
    [s EXCEPT !.last_promotion_at = now,
              !.promotion_count_30d = @ + 1,
              !.consecutive_rollbacks = 0,
              !.consecutive_passes = 0,
              !.pass_candidate_version = Nil,
              !.pass_windows = <<>>]

-----------------------------------------------------------------------------
(* _can_promote.                                                           *)

\* Mutant of TwoConsecutivePassWindows: two passes at one instant are two windows.
TwoPassesAnyGap(s, version) ==
    /\ Len(s.pass_windows) = 2
    /\ \A i \in 1..2 : /\ s.pass_windows[i].result = "passed"
                       /\ s.pass_windows[i].candidate_version = version
    /\ s.pass_candidate_version = version

TwoConsecutivePassWindows(s, version) ==
    /\ Len(s.pass_windows) = 2
    /\ \A i \in 1..2 : /\ s.pass_windows[i].result = "passed"
                       /\ s.pass_windows[i].candidate_version = version
    /\ s.pass_candidate_version = version
    /\ s.pass_windows[2].cycle - s.pass_windows[1].cycle >= WindowGap

WindowsPassed(s, version) ==
    s.consecutive_passes >= 2 /\ TwoConsecutivePassWindows(s, version)

CooldownOver(s) ==
    s.last_promotion_at # Never => now - s.last_promotion_at >= PromotionCooldown

\* Mutant of QuotaLeft: off by one.
QuotaLeftInclusive(s) == s.promotion_count_30d <= MaxPromotions

QuotaLeft(s) == s.promotion_count_30d < MaxPromotions

\* Mutant of BreakerClosed: the breaker opens one rollback late.
BreakerClosedInclusive(s) ==
    \/ s.consecutive_rollbacks <= MaxRollbacks
    \/ s.cooldown_start_at # Never /\ now - s.cooldown_start_at >= BreakerCooldown

\* The breaker: without a start of its cooldown it never closes again.
BreakerClosed(s) ==
    \/ s.consecutive_rollbacks < MaxRollbacks
    \/ s.cooldown_start_at # Never /\ now - s.cooldown_start_at >= BreakerCooldown

CanPromote(s, version) ==
    WindowsPassed(s, version) /\ CooldownOver(s) /\ QuotaLeft(s) /\ BreakerClosed(s)

-----------------------------------------------------------------------------
\* The policies as they are on disk.
OnDisk == [active |-> active, previous |-> previous, shadow |-> shadow]

Unloaded == [active |-> Baseline, previous |-> Nil, shadow |-> Nil, delta |-> Narrow]

Init ==
    /\ now = 0
    /\ active = Baseline /\ previous = Nil /\ released = {Baseline} /\ retired = {}
    /\ shadow = Nil /\ maxDelta = Narrow /\ store = Nil
    /\ file = Defaults
    /\ pc = [a \in Actors |-> "idle"]
    /\ state = [a \in Actors |-> Defaults]
    /\ base = Unloaded
    /\ cycles = 0 /\ calls = 0 /\ faults = 0
    /\ history = [lastPass   |-> Nil,    \* when and for which policy the last cycle passed
                  promotions |-> <<>>,   \* the times of all promotions
                  rollbacks  |-> 0,      \* cycles that rolled back since the last one
                  rolledBack |-> Never,  \* when the last of them did
                  disturbed  |-> FALSE,  \* since a cycle changed the policy last: an operator
                                         \* rolled back, the range was widened, or a cycle
                                         \* worked on policies that were outdated
                  outdated   |-> {}]     \* who holds a copy older than the file

Remember(h) == history' = IF history = Nil THEN Nil ELSE h

\* Actor a has loaded the state: what a file cut short held is lost.
RememberLoad(a, h) ==
    Remember(IF file = Nil THEN Nil ELSE [h EXCEPT !.outdated = @ \ {a}])

\* Leave with the state s to be saved.
Finish(a, s) ==
    /\ state' = [state EXCEPT ![a] = s]
    /\ pc' = [pc EXCEPT ![a] = "save"]

\* The end: nothing in memory is used again.
Stop(a) ==
    /\ state' = [state EXCEPT ![a] = Defaults]
    /\ pc' = [pc EXCEPT ![a] = "idle"]

\* A cycle may take long to evaluate; requests, saves and a start take no time.
Tick ==
    /\ now < MaxTime
    /\ \A a \in Actors : pc[a] \in Evaluating \cup {"idle"}
    /\ store = Nil
    /\ now' = now + 1
    /\ UNCHANGED <<fileVars, waitVars, pc, state, base, boundVars, history>>

\* The 100th query is judged.
Widen ==
    /\ maxDelta = Narrow
    /\ maxDelta' = Wide
    /\ Remember([history EXCEPT !.disturbed = TRUE])
    /\ UNCHANGED <<now, fileVars, store, pc, state, base, boundVars>>

-----------------------------------------------------------------------------
(* The cycle.                                                              *)

\* A runner starts: its PolicyStore loads the policies.  A candidate of the active
\* version, or derived from another version, is put aside.
LoadStore ==
    LET stale == \/ Version(shadow) = Version(active)
                 \/ Version(Parent(shadow)) # Version(active) IN
    /\ store = Nil
    /\ shadow' = IF shadow # Nil /\ stale THEN Nil ELSE shadow
    /\ store' = [active |-> active, previous |-> previous, shadow |-> shadow']
    /\ UNCHANGED <<now, policyVars, file, maxDelta, pc, state, base, boundVars, history>>

\* It finds the lock held, or dies.
GiveUp ==
    /\ store # Nil
    /\ store' = Nil
    /\ UNCHANGED <<now, fileVars, maxDelta, pc, state, base, boundVars, history>>

\* Mutant of StartCycle: a cycle derives its candidates from the one in shadow.
StartCycleFromShadow ==
    /\ store # Nil
    /\ pc["cycle"] = "idle"
    /\ pc' = [pc EXCEPT !["cycle"] = "run"]
    /\ state' = [state EXCEPT !["cycle"] = LoadState]
    /\ base' = [previous |-> store.previous, shadow |-> Nil, delta |-> maxDelta,
                active |-> IF store.shadow # Nil THEN store.shadow ELSE store.active]
    /\ store' = Nil
    /\ RememberLoad("cycle", [history EXCEPT !.disturbed = @ \/ store # OnDisk])
    /\ UNCHANGED <<now, fileVars, maxDelta, boundVars>>

\* It gets the lock, loads the state and counts the judged queries; the policies
\* are not loaded again.  "paused" is not looked at.
StartCycle ==
    /\ store # Nil
    /\ pc["cycle"] = "idle"
    /\ pc' = [pc EXCEPT !["cycle"] = "run"]
    /\ state' = [state EXCEPT !["cycle"] = LoadState]
    /\ base' = [active |-> store.active, previous |-> store.previous,
                shadow |-> store.shadow, delta |-> maxDelta]
    /\ store' = Nil
    /\ RememberLoad("cycle", [history EXCEPT !.disturbed = @ \/ store # OnDisk])
    /\ UNCHANGED <<now, fileVars, maxDelta, boundVars>>

\* Cold start: too few judged queries.
SkipCycle ==
    /\ pc["cycle"] = "run"
    /\ base.delta = Narrow
    /\ Stop("cycle")
    /\ base' = Unloaded
    /\ Remember([history EXCEPT !.outdated = @ \ {"cycle"}])
    /\ UNCHANGED <<now, fileVars, waitVars, boundVars>>

\* The best of the candidates is written to candidate.json.
SetShadow ==
    /\ pc["cycle"] = "run"
    /\ \E c \in Candidates(base) : shadow' = c /\ base' = [base EXCEPT !.shadow = c]
    /\ pc' = [pc EXCEPT !["cycle"] = "shadowed"]
    /\ UNCHANGED <<now, policyVars, file, waitVars, state, boundVars, history>>

\* The cycle comes to one of the ends below.
Completes ==
    /\ pc["cycle"] \in Evaluating
    /\ cycles < MaxCycles
    /\ cycles' = cycles + 1
    /\ base' = Unloaded

\* _check_rollback finds the active policy degraded.
RollBackCycle ==
    /\ Completes
    /\ pc["cycle"] = "run"
    /\ state["cycle"].consecutive_rollbacks < MaxCount
    /\ PutInForce(RevertTarget(base.previous))
    /\ previous' = Nil /\ shadow' = Nil
    /\ Finish("cycle", RecordRollback(state["cycle"]))
    /\ Remember([history EXCEPT !.lastPass = Nil, !.rollbacks = @ + 1, !.rolledBack = now,
                                !.disturbed = FALSE])
    /\ UNCHANGED <<now, retired, file, waitVars, calls, faults>>

\* No candidate gets through the funnel or the validation, or the one in shadow
\* misses a threshold.
FailCycle ==
    /\ Completes
    /\ Finish("cycle", RecordFailed(state["cycle"]))
    /\ Remember([history EXCEPT !.lastPass = Nil])
    /\ UNCHANGED <<now, fileVars, waitVars, calls, faults>>

\* Anything raises an exception: the state is loaded anew for the record.
ErrorCycle ==
    /\ Completes
    /\ Finish("cycle", RecordFailed(LoadState))
    /\ RememberLoad("cycle", [history EXCEPT !.lastPass = Nil])
    /\ UNCHANGED <<now, fileVars, waitVars, calls, faults>>

\* The candidate in shadow passes every threshold ...
Passes ==
    /\ Completes
    /\ pc["cycle"] = "shadowed"
    /\ state["cycle"].consecutive_passes < MaxCount

\* ... and stays there, because a gate refuses; candidate.json is written again,
\* with the count of passes, whether or not the candidate was rejected meanwhile ...
CreditCycle ==
    LET s == RecordPassed(state["cycle"], Version(base.shadow)) IN
    /\ Passes
    /\ ~CanPromote(s, Version(base.shadow))
    /\ shadow' = base.shadow
    /\ Finish("cycle", s)
    /\ Remember([history EXCEPT !.lastPass = [at |-> now, policy |-> base.shadow]])
    /\ UNCHANGED <<now, policyVars, file, waitVars, calls, faults>>

\* ... or replaces the policy that the cycle takes for the active one.
PromoteCycle ==
    LET s == RecordPassed(state["cycle"], Version(base.shadow)) IN
    /\ Passes
    /\ CanPromote(s, Version(base.shadow))
    /\ PutInForce(base.shadow)
    /\ previous' = base.active /\ retired' = retired \cup {base.active}
    /\ shadow' = Nil
    /\ Finish("cycle", RecordPromotion(s))
    /\ Remember([history EXCEPT !.lastPass = Nil, !.promotions = Append(@, now),
                                !.rollbacks = 0, !.rolledBack = Never, !.disturbed = FALSE])
    /\ UNCHANGED <<now, file, waitVars, calls, faults>>

-----------------------------------------------------------------------------
(* The endpoints.  Pause and resume set a flag that only the dashboard     *)
(* reads.                                                                  *)

Request(r, op) ==
    /\ pc[r] = "idle"
    /\ calls < MaxRequests
    /\ calls' = calls + 1
    /\ RememberLoad(r, history)
    /\ \/ op = "pause" /\ Finish(r, [LoadState EXCEPT !.paused = TRUE])
       \/ op = "resume" /\ Finish(r, [LoadState EXCEPT !.paused = FALSE])
    /\ UNCHANGED <<now, fileVars, waitVars, base, cycles, faults>>

\* A rejection removes the candidate first ...
RejectRequest(r) ==
    /\ "reject" \in Ops /\ pc[r] = "idle"
    /\ calls < MaxRequests
    /\ calls' = calls + 1
    /\ shadow' = Nil
    /\ pc' = [pc EXCEPT ![r] = "rejected"]
    /\ UNCHANGED <<now, policyVars, file, waitVars, state, base, cycles, faults, history>>

\* ... and saves when that was; the bank of the candidate stays.
RecordRejection(r) ==
    /\ pc[r] = "rejected"
    /\ Finish(r, LoadState)
    /\ RememberLoad(r, history)
    /\ UNCHANGED <<now, fileVars, waitVars, base, boundVars>>

\* A rollback reverts the policy first.  The server's store knows the previous
\* policy it found when it was started: the last one, an older one, or none; then
\* it goes back to the baseline (PolicyStore.tla follows what a store believes).
RevertRequest(r) ==
    /\ "rollback" \in Ops /\ pc[r] = "idle"
    /\ calls < MaxRequests
    /\ calls' = calls + 1
    /\ \E p \in retired \cup {Baseline} : PutInForce(p)
    /\ previous' = Nil /\ shadow' = Nil
    /\ pc' = [pc EXCEPT ![r] = "reverted"]
    /\ Remember([history EXCEPT !.disturbed = TRUE])
    /\ UNCHANGED <<now, retired, file, waitVars, state, base, cycles, faults>>

\* Then it is counted.  No cooldown starts, and the bank stays.
CountRollback(r) ==
    /\ pc[r] = "reverted"
    /\ LoadState.consecutive_rollbacks < MaxCount
    /\ Finish(r, [LoadState EXCEPT !.consecutive_rollbacks = @ + 1])
    /\ RememberLoad(r, history)
    /\ UNCHANGED <<now, fileVars, waitVars, base, boundVars>>

-----------------------------------------------------------------------------
(* _save_evolution_state: open(..., "w") cuts the file, the text follows.  *)
(* If another writer has filled it meanwhile, its text is overwritten in   *)
(* place, and the end of the longer text may stay behind.                  *)

SaveTruncate(a) ==
    /\ pc[a] = "save"
    /\ file' = Nil
    /\ pc' = [pc EXCEPT ![a] = "fill"]
    /\ Remember(IF a \in history.outdated THEN Nil
                ELSE [history EXCEPT !.outdated =
                          {b \in Actors \ {a} : pc[b] \in Evaluating \cup {"save"}}])
    /\ UNCHANGED <<now, policyVars, shadow, waitVars, state, base, boundVars>>

SaveFill(a) ==
    /\ pc[a] = "fill"
    /\ \/ file' = state[a]
       \/ file # Nil /\ file' = Nil
    /\ Stop(a)
    /\ Remember(IF file # Nil THEN Nil ELSE history)
    /\ UNCHANGED <<now, policyVars, shadow, waitVars, base, boundVars>>

\* The process dies: in a save, the file stays cut short.
Crash(a) ==
    /\ pc[a] # "idle"
    /\ faults < MaxFaults
    /\ faults' = faults + 1
    /\ Stop(a)
    /\ base' = IF a = "cycle" THEN Unloaded ELSE base
    /\ history' = Nil
    /\ UNCHANGED <<now, fileVars, waitVars, cycles, calls>>

\* The cycle's save raises an exception (the disk is full): whatever the cycle
\* did, a promotion too, is recorded as a failed cycle.
SaveError ==
    /\ pc["cycle"] \in {"save", "fill"}
    /\ faults < MaxFaults
    /\ faults' = faults + 1
    /\ Finish("cycle", RecordFailed(LoadState))
    /\ history' = Nil
    /\ UNCHANGED <<now, fileVars, waitVars, base, cycles, calls>>

Next ==
    \/ Tick \/ Widen
    \/ LoadStore \/ GiveUp \/ StartCycle \/ SkipCycle \/ SetShadow
    \/ RollBackCycle \/ FailCycle \/ ErrorCycle \/ CreditCycle \/ PromoteCycle
    \/ \E r \in Requests : \/ \E op \in Ops : Request(r, op)
                           \/ RejectRequest(r) \/ RecordRejection(r)
                           \/ RevertRequest(r) \/ CountRollback(r)
    \/ \E a \in Actors : SaveTruncate(a) \/ SaveFill(a) \/ Crash(a)
    \/ SaveError

Spec == Init /\ [][Next]_vars

-----------------------------------------------------------------------------
(* Properties.                                                             *)

\* What a runner has loaded without the lock, and with it.
Loaded == [active : Policies, previous : Policies \cup {Nil}, shadow : Derived \cup {Nil}]

Bases == [active : Policies, previous : Policies \cup {Nil}, shadow : Derived \cup {Nil},
          delta : {Narrow, Wide}]

TypeOK ==
    /\ now \in Time
    /\ active \in Policies
    /\ previous \in Policies \cup {Nil} /\ released \subseteq Policies
    /\ retired \subseteq Policies /\ shadow \in Derived \cup {Nil}
    /\ maxDelta \in {Narrow, Wide} /\ store \in Loaded \cup {Nil}
    /\ file \in State \cup {Nil}
    /\ pc \in [Actors -> Evaluating \cup {"idle", "rejected", "reverted", "save", "fill"}]
    /\ state \in [Actors -> State]
    /\ base \in Bases
    /\ cycles \in 0..MaxCycles /\ calls \in 0..MaxRequests /\ faults \in 0..MaxFaults

\* The count of passes in a row and the windows behind it tell the same story,
\* in the file and in every copy, whatever is lost, interrupted or overwritten:
\* a count of n means that the last n windows kept are passes of the one
\* candidate the bank is for (_record_cycle_result and the three places in
\* evolution.py that reset the bank, each by hand).
BankAddsUp(s) ==
    LET n == Len(s.pass_windows)
        k == IF s.consecutive_passes < 2 THEN s.consecutive_passes ELSE 2 IN
    /\ k <= n
    /\ \A i \in (n - k + 1)..n :
          /\ s.pass_windows[i].result = "passed"
          /\ s.pass_windows[i].candidate_version = s.pass_candidate_version

BankConsistent ==
    /\ file # Nil => BankAddsUp(file)
    /\ \A a \in Actors : BankAddsUp(state[a])

\* A candidate becomes active only if the cycle before this one passed a candidate
\* of its version at least WindowGap earlier; and that candidate is the same policy,
\* unless since the last change by a cycle an operator has rolled back, the range of
\* the candidates was widened, or a cycle worked on policies that were outdated (see
\* WindowsOfSameCandidate).  Pauses, resumes and rejections during a cycle do not
\* change this as long as they do not overwrite each other's file (_can_promote,
\* _two_consecutive_pass_windows).
PromotionEarned ==
    [][PromoteCycle /\ history # Nil =>
          /\ history.lastPass # Nil
          /\ Version(history.lastPass.policy) = Version(base.shadow)
          /\ now - history.lastPass.at >= WindowGap
          /\ ~history.disturbed => history.lastPass.policy = base.shadow]_vars

\* "Cooldown 7 days; max 2 promotions per 30d" (evolution.py, module docstring),
\* through rollbacks of both kinds.
PromotionsRationed ==
    history # Nil =>
        \A i \in 2..Len(history.promotions) :
            LET at == history.promotions IN
            /\ at[i] - at[i-1] >= PromotionCooldown
            /\ i > MaxPromotions => at[i] - at[i - MaxPromotions] >= Period

\* The circuit breaker: once MaxRollbacks cycles have rolled back since the last
\* promotion, nothing is promoted before BreakerCooldown is over, whatever
\* an operator rolls back besides (_can_promote, EVOLUTION_COOLDOWN_HOURS).
BreakerHolds ==
    [][PromoteCycle /\ history # Nil /\ history.rollbacks >= MaxRollbacks =>
          now - history.rolledBack >= BreakerCooldown]_vars

\* "Production callers pass the selected candidate version, preventing candidate
\* A's pass from helping candidate B" (_can_promote): the windows that a
\* promotion spends are passes of the policy it promotes.
WindowsOfSameCandidate ==
    [][PromoteCycle /\ history # Nil =>
          history.lastPass # Nil /\ history.lastPass.policy = base.shadow]_vars

\* "max 2 promotions per 30d" (module docstring): a candidate that only the
\* quota keeps in shadow is kept there because of promotions in the Period.
QuotaRefusalJustified ==
    [][LET v == Version(base.shadow)
           s == RecordPassed(state["cycle"], v) IN
       CreditCycle /\ history # Nil
           /\ WindowsPassed(s, v) /\ CooldownOver(s) /\ BreakerClosed(s) =>
           Cardinality({i \in DOMAIN history.promotions :
                           now - history.promotions[i] < Period}) >= MaxPromotions]_vars

\* EvolutionCycle implements PolicyLifecycle, as PolicyStore does: whatever the
\* cycles and endpoints decide, on outdated copies and through crashes, failed
\* saves and requests in between, the policy in force changes only to a candidate
\* derived from a policy that was in force, or back to one that was
\* (evolution.py:1284-1717; policy_store.py:743-836).
Lifecycle == INSTANCE PolicyLifecycle WITH
    inForce <- active,
    Children <- [p \in Policies |-> Generated(p, Narrow) \cup Generated(p, Wide)]

LifecycleSpec == Lifecycle!Spec
=============================================================================
