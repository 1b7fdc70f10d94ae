-------------------------- MODULE EvolutionProofs --------------------------
(***************************************************************************)
(* Proofs about EvolutionCycle, for any slots, requests and endpoints, any *)
(* gap, cooldowns and quota, and any number of cycles and faults.          *)
(***************************************************************************)
EXTENDS EvolutionCycle, SequenceTheorems, TLAPS

-----------------------------------------------------------------------------
(* The inductive invariant: the state file and its copies.                 *)

\* What really happened, as long as it is known.
Histories ==
    [lastPass   : [at : Time, policy : Policies] \cup {Nil},
     promotions : Seq(Time),
     rollbacks  : Nat,
     rolledBack : Time \cup {Never},
     disturbed  : BOOLEAN,
     outdated   : SUBSET Actors]

\* The types of the variables, where a cycle and a request can be, and the bank.
StateFits ==
    /\ TypeOK
    /\ pc["cycle"] \notin {"rejected", "reverted"}
    /\ \A r \in Requests : pc[r] \notin Evaluating
    /\ pc["cycle"] = "shadowed" => base.shadow \in Derived
    /\ BankConsistent

\* As long as no update was lost, one actor at a time fills the file, and whoever
\* still holds a copy then holds an old one.
Copied == Evaluating \cup {"save"}

OneFills ==
    \A a \in Actors : pc[a] = "fill" =>
        /\ file = Nil
        /\ a \notin history.outdated
        /\ \A b \in Actors \ {a} :
               /\ pc[b] # "fill"
               /\ pc[b] \in Copied => b \in history.outdated

\* The state s knows of every promotion in the history h, ...
KnowsPromotions(h, s) ==
    /\ s.promotion_count_30d = Len(h.promotions)
    /\ s.last_promotion_at = IF Len(h.promotions) = 0 THEN Never
                             ELSE h.promotions[Len(h.promotions)]

\* ... of every rollback of a cycle since the last promotion, ...
KnowsRollbacks(h, s) ==
    /\ h.rollbacks <= s.consecutive_rollbacks
    /\ h.rollbacks >= MaxRollbacks => s.cooldown_start_at = h.rolledBack

\* ... and of the last cycle, if that one passed.
KnowsLastPass(h, s) ==
    s.consecutive_passes >= 1 =>
        /\ h.lastPass # Nil
        /\ s.pass_candidate_version = Version(h.lastPass.policy)
        /\ s.pass_windows[Len(s.pass_windows)].cycle = h.lastPass.at

Knows(h, s) == KnowsPromotions(h, s) /\ KnowsRollbacks(h, s) /\ KnowsLastPass(h, s)

\* Only cycles change what Knows is about.  A cycle that is not idle knows, even
\* if its copy is outdated; while no change of a cycle waits to be saved, so do
\* the file and every request whose copy is not outdated.
CopiesKnow ==
    /\ pc["cycle"] # "idle" => Knows(history, state["cycle"])
    /\ pc["cycle"] \in Evaluating \cup {"idle"} =>
           /\ file # Nil => Knows(history, file)
           /\ \A r \in Requests :
                  pc[r] \in {"save", "fill"} /\ r \notin history.outdated =>
                      Knows(history, state[r])

\* Undisturbed, the policy that passed last and the one in shadow are generated from
\* the policy in force, the one a running cycle has loaded, as that cycle would.
LastPassIsCandidate ==
    ~history.disturbed =>
        /\ history.lastPass # Nil => history.lastPass.policy \in Generated(active, maxDelta)
        /\ shadow # Nil => shadow \in Generated(active, maxDelta)
        /\ pc["cycle"] \in Evaluating =>
               /\ base.active = active /\ base.delta = maxDelta
               /\ base.shadow # Nil => base.shadow \in Generated(active, maxDelta)
        /\ pc["cycle"] = "shadowed" => base.shadow \in Generated(active, maxDelta)

\* The quota and the cooldown, in the past.
Rationed(at) ==
    /\ Len(at) <= MaxPromotions
    /\ \A i \in 2..Len(at) : at[i] - at[i-1] >= PromotionCooldown

HistoryFits ==
    history # Nil =>
        /\ history \in Histories
        /\ OneFills /\ CopiesKnow /\ LastPassIsCandidate
        /\ Rationed(history.promotions)

EvolutionInv == StateFits /\ HistoryFits

-----------------------------------------------------------------------------
(* Sequences of bounded length: windows and policies.                      *)

\* A function on 1..n, for an n up to N, is a sequence of at most N elements.
LEMMA BoundedSeq ==
  ASSUME NEW S, NEW N \in Nat, NEW w
  PROVE  w \in UNION {[1..n -> S] : n \in 0..N} <=> w \in Seq(S) /\ Len(w) <= N
<1>1. ASSUME NEW n \in 0..N, w \in [1..n -> S] PROVE w \in Seq(S) /\ Len(w) <= N
  <2>1. n \in Nat /\ n <= N
    OBVIOUS
  <2>2. w \in Seq(S) /\ Len(w) = n
    BY <1>1, <2>1
  <2> QED
    BY <2>1, <2>2
<1>2. ASSUME w \in Seq(S), Len(w) <= N PROVE w \in UNION {[1..n -> S] : n \in 0..N}
  <2>1. Len(w) \in 0..N /\ w \in [1..Len(w) -> S]
    BY <1>2
  <2> QED
    BY <2>1
<1> QED
  BY <1>1, <1>2

\* The candidates generated from a policy are policies, told apart by their versions.
LEMMA GeneratedArePolicies ==
  ASSUME NEW p \in Policies, NEW d \in {Narrow, Wide}, NEW c \in Generated(p, d)
  PROVE  /\ c \in Derived
         /\ c = Append(p, [slot |-> Version(c), delta |-> d])
<1>1. MaxDepth \in Nat
  BY EvolutionAssumption
<1>2. p \in Seq(Steps) /\ Len(p) < MaxDepth
  BY <1>1, BoundedSeq DEF Policies, Generated
<1>3. PICK s \in Slots : c = Append(p, [slot |-> s, delta |-> d])
  BY <1>2 DEF Generated
<1> DEFINE step == [slot |-> s, delta |-> d]
<1>4. step \in Steps /\ step.slot = s
  BY DEF Steps
<1>5. c = Append(p, step)
  BY <1>3
<1> HIDE DEF step
<1>6. c \in Seq(Steps) /\ Len(c) = Len(p) + 1 /\ c[Len(c)] = step
  BY <1>2, <1>4, <1>5
<1>7. c \in Policies
  <2>1. Len(c) <= MaxDepth
    BY <1>1, <1>2, <1>6
  <2> QED
    BY <1>1, <1>6, <2>1, BoundedSeq DEF Policies
<1>8. c # Baseline
  BY <1>2, <1>6 DEF Baseline
<1>9. Version(c) = s
  BY <1>4, <1>6, <1>8 DEF Version
<1> QED
  BY <1>5, <1>7, <1>8, <1>9 DEF step, Derived

\* Of two candidates generated alike, one of the other's version is the other.
LEMMA VersionIdentifies ==
  ASSUME NEW p \in Policies, NEW e \in {Narrow, Wide}, NEW c \in Generated(p, e),
         NEW d \in Generated(p, e), Version(c) = Version(d)
  PROVE  c = d
BY GeneratedArePolicies

\* A policy other than the baseline has the version of its last slot.
LEMMA DerivedVersion ==
  ASSUME NEW c \in Derived
  PROVE  c \in Policies /\ Version(c) \in Slots
<1>1. c \in Seq(Steps) /\ c # Baseline /\ c \in Policies
  BY EvolutionAssumption, BoundedSeq DEF Derived, Policies
<1>2. c[Len(c)] \in Steps
  BY <1>1, EmptySeq DEF Baseline
<1>3. c[Len(c)].slot \in Slots
  BY <1>2 DEF Steps
<1> QED
  BY <1>1, <1>3 DEF Version

\* The candidates of a cycle are the one it has found in shadow and generated ones.
LEMMA CandidatesAre ==
  ASSUME NEW b \in Bases, NEW c \in Candidates(b)
  PROVE  /\ c \in Derived
         /\ (c = b.shadow /\ b.shadow # Nil) \/ c \in Generated(b.active, b.delta)
<1>1. /\ b.active \in Policies /\ b.delta \in {Narrow, Wide}
      /\ b.shadow \in Derived \cup {Nil}
  BY DEF Bases
<1>2. (c = b.shadow /\ b.shadow # Nil) \/ c \in Generated(b.active, b.delta)
  BY DEF Candidates, PersistedShadow
<1> QED
  BY <1>1, <1>2, GeneratedArePolicies

\* A sequence of at most two elements.
LEMMA ShortSeq ==
  ASSUME NEW S, NEW ws \in Seq(S), Len(ws) <= 2
  PROVE  /\ ws = <<>> <=> Len(ws) = 0
         /\ Len(ws) \in {0, 1, 2}
<1> DEFINE n == Len(ws)
<1>1. n \in Nat /\ n <= 2
  OBVIOUS
<1>2. ws # <<>> => n \in Nat \ {0}
  BY EmptySeq
<1>3. ws = <<>> => n = 0
  OBVIOUS
<1> HIDE DEF n
<1>4. n \in {0, 1, 2} /\ (ws = <<>> <=> n = 0)
  BY <1>1, <1>2, <1>3
<1> QED
  BY <1>4 DEF n

\* pass_windows keeps the last two: what was the last window is the one before
\* the new one.
LEMMA WindowAppended ==
  ASSUME NEW ws \in Seq(Window), Len(ws) <= 2, NEW w \in Window
  PROVE  /\ AppendWindow(ws, w) \in Seq(Window)
         /\ Len(AppendWindow(ws, w)) = IF ws = <<>> THEN 1 ELSE 2
         /\ AppendWindow(ws, w)[Len(AppendWindow(ws, w))] = w
         /\ ws # <<>> => AppendWindow(ws, w)[1] = ws[Len(ws)]
<1>1. (ws = <<>> <=> Len(ws) = 0) /\ Len(ws) \in {0, 1, 2}
  BY ShortSeq
<1>2. /\ Append(ws, w) \in Seq(Window) /\ Len(Append(ws, w)) = Len(ws) + 1
      /\ Append(ws, w)[Len(ws) + 1] = w
      /\ \A i \in 1..Len(ws) : Append(ws, w)[i] = ws[i]
  OBVIOUS
<1>3. CASE Len(ws) = 0
  <2>1. AppendWindow(ws, w) = Append(ws, w)
    BY <1>3 DEF AppendWindow
  <2> QED
    BY <1>1, <1>2, <1>3, <2>1
<1>4. CASE Len(ws) = 1
  <2>1. AppendWindow(ws, w) = Append(ws, w)
    BY <1>4 DEF AppendWindow
  <2>2. Append(ws, w)[1] = ws[1] /\ ws # <<>>
    BY <1>1, <1>2, <1>4
  <2> QED
    BY <1>2, <1>4, <2>1, <2>2
<1>5. CASE Len(ws) = 2
  <2>1. ws[2] \in Window /\ ws # <<>>
    BY <1>1, <1>5
  <2>2. AppendWindow(ws, w) = <<ws[2], w>>
    BY <1>5 DEF AppendWindow
  <2> QED
    BY <1>5, <2>1, <2>2
<1> QED
  BY <1>1, <1>3, <1>4, <1>5

-----------------------------------------------------------------------------
(* The records of evolution.py: types, and the bank of passes.             *)

Windows == UNION {[1..n -> Window] : n \in 0..2}

\* Windows, as sequences.
LEMMA WindowsAre == \A ws : ws \in Windows <=> ws \in Seq(Window) /\ Len(ws) <= 2
BY BoundedSeq DEF Windows

\* The empty bank has windows of the right type.
LEMMA NoWindows == <<>> \in Windows
<1>1. <<>> \in Seq(Window) /\ Len(<<>>) = 0
  BY EmptySeq
<1>2. Len(<<>>) <= 2
  BY <1>1
<1> QED
  BY <1>1, <1>2, WindowsAre

\* The fields of a state, with a name for the type of its windows.
LEMMA StateShape ==
  State = [promotion_count_30d : 0..MaxPromotions, consecutive_rollbacks : 0..MaxCount,
           last_promotion_at : Time \cup {Never}, pass_windows : Windows,
           consecutive_passes : 0..MaxCount, pass_candidate_version : Versions \cup {Nil},
           cooldown_start_at : Time \cup {Never}, paused : BOOLEAN]
BY DEF State, Windows

\* An empty bank adds up, whatever windows are kept.
LEMMA EmptyBank ==
  ASSUME NEW s, s.pass_windows \in Windows, s.consecutive_passes = 0
  PROVE  BankAddsUp(s)
<1> DEFINE n == Len(s.pass_windows)
<1>1. n \in Nat
  BY WindowsAre
<1> HIDE DEF n
<1>2. 0 <= n /\ (n - 0 + 1)..n = {}
  BY <1>1
<1> QED
  BY <1>2 DEF BankAddsUp, n

\* What adds up are the bank, its candidate and the windows, and nothing else.
LEMMA SameBank ==
  ASSUME NEW s, NEW t, BankAddsUp(s),
         t.pass_windows = s.pass_windows, t.consecutive_passes = s.consecutive_passes,
         t.pass_candidate_version = s.pass_candidate_version
  PROVE  BankAddsUp(t)
BY DEF BankAddsUp

\* A bank that is not empty has a window, and the last one passed.
LEMMA BankHasWindow ==
  ASSUME NEW s \in State, BankAddsUp(s), s.consecutive_passes >= 1
  PROVE  /\ s.pass_windows # <<>> /\ Len(s.pass_windows) \in {1, 2}
         /\ s.pass_windows[Len(s.pass_windows)].result = "passed"
         /\ s.pass_windows[Len(s.pass_windows)].candidate_version = s.pass_candidate_version
<1> DEFINE n == Len(s.pass_windows)
           c == s.consecutive_passes
           k == IF c < 2 THEN c ELSE 2
<1>1. s.pass_windows \in Seq(Window) /\ n <= 2 /\ c \in 0..MaxCount /\ MaxCount \in Nat
  BY WindowsAre, StateShape, EvolutionAssumption
<1>2. n \in {0, 1, 2} /\ (s.pass_windows = <<>> <=> n = 0)
  BY <1>1, ShortSeq
<1>3. /\ k <= n
      /\ \A i \in (n - k + 1)..n :
            /\ s.pass_windows[i].result = "passed"
            /\ s.pass_windows[i].candidate_version = s.pass_candidate_version
  BY DEF BankAddsUp
<1> HIDE DEF n
<1>4. k \in {1, 2}
  <2>1. c >= 1 /\ c \in Nat
    BY <1>1
  <2> HIDE DEF c
  <2> QED
    BY <2>1
<1> HIDE DEF k
<1>5. n \in {1, 2} /\ n \in (n - k + 1)..n
  BY <1>2, <1>3, <1>4
<1>6. /\ s.pass_windows # <<>> /\ s.pass_windows[n].result = "passed"
      /\ s.pass_windows[n].candidate_version = s.pass_candidate_version
  BY <1>2, <1>3, <1>5
<1> QED
  BY <1>5, <1>6 DEF n

\* A failed window empties the bank and leaves every other count alone.
LEMMA FailureRecorded ==
  ASSUME NEW s \in State
  PROVE  /\ RecordFailed(s) \in State /\ BankAddsUp(RecordFailed(s))
         /\ RecordFailed(s).consecutive_passes = 0
         /\ RecordFailed(s).promotion_count_30d = s.promotion_count_30d
         /\ RecordFailed(s).last_promotion_at = s.last_promotion_at
         /\ RecordFailed(s).consecutive_rollbacks = s.consecutive_rollbacks
         /\ RecordFailed(s).cooldown_start_at = s.cooldown_start_at
<1> DEFINE w == [cycle |-> Never, result |-> "failed", candidate_version |-> Nil]
           ws == AppendWindow(s.pass_windows, w)
<1>1. w \in Window
  BY DEF Window
<1>2. s.pass_windows \in Seq(Window) /\ Len(s.pass_windows) <= 2
  BY WindowsAre, StateShape
<1> HIDE DEF w
<1>3. ws \in Seq(Window) /\ Len(ws) <= 2
  BY <1>1, <1>2, WindowAppended
<1>4. ws \in Windows
  BY <1>3, WindowsAre
<1>5. RecordFailed(s) = [s EXCEPT !.pass_windows = ws, !.consecutive_passes = 0,
                                  !.pass_candidate_version = Nil]
  BY StateShape DEF RecordFailed, w
<1> HIDE DEF ws
<1>6. 0 \in 0..MaxCount
  BY EvolutionAssumption
<1>7. RecordFailed(s) \in State
  BY <1>4, <1>5, <1>6, StateShape
<1>8. /\ RecordFailed(s).pass_windows = ws /\ RecordFailed(s).consecutive_passes = 0
      /\ RecordFailed(s).promotion_count_30d = s.promotion_count_30d
      /\ RecordFailed(s).last_promotion_at = s.last_promotion_at
      /\ RecordFailed(s).consecutive_rollbacks = s.consecutive_rollbacks
      /\ RecordFailed(s).cooldown_start_at = s.cooldown_start_at
  BY <1>5, StateShape
<1> QED
  BY <1>4, <1>7, <1>8, EmptyBank

\* A pass: a count of two is left only by a pass of the same version before, whose
\* window is now the first of two.
LEMMA PassRecorded ==
  ASSUME NEW s \in State, NEW v \in Slots, BankAddsUp(s), now \in Time,
         s.consecutive_passes < MaxCount
  PROVE  /\ RecordPassed(s, v) \in State /\ BankAddsUp(RecordPassed(s, v))
         /\ RecordPassed(s, v).pass_candidate_version = v
         /\ RecordPassed(s, v).pass_windows[Len(RecordPassed(s, v).pass_windows)].cycle = now
         /\ RecordPassed(s, v).promotion_count_30d = s.promotion_count_30d
         /\ RecordPassed(s, v).last_promotion_at = s.last_promotion_at
         /\ RecordPassed(s, v).consecutive_rollbacks = s.consecutive_rollbacks
         /\ RecordPassed(s, v).cooldown_start_at = s.cooldown_start_at
         /\ RecordPassed(s, v).consecutive_passes >= 2 =>
                /\ s.consecutive_passes >= 1 /\ s.pass_candidate_version = v
                /\ RecordPassed(s, v).pass_windows[1] = s.pass_windows[Len(s.pass_windows)]
<1> DEFINE same == s.pass_candidate_version = v
           w == [cycle |-> now, result |-> "passed", candidate_version |-> v]
           old == IF same THEN s.pass_windows ELSE <<>>
           ws == AppendWindow(old, w)
           c == s.consecutive_passes
           count == (IF same THEN c ELSE 0) + 1
           t == [s EXCEPT !.pass_windows = ws, !.consecutive_passes = count,
                          !.pass_candidate_version = v]
<1>1. RecordPassed(s, v) = t
  BY StateShape DEF RecordPassed
<1>2. /\ w \in Window /\ w.cycle = now /\ w.result = "passed" /\ w.candidate_version = v
      /\ v \in Versions
  BY DEF Window, Versions
<1>3. old \in Seq(Window) /\ Len(old) <= 2
  <2>1. s.pass_windows \in Seq(Window) /\ Len(s.pass_windows) <= 2
    BY WindowsAre, StateShape
  <2>2. <<>> \in Seq(Window) /\ Len(<<>>) <= 2
    OBVIOUS
  <2> QED
    BY <2>1, <2>2
<1>4. c \in 0..MaxCount /\ c < MaxCount /\ MaxCount \in Nat
  BY StateShape, EvolutionAssumption
<1>5. count \in 1..MaxCount /\ (count >= 2 => same /\ c >= 1)
  <2> HIDE DEF c, same
  <2> QED
    BY <1>4
<1>6. same /\ c >= 1 => old = s.pass_windows /\ old # <<>> /\ old[Len(old)].result = "passed"
                        /\ old[Len(old)].candidate_version = v
  BY BankHasWindow
<1> HIDE DEF w, old
<1>7. /\ ws \in Seq(Window) /\ Len(ws) = (IF old = <<>> THEN 1 ELSE 2)
      /\ ws[Len(ws)] = w /\ (old # <<>> => ws[1] = old[Len(old)])
  BY <1>2, <1>3, WindowAppended
<1> HIDE DEF ws
<1>8. ws \in Windows
  <2>1. Len(ws) <= 2
    BY <1>7
  <2> QED
    BY <1>7, <2>1, WindowsAre
<1> HIDE DEF count
<1>9. t \in State
  <2>1. count \in 0..MaxCount /\ v \in Versions \cup {Nil}
    BY <1>2, <1>4, <1>5
  <2> QED
    BY <1>8, <2>1, StateShape
<1>10. /\ t.pass_windows = ws /\ t.consecutive_passes = count /\ t.pass_candidate_version = v
       /\ t.promotion_count_30d = s.promotion_count_30d
       /\ t.last_promotion_at = s.last_promotion_at
       /\ t.consecutive_rollbacks = s.consecutive_rollbacks
       /\ t.cooldown_start_at = s.cooldown_start_at
  BY StateShape
<1> HIDE DEF t
<1>11. BankAddsUp(t)
  <2> DEFINE n == Len(ws)
             k == IF count < 2 THEN count ELSE 2
  <2>1. n \in {1, 2} /\ k \in {1, 2}
    BY <1>5, <1>7
  <2>2. k = 2 => n = 2 /\ ws[1].result = "passed" /\ ws[1].candidate_version = v
    <3>1. k = 2 => count >= 2
      BY <1>5
    <3> QED
      BY <1>5, <1>6, <1>7, <3>1
  <2>3. ws[n].result = "passed" /\ ws[n].candidate_version = v
    BY <1>2, <1>7
  <2> HIDE DEF n, k
  <2>4. k <= n /\ \A i \in (n - k + 1)..n : i = n \/ (k = 2 /\ i = 1)
    BY <2>1, <2>2
  <2>5. \A i \in (n - k + 1)..n : ws[i].result = "passed" /\ ws[i].candidate_version = v
    BY <2>2, <2>3, <2>4
  <2> QED
    BY <1>10, <2>4, <2>5 DEF BankAddsUp, n, k
<1>12. t.pass_windows[Len(t.pass_windows)].cycle = now
  BY <1>2, <1>7, <1>10
<1>13. t.consecutive_passes >= 2 =>
           /\ c >= 1 /\ same /\ t.pass_windows[1] = s.pass_windows[Len(s.pass_windows)]
  BY <1>5, <1>6, <1>7, <1>10
<1> HIDE DEF same
<1> QED
  BY <1>1, <1>9, <1>10, <1>11, <1>12, <1>13 DEF same

\* A rollback empties the bank, counts, and starts the cooldown of the breaker.
LEMMA RollbackRecorded ==
  ASSUME NEW s \in State, now \in Time, s.consecutive_rollbacks < MaxCount
  PROVE  /\ RecordRollback(s) \in State /\ BankAddsUp(RecordRollback(s))
         /\ RecordRollback(s).consecutive_passes = 0
         /\ RecordRollback(s).promotion_count_30d = s.promotion_count_30d
         /\ RecordRollback(s).last_promotion_at = s.last_promotion_at
         /\ RecordRollback(s).consecutive_rollbacks = s.consecutive_rollbacks + 1
         /\ s.consecutive_rollbacks + 1 >= MaxRollbacks =>
                RecordRollback(s).cooldown_start_at = now
<1> DEFINE c == s.consecutive_rollbacks + 1
           start == IF c >= MaxRollbacks THEN now ELSE s.cooldown_start_at
           t == [s EXCEPT !.consecutive_rollbacks = c, !.cooldown_start_at = start,
                          !.consecutive_passes = 0, !.pass_windows = <<>>]
<1>1. RecordRollback(s) = t
  BY StateShape DEF RecordRollback
<1>2. c \in 0..MaxCount
  BY StateShape, EvolutionAssumption
<1>3. start \in Time \cup {Never}
  <2>1. s.cooldown_start_at \in Time \cup {Never}
    BY StateShape
  <2> HIDE DEF c
  <2> QED
    BY <2>1
<1>4. <<>> \in Windows /\ 0 \in 0..MaxCount
  BY NoWindows, EvolutionAssumption
<1>5. c >= MaxRollbacks => start = now
  OBVIOUS
<1> HIDE DEF start
<1>6. t \in State
  <2> HIDE DEF c
  <2> QED
    BY <1>2, <1>3, <1>4, StateShape
<1>7. /\ t.pass_windows = <<>> /\ t.consecutive_passes = 0
      /\ t.promotion_count_30d = s.promotion_count_30d
      /\ t.last_promotion_at = s.last_promotion_at
      /\ t.consecutive_rollbacks = c /\ t.cooldown_start_at = start
  BY StateShape
<1> HIDE DEF t
<1> QED
  BY <1>1, <1>4, <1>5, <1>6, <1>7, EmptyBank

\* A promotion within the quota empties the bank and starts every count anew.
LEMMA PromotionRecorded ==
  ASSUME NEW s \in State, now \in Time, QuotaLeft(s)
  PROVE  /\ RecordPromotion(s) \in State /\ BankAddsUp(RecordPromotion(s))
         /\ RecordPromotion(s).consecutive_passes = 0
         /\ RecordPromotion(s).consecutive_rollbacks = 0
         /\ RecordPromotion(s).promotion_count_30d = s.promotion_count_30d + 1
         /\ RecordPromotion(s).last_promotion_at = now
<1> DEFINE n == s.promotion_count_30d + 1
           t == [s EXCEPT !.last_promotion_at = now, !.promotion_count_30d = n,
                          !.consecutive_rollbacks = 0, !.consecutive_passes = 0,
                          !.pass_candidate_version = Nil, !.pass_windows = <<>>]
<1>1. RecordPromotion(s) = t
  BY StateShape DEF RecordPromotion
<1>2. n \in 0..MaxPromotions
  BY StateShape, EvolutionAssumption DEF QuotaLeft
<1>3. <<>> \in Windows /\ 0 \in 0..MaxCount
  BY NoWindows, EvolutionAssumption
<1> HIDE DEF n
<1>4. t \in State
  BY <1>2, <1>3, StateShape
<1>5. /\ t.pass_windows = <<>> /\ t.consecutive_passes = 0 /\ t.consecutive_rollbacks = 0
      /\ t.promotion_count_30d = n /\ t.last_promotion_at = now
  BY StateShape
<1> HIDE DEF t
<1> QED
  BY <1>1, <1>3, <1>4, <1>5, EmptyBank DEF n

\* No file, or a file cut short: the defaults.
LEMMA DefaultsFit == Defaults \in State /\ BankAddsUp(Defaults)
<1>1. <<>> \in Windows /\ {0} \subseteq 0..MaxCount /\ 0 \in 0..MaxPromotions
  BY NoWindows, EvolutionAssumption
<1>2. Defaults \in State
  BY <1>1, StateShape DEF Defaults
<1>3. Defaults.pass_windows = <<>> /\ Defaults.consecutive_passes = 0
  BY DEF Defaults
<1> QED
  BY <1>1, <1>2, <1>3, EmptyBank

\* What pause, resume and the count of a manual rollback change is not the bank.
LEMMA RequestUpdates ==
  ASSUME NEW s \in State, BankAddsUp(s)
  PROVE  /\ \A b \in BOOLEAN :
                /\ [s EXCEPT !.paused = b] \in State /\ BankAddsUp([s EXCEPT !.paused = b])
         /\ s.consecutive_rollbacks < MaxCount =>
                /\ [s EXCEPT !.consecutive_rollbacks = @ + 1] \in State
                /\ BankAddsUp([s EXCEPT !.consecutive_rollbacks = @ + 1])
<1>1. ASSUME NEW b \in BOOLEAN
      PROVE  [s EXCEPT !.paused = b] \in State /\ BankAddsUp([s EXCEPT !.paused = b])
  <2> DEFINE t == [s EXCEPT !.paused = b]
  <2>1. t \in State
    BY StateShape
  <2>2. /\ t.pass_windows = s.pass_windows /\ t.consecutive_passes = s.consecutive_passes
        /\ t.pass_candidate_version = s.pass_candidate_version
    BY StateShape
  <2> HIDE DEF t
  <2>3. BankAddsUp(t)
    BY <2>2, SameBank
  <2> QED
    BY <2>1, <2>3 DEF t
<1>2. ASSUME s.consecutive_rollbacks < MaxCount
      PROVE  /\ [s EXCEPT !.consecutive_rollbacks = @ + 1] \in State
             /\ BankAddsUp([s EXCEPT !.consecutive_rollbacks = @ + 1])
  <2> DEFINE c == s.consecutive_rollbacks + 1
             t == [s EXCEPT !.consecutive_rollbacks = c]
  <2>1. c \in 0..MaxCount
    BY <1>2, StateShape, EvolutionAssumption
  <2>2. [s EXCEPT !.consecutive_rollbacks = @ + 1] = t
    OBVIOUS
  <2> HIDE DEF c
  <2>3. t \in State
    BY <2>1, StateShape
  <2>4. /\ t.pass_windows = s.pass_windows /\ t.consecutive_passes = s.consecutive_passes
        /\ t.pass_candidate_version = s.pass_candidate_version
    BY StateShape
  <2> HIDE DEF t
  <2>5. BankAddsUp(t)
    BY <2>4, SameBank
  <2> QED
    BY <2>2, <2>3, <2>5
<1> QED
  BY <1>1, <1>2

-----------------------------------------------------------------------------
(* StateFits: types and the bank, whatever is lost.                        *)

ActorPlaces == Evaluating \cup {"idle", "rejected", "reverted", "save", "fill"}

Bounded ==
    cycles \in 0..MaxCycles /\ calls \in 0..MaxRequests /\ faults \in 0..MaxFaults

PolicyTypes ==
    /\ active \in Policies /\ previous \in Policies \cup {Nil}
    /\ released \subseteq Policies /\ retired \subseteq Policies
    /\ shadow \in Derived \cup {Nil} /\ maxDelta \in {Narrow, Wide}
    /\ store \in Loaded \cup {Nil} /\ base \in Bases

FileFits == file \in State \cup {Nil} /\ (file # Nil => BankAddsUp(file))

\* One actor moves; what it leaves with, and the file, are states that add up.
LEMMA ActorMoves ==
  ASSUME StateFits, NEW a \in Actors,
         state' = [state EXCEPT ![a] = state'[a]],
         state'[a] \in State, BankAddsUp(state'[a]),
         pc' = [pc EXCEPT ![a] = pc'[a]], pc'[a] \in ActorPlaces,
         pc'[a] \in {"rejected", "reverted"} => a # "cycle",
         pc'[a] \in Evaluating => a = "cycle",
         pc'["cycle"] = "shadowed" => base'.shadow \in Derived,
         now' = now, FileFits', PolicyTypes', Bounded'
  PROVE  StateFits'
<1>1. /\ pc \in [Actors -> ActorPlaces] /\ state \in [Actors -> State]
      /\ "cycle" \in Actors /\ Requests \subseteq Actors /\ "cycle" \notin Requests
      /\ now \in Time
  BY EvolutionAssumption DEF StateFits, TypeOK, Actors, ActorPlaces
<1>2. /\ state' \in [Actors -> State] /\ pc' \in [Actors -> ActorPlaces]
      /\ \A b \in Actors \ {a} : state'[b] = state[b] /\ pc'[b] = pc[b]
  BY <1>1
<1>3. TypeOK'
  BY <1>1, <1>2 DEF TypeOK, FileFits, PolicyTypes, Bounded, ActorPlaces
<1>4. /\ pc'["cycle"] \notin {"rejected", "reverted"}
      /\ \A r \in Requests : pc'[r] \notin Evaluating
  BY <1>1, <1>2 DEF StateFits
<1>5. \A b \in Actors : BankAddsUp(state'[b])
  <2>1. ASSUME NEW b \in Actors, b # a PROVE BankAddsUp(state'[b])
    BY <1>2, <2>1 DEF StateFits, BankConsistent
  <2> QED
    BY <2>1
<1>6. BankConsistent'
  BY <1>5 DEF BankConsistent, FileFits
<1> QED
  BY <1>3, <1>4, <1>6 DEF StateFits, PolicyTypes

\* What StateFits says of one actor and of the file.
LEMMA FitsMeans ==
  ASSUME StateFits
  PROVE  /\ FileFits /\ PolicyTypes /\ Bounded /\ now \in Time
         /\ \A a \in Actors : state[a] \in State /\ BankAddsUp(state[a])
         /\ LoadState \in State /\ BankAddsUp(LoadState)
         /\ pc \in [Actors -> ActorPlaces] /\ state \in [Actors -> State]
         /\ "cycle" \in Actors /\ Requests \subseteq Actors /\ "cycle" \notin Requests
<1>1. /\ FileFits /\ PolicyTypes /\ Bounded /\ now \in Time
      /\ \A a \in Actors : state[a] \in State /\ BankAddsUp(state[a])
      /\ pc \in [Actors -> ActorPlaces] /\ state \in [Actors -> State]
  BY DEF StateFits, TypeOK, BankConsistent, FileFits, PolicyTypes, Bounded, ActorPlaces
<1>2. LoadState \in State /\ BankAddsUp(LoadState)
  BY <1>1, DefaultsFit DEF LoadState, FileFits
<1> QED
  BY <1>1, <1>2, EvolutionAssumption DEF Actors

\* What Finish does to its actor and to nobody else.
LEMMA FinishMoves ==
  ASSUME StateFits, NEW a \in Actors, NEW s \in State, Finish(a, s)
  PROVE  /\ state'[a] = s /\ state' = [state EXCEPT ![a] = state'[a]]
         /\ pc'[a] = "save" /\ pc' = [pc EXCEPT ![a] = pc'[a]]
         /\ \A b \in Actors \ {a} : state'[b] = state[b] /\ pc'[b] = pc[b]
BY FitsMeans DEF Finish

\* What Stop does to its actor and to nobody else.
LEMMA StopMoves ==
  ASSUME StateFits, NEW a \in Actors, Stop(a)
  PROVE  /\ state'[a] = Defaults /\ state' = [state EXCEPT ![a] = state'[a]]
         /\ pc'[a] = "idle" /\ pc' = [pc EXCEPT ![a] = pc'[a]]
         /\ \A b \in Actors \ {a} : state'[b] = state[b] /\ pc'[b] = pc[b]
BY FitsMeans DEF Stop

\* The policies a cycle or a request may leave in force.
LEMMA RevertFits ==
  ASSUME NEW prev \in Policies \cup {Nil}
  PROVE  RevertTarget(prev) \in Policies /\ Baseline \in Policies
<1>1. Baseline \in Policies
  <2>1. Baseline \in Seq(Steps) /\ Len(Baseline) = 0 /\ MaxDepth \in Nat
    BY EmptySeq, EvolutionAssumption DEF Baseline
  <2>2. Len(Baseline) <= MaxDepth
    BY <2>1
  <2> QED
    BY <2>1, <2>2, BoundedSeq DEF Policies
<1> QED
  BY <1>1 DEF RevertTarget

\* Between cycles the loaded policies are the baseline and none.
LEMMA UnloadedFits == Unloaded \in Bases
<1>1. Baseline \in Policies
  BY RevertFits
<1> QED
  BY <1>1 DEF Unloaded, Bases

\* Initially all copies are the defaults.
LEMMA InitFits == Init => StateFits
<1> SUFFICES ASSUME Init PROVE StateFits
  OBVIOUS
<1>1. /\ 0 \in Time /\ 0 \in 0..MaxCycles /\ 0 \in 0..MaxRequests /\ 0 \in 0..MaxFaults
  BY EvolutionAssumption DEF Time
<1>2. Baseline \in Policies /\ Unloaded \in Bases
  BY RevertFits, UnloadedFits
<1>3. TypeOK
  BY <1>1, <1>2, DefaultsFit DEF Init, TypeOK
<1>4. BankConsistent
  BY DefaultsFit DEF Init, BankConsistent
<1>5. \A a \in Actors : pc[a] = "idle"
  BY DEF Init
<1> QED
  BY <1>3, <1>4, <1>5 DEF StateFits, Actors, Evaluating

\* An actor may leave with any state that adds up.
LEMMA FinishFits ==
  ASSUME StateFits, NEW a \in Actors, NEW s \in State, BankAddsUp(s), Finish(a, s),
         now' = now, FileFits', PolicyTypes', Bounded', a = "cycle" \/ base' = base
  PROVE  StateFits'
<1>1. /\ state'[a] = s /\ state' = [state EXCEPT ![a] = state'[a]]
      /\ pc'[a] = "save" /\ pc' = [pc EXCEPT ![a] = pc'[a]]
      /\ \A b \in Actors \ {a} : pc'[b] = pc[b]
  BY FinishMoves
<1>2. state'[a] \in State /\ BankAddsUp(state'[a]) /\ pc'[a] \in ActorPlaces \ Evaluating
  BY <1>1 DEF ActorPlaces, Evaluating
<1>3. pc'["cycle"] = "shadowed" => base'.shadow \in Derived
  BY <1>1, FitsMeans DEF StateFits
<1> QED
  BY <1>1, <1>2, <1>3, ActorMoves

\* An actor may stop at any time.
LEMMA StopFits ==
  ASSUME StateFits, NEW a \in Actors, Stop(a), now' = now, FileFits', PolicyTypes', Bounded',
         a = "cycle" \/ base' = base
  PROVE  StateFits'
<1>1. /\ state'[a] = Defaults /\ state' = [state EXCEPT ![a] = state'[a]]
      /\ pc'[a] = "idle" /\ pc' = [pc EXCEPT ![a] = pc'[a]]
      /\ \A b \in Actors \ {a} : pc'[b] = pc[b]
  BY StopMoves
<1>2. state'[a] \in State /\ BankAddsUp(state'[a]) /\ pc'[a] \in ActorPlaces \ Evaluating
  BY <1>1, DefaultsFit DEF ActorPlaces, Evaluating
<1>3. pc'["cycle"] = "shadowed" => base'.shadow \in Derived
  BY <1>1, FitsMeans DEF StateFits
<1> QED
  BY <1>1, <1>2, <1>3, ActorMoves

\* The ends of a cycle count it and let go of the policies.
LEMMA CompletesFits ==
  ASSUME StateFits, Completes, UNCHANGED <<waitVars, calls, faults>>,
         active' \in Policies, previous' \in Policies \cup {Nil}, released' \subseteq Policies,
         retired' \subseteq Policies, shadow' \in Derived \cup {Nil}
  PROVE  Bounded' /\ PolicyTypes'
<1>1. cycles' \in 0..MaxCycles
  BY FitsMeans, EvolutionAssumption DEF Bounded, Completes
<1>2. base' \in Bases
  BY UnloadedFits DEF Completes
<1> QED
  BY <1>1, <1>2, FitsMeans DEF Bounded, PolicyTypes, waitVars

\* A step that leaves the policy files and the state file alone.
LEMMA FilesUntouched ==
  ASSUME StateFits, UNCHANGED fileVars
  PROVE  /\ FileFits'
         /\ active' \in Policies /\ previous' \in Policies \cup {Nil}
         /\ released' \subseteq Policies /\ retired' \subseteq Policies
         /\ shadow' \in Derived \cup {Nil}
BY FitsMeans DEF PolicyTypes, FileFits, fileVars, policyVars

\* The copy a cycle loads adds up, as the file does; its policies are those of the
\* runner's store.
LEMMA StartCycleFits == StateFits /\ StartCycle => StateFits'
<1> SUFFICES ASSUME StateFits, StartCycle PROVE StateFits'
  OBVIOUS
<1> USE FitsMeans
<1>1. /\ state'["cycle"] = LoadState /\ state' = [state EXCEPT !["cycle"] = state'["cycle"]]
      /\ pc'["cycle"] = "run" /\ pc' = [pc EXCEPT !["cycle"] = pc'["cycle"]]
  BY DEF StartCycle
<1>2. state'["cycle"] \in State /\ BankAddsUp(state'["cycle"]) /\ pc'["cycle"] \in ActorPlaces
  BY <1>1 DEF ActorPlaces, Evaluating
<1>3. base' \in Bases
  <2>1. store \in Loaded /\ maxDelta \in {Narrow, Wide}
    BY DEF StartCycle, PolicyTypes
  <2> QED
    BY <2>1 DEF StartCycle, Loaded, Bases
<1>4. PolicyTypes'
  <2>1. store' = Nil /\ maxDelta' = maxDelta /\ UNCHANGED fileVars
    BY DEF StartCycle
  <2> QED
    BY <1>3, <2>1, FilesUntouched DEF PolicyTypes
<1>5. FileFits' /\ Bounded' /\ now' = now
  BY FilesUntouched DEF StartCycle, boundVars, Bounded
<1> QED
  BY <1>1, <1>2, <1>4, <1>5, ActorMoves

\* A step of nobody but the runners, who may put the candidate aside.
LEMMA RunnerFits ==
  ASSUME StateFits, UNCHANGED <<now, policyVars, file, pc, state, base, boundVars>>,
         shadow' \in {shadow, Nil}, store' \in Loaded \cup {Nil}, maxDelta' \in {Narrow, Wide}
  PROVE  StateFits'
<1>1. shadow' \in Derived \cup {Nil}
  BY FitsMeans DEF PolicyTypes
<1> QED
  BY <1>1 DEF StateFits, TypeOK, BankConsistent, policyVars, boundVars

\* A runner loads what is on disk.
LEMMA LoadStoreFits == StateFits /\ LoadStore => StateFits'
<1> SUFFICES ASSUME StateFits, LoadStore PROVE StateFits'
  OBVIOUS
<1>1. shadow' \in {shadow, Nil} /\ store' = [active |-> active, previous |-> previous, shadow |-> shadow']
  BY DEF LoadStore
<1>2. store' \in Loaded
  BY <1>1, FitsMeans DEF PolicyTypes, Loaded
<1>3. maxDelta' \in {Narrow, Wide}
  BY FitsMeans DEF PolicyTypes, LoadStore
<1> QED
  BY <1>1, <1>2, <1>3, RunnerFits DEF LoadStore

\* A runner that finds no lock goes away.
LEMMA GiveUpFits == StateFits /\ GiveUp => StateFits'
<1> SUFFICES ASSUME StateFits, GiveUp PROVE StateFits'
  OBVIOUS
<1>1. maxDelta' \in {Narrow, Wide}
  BY FitsMeans DEF PolicyTypes, GiveUp
<1> QED
  BY <1>1, RunnerFits DEF GiveUp, fileVars

\* The range is widened.
LEMMA WidenFits == StateFits /\ Widen => StateFits'
<1> SUFFICES ASSUME StateFits, Widen PROVE StateFits'
  OBVIOUS
<1>1. store' \in Loaded \cup {Nil}
  BY FitsMeans DEF PolicyTypes, Widen
<1> QED
  BY <1>1, RunnerFits DEF Widen, fileVars

\* A cold start leaves no copy.
LEMMA SkipCycleFits == StateFits /\ SkipCycle => StateFits'
<1> SUFFICES ASSUME StateFits, SkipCycle PROVE StateFits'
  OBVIOUS
<1>1. PolicyTypes'
  <2>1. UNCHANGED <<fileVars, store, maxDelta>> /\ base' = Unloaded
    BY DEF SkipCycle, waitVars
  <2> QED
    BY <2>1, FitsMeans, FilesUntouched, UnloadedFits DEF PolicyTypes
<1>2. FileFits' /\ Bounded' /\ now' = now
  BY FitsMeans, FilesUntouched DEF SkipCycle, boundVars, Bounded
<1> QED
  BY <1>1, <1>2, FitsMeans, StopFits DEF SkipCycle

\* The best candidate goes into shadow.
LEMMA SetShadowFits == StateFits /\ SetShadow => StateFits'
<1> SUFFICES ASSUME StateFits, SetShadow PROVE StateFits'
  OBVIOUS
<1> USE FitsMeans
<1>1. PICK c \in Candidates(base) : shadow' = c /\ base' = [base EXCEPT !.shadow = c]
  BY DEF SetShadow
<1>2. base \in Bases /\ c \in Derived
  BY CandidatesAre DEF PolicyTypes
<1>3. base' \in Bases /\ base'.shadow = c
  BY <1>1, <1>2 DEF Bases
<1>4. PolicyTypes'
  BY <1>1, <1>2, <1>3 DEF PolicyTypes, SetShadow, policyVars, waitVars
<1>5. /\ state' = [state EXCEPT !["cycle"] = state'["cycle"]] /\ state'["cycle"] = state["cycle"]
      /\ pc'["cycle"] = "shadowed" /\ pc' = [pc EXCEPT !["cycle"] = pc'["cycle"]]
  BY DEF SetShadow
<1>6. FileFits' /\ Bounded' /\ now' = now
  BY DEF SetShadow, boundVars, Bounded, FileFits
<1>7. pc'["cycle"] \in ActorPlaces
  BY <1>5 DEF ActorPlaces, Evaluating
<1> QED
  BY <1>2, <1>3, <1>4, <1>5, <1>6, <1>7, ActorMoves

\* _force_rollback_with_metrics: the bank is emptied as a whole.
LEMMA RollBackCycleFits == StateFits /\ RollBackCycle => StateFits'
<1> SUFFICES ASSUME StateFits, RollBackCycle PROVE StateFits'
  OBVIOUS
<1> DEFINE s == RecordRollback(state["cycle"])
<1>1. s \in State /\ BankAddsUp(s)
  BY FitsMeans, RollbackRecorded DEF RollBackCycle
<1>2. /\ active' \in Policies /\ previous' \in Policies \cup {Nil} /\ released' \subseteq Policies
      /\ retired' \subseteq Policies /\ shadow' \in Derived \cup {Nil}
  BY FitsMeans, RevertFits DEF RollBackCycle, PutInForce, PolicyTypes, Bases
<1>3. FileFits' /\ now' = now
  BY FitsMeans DEF RollBackCycle, FileFits
<1>4. Bounded' /\ PolicyTypes'
  BY <1>2, CompletesFits DEF RollBackCycle
<1>5. Finish("cycle", s)
  BY DEF RollBackCycle
<1> HIDE DEF s
<1> QED
  BY <1>1, <1>3, <1>4, <1>5, FitsMeans, FinishFits

\* _record_cycle_result of a failed window.
LEMMA FailCycleFits == StateFits /\ FailCycle => StateFits'
<1> SUFFICES ASSUME StateFits, FailCycle PROVE StateFits'
  OBVIOUS
<1> DEFINE s == RecordFailed(state["cycle"])
<1>1. s \in State /\ BankAddsUp(s)
  BY FitsMeans, FailureRecorded
<1>2. FileFits' /\ now' = now
  BY FilesUntouched DEF FailCycle
<1>3. Bounded' /\ PolicyTypes'
  BY FilesUntouched, CompletesFits DEF FailCycle
<1>4. Finish("cycle", s)
  BY DEF FailCycle
<1> HIDE DEF s
<1> QED
  BY <1>1, <1>2, <1>3, <1>4, FitsMeans, FinishFits

\* The exception handler records a failed window in the state of the file.
LEMMA ErrorCycleFits == StateFits /\ ErrorCycle => StateFits'
<1> SUFFICES ASSUME StateFits, ErrorCycle PROVE StateFits'
  OBVIOUS
<1> DEFINE s == RecordFailed(LoadState)
<1>1. s \in State /\ BankAddsUp(s)
  BY FitsMeans, FailureRecorded
<1>2. FileFits' /\ now' = now
  BY FilesUntouched DEF ErrorCycle
<1>3. Bounded' /\ PolicyTypes'
  BY FilesUntouched, CompletesFits DEF ErrorCycle
<1>4. Finish("cycle", s)
  BY DEF ErrorCycle
<1> HIDE DEF s
<1> QED
  BY <1>1, <1>2, <1>3, <1>4, FitsMeans, FinishFits

\* The candidate that passes, and the record of its pass.
LEMMA PassesMeans ==
  ASSUME StateFits, Passes
  PROVE  /\ base.shadow \in Derived /\ base.shadow \in Policies /\ Version(base.shadow) \in Slots
         /\ base.active \in Policies
         /\ RecordPassed(state["cycle"], Version(base.shadow)) \in State
         /\ BankAddsUp(RecordPassed(state["cycle"], Version(base.shadow)))
<1>1. base.shadow \in Derived /\ base.active \in Policies
  BY FitsMeans DEF Passes, StateFits, PolicyTypes, Bases
<1>2. base.shadow \in Policies /\ Version(base.shadow) \in Slots
  BY <1>1, DerivedVersion
<1> QED
  BY <1>1, <1>2, FitsMeans, PassRecorded DEF Passes

\* _record_cycle_result of a pass, for the version of the candidate.
LEMMA CreditCycleFits == StateFits /\ CreditCycle => StateFits'
<1> SUFFICES ASSUME StateFits, CreditCycle PROVE StateFits'
  OBVIOUS
<1> DEFINE s == RecordPassed(state["cycle"], Version(base.shadow))
<1>1. Passes /\ Completes /\ Finish("cycle", s)
  BY DEF CreditCycle, Passes
<1>2. s \in State /\ BankAddsUp(s)
  BY <1>1, PassesMeans
<1>3. /\ active' \in Policies /\ previous' \in Policies \cup {Nil} /\ released' \subseteq Policies
      /\ retired' \subseteq Policies /\ shadow' \in Derived \cup {Nil}
      /\ FileFits' /\ now' = now
  BY <1>1, PassesMeans, FitsMeans DEF CreditCycle, PolicyTypes, FileFits, policyVars
<1>4. Bounded' /\ PolicyTypes'
  BY <1>1, <1>3, CompletesFits DEF CreditCycle
<1> HIDE DEF s
<1> QED
  BY <1>1, <1>2, <1>3, <1>4, FitsMeans, FinishFits

\* A promotion, which the quota allows.
LEMMA PromoteCycleFits == StateFits /\ PromoteCycle => StateFits'
<1> SUFFICES ASSUME StateFits, PromoteCycle PROVE StateFits'
  OBVIOUS
<1> DEFINE s == RecordPassed(state["cycle"], Version(base.shadow))
           t == RecordPromotion(s)
<1>1. Passes /\ Completes /\ Finish("cycle", t) /\ QuotaLeft(s)
  BY DEF PromoteCycle, Passes, CanPromote
<1>2. s \in State /\ base.shadow \in Policies /\ base.active \in Policies
  BY <1>1, PassesMeans
<1> HIDE DEF s
<1>3. t \in State /\ BankAddsUp(t)
  BY <1>1, <1>2, FitsMeans, PromotionRecorded
<1>4. /\ active' \in Policies /\ previous' \in Policies \cup {Nil} /\ released' \subseteq Policies
      /\ retired' \subseteq Policies /\ shadow' \in Derived \cup {Nil}
      /\ FileFits' /\ now' = now
  BY <1>2, FitsMeans DEF PromoteCycle, PutInForce, PolicyTypes, FileFits
<1>5. Bounded' /\ PolicyTypes'
  BY <1>1, <1>4, CompletesFits DEF PromoteCycle
<1> HIDE DEF t
<1> QED
  BY <1>1, <1>3, <1>4, <1>5, FitsMeans, FinishFits

\* A request has loaded the file, changed a flag or a count, and leaves to save it.
LEMMA RequestFits ==
  ASSUME StateFits, NEW r \in Requests, NEW op \in Ops, Request(r, op)
  PROVE  StateFits'
<1>1. PICK s \in State : BankAddsUp(s) /\ Finish(r, s)
  BY FitsMeans, RequestUpdates DEF Request
<1>2. FileFits' /\ PolicyTypes' /\ now' = now /\ base' = base
  BY FitsMeans, FilesUntouched DEF Request, PolicyTypes, waitVars
<1>3. Bounded'
  BY FitsMeans, EvolutionAssumption DEF Request, Bounded
<1> QED
  BY <1>1, <1>2, <1>3, FitsMeans, FinishFits

\* A request that changes the policy files before it loads the state.
LEMMA PolicyRequestFits ==
  ASSUME StateFits, NEW r \in Requests, NEW place \in {"rejected", "reverted"},
         pc' = [pc EXCEPT ![r] = place], UNCHANGED <<now, file, state, base>>,
         PolicyTypes', Bounded'
  PROVE  StateFits'
<1>1. r \in Actors /\ r # "cycle" /\ state' = state
  BY FitsMeans
<1>2. state'[r] \in State /\ BankAddsUp(state'[r]) /\ state' = [state EXCEPT ![r] = state'[r]]
  BY <1>1, FitsMeans
<1>3. /\ pc'[r] = place /\ pc' = [pc EXCEPT ![r] = pc'[r]]
      /\ pc'[r] \in ActorPlaces \ Evaluating /\ pc'["cycle"] = pc["cycle"]
  BY <1>1, FitsMeans DEF ActorPlaces, Evaluating
<1>4. FileFits' /\ now' = now
  BY FitsMeans DEF FileFits
<1>5. pc'["cycle"] = "shadowed" => base'.shadow \in Derived
  BY <1>3 DEF StateFits
<1> QED
  BY <1>1, <1>2, <1>3, <1>4, <1>5, ActorMoves

\* A rejection removes the candidate.
LEMMA RejectRequestFits == ASSUME StateFits, NEW r \in Requests, RejectRequest(r) PROVE StateFits'
<1>1. PolicyTypes'
  BY FitsMeans DEF RejectRequest, PolicyTypes, policyVars, waitVars
<1>2. Bounded'
  BY FitsMeans, EvolutionAssumption DEF RejectRequest, Bounded
<1> QED
  BY <1>1, <1>2, PolicyRequestFits DEF RejectRequest

\* A manual rollback reverts the policies.
LEMMA RevertRequestFits == ASSUME StateFits, NEW r \in Requests, RevertRequest(r) PROVE StateFits'
<1>1. PolicyTypes'
  BY FitsMeans, RevertFits DEF RevertRequest, PutInForce, PolicyTypes, waitVars
<1>2. Bounded'
  BY FitsMeans, EvolutionAssumption DEF RevertRequest, Bounded
<1> QED
  BY <1>1, <1>2, PolicyRequestFits DEF RevertRequest

\* The time of a rejection is not part of the bank.
LEMMA RecordRejectionFits ==
  ASSUME StateFits, NEW r \in Requests, RecordRejection(r)
  PROVE  StateFits'
<1>1. FileFits' /\ PolicyTypes' /\ Bounded' /\ now' = now /\ base' = base
  BY FitsMeans, FilesUntouched DEF RecordRejection, PolicyTypes, Bounded, waitVars, boundVars
<1>2. Finish(r, LoadState)
  BY DEF RecordRejection
<1> QED
  BY <1>1, <1>2, FitsMeans, FinishFits

\* The count of a manual rollback is not part of the bank.
LEMMA CountRollbackFits == ASSUME StateFits, NEW r \in Requests, CountRollback(r) PROVE StateFits'
<1> DEFINE s == [LoadState EXCEPT !.consecutive_rollbacks = @ + 1]
<1>1. s \in State /\ BankAddsUp(s)
  BY FitsMeans, RequestUpdates DEF CountRollback
<1>2. FileFits' /\ PolicyTypes' /\ Bounded' /\ now' = now /\ base' = base
  BY FitsMeans, FilesUntouched DEF CountRollback, PolicyTypes, Bounded, waitVars, boundVars
<1>3. Finish(r, s)
  BY DEF CountRollback
<1> HIDE DEF s
<1> QED
  BY <1>1, <1>2, <1>3, FitsMeans, FinishFits

\* A file cut short has no bank.
LEMMA SaveTruncateFits == ASSUME StateFits, NEW a \in Actors, SaveTruncate(a) PROVE StateFits'
<1>1. state'[a] \in State /\ BankAddsUp(state'[a]) /\ state' = [state EXCEPT ![a] = state'[a]]
  BY FitsMeans DEF SaveTruncate
<1>2. /\ pc'[a] = "fill" /\ pc' = [pc EXCEPT ![a] = pc'[a]]
      /\ pc'[a] \in ActorPlaces \ Evaluating /\ \A b \in Actors \ {a} : pc'[b] = pc[b]
  BY FitsMeans DEF SaveTruncate, ActorPlaces, Evaluating
<1>3. FileFits' /\ PolicyTypes' /\ Bounded' /\ now' = now /\ base' = base
  BY FitsMeans DEF SaveTruncate, FileFits, PolicyTypes, Bounded, boundVars, policyVars, waitVars
<1>4. pc'["cycle"] = "shadowed" => base'.shadow \in Derived
  BY <1>2, <1>3, FitsMeans DEF StateFits
<1> QED
  BY <1>1, <1>2, <1>3, <1>4, ActorMoves

\* Whoever fills the file writes a copy that adds up, or a text that does not parse.
LEMMA SaveFillFits == ASSUME StateFits, NEW a \in Actors, SaveFill(a) PROVE StateFits'
<1>1. state[a] \in State /\ BankAddsUp(state[a])
  BY FitsMeans
<1>2. FileFits'
  BY <1>1 DEF SaveFill, FileFits
<1>3. PolicyTypes' /\ Bounded' /\ now' = now /\ Stop(a) /\ base' = base
  BY FitsMeans DEF SaveFill, PolicyTypes, Bounded, boundVars, policyVars, waitVars
<1> QED
  BY <1>2, <1>3, StopFits

\* A crash leaves the file as it is.
LEMMA CrashFits == ASSUME StateFits, NEW a \in Actors, Crash(a) PROVE StateFits'
<1>1. FileFits' /\ now' = now /\ Stop(a) /\ (a = "cycle" \/ base' = base)
  BY FitsMeans DEF Crash, FileFits, fileVars, policyVars
<1>2. PolicyTypes'
  BY FitsMeans, UnloadedFits DEF Crash, PolicyTypes, fileVars, policyVars, waitVars
<1>3. Bounded'
  BY FitsMeans, EvolutionAssumption DEF Crash, Bounded
<1> QED
  BY <1>1, <1>2, <1>3, StopFits

\* A save that raised an exception is followed by the record of a failed window.
LEMMA SaveErrorFits == StateFits /\ SaveError => StateFits'
<1> SUFFICES ASSUME StateFits, SaveError PROVE StateFits'
  OBVIOUS
<1> DEFINE s == RecordFailed(LoadState)
<1>1. s \in State /\ BankAddsUp(s)
  BY FitsMeans, FailureRecorded
<1>2. FileFits' /\ PolicyTypes' /\ now' = now
  BY FitsMeans DEF SaveError, FileFits, PolicyTypes, fileVars, policyVars, waitVars
<1>3. Bounded'
  BY FitsMeans, EvolutionAssumption DEF SaveError, Bounded
<1>4. Finish("cycle", s)
  BY DEF SaveError
<1> HIDE DEF s
<1> QED
  BY <1>1, <1>2, <1>3, <1>4, FitsMeans, FinishFits

\* Time passes.
LEMMA TickFits == StateFits /\ Tick => StateFits'
<1> SUFFICES ASSUME StateFits, Tick PROVE StateFits'
  OBVIOUS
<1>1. now' \in Time
  BY FitsMeans, EvolutionAssumption DEF Tick, Time
<1> QED
  BY <1>1 DEF StateFits, TypeOK, BankConsistent, Tick, fileVars, policyVars, waitVars, boundVars

\* Nothing happens.
LEMMA StutterFits == StateFits /\ UNCHANGED vars => StateFits'
BY DEF StateFits, TypeOK, BankConsistent, vars, fileVars, policyVars, waitVars, boundVars

\* StateFits is inductive, with one case per action.
LEMMA NextFits == StateFits /\ [Next]_vars => StateFits'
<1> SUFFICES ASSUME StateFits, [Next]_vars PROVE StateFits'
  OBVIOUS
<1>1. CASE Tick \/ Widen \/ LoadStore \/ GiveUp
  BY <1>1, TickFits, WidenFits, LoadStoreFits, GiveUpFits
<1>2. CASE StartCycle \/ SkipCycle \/ SetShadow \/ FailCycle \/ ErrorCycle \/ SaveError
  BY <1>2, StartCycleFits, SkipCycleFits, SetShadowFits, FailCycleFits, ErrorCycleFits,
     SaveErrorFits
<1>3. CASE RollBackCycle \/ CreditCycle \/ PromoteCycle
  BY <1>3, RollBackCycleFits, CreditCycleFits, PromoteCycleFits
<1>4. ASSUME NEW r \in Requests,
             \/ \E op \in Ops : Request(r, op)
             \/ RejectRequest(r) \/ RecordRejection(r)
             \/ RevertRequest(r) \/ CountRollback(r)
      PROVE  StateFits'
  BY <1>4, RequestFits, RejectRequestFits, RecordRejectionFits, RevertRequestFits,
     CountRollbackFits
<1>5. ASSUME NEW a \in Actors, SaveTruncate(a) \/ SaveFill(a) \/ Crash(a)
      PROVE  StateFits'
  BY <1>5, SaveTruncateFits, SaveFillFits, CrashFits
<1>6. CASE UNCHANGED vars
  BY <1>6, StutterFits
<1> QED
  BY <1>1, <1>2, <1>3, <1>4, <1>5, <1>6 DEF Next

\* Whatever crashes, is overwritten or is cut short: the state file and every copy
\* of it hold a state of the program (_load_evolution_state, _save_evolution_state).
THEOREM EvolutionTypes == Spec => []TypeOK
<1>1. StateFits => TypeOK
  BY DEF StateFits
<1> QED
  BY <1>1, InitFits, NextFits, PTL DEF Spec

\* The count of passes and the windows behind it tell the same story in the file
\* and in every copy (_record_cycle_result, _force_rollback_with_metrics, the
\* promotion in run_cycle).
THEOREM BankAlwaysConsistent == Spec => []BankConsistent
<1>1. StateFits => BankConsistent
  BY DEF StateFits
<1> QED
  BY <1>1, InitFits, NextFits, PTL DEF Spec

-----------------------------------------------------------------------------
(* HistoryFits: what the state knows of what really happened.              *)

\* Who knows the history h knows every history that differs in nothing a state can
\* tell, with every state of the same counts; a rollback counted in excess and an
\* emptied bank do no harm.
LEMMA KnowsKept ==
  ASSUME NEW h \in Histories, NEW g \in Histories, NEW s \in State, NEW t \in State, Knows(h, s),
         g.promotions = h.promotions, g.rollbacks = h.rollbacks, g.rolledBack = h.rolledBack,
         t.promotion_count_30d = s.promotion_count_30d,
         t.last_promotion_at = s.last_promotion_at,
         t.consecutive_rollbacks >= s.consecutive_rollbacks,
         t.cooldown_start_at = s.cooldown_start_at,
         \/ t.consecutive_passes = 0
         \/ /\ g.lastPass = h.lastPass /\ t.consecutive_passes = s.consecutive_passes
            /\ t.pass_candidate_version = s.pass_candidate_version
            /\ t.pass_windows = s.pass_windows
  PROVE  Knows(g, t)
<1>1. KnowsPromotions(g, t)
  BY DEF Knows, KnowsPromotions
<1>2. KnowsRollbacks(g, t)
  <2>1. /\ h.rollbacks \in Nat /\ s.consecutive_rollbacks \in Nat
        /\ t.consecutive_rollbacks \in Nat /\ h.rollbacks <= s.consecutive_rollbacks
    BY StateShape, EvolutionAssumption DEF Knows, KnowsRollbacks, Histories
  <2>2. g.rollbacks <= t.consecutive_rollbacks
    BY <2>1
  <2> QED
    BY <2>2 DEF Knows, KnowsRollbacks
<1>3. KnowsLastPass(g, t)
  <2>1. CASE t.consecutive_passes = 0
    BY <2>1 DEF KnowsLastPass
  <2>2. CASE t.consecutive_passes # 0
    BY <2>2 DEF Knows, KnowsLastPass
  <2> QED
    BY <2>1, <2>2
<1> QED
  BY <1>1, <1>2, <1>3 DEF Knows

\* What is remembered is remembered because everything before was.
LEMMA Remembered ==
  ASSUME NEW h, Remember(h), history' # Nil
  PROVE  history # Nil /\ history' = h
BY DEF Remember

\* A load is remembered if there was a file to load.
LEMMA LoadRemembered ==
  ASSUME NEW a, NEW h, RememberLoad(a, h), history' # Nil
  PROVE  /\ history # Nil /\ file # Nil /\ LoadState = file
         /\ history' = [h EXCEPT !.outdated = @ \ {a}]
<1>1. RememberLoad(a, h) <=>
          Remember(IF file = Nil THEN Nil ELSE [h EXCEPT !.outdated = @ \ {a}])
  BY DEF RememberLoad
<1>2. /\ history # Nil
      /\ history' = IF file = Nil THEN Nil ELSE [h EXCEPT !.outdated = @ \ {a}]
  BY <1>1, Remembered
<1> QED
  BY <1>2 DEF LoadState

\* While there is a file to load, nobody fills it.
LEMMA NobodyFills == ASSUME OneFills, file # Nil PROVE \A a \in Actors : pc[a] # "fill"
BY DEF OneFills

\* An actor moves, but not to a half-written file: who fills is not disturbed,
\* unless the actor returns without an outdated copy.
LEMMA OneStillFills ==
  ASSUME OneFills, NEW a \in Actors, pc'[a] # "fill", file' = file,
         \A b \in Actors \ {a} : pc'[b] = pc[b],
         history'.outdated \in {history.outdated, history.outdated \ {a}},
         \/ file # Nil
         \/ history'.outdated = history.outdated /\ pc[a] \in Copied
         \/ pc'[a] \notin Copied
  PROVE  OneFills'
<1> SUFFICES ASSUME NEW b \in Actors, pc'[b] = "fill"
             PROVE  /\ file' = Nil /\ b \notin history'.outdated
                    /\ \A d \in Actors \ {b} :
                           /\ pc'[d] # "fill"
                           /\ pc'[d] \in Copied => d \in history'.outdated
  BY DEF OneFills
<1>1. b # a /\ pc[b] = "fill"
  OBVIOUS
<1>2. /\ file = Nil /\ b \notin history.outdated
      /\ \A d \in Actors \ {b} : /\ pc[d] # "fill"
                                 /\ pc[d] \in Copied => d \in history.outdated
  BY <1>1 DEF OneFills
<1>3. ASSUME NEW d \in Actors \ {b}
      PROVE  pc'[d] # "fill" /\ (pc'[d] \in Copied => d \in history'.outdated)
  <2>1. CASE d = a
    BY <1>1, <1>2, <2>1
  <2>2. CASE d # a
    BY <1>2, <2>2
  <2> QED
    BY <2>1, <2>2
<1> QED
  BY <1>2, <1>3

\* The end of a cycle: it leaves with what it knows, and until that is saved nobody
\* else needs to know.
LEMMA CycleEnds ==
  ASSUME StateFits, HistoryFits, history # Nil, NEW s \in State, Finish("cycle", s),
         pc["cycle"] \in Evaluating, file' = file, history' \in Histories, Knows(history', s),
         history'.outdated \in {history.outdated, history.outdated \ {"cycle"}},
         file # Nil \/ history'.outdated = history.outdated,
         ~history'.disturbed =>
             /\ history'.lastPass # Nil => history'.lastPass.policy \in Generated(active', maxDelta')
             /\ shadow' # Nil => shadow' \in Generated(active', maxDelta'),
         Rationed(history'.promotions)
  PROVE  HistoryFits'
<1>1. /\ state'["cycle"] = s /\ pc'["cycle"] = "save" /\ "cycle" \in Actors
      /\ \A b \in Actors \ {"cycle"} : state'[b] = state[b] /\ pc'[b] = pc[b]
  BY FinishMoves, FitsMeans
<1>2. OneFills'
  BY <1>1, OneStillFills DEF HistoryFits, Copied
<1>3. CopiesKnow'
  BY <1>1 DEF CopiesKnow, Evaluating
<1>4. LastPassIsCandidate'
  BY <1>1 DEF LastPassIsCandidate, Evaluating
<1> QED
  BY <1>2, <1>3, <1>4 DEF HistoryFits

\* What a load leaves of the history.
LEMMA LoadUpdates ==
  ASSUME HistoryFits, NEW a \in Actors, NEW h, history # Nil => h \in Histories,
         RememberLoad(a, h), history' # Nil
  PROVE  /\ history # Nil /\ file # Nil /\ LoadState = file
         /\ history \in Histories /\ history' \in Histories
         /\ history'.outdated = h.outdated \ {a} /\ history'.lastPass = h.lastPass
         /\ history'.promotions = h.promotions /\ history'.rollbacks = h.rollbacks
         /\ history'.rolledBack = h.rolledBack /\ history'.disturbed = h.disturbed
<1>1. /\ history # Nil /\ file # Nil /\ LoadState = file
      /\ history' = [h EXCEPT !.outdated = @ \ {a}]
  BY LoadRemembered
<1>2. history \in Histories /\ h \in Histories
  BY <1>1 DEF HistoryFits
<1> QED
  BY <1>1, <1>2 DEF Histories

\* Time passes: what is known does not depend on the clock.
LEMMA TickRemembers == HistoryFits /\ Tick => HistoryFits'
BY DEF HistoryFits, OneFills, CopiesKnow, LastPassIsCandidate, Tick, fileVars, policyVars,
       waitVars, boundVars

\* Nothing happens.
LEMMA StutterRemembers == HistoryFits /\ UNCHANGED vars => HistoryFits'
BY DEF HistoryFits, OneFills, CopiesKnow, LastPassIsCandidate, vars, fileVars, policyVars,
       waitVars, boundVars

\* Runners come and go, and may put the candidate aside.
LEMMA RunnerRemembers == HistoryFits /\ (LoadStore \/ GiveUp) => HistoryFits'
<1> SUFFICES ASSUME HistoryFits, LoadStore \/ GiveUp PROVE HistoryFits'
  OBVIOUS
<1>1. /\ shadow' \in {shadow, Nil}
      /\ UNCHANGED <<now, policyVars, file, maxDelta, pc, state, base, boundVars, history>>
  BY DEF LoadStore, GiveUp, fileVars
<1> QED
  BY <1>1 DEF HistoryFits, OneFills, CopiesKnow, LastPassIsCandidate, policyVars, boundVars

\* A disturbance: no pass counts for LastPassIsCandidate any more.
LEMMA Disturbed ==
  ASSUME history \in Histories, history' = [history EXCEPT !.disturbed = TRUE]
  PROVE  /\ history' \in Histories /\ history'.disturbed
         /\ history'.outdated = history.outdated
         /\ history'.lastPass = history.lastPass
         /\ history'.promotions = history.promotions /\ history'.rollbacks = history.rollbacks
         /\ history'.rolledBack = history.rolledBack
         /\ \A u : Knows(history, u) => Knows(history', u)
<1>1. /\ history' \in Histories /\ history'.disturbed
      /\ history'.outdated = history.outdated
      /\ history'.lastPass = history.lastPass
      /\ history'.promotions = history.promotions /\ history'.rollbacks = history.rollbacks
      /\ history'.rolledBack = history.rolledBack
  BY DEF Histories
<1> QED
  BY <1>1 DEF Knows, KnowsPromotions, KnowsRollbacks, KnowsLastPass

\* The range is widened.
LEMMA WidenRemembers == HistoryFits /\ Widen => HistoryFits'
<1> SUFFICES ASSUME HistoryFits, Widen, history' # Nil PROVE HistoryFits'
  BY DEF HistoryFits
<1>1. /\ UNCHANGED <<file, pc, state>>
      /\ history # Nil /\ history' = [history EXCEPT !.disturbed = TRUE]
  BY Remembered DEF Widen, fileVars
<1>2. /\ history \in Histories /\ CopiesKnow /\ OneFills /\ Rationed(history.promotions)
  BY <1>1 DEF HistoryFits
<1>3. /\ history' \in Histories /\ history'.disturbed
      /\ history'.outdated = history.outdated /\ history'.promotions = history.promotions
      /\ \A u : Knows(history, u) => Knows(history', u)
  BY <1>1, <1>2, Disturbed
<1>4. OneFills' /\ CopiesKnow'
  BY <1>1, <1>2, <1>3 DEF OneFills, CopiesKnow
<1> QED
  BY <1>2, <1>3, <1>4 DEF HistoryFits, LastPassIsCandidate

\* The cycle loads what the file knows.
LEMMA StartCycleRemembers == EvolutionInv /\ StartCycle => HistoryFits'
<1> SUFFICES ASSUME EvolutionInv, StartCycle, history' # Nil PROVE HistoryFits'
  BY DEF HistoryFits
<1> USE DEF EvolutionInv
<1> DEFINE d == history.disturbed \/ store # OnDisk
           h == [history EXCEPT !.disturbed = d]
<1>1. /\ "cycle" \in Actors /\ Requests \subseteq Actors /\ "cycle" \notin Requests
      /\ state'["cycle"] = LoadState /\ pc["cycle"] = "idle" /\ pc'["cycle"] = "run"
      /\ \A b \in Actors \ {"cycle"} : state'[b] = state[b] /\ pc'[b] = pc[b]
      /\ UNCHANGED <<file, active, shadow, maxDelta>>
      /\ RememberLoad("cycle", h)
  BY FitsMeans DEF StartCycle, fileVars, policyVars
<1>2. /\ base'.active = store.active /\ base'.shadow = store.shadow /\ base'.delta = maxDelta
  BY DEF StartCycle
<1>3. d \in BOOLEAN /\ (~d => ~history.disturbed /\ store = OnDisk)
  OBVIOUS
<1> HIDE DEF d
<1>4. history # Nil => /\ h \in Histories /\ h.outdated = history.outdated
                       /\ h.lastPass = history.lastPass
                       /\ h.promotions = history.promotions /\ h.rollbacks = history.rollbacks
                       /\ h.rolledBack = history.rolledBack /\ h.disturbed = d
  BY <1>3 DEF HistoryFits, Histories
<1> HIDE DEF h
<1>5. /\ history # Nil /\ file # Nil /\ LoadState = file
      /\ history \in Histories /\ history' \in Histories
      /\ history'.outdated = history.outdated \ {"cycle"}
      /\ history'.lastPass = history.lastPass
      /\ history'.promotions = history.promotions /\ history'.rollbacks = history.rollbacks
      /\ history'.rolledBack = history.rolledBack /\ history'.disturbed = d
  BY <1>1, <1>4, LoadUpdates
<1>6. \A s : Knows(history, s) => Knows(history', s)
  BY <1>5 DEF Knows, KnowsPromotions, KnowsRollbacks, KnowsLastPass
<1>7. OneFills'
  BY <1>1, <1>5, OneStillFills DEF HistoryFits
<1>8. CopiesKnow'
  <2>1. CopiesKnow
    BY <1>5 DEF HistoryFits
  <2>2. Knows(history', file)
    BY <1>1, <1>5, <1>6, <2>1 DEF CopiesKnow, Evaluating
  <2>3. ASSUME NEW r \in Requests, pc'[r] \in {"save", "fill"}, r \notin history'.outdated
        PROVE  Knows(history', state'[r])
    <3>1. r # "cycle" /\ pc[r] \in {"save", "fill"} /\ r \notin history.outdated
      BY <1>1, <1>5, <2>3
    <3> QED
      BY <1>1, <1>6, <2>1, <3>1 DEF CopiesKnow, Evaluating
  <2> QED
    BY <1>1, <1>5, <2>2, <2>3 DEF CopiesKnow
<1>9. LastPassIsCandidate'
  <2> SUFFICES ASSUME ~d PROVE LastPassIsCandidate'
    BY <1>5 DEF LastPassIsCandidate
  <2>1. /\ LastPassIsCandidate /\ ~history.disturbed
        /\ store.active = active /\ store.shadow = shadow
    BY <1>3, <1>5 DEF HistoryFits, OnDisk
  <2> QED
    BY <1>1, <1>2, <1>5, <2>1 DEF LastPassIsCandidate
<1> QED
  BY <1>5, <1>7, <1>8, <1>9 DEF HistoryFits

\* A cold start changes nothing that there is to know.
LEMMA SkipCycleRemembers == EvolutionInv /\ SkipCycle => HistoryFits'
<1> SUFFICES ASSUME EvolutionInv, SkipCycle, history' # Nil PROVE HistoryFits'
  BY DEF HistoryFits
<1> USE DEF EvolutionInv
<1>1. /\ "cycle" \in Actors /\ Requests \subseteq Actors /\ "cycle" \notin Requests
      /\ pc["cycle"] = "run" /\ pc'["cycle"] = "idle"
      /\ \A b \in Actors \ {"cycle"} : state'[b] = state[b] /\ pc'[b] = pc[b]
      /\ UNCHANGED <<file, active, shadow, maxDelta>>
  BY FitsMeans, StopMoves DEF SkipCycle, fileVars, policyVars, waitVars
<1>2. history # Nil /\ history' = [history EXCEPT !.outdated = @ \ {"cycle"}]
  BY Remembered DEF SkipCycle
<1>3. history \in Histories /\ CopiesKnow /\ OneFills /\ LastPassIsCandidate
  BY <1>2 DEF HistoryFits
<1>4. /\ history' \in Histories /\ history'.outdated = history.outdated \ {"cycle"}
      /\ history'.lastPass = history.lastPass
      /\ history'.promotions = history.promotions /\ history'.rollbacks = history.rollbacks
      /\ history'.rolledBack = history.rolledBack /\ history'.disturbed = history.disturbed
  BY <1>2, <1>3 DEF Histories
<1>5. \A s : Knows(history, s) => Knows(history', s)
  BY <1>4 DEF Knows, KnowsPromotions, KnowsRollbacks, KnowsLastPass
<1>6. OneFills'
  BY <1>1, <1>3, <1>4, OneStillFills DEF Copied, Evaluating
<1>7. CopiesKnow'
  <2>1. file' # Nil => Knows(history', file')
    BY <1>1, <1>3, <1>5 DEF CopiesKnow, Evaluating
  <2>2. ASSUME NEW r \in Requests, pc'[r] \in {"save", "fill"}, r \notin history'.outdated
        PROVE  Knows(history', state'[r])
    <3>1. r # "cycle" /\ pc[r] \in {"save", "fill"} /\ r \notin history.outdated
      BY <1>1, <1>4, <2>2
    <3> QED
      BY <1>1, <1>3, <1>5, <3>1 DEF CopiesKnow, Evaluating
  <2> QED
    BY <1>1, <2>1, <2>2 DEF CopiesKnow
<1>8. LastPassIsCandidate'
  BY <1>1, <1>3, <1>4 DEF LastPassIsCandidate, Evaluating
<1> QED
  BY <1>2, <1>4, <1>6, <1>7, <1>8 DEF HistoryFits

\* A cycle on undisturbed policies puts one of their candidates into shadow.
LEMMA SetShadowRemembers == EvolutionInv /\ SetShadow => HistoryFits'
<1> SUFFICES ASSUME EvolutionInv, SetShadow, history' # Nil PROVE HistoryFits'
  BY DEF HistoryFits
<1> USE DEF EvolutionInv
<1>1. /\ "cycle" \in Actors /\ Requests \subseteq Actors /\ "cycle" \notin Requests
      /\ pc["cycle"] = "run" /\ pc'["cycle"] = "shadowed"
      /\ \A b \in Actors \ {"cycle"} : pc'[b] = pc[b]
      /\ UNCHANGED <<file, state, active, maxDelta, history>>
  BY FitsMeans DEF SetShadow, policyVars, waitVars
<1>2. PICK c \in Candidates(base) : shadow' = c /\ base' = [base EXCEPT !.shadow = c]
  BY DEF SetShadow
<1>3. base \in Bases
  BY FitsMeans DEF PolicyTypes
<1>4. base'.active = base.active /\ base'.delta = base.delta /\ base'.shadow = c
  BY <1>2, <1>3 DEF Bases
<1>5. /\ history \in Histories /\ CopiesKnow /\ OneFills /\ LastPassIsCandidate
      /\ Rationed(history.promotions)
  BY <1>1 DEF HistoryFits
<1>6. OneFills'
  BY <1>1, <1>5, OneStillFills DEF Copied, Evaluating
<1>7. CopiesKnow'
  BY <1>1, <1>5 DEF CopiesKnow, Evaluating
<1>8. LastPassIsCandidate'
  <2> SUFFICES ASSUME ~history.disturbed PROVE LastPassIsCandidate'
    BY <1>1 DEF LastPassIsCandidate
  <2>1. /\ base.active = active /\ base.delta = maxDelta
        /\ base.shadow # Nil => base.shadow \in Generated(active, maxDelta)
        /\ history.lastPass # Nil => history.lastPass.policy \in Generated(active, maxDelta)
    BY <1>1, <1>5 DEF LastPassIsCandidate, Evaluating
  <2>2. c \in Generated(active, maxDelta)
    BY <1>2, <1>3, <2>1, CandidatesAre
  <2> QED
    BY <1>1, <1>2, <1>4, <2>1, <2>2 DEF LastPassIsCandidate
<1> QED
  BY <1>1, <1>5, <1>6, <1>7, <1>8 DEF HistoryFits

\* What is known when a cycle that runs comes to an end.
LEMMA RunMeans ==
  ASSUME EvolutionInv, Completes, history # Nil
  PROVE  /\ pc["cycle"] \in Evaluating /\ "cycle" \in Actors /\ state["cycle"] \in State
         /\ now \in Time /\ history \in Histories /\ Knows(history, state["cycle"])
         /\ (file # Nil => file \in State /\ Knows(history, file))
         /\ Rationed(history.promotions) /\ StateFits /\ HistoryFits /\ LastPassIsCandidate
BY FitsMeans DEF EvolutionInv, HistoryFits, CopiesKnow, Completes, FileFits, Evaluating

\* A cycle that rolls back has counted it, and started the cooldown if it must.
LEMMA RollBackRemembers == EvolutionInv /\ RollBackCycle => HistoryFits'
<1> SUFFICES ASSUME EvolutionInv, RollBackCycle, history' # Nil PROVE HistoryFits'
  BY DEF HistoryFits
<1> DEFINE s == state["cycle"]
           t == RecordRollback(s)
<1>1. /\ history # Nil
      /\ history' = [history EXCEPT !.lastPass = Nil, !.rollbacks = @ + 1, !.rolledBack = now,
                                    !.disturbed = FALSE]
  BY Remembered DEF RollBackCycle
<1>2. /\ pc["cycle"] \in Evaluating /\ s \in State /\ now \in Time /\ history \in Histories
      /\ Knows(history, s) /\ Rationed(history.promotions) /\ StateFits /\ HistoryFits
  BY <1>1, RunMeans DEF RollBackCycle
<1>3. /\ history' \in Histories /\ history'.outdated = history.outdated
      /\ history'.lastPass = Nil /\ history'.promotions = history.promotions
      /\ history'.rollbacks = history.rollbacks + 1 /\ history'.rolledBack = now
  <2> DEFINE n == history.rollbacks + 1
  <2>1. n \in Nat
    BY <1>2 DEF Histories
  <2>2. history' = [history EXCEPT !.lastPass = Nil, !.rollbacks = n, !.rolledBack = now,
                                   !.disturbed = FALSE]
    BY <1>1
  <2> HIDE DEF n
  <2>3. /\ history' \in Histories /\ history'.outdated = history.outdated
        /\ history'.lastPass = Nil /\ history'.promotions = history.promotions
        /\ history'.rollbacks = n /\ history'.rolledBack = now
    BY <1>2, <2>1, <2>2 DEF Histories
  <2> QED
    BY <2>3 DEF n
<1>4. /\ Finish("cycle", t) /\ file' = file /\ shadow' = Nil
      /\ s.consecutive_rollbacks < MaxCount
  BY DEF RollBackCycle
<1> HIDE DEF s
<1>5. /\ t \in State /\ t.consecutive_passes = 0
      /\ t.promotion_count_30d = s.promotion_count_30d
      /\ t.last_promotion_at = s.last_promotion_at
      /\ t.consecutive_rollbacks = s.consecutive_rollbacks + 1
      /\ t.consecutive_rollbacks >= MaxRollbacks => t.cooldown_start_at = now
  BY <1>2, <1>4, RollbackRecorded
<1> HIDE DEF t
<1>6. Knows(history', t)
  <2>1. KnowsPromotions(history', t)
    BY <1>2, <1>3, <1>5 DEF Knows, KnowsPromotions
  <2>2. history.rollbacks <= s.consecutive_rollbacks
    BY <1>2 DEF Knows, KnowsRollbacks
  <2>3. history.rollbacks \in Nat /\ s.consecutive_rollbacks \in Nat /\ MaxRollbacks \in Nat
    BY <1>2, StateShape, EvolutionAssumption DEF Histories
  <2>4. KnowsRollbacks(history', t)
    BY <1>3, <1>5, <2>2, <2>3 DEF KnowsRollbacks
  <2>5. KnowsLastPass(history', t)
    BY <1>5 DEF KnowsLastPass
  <2> QED
    BY <2>1, <2>4, <2>5 DEF Knows
<1> QED
  BY <1>1, <1>2, <1>3, <1>4, <1>5, <1>6, CycleEnds

\* A cycle that fails knows that no pass is left.
LEMMA FailRemembers == EvolutionInv /\ FailCycle => HistoryFits'
<1> SUFFICES ASSUME EvolutionInv, FailCycle, history' # Nil PROVE HistoryFits'
  BY DEF HistoryFits
<1> DEFINE s == state["cycle"]
           t == RecordFailed(s)
<1>1. history # Nil /\ history' = [history EXCEPT !.lastPass = Nil]
  BY Remembered DEF FailCycle
<1>2. /\ pc["cycle"] \in Evaluating /\ s \in State /\ now \in Time /\ history \in Histories
      /\ Knows(history, s) /\ Rationed(history.promotions) /\ StateFits /\ HistoryFits
      /\ LastPassIsCandidate
  BY <1>1, RunMeans DEF FailCycle
<1>3. /\ history' \in Histories /\ history'.outdated = history.outdated
      /\ history'.lastPass = Nil /\ history'.promotions = history.promotions
      /\ history'.rollbacks = history.rollbacks /\ history'.rolledBack = history.rolledBack
      /\ history'.disturbed = history.disturbed
  BY <1>1, <1>2 DEF Histories
<1>4. Finish("cycle", t) /\ UNCHANGED <<file, active, shadow, maxDelta>>
  BY DEF FailCycle, fileVars, policyVars, waitVars
<1> HIDE DEF s
<1>5. /\ t \in State /\ t.consecutive_passes = 0
      /\ t.promotion_count_30d = s.promotion_count_30d
      /\ t.last_promotion_at = s.last_promotion_at
      /\ t.consecutive_rollbacks = s.consecutive_rollbacks
      /\ t.cooldown_start_at = s.cooldown_start_at
  BY <1>2, FailureRecorded
<1> HIDE DEF t
<1>6. t.consecutive_rollbacks >= s.consecutive_rollbacks
  BY <1>2, <1>5, StateShape
<1>7. Knows(history', t)
  BY <1>2, <1>3, <1>5, <1>6, KnowsKept
<1>8. ~history'.disturbed => (shadow' # Nil => shadow' \in Generated(active', maxDelta'))
  BY <1>2, <1>3, <1>4 DEF LastPassIsCandidate
<1> QED
  BY <1>1, <1>2, <1>3, <1>4, <1>5, <1>7, <1>8, CycleEnds

\* A cycle that raised an exception loads the file anew: it knows as much.
LEMMA ErrorRemembers == EvolutionInv /\ ErrorCycle => HistoryFits'
<1> SUFFICES ASSUME EvolutionInv, ErrorCycle, history' # Nil PROVE HistoryFits'
  BY DEF HistoryFits
<1> DEFINE t == RecordFailed(file)
<1> DEFINE h == [history EXCEPT !.lastPass = Nil]
<1>1. /\ RememberLoad("cycle", h) /\ Finish("cycle", RecordFailed(LoadState))
      /\ UNCHANGED <<file, active, shadow, maxDelta>>
  BY DEF ErrorCycle, fileVars, policyVars, waitVars
<1>2. history # Nil =>
          /\ h \in Histories /\ h.outdated = history.outdated /\ h.lastPass = Nil
          /\ h.promotions = history.promotions /\ h.rollbacks = history.rollbacks
          /\ h.rolledBack = history.rolledBack /\ h.disturbed = history.disturbed
  BY DEF EvolutionInv, HistoryFits, Histories
<1> HIDE DEF h
<1>3. /\ history # Nil /\ file # Nil /\ LoadState = file
      /\ history' \in Histories /\ history'.outdated = history.outdated \ {"cycle"}
      /\ history'.lastPass = Nil /\ history'.promotions = history.promotions
      /\ history'.rollbacks = history.rollbacks /\ history'.rolledBack = history.rolledBack
      /\ history'.disturbed = history.disturbed
      /\ pc["cycle"] \in Evaluating /\ now \in Time /\ history \in Histories
      /\ file \in State /\ Knows(history, file) /\ Rationed(history.promotions)
      /\ StateFits /\ HistoryFits /\ LastPassIsCandidate
  <2>1. /\ history # Nil /\ file # Nil /\ LoadState = file
        /\ history' \in Histories /\ history'.outdated = history.outdated \ {"cycle"}
        /\ history'.lastPass = Nil /\ history'.promotions = history.promotions
        /\ history'.rollbacks = history.rollbacks /\ history'.rolledBack = history.rolledBack
        /\ history'.disturbed = history.disturbed
    BY <1>1, <1>2, FitsMeans, LoadUpdates DEF EvolutionInv
  <2> QED
    BY <2>1, RunMeans DEF ErrorCycle
<1>4. /\ t \in State /\ t.consecutive_passes = 0
      /\ t.promotion_count_30d = file.promotion_count_30d
      /\ t.last_promotion_at = file.last_promotion_at
      /\ t.consecutive_rollbacks = file.consecutive_rollbacks
      /\ t.cooldown_start_at = file.cooldown_start_at
  BY <1>3, FailureRecorded
<1>5. Finish("cycle", t)
  BY <1>1, <1>3
<1> HIDE DEF t
<1>6. t.consecutive_rollbacks >= file.consecutive_rollbacks
  BY <1>3, <1>4, StateShape
<1>7. Knows(history', t)
  BY <1>3, <1>4, <1>6, KnowsKept
<1>8. ~history'.disturbed => (shadow' # Nil => shadow' \in Generated(active', maxDelta'))
  BY <1>1, <1>3 DEF LastPassIsCandidate
<1> QED
  BY <1>1, <1>3, <1>4, <1>5, <1>7, <1>8, CycleEnds

\* A cycle that credits a pass knows its version and its time.
LEMMA CreditRemembers == EvolutionInv /\ CreditCycle => HistoryFits'
<1> SUFFICES ASSUME EvolutionInv, CreditCycle, history' # Nil PROVE HistoryFits'
  BY DEF HistoryFits
<1> DEFINE s == state["cycle"]
           c == base.shadow
           t == RecordPassed(s, Version(c))
           p == [at |-> now, policy |-> c]
<1>1. /\ Passes /\ Completes /\ Finish("cycle", t) /\ shadow' = c
      /\ UNCHANGED <<file, active, maxDelta>>
  BY DEF CreditCycle, Passes, policyVars, waitVars
<1>2. history # Nil /\ history' = [history EXCEPT !.lastPass = p]
  BY Remembered DEF CreditCycle
<1>3. /\ pc["cycle"] \in Evaluating /\ s \in State /\ now \in Time /\ history \in Histories
      /\ Knows(history, s) /\ Rationed(history.promotions) /\ StateFits /\ HistoryFits
      /\ LastPassIsCandidate
  BY <1>1, <1>2, RunMeans
<1>4. c \in Policies /\ Version(c) \in Slots
  BY <1>1, <1>3, PassesMeans
<1>5. ~history.disturbed => c \in Generated(active, maxDelta)
  BY <1>1, <1>3 DEF Passes, LastPassIsCandidate
<1> HIDE DEF c
<1>6. /\ p \in [at : Time, policy : Policies] /\ p.at = now /\ p.policy = c /\ p # Nil
  <2>1. c \in Seq(Steps)
    BY <1>4, EvolutionAssumption, BoundedSeq DEF Policies
  <2>2. now \in Nat
    BY <1>3, EvolutionAssumption DEF Time
  <2>3. p # Nil
    BY <2>1, <2>2, EvolutionAssumption DEF Steps, Narrow, Wide
  <2> QED
    BY <1>3, <1>4, <2>3
<1> HIDE DEF p
<1>7. /\ history' \in Histories /\ history'.outdated = history.outdated
      /\ history'.lastPass = p /\ history'.promotions = history.promotions
      /\ history'.rollbacks = history.rollbacks /\ history'.rolledBack = history.rolledBack
      /\ history'.disturbed = history.disturbed
  BY <1>2, <1>3, <1>6 DEF Histories
<1>8. s.consecutive_passes < MaxCount /\ BankAddsUp(s)
  BY <1>1, <1>3, FitsMeans DEF Passes
<1> HIDE DEF s
<1>9. /\ t \in State /\ t.pass_candidate_version = Version(c)
      /\ t.pass_windows[Len(t.pass_windows)].cycle = now
      /\ t.promotion_count_30d = s.promotion_count_30d
      /\ t.last_promotion_at = s.last_promotion_at
      /\ t.consecutive_rollbacks = s.consecutive_rollbacks
      /\ t.cooldown_start_at = s.cooldown_start_at
  BY <1>3, <1>4, <1>8, PassRecorded
<1> HIDE DEF t
<1>10. Knows(history', t)
  BY <1>3, <1>6, <1>7, <1>9 DEF Knows, KnowsPromotions, KnowsRollbacks, KnowsLastPass
<1>11. ~history'.disturbed =>
           /\ history'.lastPass # Nil => history'.lastPass.policy \in Generated(active', maxDelta')
           /\ shadow' # Nil => shadow' \in Generated(active', maxDelta')
  BY <1>1, <1>5, <1>6, <1>7
<1> QED
  BY <1>1, <1>2, <1>3, <1>7, <1>9, <1>10, <1>11, CycleEnds

\* One more promotion within the quota, after the cooldown.
LEMMA RationKept ==
  ASSUME NEW at \in Seq(Time), NEW t \in Time, Rationed(at), Len(at) < MaxPromotions,
         Len(at) # 0 => t - at[Len(at)] >= PromotionCooldown
  PROVE  /\ Rationed(Append(at, t)) /\ Append(at, t) \in Seq(Time)
         /\ Len(Append(at, t)) = Len(at) + 1 /\ Append(at, t)[Len(at) + 1] = t
<1> DEFINE n == Len(at)
           bt == Append(at, t)
<1>1. /\ n \in Nat /\ bt \in Seq(Time) /\ Len(bt) = n + 1 /\ bt[n + 1] = t
      /\ \A i \in 1..n : bt[i] = at[i]
  OBVIOUS
<1>2. n < MaxPromotions /\ MaxPromotions \in Nat
  BY EvolutionAssumption
<1>3. \A i \in 2..n : at[i] - at[i-1] >= PromotionCooldown
  BY DEF Rationed
<1>4. n # 0 => t - at[n] >= PromotionCooldown
  OBVIOUS
<1> HIDE DEF n, bt
<1>5. ASSUME NEW i \in 2..(n + 1) PROVE bt[i] - bt[i-1] >= PromotionCooldown
  <2>1. CASE i = n + 1
    <3>1. n # 0 /\ n \in 1..n /\ i - 1 = n
      BY <1>1, <2>1
    <3> QED
      BY <1>1, <1>4, <2>1, <3>1
  <2>2. CASE i # n + 1
    <3>1. i \in 2..n /\ i \in 1..n /\ i - 1 \in 1..n
      BY <1>1, <2>2
    <3> QED
      BY <1>1, <1>3, <3>1
  <2> QED
    BY <2>1, <2>2
<1>6. Rationed(bt)
  <2>1. n + 1 <= MaxPromotions
    BY <1>1, <1>2
  <2> QED
    BY <1>1, <1>5, <2>1 DEF Rationed
<1> QED
  BY <1>1, <1>6 DEF n, bt

\* A cycle that promotes has kept the quota and the cooldown, and counts anew.
LEMMA PromoteRemembers == EvolutionInv /\ PromoteCycle => HistoryFits'
<1> SUFFICES ASSUME EvolutionInv, PromoteCycle, history' # Nil PROVE HistoryFits'
  BY DEF HistoryFits
<1> DEFINE s == state["cycle"]
           q == RecordPassed(s, Version(base.shadow))
           t == RecordPromotion(q)
           at == history.promotions
<1>1. /\ Passes /\ Completes /\ Finish("cycle", t) /\ file' = file /\ shadow' = Nil
      /\ CooldownOver(q) /\ QuotaLeft(q)
  BY DEF PromoteCycle, Passes, CanPromote
<1>2. /\ history # Nil
      /\ history' = [history EXCEPT !.lastPass = Nil, !.promotions = Append(@, now),
                                    !.rollbacks = 0, !.rolledBack = Never, !.disturbed = FALSE]
  BY Remembered DEF PromoteCycle
<1>3. /\ pc["cycle"] \in Evaluating /\ s \in State /\ now \in Time /\ history \in Histories
      /\ Knows(history, s) /\ Rationed(at) /\ StateFits /\ HistoryFits
  BY <1>1, <1>2, RunMeans
<1>4. Version(base.shadow) \in Slots /\ s.consecutive_passes < MaxCount /\ BankAddsUp(s)
  BY <1>1, <1>3, PassesMeans, FitsMeans DEF Passes
<1> HIDE DEF s
<1>5. /\ q \in State /\ q.promotion_count_30d = s.promotion_count_30d
      /\ q.last_promotion_at = s.last_promotion_at
  BY <1>3, <1>4, PassRecorded
<1> HIDE DEF q
<1>6. /\ t \in State /\ t.consecutive_passes = 0 /\ t.consecutive_rollbacks = 0
      /\ t.promotion_count_30d = q.promotion_count_30d + 1 /\ t.last_promotion_at = now
  BY <1>1, <1>3, <1>5, PromotionRecorded
<1> HIDE DEF t
<1>7. at \in Seq(Time) /\ Len(at) \in Nat
  BY <1>3 DEF Histories
<1>8. /\ q.promotion_count_30d = Len(at)
      /\ q.last_promotion_at = IF Len(at) = 0 THEN Never ELSE at[Len(at)]
  BY <1>3, <1>5 DEF Knows, KnowsPromotions
<1>9. Len(at) < MaxPromotions
  BY <1>1, <1>8 DEF QuotaLeft
<1>10. Len(at) # 0 => now - at[Len(at)] >= PromotionCooldown
  <2> SUFFICES ASSUME Len(at) # 0 PROVE now - at[Len(at)] >= PromotionCooldown
    OBVIOUS
  <2> DEFINE n == Len(at)
  <2>1. n \in 1..n
    BY <1>7
  <2>2. at[n] \in Time
    BY <1>7, <2>1
  <2>3. at[n] # Never
    BY <2>2, EvolutionAssumption DEF Time
  <2> QED
    BY <1>1, <1>8, <2>3 DEF CooldownOver
<1> DEFINE bt == Append(at, now)
<1>11. /\ Rationed(bt) /\ bt \in Seq(Time) /\ Len(bt) = Len(at) + 1 /\ bt[Len(at) + 1] = now
  BY <1>3, <1>7, <1>9, <1>10, RationKept
<1>12. history' = [history EXCEPT !.lastPass = Nil, !.promotions = bt,
                                  !.rollbacks = 0, !.rolledBack = Never, !.disturbed = FALSE]
  BY <1>2
<1> HIDE DEF bt
<1>13. /\ history' \in Histories /\ history'.outdated = history.outdated
       /\ history'.lastPass = Nil /\ history'.promotions = bt
       /\ history'.rollbacks = 0
  BY <1>3, <1>11, <1>12 DEF Histories
<1> HIDE DEF at
<1>14. Knows(history', t)
  <2>1. KnowsPromotions(history', t)
    BY <1>6, <1>7, <1>8, <1>11, <1>13 DEF KnowsPromotions
  <2>2. KnowsRollbacks(history', t)
    BY <1>6, <1>13, EvolutionAssumption DEF KnowsRollbacks
  <2>3. KnowsLastPass(history', t)
    BY <1>6 DEF KnowsLastPass
  <2> QED
    BY <2>1, <2>2, <2>3 DEF Knows
<1> QED
  BY <1>1, <1>2, <1>3, <1>6, <1>11, <1>13, <1>14, CycleEnds

\* Requests change nothing that the file knows, and leave with it.
LEMMA RequestLoads ==
  ASSUME EvolutionInv, NEW r \in Requests, NEW s \in State,
         RememberLoad(r, history), history' # Nil, Finish(r, s),
         pc[r] \in {"idle", "rejected", "reverted"},
         UNCHANGED <<file, active, shadow, maxDelta, base>>,
         LoadState \in State,
         s.promotion_count_30d = LoadState.promotion_count_30d,
         s.last_promotion_at = LoadState.last_promotion_at,
         s.consecutive_rollbacks >= LoadState.consecutive_rollbacks,
         s.cooldown_start_at = LoadState.cooldown_start_at,
         s.consecutive_passes = LoadState.consecutive_passes,
         s.pass_candidate_version = LoadState.pass_candidate_version,
         s.pass_windows = LoadState.pass_windows
  PROVE  HistoryFits'
<1> USE DEF EvolutionInv
<1>1. /\ r \in Actors /\ "cycle" \in Actors /\ Requests \subseteq Actors /\ r # "cycle"
      /\ state'[r] = s /\ pc'[r] = "save"
      /\ \A b \in Actors \ {r} : state'[b] = state[b] /\ pc'[b] = pc[b]
  BY FitsMeans, FinishMoves
<1>3. history # Nil => history \in Histories
  BY DEF HistoryFits
<1>4. /\ history # Nil /\ file # Nil /\ LoadState = file
      /\ history \in Histories /\ history' \in Histories
      /\ history'.outdated = history.outdated \ {r}
      /\ history'.lastPass = history.lastPass
      /\ history'.promotions = history.promotions /\ history'.rollbacks = history.rollbacks
      /\ history'.rolledBack = history.rolledBack /\ history'.disturbed = history.disturbed
  BY <1>1, <1>3, LoadUpdates
<1>5. CopiesKnow /\ OneFills /\ LastPassIsCandidate /\ Rationed(history.promotions)
  BY <1>4 DEF HistoryFits
<1>6. \A u : Knows(history, u) => Knows(history', u)
  BY <1>4 DEF Knows, KnowsPromotions, KnowsRollbacks, KnowsLastPass
<1>7. OneFills'
  BY <1>1, <1>4, <1>5, OneStillFills DEF Copied, Evaluating
<1>8. CopiesKnow'
  <2>1. pc'["cycle"] # "idle" => Knows(history', state'["cycle"])
    BY <1>1, <1>5, <1>6 DEF CopiesKnow
  <2>2. ASSUME pc'["cycle"] \in Evaluating \cup {"idle"}
        PROVE  /\ Knows(history', file') /\ Knows(history', state'[r])
               /\ \A b \in Requests \ {r} : pc'[b] \in {"save", "fill"} /\ b \notin history'.outdated
                                            => Knows(history', state'[b])
    <3>1. Knows(history, file)
      BY <1>1, <1>4, <1>5, <2>2 DEF CopiesKnow
    <3>2. Knows(history', s)
      BY <1>4, <3>1, KnowsKept
    <3>3. ASSUME NEW b \in Requests \ {r}, pc'[b] \in {"save", "fill"}, b \notin history'.outdated
          PROVE  Knows(history', state'[b])
      <4>1. b \in Actors \ {r} /\ pc[b] \in {"save", "fill"} /\ b \notin history.outdated
        BY <1>1, <1>4, <3>3
      <4> QED
        BY <1>1, <1>5, <1>6, <2>2, <4>1 DEF CopiesKnow
    <3> QED
      BY <1>1, <1>6, <3>1, <3>2, <3>3
  <2> QED
    BY <2>1, <2>2 DEF CopiesKnow
<1>9. LastPassIsCandidate'
  BY <1>1, <1>4, <1>5 DEF LastPassIsCandidate
<1> QED
  BY <1>4, <1>5, <1>7, <1>8, <1>9 DEF HistoryFits

\* pause and resume save what they have loaded, but for a flag.
LEMMA RequestRemembers ==
  ASSUME EvolutionInv, NEW r \in Requests, NEW op \in Ops, Request(r, op)
  PROVE  HistoryFits'
<1> SUFFICES ASSUME history' # Nil PROVE HistoryFits'
  BY DEF HistoryFits
<1> DEFINE l == LoadState
<1>1. /\ RememberLoad(r, history) /\ pc[r] = "idle"
      /\ UNCHANGED <<file, active, shadow, maxDelta, base>>
  BY DEF Request, fileVars, policyVars, waitVars
<1>2. l \in State /\ BankAddsUp(l)
  BY FitsMeans DEF EvolutionInv
<1>3. \E b \in BOOLEAN : Finish(r, [l EXCEPT !.paused = b])
  BY DEF Request
<1> HIDE DEF l
<1>4. l.consecutive_rollbacks >= l.consecutive_rollbacks
  BY <1>2, StateShape
<1>5. ASSUME NEW b \in BOOLEAN, Finish(r, [l EXCEPT !.paused = b]) PROVE HistoryFits'
  <2> DEFINE s == [l EXCEPT !.paused = b]
  <2>1. /\ s.promotion_count_30d = l.promotion_count_30d
        /\ s.last_promotion_at = l.last_promotion_at
        /\ s.consecutive_rollbacks = l.consecutive_rollbacks
        /\ s.cooldown_start_at = l.cooldown_start_at
        /\ s.consecutive_passes = l.consecutive_passes
        /\ s.pass_candidate_version = l.pass_candidate_version
        /\ s.pass_windows = l.pass_windows
    BY <1>2, StateShape
  <2>2. s \in State /\ Finish(r, s)
    BY <1>2, <1>5, RequestUpdates
  <2> HIDE DEF s
  <2> QED
    BY <1>1, <1>2, <1>4, <2>1, <2>2, RequestLoads DEF l
<1> QED
  BY <1>3, <1>5

\* A rejection saves what it has loaded.
LEMMA RecordRejectionRemembers ==
  ASSUME EvolutionInv, NEW r \in Requests, RecordRejection(r)
  PROVE  HistoryFits'
<1> SUFFICES ASSUME history' # Nil PROVE HistoryFits'
  BY DEF HistoryFits
<1> DEFINE l == LoadState
<1>1. /\ RememberLoad(r, history) /\ pc[r] = "rejected" /\ Finish(r, l)
      /\ UNCHANGED <<file, active, shadow, maxDelta, base>>
  BY DEF RecordRejection, fileVars, policyVars, waitVars, boundVars
<1>2. l \in State
  BY FitsMeans DEF EvolutionInv
<1> HIDE DEF l
<1>3. l.consecutive_rollbacks >= l.consecutive_rollbacks
  BY <1>2, StateShape
<1> QED
  BY <1>1, <1>2, <1>3, RequestLoads DEF l

\* The count of a manual rollback is one rollback in excess of the cycles'.
LEMMA CountRollbackRemembers ==
  ASSUME EvolutionInv, NEW r \in Requests, CountRollback(r)
  PROVE  HistoryFits'
<1> SUFFICES ASSUME history' # Nil PROVE HistoryFits'
  BY DEF HistoryFits
<1> DEFINE l == LoadState
           s == [l EXCEPT !.consecutive_rollbacks = @ + 1]
<1>1. /\ RememberLoad(r, history) /\ pc[r] = "reverted"
      /\ UNCHANGED <<file, active, shadow, maxDelta, base>> /\ Finish(r, s)
      /\ l.consecutive_rollbacks < MaxCount
  BY DEF CountRollback, fileVars, policyVars, waitVars, boundVars
<1>2. l \in State /\ BankAddsUp(l)
  BY FitsMeans DEF EvolutionInv
<1> HIDE DEF l
<1>3. s \in State
  BY <1>1, <1>2, RequestUpdates
<1>4. /\ s.promotion_count_30d = l.promotion_count_30d
      /\ s.last_promotion_at = l.last_promotion_at
      /\ s.cooldown_start_at = l.cooldown_start_at
      /\ s.consecutive_passes = l.consecutive_passes
      /\ s.pass_candidate_version = l.pass_candidate_version
      /\ s.pass_windows = l.pass_windows
  BY <1>2, StateShape
<1>5. s.consecutive_rollbacks >= l.consecutive_rollbacks
  <2> DEFINE n == l.consecutive_rollbacks + 1
  <2>1. s = [l EXCEPT !.consecutive_rollbacks = n]
    OBVIOUS
  <2>2. n >= l.consecutive_rollbacks
    BY <1>2, StateShape, EvolutionAssumption
  <2> HIDE DEF n
  <2> QED
    BY <1>2, <2>1, <2>2, StateShape
<1> HIDE DEF s
<1> QED
  BY <1>1, <1>2, <1>3, <1>4, <1>5, RequestLoads DEF l

\* A request that changes the policy files first: nobody's copy is touched.
LEMMA PolicyRequestRemembers ==
  ASSUME EvolutionInv, NEW r \in Requests, NEW place \in {"rejected", "reverted"},
         pc[r] = "idle", pc' = [pc EXCEPT ![r] = place], UNCHANGED <<state, file>>,
         history # Nil, history' \in Histories, history'.outdated = history.outdated,
         history'.promotions = history.promotions,
         \A u : Knows(history, u) => Knows(history', u), LastPassIsCandidate'
  PROVE  HistoryFits'
<1> USE DEF EvolutionInv
<1>1. /\ r \in Actors /\ "cycle" \in Actors /\ Requests \subseteq Actors /\ r # "cycle"
      /\ pc \in [Actors -> ActorPlaces]
  BY FitsMeans
<1>2. pc'[r] = place /\ \A b \in Actors \ {r} : pc'[b] = pc[b]
  BY <1>1
<1>3. history \in Histories /\ CopiesKnow /\ OneFills /\ Rationed(history.promotions)
  BY DEF HistoryFits
<1>4. OneFills'
  BY <1>1, <1>2, <1>3, OneStillFills DEF Copied, Evaluating
<1>5. CopiesKnow'
  <2>1. \A b \in Requests : pc'[b] \in {"save", "fill"} => pc[b] = pc'[b]
    BY <1>1, <1>2
  <2>2. pc'["cycle"] = pc["cycle"]
    BY <1>1, <1>2
  <2> QED
    BY <1>1, <1>3, <2>1, <2>2 DEF CopiesKnow
<1> QED
  BY <1>3, <1>4, <1>5 DEF HistoryFits

\* A manual rollback disturbs.
LEMMA RevertRemembers ==
  ASSUME EvolutionInv, NEW r \in Requests, RevertRequest(r)
  PROVE  HistoryFits'
<1> SUFFICES ASSUME history' # Nil PROVE HistoryFits'
  BY DEF HistoryFits
<1>1. history # Nil /\ history' = [history EXCEPT !.disturbed = TRUE]
  BY Remembered DEF RevertRequest
<1>2. history \in Histories
  BY <1>1 DEF EvolutionInv, HistoryFits
<1>3. /\ history' \in Histories /\ history'.disturbed
      /\ history'.outdated = history.outdated /\ history'.promotions = history.promotions
      /\ \A u : Knows(history, u) => Knows(history', u)
  BY <1>1, <1>2, Disturbed
<1>4. LastPassIsCandidate'
  BY <1>3 DEF LastPassIsCandidate
<1> QED
  BY <1>1, <1>3, <1>4, PolicyRequestRemembers DEF RevertRequest

\* A rejection leaves everything but the candidate in shadow as it is.
LEMMA RejectRemembers ==
  ASSUME EvolutionInv, NEW r \in Requests, RejectRequest(r)
  PROVE  HistoryFits'
<1> SUFFICES ASSUME history' # Nil PROVE HistoryFits'
  BY DEF HistoryFits
<1>1. /\ UNCHANGED <<history, active, maxDelta, base, state, file>>
      /\ shadow' = Nil /\ pc'["cycle"] = pc["cycle"]
  BY FitsMeans DEF EvolutionInv, RejectRequest, policyVars, waitVars
<1>2. history \in Histories /\ LastPassIsCandidate
  BY <1>1 DEF EvolutionInv, HistoryFits
<1>3. LastPassIsCandidate'
  BY <1>1, <1>2 DEF LastPassIsCandidate
<1>4. \A u : Knows(history, u) => Knows(history', u)
  BY <1>1
<1> QED
  BY <1>1, <1>2, <1>3, <1>4, PolicyRequestRemembers DEF RejectRequest

\* The file is cut short by one whose copy is not outdated.  Every other copy is
\* from now on; nobody else is in the middle of a save, or this copy would be.
LEMMA TruncateRemembers ==
  ASSUME EvolutionInv, NEW a \in Actors, SaveTruncate(a)
  PROVE  HistoryFits'
<1> SUFFICES ASSUME history' # Nil PROVE HistoryFits'
  BY DEF HistoryFits
<1> USE DEF EvolutionInv
<1> DEFINE others == {b \in Actors \ {a} : pc[b] \in Evaluating \cup {"save"}}
<1>1. /\ "cycle" \in Actors /\ Requests \subseteq Actors /\ pc \in [Actors -> ActorPlaces]
      /\ pc[a] = "save" /\ pc' = [pc EXCEPT ![a] = "fill"] /\ state' = state /\ file' = Nil
      /\ UNCHANGED <<active, shadow, maxDelta, base>>
  BY FitsMeans DEF SaveTruncate, policyVars, waitVars
<1>2. pc'[a] = "fill" /\ \A b \in Actors \ {a} : pc'[b] = pc[b]
  BY <1>1
<1>3. /\ history # Nil
      /\ history' = IF a \in history.outdated THEN Nil
                    ELSE [history EXCEPT !.outdated = others]
  <2>1. Remember(IF a \in history.outdated THEN Nil ELSE [history EXCEPT !.outdated = others])
    BY DEF SaveTruncate
  <2> HIDE DEF others
  <2> QED
    BY <2>1, Remembered
<1>4. a \notin history.outdated /\ history' = [history EXCEPT !.outdated = others]
  BY <1>3
<1>5. /\ history \in Histories /\ CopiesKnow /\ OneFills /\ LastPassIsCandidate
      /\ Rationed(history.promotions)
  BY <1>3 DEF HistoryFits
<1>6. /\ others \subseteq Actors /\ a \notin others
      /\ \A b \in Actors \ {a} : pc[b] \in Copied => b \in others
  BY DEF Copied
<1> HIDE DEF others
<1>7. /\ history' \in Histories /\ history'.outdated = others
      /\ history'.lastPass = history.lastPass
      /\ history'.promotions = history.promotions /\ history'.rollbacks = history.rollbacks
      /\ history'.rolledBack = history.rolledBack /\ history'.disturbed = history.disturbed
  BY <1>4, <1>5, <1>6 DEF Histories
<1>8. \A u : Knows(history, u) => Knows(history', u)
  BY <1>7 DEF Knows, KnowsPromotions, KnowsRollbacks, KnowsLastPass
<1>9. \A b \in Actors \ {a} : pc[b] # "fill"
  BY <1>1, <1>4, <1>5 DEF OneFills, Copied
<1>10. OneFills'
  BY <1>1, <1>2, <1>6, <1>7, <1>9 DEF OneFills
<1>11. CopiesKnow'
  <2>1. pc'["cycle"] # "idle" => Knows(history', state'["cycle"])
    BY <1>1, <1>2, <1>5, <1>8 DEF CopiesKnow
  <2>2. ASSUME pc'["cycle"] \in Evaluating \cup {"idle"}, NEW r \in Requests,
               pc'[r] \in {"save", "fill"}, r \notin history'.outdated
        PROVE  Knows(history', state'[r])
    <3>1. r = a
      BY <1>1, <1>2, <1>6, <1>7, <1>9, <2>2 DEF Copied
    <3>2. pc["cycle"] \in Evaluating \cup {"idle"}
      BY <1>1, <1>2, <2>2 DEF Evaluating
    <3> QED
      BY <1>1, <1>4, <1>5, <1>8, <3>1, <3>2 DEF CopiesKnow
  <2> QED
    BY <1>1, <2>1, <2>2 DEF CopiesKnow
<1>12. LastPassIsCandidate'
  BY <1>1, <1>2, <1>5, <1>7 DEF LastPassIsCandidate, Evaluating
<1> QED
  BY <1>5, <1>7, <1>10, <1>11, <1>12 DEF HistoryFits

\* The copy that fills the file is the only one that is not outdated.
LEMMA FillRemembers ==
  ASSUME EvolutionInv, NEW a \in Actors, SaveFill(a)
  PROVE  HistoryFits'
<1> SUFFICES ASSUME history' # Nil PROVE HistoryFits'
  BY DEF HistoryFits
<1> USE DEF EvolutionInv
<1>1. /\ "cycle" \in Actors /\ Requests \subseteq Actors
      /\ pc[a] = "fill" /\ pc'[a] = "idle"
      /\ \A b \in Actors \ {a} : state'[b] = state[b] /\ pc'[b] = pc[b]
      /\ UNCHANGED <<active, shadow, maxDelta, base>>
  BY FitsMeans, StopMoves DEF SaveFill, policyVars, waitVars
<1>2. history # Nil /\ history' = IF file # Nil THEN Nil ELSE history
  <2>1. Remember(IF file # Nil THEN Nil ELSE history)
    BY DEF SaveFill
  <2> QED
    BY <2>1, Remembered
<1>3. file = Nil /\ history' = history /\ file' = state[a]
  BY <1>2 DEF SaveFill
<1>4. /\ history \in Histories /\ CopiesKnow /\ OneFills /\ LastPassIsCandidate
      /\ Rationed(history.promotions)
  BY <1>2 DEF HistoryFits
<1>5. /\ a \notin history.outdated
      /\ \A b \in Actors \ {a} : /\ pc[b] # "fill"
                                 /\ pc[b] \in Copied => b \in history.outdated
  BY <1>1, <1>4 DEF OneFills
<1>6. OneFills'
  BY <1>1, <1>5 DEF OneFills
<1>7. CopiesKnow'
  <2>1. pc'["cycle"] # "idle" => Knows(history', state'["cycle"])
    BY <1>1, <1>3, <1>4 DEF CopiesKnow
  <2>2. pc'["cycle"] \in Evaluating \cup {"idle"} => Knows(history, state[a])
    <3>1. CASE a = "cycle"
      BY <1>1, <1>4, <3>1 DEF CopiesKnow
    <3>2. CASE a # "cycle"
      <4>1. a \in Requests
        BY <3>2 DEF Actors
      <4> QED
        BY <1>1, <1>4, <1>5, <3>2, <4>1 DEF CopiesKnow
    <3> QED
      BY <3>1, <3>2
  <2>3. \A r \in Requests : pc'[r] \in {"save", "fill"} => r \in history.outdated
    BY <1>1, <1>5 DEF Copied
  <2> QED
    BY <1>3, <2>1, <2>2, <2>3 DEF CopiesKnow
<1>8. LastPassIsCandidate'
  BY <1>1, <1>3, <1>4 DEF LastPassIsCandidate, Evaluating
<1> QED
  BY <1>3, <1>4, <1>6, <1>7, <1>8 DEF HistoryFits

\* Initially there is nothing to know.
LEMMA InitRemembers == Init => HistoryFits
<1> SUFFICES ASSUME Init PROVE HistoryFits
  OBVIOUS
<1>1. /\ history.lastPass = Nil /\ history.promotions = <<>> /\ history.rollbacks = 0
      /\ history.rolledBack = Never /\ history.disturbed = FALSE /\ history.outdated = {}
      /\ \A a \in Actors : pc[a] = "idle"
      /\ shadow = Nil
      /\ file = Defaults /\ "cycle" \in Actors /\ Requests \subseteq Actors
  BY DEF Init, Actors
<1>2. history \in Histories
  BY DEF Init, Histories
<1>3. Len(history.promotions) = 0
  BY <1>1
<1>4. Knows(history, Defaults)
  <2>1. KnowsPromotions(history, Defaults)
    BY <1>3 DEF KnowsPromotions, Defaults
  <2>2. KnowsRollbacks(history, Defaults)
    BY <1>1, EvolutionAssumption DEF KnowsRollbacks, Defaults
  <2>3. KnowsLastPass(history, Defaults)
    BY DEF KnowsLastPass, Defaults
  <2> QED
    BY <2>1, <2>2, <2>3 DEF Knows
<1>5. OneFills /\ CopiesKnow /\ LastPassIsCandidate
  BY <1>1, <1>4 DEF OneFills, CopiesKnow, LastPassIsCandidate, Evaluating
<1>6. Rationed(history.promotions)
  <2>1. 0 <= MaxPromotions /\ 2..0 = {}
    BY EvolutionAssumption
  <2> QED
    BY <1>3, <2>1 DEF Rationed
<1> QED
  BY <1>2, <1>5, <1>6 DEF HistoryFits

\* EvolutionInv is inductive.
LEMMA NextRemembers == EvolutionInv /\ [Next]_vars => HistoryFits'
<1> SUFFICES ASSUME EvolutionInv, [Next]_vars PROVE HistoryFits'
  OBVIOUS
<1>1. CASE Tick \/ Widen \/ LoadStore \/ GiveUp
  BY <1>1, TickRemembers, WidenRemembers, RunnerRemembers DEF EvolutionInv
<1>2. CASE StartCycle \/ SkipCycle \/ SetShadow \/ RollBackCycle \/ FailCycle \/ ErrorCycle
  BY <1>2, StartCycleRemembers, SkipCycleRemembers, SetShadowRemembers, RollBackRemembers,
     FailRemembers, ErrorRemembers
<1>3. CASE CreditCycle \/ PromoteCycle
  BY <1>3, CreditRemembers, PromoteRemembers
<1>4. ASSUME NEW r \in Requests,
             \/ \E op \in Ops : Request(r, op)
             \/ RejectRequest(r) \/ RecordRejection(r)
             \/ RevertRequest(r) \/ CountRollback(r)
      PROVE  HistoryFits'
  BY <1>4, RequestRemembers, RejectRemembers, RecordRejectionRemembers, RevertRemembers,
     CountRollbackRemembers
<1>5. ASSUME NEW a \in Actors, SaveTruncate(a) \/ SaveFill(a)
      PROVE  HistoryFits'
  BY <1>5, TruncateRemembers, FillRemembers
<1>6. CASE SaveError \/ \E a \in Actors : Crash(a)
  <2>1. history' = Nil
    BY <1>6 DEF SaveError, Crash
  <2> QED
    BY <2>1 DEF HistoryFits
<1>7. CASE UNCHANGED vars
  BY <1>7, StutterRemembers DEF EvolutionInv
<1> QED
  BY <1>1, <1>2, <1>3, <1>4, <1>5, <1>6, <1>7 DEF Next

\* As long as no update of the state file is lost to a race or a crash, whoever
\* holds a current copy of it knows of every promotion, of the rollbacks of cycles
\* and of the last pass (run_cycle, the /api/evolution endpoints).
THEOREM EvolutionInvariant == Spec => []EvolutionInv
<1>1. Init => EvolutionInv
  BY InitFits, InitRemembers DEF EvolutionInv
<1>2. EvolutionInv /\ [Next]_vars => EvolutionInv'
  BY NextFits, NextRemembers DEF EvolutionInv
<1> QED
  BY <1>1, <1>2, PTL DEF Spec

\* Promotions keep their cooldown and their quota, through rollbacks of both kinds
\* (_can_promote, _PROMOTION_COOLDOWN_DAYS, _MAX_PROMOTIONS_PER_30D).
THEOREM RationHolds == Spec => []PromotionsRationed
<1>1. EvolutionInv => PromotionsRationed
  <2> SUFFICES ASSUME EvolutionInv, history # Nil PROVE PromotionsRationed
    BY DEF PromotionsRationed
  <2> DEFINE at == history.promotions
             n == Len(at)
  <2>1. Rationed(at) /\ history \in Histories
    BY DEF EvolutionInv, HistoryFits
  <2>2. n \in Nat /\ MaxPromotions \in Nat
    BY <2>1, EvolutionAssumption DEF Histories
  <2>3. n <= MaxPromotions /\ \A i \in 2..n : at[i] - at[i-1] >= PromotionCooldown
    BY <2>1 DEF Rationed
  <2> HIDE DEF n
  <2>4. \A i \in 2..n : ~(i > MaxPromotions)
    BY <2>2, <2>3
  <2> QED
    BY <2>3, <2>4 DEF PromotionsRationed, n
<1> QED
  BY <1>1, EvolutionInvariant, PTL

\* What a cycle that promotes has loaded, and what its gates have seen.
LEMMA PromoteKnows ==
  ASSUME EvolutionInv, PromoteCycle, history # Nil,
         NEW s, s = state["cycle"], NEW v, v = Version(base.shadow),
         NEW q, q = RecordPassed(s, v)
  PROVE  /\ s \in State /\ BankAddsUp(s) /\ Knows(history, s) /\ history \in Histories
         /\ s.consecutive_passes < MaxCount /\ v \in Slots /\ now \in Time
         /\ WindowsPassed(q, v) /\ BreakerClosed(q)
         /\ LastPassIsCandidate /\ pc["cycle"] = "shadowed"
         /\ active \in Policies /\ maxDelta \in {Narrow, Wide}
<1>1. Passes /\ Completes /\ CanPromote(q, v)
  BY DEF PromoteCycle, Passes
<1>2. StateFits
  BY DEF EvolutionInv
<1>3. /\ s \in State /\ BankAddsUp(s) /\ Knows(history, s) /\ history \in Histories
      /\ LastPassIsCandidate /\ now \in Time
      /\ active \in Policies /\ maxDelta \in {Narrow, Wide}
  BY <1>1, <1>2, RunMeans, FitsMeans DEF PolicyTypes
<1>4. v \in Slots /\ s.consecutive_passes < MaxCount /\ pc["cycle"] = "shadowed"
  BY <1>1, <1>2, PassesMeans DEF Passes
<1> QED
  BY <1>1, <1>3, <1>4 DEF CanPromote

\* The breaker holds through manual rollbacks, which count but start no cooldown
\* (_can_promote, EVOLUTION_COOLDOWN_HOURS).
THEOREM BreakerAlwaysHolds == Spec => BreakerHolds
<1>1. ASSUME EvolutionInv, PromoteCycle, history # Nil, history.rollbacks >= MaxRollbacks
      PROVE  now - history.rolledBack >= BreakerCooldown
  <2> DEFINE s == state["cycle"]
             v == Version(base.shadow)
             q == RecordPassed(s, v)
  <2>1. /\ s \in State /\ BankAddsUp(s) /\ Knows(history, s) /\ history \in Histories
        /\ s.consecutive_passes < MaxCount /\ v \in Slots /\ now \in Time
        /\ BreakerClosed(q)
    BY <1>1, PromoteKnows
  <2> HIDE DEF s, v
  <2>2. /\ q.consecutive_rollbacks = s.consecutive_rollbacks
        /\ q.cooldown_start_at = s.cooldown_start_at
    BY <2>1, PassRecorded
  <2> HIDE DEF q
  <2>3. /\ history.rollbacks <= s.consecutive_rollbacks
        /\ s.cooldown_start_at = history.rolledBack
    BY <1>1, <2>1 DEF Knows, KnowsRollbacks
  <2>4. /\ history.rollbacks \in Nat /\ s.consecutive_rollbacks \in Nat /\ MaxRollbacks \in Nat
    BY <2>1, StateShape, EvolutionAssumption DEF Histories
  <2>5. ~(s.consecutive_rollbacks < MaxRollbacks)
    BY <1>1, <2>3, <2>4
  <2> QED
    BY <2>1, <2>2, <2>3, <2>5 DEF BreakerClosed
<1>2. EvolutionInv =>
          (PromoteCycle /\ history # Nil /\ history.rollbacks >= MaxRollbacks =>
              now - history.rolledBack >= BreakerCooldown)
  BY <1>1
<1> QED
  BY <1>2, EvolutionInvariant, PTL DEF BreakerHolds

\* What is promoted has the version of the candidate that the cycle before passed, a
\* WindowGap earlier; and it is the same policy unless an operator has rolled back, the
\* range was widened or a cycle worked on outdated policies since (_can_promote,
\* _two_consecutive_pass_windows, _record_cycle_result; evolution.py:1284-1296, 1320).
THEOREM PromotionsAreEarned == Spec => PromotionEarned
<1>1. ASSUME EvolutionInv, PromoteCycle, history # Nil
      PROVE  /\ history.lastPass # Nil
             /\ Version(history.lastPass.policy) = Version(base.shadow)
             /\ now - history.lastPass.at >= WindowGap
             /\ ~history.disturbed => history.lastPass.policy = base.shadow
  <2> DEFINE s == state["cycle"]
             v == Version(base.shadow)
             q == RecordPassed(s, v)
             p == history.lastPass
  <2>1. /\ s \in State /\ BankAddsUp(s) /\ Knows(history, s) /\ s.consecutive_passes < MaxCount
        /\ v \in Slots /\ now \in Time /\ WindowsPassed(q, v) /\ LastPassIsCandidate
        /\ pc["cycle"] = "shadowed" /\ active \in Policies /\ maxDelta \in {Narrow, Wide}
    BY <1>1, PromoteKnows
  <2> HIDE DEF s
  <2>2. /\ q.pass_windows[Len(q.pass_windows)].cycle = now
        /\ q.consecutive_passes >= 2 =>
               /\ s.consecutive_passes >= 1 /\ s.pass_candidate_version = v
               /\ q.pass_windows[1] = s.pass_windows[Len(s.pass_windows)]
    BY <2>1, PassRecorded
  <2> HIDE DEF q
  <2>3. /\ q.consecutive_passes >= 2 /\ Len(q.pass_windows) = 2
        /\ q.pass_windows[2].cycle - q.pass_windows[1].cycle >= WindowGap
    BY <2>1 DEF WindowsPassed, TwoConsecutivePassWindows
  <2>4. /\ p # Nil /\ Version(p.policy) = v
        /\ s.pass_windows[Len(s.pass_windows)].cycle = p.at
    BY <2>1, <2>2, <2>3 DEF Knows, KnowsLastPass
  <2>5. ASSUME ~history.disturbed PROVE p.policy = base.shadow
    <3>1. p.policy \in Generated(active, maxDelta) /\ base.shadow \in Generated(active, maxDelta)
      BY <2>1, <2>4, <2>5 DEF LastPassIsCandidate
    <3> QED
      BY <2>1, <2>4, <3>1, VersionIdentifies
  <2>6. now - p.at >= WindowGap
    BY <2>2, <2>3, <2>4
  <2> QED
    BY <2>4, <2>5, <2>6
<1>2. EvolutionInv =>
          (PromoteCycle /\ history # Nil =>
              /\ history.lastPass # Nil
              /\ Version(history.lastPass.policy) = Version(base.shadow)
              /\ now - history.lastPass.at >= WindowGap
              /\ ~history.disturbed => history.lastPass.policy = base.shadow)
  BY <1>1
<1> QED
  BY <1>2, EvolutionInvariant, PTL DEF PromotionEarned

-----------------------------------------------------------------------------
(* EvolutionCycle implements PolicyLifecycle.                              *)

\* The candidate c was derived from a policy that was in force.
FromReleased(c) == \E p \in released : c \in Generated(p, Narrow) \cup Generated(p, Wide)

\* What a runner, a cycle or the files hold: policies to derive from or to go back to,
\* and a candidate.
Legal(loaded) ==
    /\ loaded.active \in released /\ loaded.previous \in released \cup {Nil}
    /\ loaded.shadow # Nil => FromReleased(loaded.shadow)

\* Every policy that is held anywhere was in force, or was derived from one that was.
PoliciesReleased ==
    /\ Baseline \in released /\ retired \subseteq released
    /\ Legal(OnDisk) /\ Legal(base)
    /\ store # Nil => Legal(store)
    /\ pc["cycle"] = "shadowed" => FromReleased(base.shadow)

\* Going back to a policy that was in force.
LEMMA GoesBack ==
  ASSUME NEW p \in Policies, p \in released, PutInForce(p)
  PROVE  Lifecycle!Next /\ released' = released
<1>1. active' = p /\ released' = released
  BY DEF PutInForce
<1>2. Lifecycle!GoBack(p)
  BY <1>1 DEF Lifecycle!GoBack
<1> QED
  BY <1>1, <1>2 DEF Lifecycle!Next

\* Between cycles, and where there is no previous policy and no candidate.
LEMMA NothingHeld ==
  ASSUME NEW p \in released, Baseline \in released
  PROVE  Legal([active |-> p, previous |-> Nil, shadow |-> Nil]) /\ Legal(Unloaded)
BY DEF Legal, Unloaded

\* A rollback, of a cycle or by hand, goes back to a policy that was in force.
LEMMA RollbackGoesBack ==
  ASSUME StateFits, PoliciesReleased, RollBackCycle \/ \E r \in Requests : RevertRequest(r)
  PROVE  Lifecycle!Next /\ PoliciesReleased'
<1>1. PICK p \in released : PutInForce(p)
  BY DEF RollBackCycle, RevertRequest, RevertTarget, PoliciesReleased, Legal
<1>2. p \in Policies
  BY FitsMeans DEF PolicyTypes
<1>3. Lifecycle!Next /\ released' = released /\ active' = p
  BY <1>1, <1>2, GoesBack DEF PutInForce
<1>4. /\ previous' = Nil /\ shadow' = Nil /\ base' \in {base, Unloaded}
      /\ UNCHANGED <<store, retired>>
  BY DEF RollBackCycle, RevertRequest, Completes, waitVars
<1>5. pc'["cycle"] = "shadowed" => pc["cycle"] = "shadowed" /\ base' = base
  <2>1. CASE RollBackCycle
    BY <2>1, FinishMoves, FitsMeans DEF RollBackCycle, Finish
  <2>2. CASE \E r \in Requests : RevertRequest(r)
    BY <2>2, FitsMeans DEF RevertRequest
  <2> QED
    BY <2>1, <2>2
<1> QED
  BY <1>3, <1>4, <1>5 DEF PoliciesReleased, Legal, FromReleased, Unloaded, OnDisk

\* A promotion releases a candidate derived from a policy that was in force.
LEMMA PromotionReleases ==
  ASSUME StateFits, PoliciesReleased, PromoteCycle
  PROVE  Lifecycle!Next /\ PoliciesReleased'
<1> DEFINE c == base.shadow
<1>1. /\ PutInForce(c) /\ Passes /\ previous' = base.active /\ shadow' = Nil
      /\ retired' = retired \cup {base.active} /\ base' = Unloaded /\ store' = store
  BY DEF PromoteCycle, Passes, Completes, waitVars
<1>2. /\ base.active \in Policies /\ base.active \in released /\ c \in Policies
      /\ FromReleased(c) /\ released \subseteq Policies
  BY <1>1, PassesMeans, FitsMeans DEF PolicyTypes, PoliciesReleased, Legal, Passes
<1> HIDE DEF c
<1>3. active' = c /\ released' = released \cup {c}
  BY <1>1 DEF PutInForce
<1>4. Lifecycle!Release(c)
  BY <1>2, <1>3 DEF Lifecycle!Release, FromReleased
<1>5. pc'["cycle"] = "save"
  BY FitsMeans DEF PromoteCycle, Finish
<1>6. PoliciesReleased'
  BY <1>1, <1>2, <1>3, <1>5 DEF PoliciesReleased, Legal, FromReleased, Unloaded, OnDisk
<1> QED
  BY <1>2, <1>4, <1>6 DEF Lifecycle!Next

\* Every other step leaves the policies alone; what a runner or a cycle holds then, and
\* the candidate in shadow, come from what was held before.
LEMMA PoliciesUntouched ==
  ASSUME PoliciesReleased, UNCHANGED policyVars,
         shadow' # Nil => FromReleased(shadow'),
         store' # Nil => store' = store \/ Legal(store'),
         base' = base \/ Legal(base'),
         pc'["cycle"] = "shadowed" => FromReleased(base'.shadow)
  PROVE  UNCHANGED Lifecycle!lifecycleVars /\ PoliciesReleased'
<1>1. UNCHANGED <<active, previous, released, retired>>
  BY DEF policyVars
<1> QED
  BY <1>1 DEF PoliciesReleased, Legal, FromReleased, OnDisk, Lifecycle!lifecycleVars

\* What a runner loads, and what a cycle takes over from it.
LEMMA RunnerLoads ==
  ASSUME StateFits, PoliciesReleased, LoadStore \/ StartCycle
  PROVE  UNCHANGED Lifecycle!lifecycleVars /\ PoliciesReleased'
<1>1. CASE LoadStore
  <2>1. /\ shadow' \in {shadow, Nil} /\ UNCHANGED <<policyVars, pc, base>>
        /\ store' = [active |-> active, previous |-> previous, shadow |-> shadow']
    BY <1>1 DEF LoadStore
  <2>2. Legal(OnDisk) /\ OnDisk.shadow = shadow
    BY DEF PoliciesReleased, OnDisk
  <2>3. Legal(store')
    BY <2>1, <2>2 DEF Legal, OnDisk
  <2> QED
    BY <2>1, <2>2, <2>3, PoliciesUntouched DEF Legal, PoliciesReleased
<1>2. CASE StartCycle
  <2>1. /\ UNCHANGED <<policyVars, shadow>> /\ store # Nil /\ store' = Nil
        /\ base' = [active |-> store.active, previous |-> store.previous,
                    shadow |-> store.shadow, delta |-> maxDelta]
        /\ pc'["cycle"] = "run"
    BY <1>2, FitsMeans DEF StartCycle, fileVars
  <2>2. Legal(store) /\ Legal(OnDisk)
    BY <2>1 DEF PoliciesReleased
  <2>3. Legal(base')
    BY <2>1, <2>2 DEF Legal
  <2> QED
    BY <2>1, <2>2, <2>3, PoliciesUntouched DEF Legal, OnDisk
<1> QED
  BY <1>1, <1>2

\* A cycle writes its candidate to candidate.json, for the first time or again.
LEMMA CandidateWritten ==
  ASSUME StateFits, PoliciesReleased, SetShadow \/ CreditCycle
  PROVE  UNCHANGED Lifecycle!lifecycleVars /\ PoliciesReleased'
<1>1. Legal(base) /\ base \in Bases /\ Baseline \in released
  BY FitsMeans DEF PoliciesReleased, PolicyTypes
<1>2. CASE SetShadow
  <2>1. PICK c \in Candidates(base) : shadow' = c /\ base' = [base EXCEPT !.shadow = c]
    BY <1>2 DEF SetShadow
  <2>2. UNCHANGED <<policyVars, store>>
    BY <1>2 DEF SetShadow, waitVars
  <2>3. FromReleased(c)
    BY <1>1, <2>1, CandidatesAre DEF Legal, FromReleased, Bases
  <2>4. /\ base'.active = base.active /\ base'.previous = base.previous
        /\ base'.shadow = c
    BY <1>1, <2>1 DEF Bases
  <2>5. Legal(base')
    BY <1>1, <2>3, <2>4 DEF Legal
  <2> QED
    BY <2>1, <2>2, <2>3, <2>4, <2>5, PoliciesUntouched
<1>3. CASE CreditCycle
  <2>1. /\ shadow' = base.shadow /\ pc["cycle"] = "shadowed" /\ pc'["cycle"] = "save"
        /\ base' = Unloaded /\ UNCHANGED <<policyVars, store>>
    BY <1>3, FitsMeans DEF CreditCycle, Passes, Completes, Finish, waitVars
  <2>2. FromReleased(base.shadow)
    BY <2>1 DEF PoliciesReleased
  <2> QED
    BY <1>1, <2>1, <2>2, NothingHeld, PoliciesUntouched
<1> QED
  BY <1>2, <1>3

\* Every step of a cycle or a request is a step of the lifecycle, or leaves the
\* policy in force.
LEMMA LifecycleStep ==
  StateFits /\ PoliciesReleased /\ [Next]_vars =>
      [Lifecycle!Next]_(Lifecycle!lifecycleVars) /\ PoliciesReleased'
<1> SUFFICES ASSUME StateFits, PoliciesReleased, [Next]_vars
             PROVE  /\ Lifecycle!Next \/ UNCHANGED Lifecycle!lifecycleVars
                    /\ PoliciesReleased'
  OBVIOUS
<1> DEFINE Untouched == /\ UNCHANGED policyVars /\ shadow' \in {shadow, Nil}
                        /\ store' \in {store, Nil} /\ base' \in {base, Unloaded}
                        /\ pc'["cycle"] = "shadowed" => pc["cycle"] = "shadowed" /\ base' = base
<1>1. ASSUME Untouched
      PROVE  UNCHANGED Lifecycle!lifecycleVars /\ PoliciesReleased'
  <2>1. Legal(OnDisk) /\ Baseline \in released /\ active \in released
    BY DEF PoliciesReleased, Legal, OnDisk
  <2>2. /\ shadow # Nil => FromReleased(shadow)
        /\ pc["cycle"] = "shadowed" => FromReleased(base.shadow)
    BY DEF PoliciesReleased, Legal, OnDisk
  <2> QED
    BY <1>1, <2>1, <2>2, NothingHeld, PoliciesUntouched
<1>2. CASE LoadStore \/ StartCycle
  BY <1>2, RunnerLoads
<1>3. CASE SetShadow \/ CreditCycle
  BY <1>3, CandidateWritten
<1>4. CASE RollBackCycle \/ \E r \in Requests : RevertRequest(r)
  BY <1>4, RollbackGoesBack
<1>5. CASE PromoteCycle
  BY <1>5, PromotionReleases
<1>6. CASE Tick \/ Widen \/ GiveUp \/ UNCHANGED vars
  <2>1. Untouched
    BY <1>6 DEF Tick, Widen, GiveUp, vars, fileVars, waitVars
  <2> QED
    BY <1>1, <2>1
<1>7. CASE SkipCycle \/ FailCycle \/ ErrorCycle \/ SaveError
  <2>1. Untouched
    BY <1>7, FitsMeans DEF SkipCycle, FailCycle, ErrorCycle, SaveError, Completes, Finish, Stop,
       fileVars, waitVars
  <2> QED
    BY <1>1, <2>1
<1>8. ASSUME NEW r \in Requests,
             \/ \E op \in Ops : Request(r, op)
             \/ RejectRequest(r) \/ RecordRejection(r) \/ CountRollback(r)
      PROVE  UNCHANGED Lifecycle!lifecycleVars /\ PoliciesReleased'
  <2>1. Untouched
    BY <1>8, FitsMeans DEF Request, RejectRequest, RecordRejection, CountRollback, Finish,
       fileVars, waitVars
  <2> QED
    BY <1>1, <2>1
<1>9. ASSUME NEW a \in Actors, SaveTruncate(a) \/ SaveFill(a) \/ Crash(a)
      PROVE  UNCHANGED Lifecycle!lifecycleVars /\ PoliciesReleased'
  <2>1. Untouched
    BY <1>9, FitsMeans DEF SaveTruncate, SaveFill, Crash, Stop, fileVars, waitVars
  <2> QED
    BY <1>1, <2>1
<1> QED
  BY <1>2, <1>3, <1>4, <1>5, <1>6, <1>7, <1>8, <1>9 DEF Next

\* The cycles and the endpoints implement the lifecycle of the policy, on
\* outdated copies, through crashes and failed saves, and whatever a request does
\* while a cycle runs: the policy in force changes only to a candidate derived
\* from a policy that was in force, or back to one that was
\* (evolution.py:1284-1717; policy_store.py:743-836).
THEOREM CyclesImplementLifecycle == Spec => LifecycleSpec
<1>1. Init => StateFits /\ PoliciesReleased /\ Lifecycle!Init
  <2> SUFFICES ASSUME Init PROVE StateFits /\ PoliciesReleased /\ Lifecycle!Init
    OBVIOUS
  <2>1. /\ active = Baseline /\ previous = Nil /\ shadow = Nil /\ released = {Baseline}
        /\ retired = {} /\ store = Nil /\ base = Unloaded
        /\ pc["cycle"] = "idle"
    BY DEF Init, Actors
  <2>2. Legal(OnDisk) /\ Legal(base)
    BY <2>1, NothingHeld DEF OnDisk
  <2> QED
    BY <2>1, <2>2, InitFits DEF PoliciesReleased, Lifecycle!Init
<1>2. StateFits /\ PoliciesReleased /\ [Next]_vars =>
          [Lifecycle!Next]_(Lifecycle!lifecycleVars) /\ (StateFits /\ PoliciesReleased)'
  BY LifecycleStep, NextFits
<1> QED
  BY <1>1, <1>2, PTL DEF Spec, LifecycleSpec, Lifecycle!Spec
=============================================================================
