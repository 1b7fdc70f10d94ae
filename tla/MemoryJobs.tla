----------------------------- MODULE MemoryJobs -----------------------------
(***************************************************************************)
(* The jobs that change the lifecycle fields of memories in one Qdrant     *)
(* collection: tier_classifier.py, supersede_detect.py and expire_cron.py, *)
(* one after the other in the pipeline of maintenance.sh, and the          *)
(* reclassification that the dashboard starts without the pipeline's lock. *)
(*                                                                         *)
(* A job scrolls the collection, plans updates, and applies each with a    *)
(* GET of the point and a PUT of the whole point (_qdrant_helpers.py).     *)
(* Texts are what the jobs conclude from them: constants.                  *)
(***************************************************************************)
EXTENDS Integers, FiniteSets, Sequences

CONSTANTS
    Memories,       \* numbers, in the order of a scroll
    TextRank,       \* the order of their ids as strings
    TierOf,         \* classify_tier of the text
    TopicOf,        \* _topic_signature of the text, "none" if there is none
    DateOf,         \* the day in the source, 0 if there is none
    Alike,          \* pairs <<a, b>>, a < b, that are to be merged
    NearAlike,      \* pairs that only deserve a tag
    Expirable,      \* old and unimportant, not marked never_delete
    Drifting,       \* memories whose other fields may differ from what the text says
    Summaries,      \* memories a consolidation writes, under an id that stays the same
    Gap,            \* --recency-gap-days
    MaxApply,       \* SUPERSEDE_MAX_APPLY
    InitialMemories,
    MaxJobRuns,     \* bound: starts of a worker
    MaxJobFaults    \* bound: failed requests and crashes

\* Without a gap two memories of one day may supersede each other, as two undated
\* ones may (see Ambiguous): maintenance.sh has a gap of 7.
ASSUME JobsAssumption ==
    /\ Memories \subseteq Nat \ {0} /\ IsFiniteSet(Memories)
    /\ DateOf \in [Memories -> Nat] /\ Gap \in Nat \ {0}
    /\ Alike \subseteq {pair \in Memories \X Memories : pair[1] < pair[2]}

VARIABLES
    mem,        \* the payload of every memory
    worker,     \* per worker: its job and where it is
    late,       \* history: memories that came while the pipeline was running, and
                \* summaries that were written anew
    jobRuns, jobFaults

jobVars == <<mem, worker, late, jobRuns, jobFaults>>

Workers == {"pipeline", "dashboard"}
Absent == [status |-> "absent", by |-> 0, tier |-> "", reason |-> ""]
New == [status |-> "active", by |-> 0, tier |-> "", reason |-> ""]
NoTier == [x \in {} |-> 0]
\* plan: batches of updates that are left.  id, set: the update that is being
\* applied, and got the payload its GET returned.
Resting == [job |-> "none", pc |-> "idle", auto |-> FALSE, topic |-> FALSE, plan |-> <<>>,
            id |-> 0, set |-> NoTier, got |-> Absent]

JobFault == jobFaults < MaxJobFaults /\ jobFaults' = jobFaults + 1
Present == {p \in Memories : mem[p].status # "absent"}

-----------------------------------------------------------------------------
(* What the jobs plan: a sequence of batches of updates.  In a batch the   *)
(* order is that of the scroll or of a set; any order here.                *)

\* build_updates: the tier where it differs, and no tier in an update for the sake of
\* other fields (importance, type, topic, owner_confirmed).
ClassifyPlans ==
    LET differing == {p \in Present : mem[p].tier # TierOf[p]} IN
    {<<{[id |-> p, set |-> [tier |-> TierOf[p]]] : p \in differing}
       \cup {[id |-> p, set |-> NoTier] : p \in others}>> :
          others \in SUBSET ((Present \ differing) \cap Drifting)}

Protected(p) == mem[p].tier \in {"core", "long"}
NotSuperseded == {p \in Present : mem[p].status # "superseded"}

\* detect_supersedes: within a topic, from every memory to the newest one.
TopicLinks ==
    LET Items == {p \in NotSuperseded : TopicOf[p] # "none" /\ ~Protected(p)}
        Newer(p, q) == \/ DateOf[p] > DateOf[q]
                       \/ DateOf[p] = DateOf[q] /\ TextRank[p] > TextRank[q]
        Newest(p) == \A q \in Items \ {p} : TopicOf[q] = TopicOf[p] => Newer(p, q)
        Close(p, q) == DateOf[p] # 0 /\ DateOf[q] # 0 /\ DateOf[p] - DateOf[q] < Gap
    IN  {link \in Items \X Items :
            /\ link[1] # link[2] /\ TopicOf[link[1]] = TopicOf[link[2]]
            /\ Newest(link[2]) /\ ~Close(link[2], link[1])}

\* Mutant of Link: whichever comes later in the scroll counts as the newer one.
LinkByScroll(pair) == pair

\* From the older to the newer one; of one age, to the later in the scroll.
Link(pair) == IF DateOf[pair[1]] > DateOf[pair[2]] THEN <<pair[2], pair[1]>> ELSE pair

\* Mutant of Mergeable: only the first of the pair is looked at.
MergeableFirst(pair) == ~Protected(pair[1])

Mergeable(pair) == ~Protected(pair[1]) /\ ~Protected(pair[2])

\* detect_content_supersedes: links and memories to tag.
Pairs(S) == {pair \in S : pair[1] \in NotSuperseded /\ pair[2] \in NotSuperseded}
ContentLinks == {Link(pair) : pair \in {q \in Pairs(Alike) : Mergeable(q)}}
NearDuplicates ==
    UNION {{pair[1], pair[2]} : pair \in Pairs(NearAlike) \cup {q \in Pairs(Alike) : ~Mergeable(q)}}

\* main: of the links from one memory one stays, topic links first; links beyond
\* the cap are dropped.  Without auto-supersede content links become tags.
Olds(links) == {link[1] : link \in links}
Merges(topicLinks, contentLinks) ==
    {topicLinks \cup chosen : chosen \in
        {C \in SUBSET contentLinks :
            /\ Olds(C) = Olds(contentLinks) \ Olds(topicLinks)
            /\ Cardinality(C) = Cardinality(Olds(C))}}
Capped(links) ==
    {L \in SUBSET links : Cardinality(L) =
        IF Cardinality(links) < MaxApply THEN Cardinality(links) ELSE MaxApply}

SupersedePlans(auto, topic) ==
    LET tagged == NearDuplicates \cup
                  (IF auto THEN {} ELSE UNION {{l[1], l[2]} : l \in ContentLinks})
        merges == Merges(IF topic THEN TopicLinks ELSE {}, IF auto THEN ContentLinks ELSE {})
    IN  {<<{[id |-> l[1], set |-> [status |-> "superseded", by |-> l[2], reason |-> "similar"]] :
                l \in links},
           {[id |-> p, set |-> [reason |-> "near_duplicate"]] : p \in tagged}>> :
         links \in UNION {Capped(m) : m \in merges}}

\* expire_cron.main: superseded memories expire as well.
ExpirePlan ==
    <<{[id |-> p, set |-> [status |-> "expired", reason |-> "expired"]] :
        p \in {q \in Present : mem[q].status # "expired" /\ mem[q].tier = "working" /\ q \in Expirable}}>>

Plans(w) ==
    CASE worker[w].job = "classify"  -> ClassifyPlans
      [] worker[w].job = "supersede" -> SupersedePlans(worker[w].auto, worker[w].topic)
      [] worker[w].job = "expire"    -> {ExpirePlan}

-----------------------------------------------------------------------------
JobsInit ==
    /\ mem = [p \in Memories |-> IF p \in InitialMemories THEN New ELSE Absent]
    /\ worker = [w \in Workers |-> Resting]
    /\ late = {} /\ jobRuns = 0 /\ jobFaults = 0

\* The memory brain adds a memory, without a tier (ingest_text).
Arrive(p) ==
    /\ p \notin Present
    /\ mem' = [mem EXCEPT ![p] = New]
    /\ late' = IF worker["pipeline"].job = "none" THEN late ELSE late \cup {p}
    /\ UNCHANGED <<worker, jobRuns, jobFaults>>

\* A consolidation that did not save its state is repeated: the summary of the same
\* memories is written over with a payload that has no status and no tier.
Rewrite(p) ==
    /\ p \in Present \cap Summaries
    /\ mem' = [mem EXCEPT ![p] = New]
    /\ late' = late \cup {p}
    /\ UNCHANGED <<worker, jobRuns, jobFaults>>

\* The flags are environment variables of the run.
StartWorker(w, auto, topic) ==
    /\ worker[w].job = "none" /\ jobRuns < MaxJobRuns
    /\ w = "dashboard" => ~auto /\ ~topic
    /\ jobRuns' = jobRuns + 1
    /\ worker' = [worker EXCEPT ![w] = [Resting EXCEPT !.job = "classify", !.pc = "scroll",
                                          !.auto = auto, !.topic = topic]]
    /\ UNCHANGED <<mem, late, jobFaults>>

NextJob(w, job) ==
    CASE w = "dashboard" \/ job = "expire" -> "none"
      [] w = "pipeline" /\ job = "classify" -> "supersede"
      [] w = "pipeline" /\ job = "supersede" -> "expire"

\* mark_failure: the pipeline goes on with the next job.
Advance(w) ==
    LET job == NextJob(w, worker[w].job) IN
    worker' = [worker EXCEPT ![w] =
        IF job = "none" THEN Resting
        ELSE [worker[w] EXCEPT !.job = job, !.pc = "scroll", !.plan = <<>>]]

Scroll(w) ==
    /\ worker[w].pc = "scroll"
    /\ \/ /\ \E plan \in Plans(w) :
                worker' = [worker EXCEPT ![w].pc = "apply", ![w].plan = plan]
          /\ UNCHANGED jobFaults
       \/ JobFault /\ Advance(w)
    /\ UNCHANGED <<mem, late, jobRuns>>

\* The GET of an update; if it fails, or the memory is gone, it is skipped.
Get(w, u) ==
    /\ worker[w].pc = "apply" /\ worker[w].plan # <<>> /\ u \in Head(worker[w].plan)
    /\ LET rest == [worker[w].plan EXCEPT ![1] = @ \ {u}] IN
       \/ /\ worker' = [worker EXCEPT ![w] = [@ EXCEPT !.pc = "put", !.plan = rest,
                                        !.id = u.id, !.set = u.set, !.got = mem[u.id]]]
          /\ UNCHANGED jobFaults
       \/ JobFault /\ worker' = [worker EXCEPT ![w].plan = rest]
    /\ UNCHANGED <<mem, late, jobRuns>>

\* Mutant of MergedPayload: the point is written with the fields of the update only.
MergedFresh(payload, set) ==
    [f \in DOMAIN New |-> IF f \in DOMAIN set THEN set[f] ELSE New[f]]

MergedPayload(payload, set) ==
    [f \in DOMAIN payload |-> IF f \in DOMAIN set THEN set[f] ELSE payload[f]]

\* The PUT of the whole point; a failure is printed.
Put(w) ==
    /\ worker[w].pc = "put"
    /\ worker' = [worker EXCEPT ![w] = [@ EXCEPT !.pc = "apply", !.id = 0,
                                    !.set = NoTier, !.got = Absent]]
    /\ \/ /\ mem' = [mem EXCEPT ![worker[w].id] = MergedPayload(worker[w].got, worker[w].set)]
          /\ UNCHANGED jobFaults
       \/ JobFault /\ UNCHANGED mem
    /\ UNCHANGED <<late, jobRuns>>

NextBatch(w) ==
    /\ worker[w].pc = "apply" /\ worker[w].plan # <<>> /\ Head(worker[w].plan) = {}
    /\ worker' = [worker EXCEPT ![w].plan = Tail(@)]
    /\ UNCHANGED <<mem, late, jobRuns, jobFaults>>

EndJob(w) ==
    /\ worker[w].pc = "apply" /\ worker[w].plan = <<>>
    /\ Advance(w)
    /\ UNCHANGED <<mem, late, jobRuns, jobFaults>>

\* Also the timeout of the endpoint, which kills its job.
Killed(w) ==
    /\ worker[w].job # "none" /\ JobFault
    /\ worker' = [worker EXCEPT ![w] = Resting]
    /\ UNCHANGED <<mem, late, jobRuns>>

JobsNext ==
    \/ \E p \in Memories : Arrive(p) \/ Rewrite(p)
    \/ \E w \in Workers :
         \/ \E auto, topic \in BOOLEAN : StartWorker(w, auto, topic)
         \/ Scroll(w)
         \/ worker[w].plan # <<>> /\ \E u \in Head(worker[w].plan) : Get(w, u)
         \/ Put(w) \/ NextBatch(w) \/ EndJob(w) \/ Killed(w)

JobsSpec == JobsInit /\ [][JobsNext]_jobVars

-----------------------------------------------------------------------------
JobsTypeOK ==
    /\ mem \in [Memories -> [status : {"absent", "active", "superseded", "expired"},
                             by : Memories \cup {0}, tier : {""} \cup {TierOf[p] : p \in Memories},
                             reason : {"", "similar", "near_duplicate", "expired"}]]
    /\ \A w \in Workers :
         /\ worker[w].job \in {"none", "classify", "supersede", "expire"}
         /\ (worker[w].job = "none") = (worker[w].pc = "idle")
         /\ (worker[w].pc = "put") = (worker[w].id \in Memories)

\* Two undated memories of one topic have two orders: in the topic pass that of their
\* ids as strings, in the content pass that of the scroll.  Uuids sort alike either way;
\* the integers of memory_brain_ingest.py do not when they differ in length.
Ambiguous(p, q) ==
    /\ DateOf[p] = 0 /\ DateOf[q] = 0 /\ TopicOf[p] = TopicOf[q] /\ TopicOf[p] # "none"
    /\ TextRank[q] > TextRank[p] /\ q < p

\* Following superseded_by from a superseded memory ends at one that is not: a set of
\* superseded memories that refers only to itself has a link between two memories
\* that the two passes order differently, see NeverMutual.  Two passes make the links,
\* over many runs, and any of them may be lost, overwritten or made again
\* (supersede_detect.py).
ChainsEnd ==
    \A S \in SUBSET {p \in Memories : mem[p].status = "superseded"} :
        S # {} => \E p \in S : mem[p].by \notin S \/ Ambiguous(p, mem[p].by)

\* Links are (older_id, newer_id) pairs (docstring of detect_supersedes), "supersede
\* older -> newer" (docstring of detect_content_supersedes): no two memories
\* supersede each other.
NeverMutual ==
    \A p, q \in Memories :
        mem[p].status = "superseded" /\ mem[q].status = "superseded" =>
            ~(mem[p].by = q /\ mem[q].by = p)

\* As long as nothing fails, no memory whose text makes it core or long is ever
\* superseded or expired, unless it arrived while the pipeline was running or is a
\* summary that was written anew: the guard looks at a tier that an earlier job of
\* the same run writes, and a stale PUT of the other worker must not take it away.
ProtectedKept ==
    jobFaults = 0 =>
        \A p \in Memories \ late :
            TierOf[p] \in {"core", "long"} => mem[p].status \in {"absent", "active"}

\* Only a reclassification from the dashboard, with a payload that the pipeline
\* has overtaken since its GET, brings a superseded or expired memory back.  The
\* pipeline itself never does, through all jobs, plans and failures: every update
\* is merged into the payload just read (_qdrant_helpers.py, update_payloads).  A
\* summary comes back whenever its consolidation is repeated.
RevivalNeedsOverlap ==
    [][\A p \in Memories \ Summaries :
         mem[p].status \in {"superseded", "expired"} /\ mem'[p].status = "active" =>
            worker["dashboard"].id = p /\ worker["dashboard"].got # mem[p]]_jobVars
=============================================================================
