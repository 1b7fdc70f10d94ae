-------------------------- MODULE MCMemoryServices --------------------------
(***************************************************************************)
(* The services around the policy for TLC, in one run.  These components   *)
(* share no state with one another: what one reads of another (the state   *)
(* of Qdrant, an exit code, the text of a file) is an input of its module. *)
(* So a behavior moves one of them, the focus, and the others stay where   *)
(* they began; interleaving them would only multiply the states.           *)
(***************************************************************************)
EXTENDS LexicalIndex, MCRetrieval, MemoryJobs, Governance, MemoryBrain, Sessions,
        FeedbackStore, AtomicWrite, MCWritePipeline

VARIABLE focus

allVars == <<focus, lexVars, recallVars, jobVars, govVars, brainVars, webVars,
             feedbackVars, atomicVars, pipelineVars>>

Components == {"index", "serving", "evaluation", "jobs", "governance", "brain",
               "sessions", "feedback", "file", "vectors"}

\* LexicalIndex: every document has a token.
MCDocuments == {[text |-> {"a"}, extra |-> {}], [text |-> {"a"}, extra |-> {"b"}],
                [text |-> {"b"}, extra |-> {"a"}]}

\* MemoryJobs: one topic; 1 and 3 are undated, and the longer id of 3 sorts before
\* that of 1 as a string; 3 is protected, once it has its tier; 2 comes later.
MCMemories == 1..3
MCTextRank == <<2, 3, 1>>
MCTierOf == <<"working", "working", "core">>
MCTopicOf == <<"t", "t", "t">>
MCDateOf == <<0, 1, 0>>
MCAlike == {<<1, 3>>, <<2, 3>>}
MCNearAlike == {<<1, 2>>}

\* MemoryBrain: a file of two sections, one of which shares a text with another.
MCTextOf == [f \in {"f", "g"} |-> IF f = "f" THEN <<{"a", "b"}, {"b", "c"}>> ELSE <<{"b"}>>]

MCInit ==
    /\ focus \in Components
    /\ LexInit /\ RecallInit /\ JobsInit /\ GovInit /\ BrainInit /\ WebInit /\ FeedbackInit
    /\ AtomicInit /\ PipelineInit
    /\ focus # "sessions" => sessionDb = [version |-> 0, rows |-> <<>>]
    /\ focus # "brain" => storing
    /\ focus # "feedback" => store.version = 0 /\ auditLog = {}
    /\ focus # "file" => contents[1] = "old"
    /\ focus # "vectors" => source = Points

MCNext ==
    /\ UNCHANGED focus
    /\ \/ focus = "index" /\ LexNext
       \/ focus = "serving" /\ (Changed \/ ServingNext)
       \/ focus = "evaluation" /\ (Changed \/ EvaluationNext)
       \/ focus = "jobs" /\ JobsNext
       \/ focus = "governance" /\ GovNext
       \/ focus = "brain" /\ BrainNext
       \/ focus = "sessions" /\ WebNext
       \/ focus = "feedback" /\ FeedbackNext
       \/ focus = "file" /\ AtomicNext
       \/ focus = "vectors" /\ PipelineNext
    /\ focus # "index" => UNCHANGED lexVars
    /\ focus \notin {"serving", "evaluation"} => UNCHANGED recallVars
    /\ focus # "jobs" => UNCHANGED jobVars
    /\ focus # "governance" => UNCHANGED govVars
    /\ focus # "brain" => UNCHANGED brainVars
    /\ focus # "sessions" => UNCHANGED webVars
    /\ focus # "feedback" => UNCHANGED feedbackVars
    /\ focus # "file" => UNCHANGED atomicVars
    /\ focus # "vectors" => UNCHANGED pipelineVars

MCSpec == MCInit /\ [][MCNext]_allVars

\* What tells states apart (VIEW): the variables of the focus, as no others change.
FocusView ==
    CASE focus = "index" -> <<focus, lexVars>>
      [] focus \in {"serving", "evaluation"} -> <<focus, recallVars>>
      [] focus = "jobs" -> <<focus, jobVars>>
      [] focus = "governance" -> <<focus, govVars>>
      [] focus = "brain" -> <<focus, brainVars>>
      [] focus = "sessions" -> <<focus, webVars>>
      [] focus = "feedback" -> <<focus, feedbackVars>>
      [] focus = "file" -> <<focus, atomicVars>>
      [] focus = "vectors" -> <<focus, pipelineVars>>

\* The types of the variables of the focus.
ServicesTypeOK ==
    /\ focus = "index" => LexTypeOK
    /\ focus \in {"serving", "evaluation"} => RecallTypeOK
    /\ focus = "jobs" => JobsTypeOK
    /\ focus = "governance" => GovTypeOK
    /\ focus = "brain" => BrainTypeOK
    /\ focus = "sessions" => SessionsTypeOK
    /\ focus = "feedback" => FeedbackTypeOK
    /\ focus = "file" => AtomicTypeOK
    /\ focus = "vectors" => PipelineTypeOK
=============================================================================
