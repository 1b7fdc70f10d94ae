---------------------------- MODULE MCMemoryJobs ----------------------------
(***************************************************************************)
(* The lifecycle jobs for TLC on two alike memories of one topic without a *)
(* date, as the memory brain stores them: integer ids, of which the longer *)
(* one comes later in a scroll and sooner as a string.                     *)
(***************************************************************************)
EXTENDS MemoryJobs

MCMemories == 1..2
MCTextRank == <<2, 1>>
MCTierOf == <<"working", "working">>
MCTopicOf == <<"t", "t">>
MCDateOf == <<0, 0>>
MCAlike == {<<1, 2>>}
=============================================================================
