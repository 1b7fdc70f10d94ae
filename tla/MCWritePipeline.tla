--------------------------- MODULE MCWritePipeline ---------------------------
(***************************************************************************)
(* WritePipeline for TLC: two of three points, one per page, are chunks of *)
(* the memory files, each of its own, in another order than the scroll's.  *)
(***************************************************************************)
EXTENDS WritePipeline

MCSourcePoints == 1..3
MCChunks == <<3, 2>>
MCMemoryFiles == {{3}, {2}}
=============================================================================
