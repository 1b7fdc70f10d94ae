------------------------- MODULE MCIngestCollections -------------------------
(* IngestCollections for TLC: two chunks, in the order of their files. *)
EXTENDS IngestCollections

MCChunks == <<1, 2>>
MCMemoryFiles == {{1}, {2}}
=============================================================================
