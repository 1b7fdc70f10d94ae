----------------------------- MODULE MCRetrieval -----------------------------
(* Retrieval for TLC: two collections, one of the memories superseded. *)
EXTENDS Retrieval

MCCollections == <<"main", "other">>
MCKeys == {<<"main", 1>>, <<"main", 2>>, <<"other", 1>>}
MCPoints == [k \in MCKeys |-> IF k = <<"main", 2>> THEN "superseded" ELSE "active"]
=============================================================================
