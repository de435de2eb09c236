-------------------------- MODULE MCUploadDocuments --------------------------
(***************************************************************************)
(* Instances of UploadDocuments for TLC: one server with the immediate     *)
(* queue and SQLite, the local default, and two servers that share a       *)
(* Valkey list, each with its one consumer.                                *)
(***************************************************************************)
EXTENDS UploadDocuments, TLC

CONSTANTS d1, d2, d3, g1, g2, s1, s2

LocalDocs == {d1, d2, d3}
LocalHome == [x \in {g1, g2, d1, d2, d3} |-> s1]

SharedDocs == {d1, d2}
SharedHome == g1 :> s1 @@ g2 :> s2 @@ d1 :> s1 @@ d2 :> s2
===============================================================================
