--------------------------- MODULE MCConversation ---------------------------
(***************************************************************************)
(* Conversation for TLC: three requests of two users, so that two can ask  *)
(* concurrently in the session that the first created.                     *)
(***************************************************************************)
EXTENDS Conversation, TLC

CONSTANTS r1, r2, r3, u1, u2

Few == {r1, r2, r3}
Both == {u1, u2}
Symmetric == Permutations(Few) \cup Permutations(Both)
===============================================================================
