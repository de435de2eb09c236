----------------------------- MODULE MCAccounts -----------------------------
(***************************************************************************)
(* Accounts for TLC: two Google accounts, the second of which can change   *)
(* its email to that of the first, and requests that may each be any call. *)
(***************************************************************************)
EXTENDS Accounts, TLC

CONSTANTS r1, r2, r3, x, y, a, b

Few == {r1, r2, r3}
EmailOf == x :> a @@ y :> b
Symmetric == Permutations(Few)
===============================================================================
