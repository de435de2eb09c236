---------------------------- MODULE MCFaqAnswers ----------------------------
(***************************************************************************)
(* FaqAnswers for TLC: three texts on a line, two of them nearer than the  *)
(* threshold, two at it, and two beyond it.  Two texts share a bucket and  *)
(* a normalized form; the third is normalized to nothing, and its bucket   *)
(* is 0.                                                                   *)
(***************************************************************************)
EXTENDS FaqAnswers, TLC

CONSTANTS a, b, c, r1, r2

Few == {r1, r2}
Asked == {a, b, c}
Line == a :> 0 @@ b :> 1 @@ c :> 3
Buckets == a :> 1 @@ b :> 1 @@ c :> 0
Normal == a :> "what" @@ b :> "what" @@ c :> None
Tables == {<<>>, <<a, c>>, <<b, c>>}
Symmetric == Permutations(Few)
===============================================================================
