--------------------------- MODULE MCHttpPipeline ---------------------------
(***************************************************************************)
(* HttpPipeline for TLC.  In one group of workloads a request to any route *)
(* has a retried one of the same visitor beside it; in the other a retried *)
(* request meets one of the same visitor or of another, after the time in  *)
(* which idle buckets are kept as well as before it.                       *)
(***************************************************************************)
EXTENDS HttpPipeline

CONSTANTS r1, r2, r3, v1, v2

Few == {r1, r2, r3}
Callers == {v1, v2}
Plain(e, v, t) == [endpoint |-> e, visitor |-> v, flaw |-> None, at |-> t]
Never == Plain("me", v1, MaxNow)
Workload(a, b, c) == [r \in Few |-> CASE r = r1 -> a [] r = r2 -> b [] r = r3 -> c]

AnyRoute ==
  {Workload(c, Plain("logout", v1, 0), Never) : c \in UNION {CallsTo(e, v1, 0) : e \in Gets \cup Posts}}
Crowds ==
  {Workload(Plain("logout", v1, 0), Plain("trending", v, t), Plain("trending", v1, u)) :
     v \in Callers, t \in {0, 5}, u \in {1, 5}}
Mixed == AnyRoute \cup Crowds
===============================================================================
