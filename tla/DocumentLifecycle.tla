-------------------------- MODULE DocumentLifecycle --------------------------
(***************************************************************************)
(* What a client of Upload & Ask may rely on for a document processed      *)
(* once: its status goes pending, processing, and then to processed or     *)
(* failed for good, and a search returns each of its chunks exactly once   *)
(* from the moment it is processed, and none before.                       *)
(***************************************************************************)
EXTENDS Integers

CONSTANT Docs

VARIABLES
  view,  \* the status the client reads, "absent" before the upload
  hits   \* how often a search can return each chunk of the document

vars == <<view, hits>>

Init ==
  /\ view = [d \in Docs |-> "absent"]
  /\ hits = [d \in Docs |-> 0]

Move(d, from, to, found) ==
  /\ view[d] = from
  /\ view' = [view EXCEPT ![d] = to]
  /\ hits' = [hits EXCEPT ![d] = found]

Submit(d) == Move(d, "absent", "pending", 0)
Start(d) == Move(d, "pending", "processing", 0)
Complete(d) == Move(d, "processing", "processed", 1)
Fail(d) == Move(d, "processing", "failed", 0)

Next == \E d \in Docs : Submit(d) \/ Start(d) \/ Complete(d) \/ Fail(d)

Spec == Init /\ [][Next]_vars
===============================================================================
