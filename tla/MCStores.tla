------------------------------ MODULE MCStores ------------------------------
(* The variants of the stores; a behaviour drives one of the seven groups  *)
(* of calls, which share no state.                                          *)
EXTENDS DocumentStores, ConversationStores, UserStores, FaqStores

VARIABLE group
vars == <<docVars, chatVars, userVars, faqStoreVars, group>>

Vector(near, close) == [near |-> near, close |-> close]
MCBatches == {<<Vector(0, 0)>>, <<Vector(1, 2), Vector(0, 1)>>, <<Vector(1, 0)>>}
MCBudgets == {-1, 0, 4}
MCEmbeddings == {Vector(0, 0), Vector(1, 2), Vector(2, 3), Vector(3, 1)}
MCDisplaysOf(c) == IF c = 1 THEN {1, 4} ELSE IF c = 2 THEN {2, 3} ELSE {5}

Init ==
  /\ group \in {"documents", "sessions", "history", "memories", "users", "questions", "answers"}
  /\ DocInit /\ ChatInit /\ UserInit /\ FaqStoreInit
  /\ group # "answers" => cacheTtl = 0

Next ==
  /\ UNCHANGED group
  /\ \/ group = "documents" /\ DocNext /\ UNCHANGED <<chatVars, userVars, faqStoreVars>>
     \/ group = "sessions" /\ SessionNext /\ UNCHANGED <<chatVars, userVars, faqStoreVars>>
     \/ group = "history" /\ LogNext /\ UNCHANGED <<docVars, userVars, faqStoreVars>>
     \/ group = "memories" /\ MemoryNext /\ UNCHANGED <<docVars, userVars, faqStoreVars>>
     \/ group = "users" /\ UserNext /\ UNCHANGED <<docVars, chatVars, faqStoreVars>>
     \/ group = "questions" /\ QuestionNext /\ UNCHANGED <<docVars, chatVars, userVars>>
     \/ group = "answers" /\ CacheNext /\ UNCHANGED <<docVars, chatVars, userVars>>

Spec == Init /\ [][Next]_vars
=============================================================================
