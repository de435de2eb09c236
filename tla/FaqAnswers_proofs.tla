-------------------------- MODULE FaqAnswers_proofs --------------------------
(***************************************************************************)
(* Proofs about FaqAnswers, for any texts, embeddings, hashes and number   *)
(* of requests, attempts and faults.                                       *)
(***************************************************************************)
EXTENDS FaqAnswers, FiniteSetTheorems, WellFoundedInduction, TLAPS

-----------------------------------------------------------------------------
(* The inductive invariant *)

Steps == {"new", "router", "exact", "semantic_hash", "similarity", "insert", "cached", "drop",
          "llm", "save", "count", "top", "reply", "answered"}

TypeInv ==
  /\ questions \in Seq(Texts)
  /\ cache \in [Texts -> [answer : Texts, fresh : BOOLEAN] \cup {None}]
  /\ counts \in [Names -> Nat]
  /\ pc \in [Requests -> Steps]
  /\ ask \in [Requests -> [text : Texts, mode : Modes] \cup {None}]
  /\ attempt \in [Requests -> Nat]
  /\ match \in [Requests -> Texts \cup {None}]
  /\ answer \in [Requests -> Texts \cup {None}]
  /\ reply \in [Requests -> {"none", "ok", "refused", "error", "lost"}]
  /\ failed \in [Requests -> Nat]

\* A request that has begun knows what it asks; it is answered once it is in no
\* call, and in one of its attempts before; its mode fits the lookup it is at.
Called(r) ==
  /\ pc[r] # "new" => ask[r] \in [text : Texts, mode : Modes]
  /\ pc[r] # "answered" => reply[r] = "none"
  /\ InCall(r) => attempt[r] \in 1..MaxAttempts
  /\ pc[r] = "exact" => ask[r].mode \in {"exact", "hybrid"}
  /\ pc[r] = "semantic_hash" => ask[r].mode = "semantic_hash"
  /\ pc[r] = "similarity" => ask[r].mode \in {"similarity", "hybrid"}

\* After its lookup a request works for a question its mode allows, and the
\* answer it has got is the one to it.
MatchedSteps == {"cached", "drop", "llm", "save", "count", "top", "reply"}
AnsweredSteps == {"save", "count", "top", "reply"}
Matched(r) ==
  /\ pc[r] \in MatchedSteps \/ reply[r] = "ok" =>
       match[r] \in Texts /\ Matches(ask[r].mode, ask[r].text, match[r])
  /\ pc[r] \in AnsweredSteps \/ reply[r] = "ok" => answer[r] = match[r]

\* Every attempt before the present one was ended by a failing call of its own;
\* or one of them by the insert of another request, and then the question is
\* there to be found.
Unfindable(r) ==
  /\ ask[r].mode = "semantic_hash" /\ Hash[ask[r].text] = 0
  /\ ask[r].text \in ToSet(questions)
Excused(r) ==
  InCall(r) =>
    \/ attempt[r] - 1 <= failed[r]
    \/ /\ attempt[r] - 2 <= failed[r]
       /\ ask[r].text \in ToSet(questions)
       /\ pc[r] # "insert"
    \/ Unfindable(r)
Blamed(r) ==
  reply[r] = "error" => failed[r] >= MaxAttempts - 1 \/ Unfindable(r)

\* The cache holds for a question the answer to it.
CacheInv == \A t \in Texts : cache[t] # None => cache[t].answer = t
LocalInv(r) == Called(r) /\ Matched(r) /\ Excused(r) /\ Blamed(r)
IInv == TypeInv /\ CacheInv /\ \A r \in Requests : LocalInv(r)

LEMMA InitiallyIInv == Init => IInv
  BY PriorAssumption
  DEF Init, IInv, TypeInv, CacheInv, LocalInv, Called, Matched, Excused, Blamed, InCall, Steps,
      MatchedSteps, AnsweredSteps

-----------------------------------------------------------------------------
(* What a step may do *)

LookupSteps == {"exact", "semantic_hash", "similarity"}

\* A lookup that finds a question takes one that its mode allows.
LEMMA FoundMatches ==
  ASSUME IInv, NEW r \in Requests,
         FindExact(r) \/ FindBySemanticHash(r) \/ FindNearest(r)
  PROVE  \/ \E t \in Texts : Finds(r, t) /\ Matches(ask[r].mode, ask[r].text, t)
         \/ /\ \E step \in {"similarity", "insert"} : Misses(r, step)
            /\ ask[r].text \in ToSet(questions) => Unfindable(r)
<1>0. /\ TypeInv /\ Called(r) /\ pc[r] \in LookupSteps
      /\ ask[r] \in [text : Texts, mode : Modes]
  BY DEF IInv, LocalInv, FindExact, FindBySemanticHash, FindNearest, LookupSteps, Called
<1> DEFINE t == ask[r].text
<1>1. t \in Texts /\ \A i \in DOMAIN questions : questions[i] \in Texts
  BY <1>0 DEF TypeInv
<1>2. CASE FindExact(r)
  <2>1. CASE t \in ToSet(questions) /\ Finds(r, t)
    <3>1. Distance(t, t) <= Threshold
      BY <1>1, TextAssumption DEF Distance
    <3> QED
      BY <1>1, <2>1, <3>1 DEF Matches
  <2>2. CASE t \notin ToSet(questions)
    BY <1>2, <2>2 DEF FindExact
  <2> QED
    BY <1>2, <2>1, <2>2 DEF FindExact
<1>3. CASE FindBySemanticHash(r)
  <2>1. ask[r].mode = "semantic_hash"
    BY <1>0, <1>3 DEF FindBySemanticHash, Called
  <2>2. ASSUME NEW i \in DOMAIN questions, Hash[t] # 0, Hash[questions[i]] = Hash[t],
               Finds(r, questions[i])
        PROVE  Finds(r, questions[i]) /\ Matches(ask[r].mode, t, questions[i])
    BY <2>1, <2>2 DEF Matches
  <2>3. CASE /\ Misses(r, "insert")
             /\ \A i \in DOMAIN questions : ~ (Hash[t] # 0 /\ Hash[questions[i]] = Hash[t])
    <3>1. t \in ToSet(questions) => Hash[t] = 0
      BY <2>3 DEF ToSet
    <3> QED
      BY <2>1, <2>3, <3>1 DEF Unfindable
  <2> QED
    BY <1>1, <1>3, <2>2, <2>3 DEF FindBySemanticHash, FirstOf
<1>4. CASE FindNearest(r)
  <2> DEFINE Far(i) == Distance(t, questions[i])
             Nearest == {i \in DOMAIN questions : \A j \in DOMAIN questions : Far(i) <= Far(j)}
  <2>0. ask[r].mode \in {"similarity", "hybrid"}
    BY <1>0, <1>4 DEF FindNearest, Called
  <2>1. ASSUME NEW i \in Nearest, Far(i) <= Threshold, Finds(r, questions[i])
        PROVE  questions[i] \in Texts /\ Matches(ask[r].mode, t, questions[i])
    BY <1>1, <2>0, <2>1 DEF Matches
  <2>2. ASSUME \A i \in Nearest : Far(i) > Threshold, t \in ToSet(questions)
        PROVE  FALSE
    <3>1. PICK i \in DOMAIN questions : questions[i] = t
      BY <2>2 DEF ToSet
    <3>2. Far(i) = 0
      BY <1>1, <3>1, TextAssumption DEF Distance
    <3>3. \A j \in DOMAIN questions : Far(j) \in Nat
      BY <1>1, TextAssumption DEF Distance
    <3>4. i \in Nearest
      BY <3>2, <3>3
    <3> QED
      BY <2>2, <3>2, <3>4, TextAssumption
  <2> QED
    BY <1>4, <2>1, <2>2 DEF FindNearest, FirstOf
<1> QED
  BY <1>2, <1>3, <1>4

\* The steps of one request, as far as the others see them.
Acts(r) ==
  \/ \E t \in Texts, mode \in Modes : Begin(r, t, mode)
  \/ Step(r) \/ CallFails(r) \/ CallFailsQuietly(r) \/ Unheard(r)

Same(q) ==
  /\ pc'[q] = pc[q] /\ ask'[q] = ask[q] /\ attempt'[q] = attempt[q] /\ match'[q] = match[q]
  /\ answer'[q] = answer[q] /\ reply'[q] = reply[q] /\ failed'[q] = failed[q]

LEMMA OthersStay ==
  ASSUME IInv, NEW r \in Requests, Acts(r), NEW q \in Requests \ {r}
  PROVE  Same(q)
<1> USE DEF Same, GoesTo, Starts, Ends, TypeInv
<1>1. TypeInv
  BY DEF IInv
<1>2. CASE (\E t \in Texts, mode \in Modes : Begin(r, t, mode))
  BY <1>1, <1>2 DEF Begin
<1>3. CASE Step(r)
  <2>1. CASE FindExact(r) BY <1>1, <2>1 DEF FindExact, Finds, Misses
  <2>2. CASE FindBySemanticHash(r) BY <1>1, <2>2 DEF FindBySemanticHash, Finds, Misses
  <2>3. CASE FindNearest(r) BY <1>1, <2>3 DEF FindNearest, Finds, Misses
  <2>4. CASE GetAnswer(r) BY <1>1, <2>4 DEF GetAnswer
  <2>5. CASE DropExpired(r) BY <1>1, <2>5 DEF DropExpired
  <2>6. CASE InsertQuestion(r)
    <3>1. CASE AttemptFails(r) BY <1>1, <2>6, <3>1 DEF InsertQuestion, AttemptFails
    <3>2. CASE ~AttemptFails(r) BY <1>1, <2>6, <3>2 DEF InsertQuestion
    <3> QED BY <3>1, <3>2
  <2>7. CASE AskLLM(r) BY <1>1, <2>7 DEF AskLLM
  <2>8. CASE SaveAnswer(r) BY <1>1, <2>8 DEF SaveAnswer
  <2>9. CASE IncrementQuery(r) BY <1>1, <2>9 DEF IncrementQuery
  <2>10. CASE TopQueries(r) BY <1>1, <2>10 DEF TopQueries
  <2>11. CASE Respond(r) BY <1>1, <2>11 DEF Respond
  <2>12. CASE Admit(r) BY <1>1, <2>12 DEF Admit
  <2>13. CASE Refuse(r) BY <1>1, <2>13 DEF Refuse
  <2> QED
    BY <1>3, <2>1, <2>2, <2>3, <2>4, <2>5, <2>6, <2>7, <2>8, <2>9, <2>10, <2>11, <2>12, <2>13 DEF Step
<1>4. CASE CallFails(r)
  BY <1>1, <1>4 DEF CallFails, AttemptFails
<1>5. CASE CallFailsQuietly(r)
  BY <1>1, <1>5 DEF CallFailsQuietly, Quietly
<1>6. CASE Unheard(r)
  BY <1>1, <1>6 DEF Unheard
<1> QED
  BY <1>2, <1>3, <1>4, <1>5, <1>6 DEF Acts

\* A question stays in the table.
QuestionsGrow == questions' \in Seq(Texts) /\ ToSet(questions) \subseteq ToSet(questions')

LEMMA AppendGrows ==
  ASSUME TypeInv, NEW t \in Texts, questions' = Append(questions, t)
  PROVE  QuestionsGrow
<1>1. \A i \in DOMAIN questions : i \in DOMAIN questions' /\ questions'[i] = questions[i]
  BY DEF TypeInv
<1>2. questions' \in Seq(Texts)
  BY DEF TypeInv
<1> QED
  BY <1>1, <1>2 DEF QuestionsGrow, ToSet

LEMMA TablesGrow ==
  ASSUME IInv, NEW r \in Requests, Acts(r)
  PROVE  QuestionsGrow
<1>1. TypeInv /\ Called(r)
  BY DEF IInv, LocalInv
<1>2. questions' = questions \/ \E t \in Texts : questions' = Append(questions, t)
  <2>1. CASE InsertQuestion(r)
    BY <1>1, <2>1 DEF InsertQuestion, store, Called
  <2>2. CASE CallFails(r)
    BY <1>1, <2>2 DEF CallFails, Called
  <2>3. CASE ~InsertQuestion(r) /\ ~CallFails(r)
    <3>1. CASE (\E t \in Texts, mode \in Modes : Begin(r, t, mode)) \/ Unheard(r) \/ CallFailsQuietly(r)
      BY <3>1 DEF Begin, Unheard, CallFailsQuietly, Quietly, store
    <3>2. CASE Step(r)
      BY <2>3, <3>2 DEF Step, Admit, Refuse, FindExact, FindBySemanticHash, FindNearest, Finds, Misses,
         GetAnswer, DropExpired, AskLLM, SaveAnswer, IncrementQuery, TopQueries, Respond, store
    <3> QED
      BY <2>3, <3>1, <3>2 DEF Acts
  <2> QED
    BY <2>1, <2>2, <2>3
<1> QED
  BY <1>1, <1>2, AppendGrows DEF QuestionsGrow, TypeInv

\* What holds of the others still holds.
LEMMA OthersKept ==
  ASSUME IInv, NEW r \in Requests, Acts(r), NEW q \in Requests \ {r}
  PROVE  LocalInv(q)'
<1>1. LocalInv(q) /\ attempt[q] \in Nat /\ failed[q] \in Nat
  BY DEF IInv, TypeInv
<1>2. Same(q)
  BY OthersStay
<1>3. ToSet(questions) \subseteq ToSet(questions')
  BY TablesGrow DEF QuestionsGrow
<1>4. Called(q)' /\ Matched(q)'
  BY <1>1, <1>2 DEF LocalInv, Called, Matched, InCall, Same
<1>5. Excused(q)' /\ Blamed(q)'
  BY <1>1, <1>2, <1>3, AttemptAssumption DEF LocalInv, Excused, Blamed, InCall, Unfindable, Same
<1> QED
  BY <1>4, <1>5 DEF LocalInv

\* An attempt that fails is followed by the next, or by the error of the last.
LEMMA FailureKept ==
  ASSUME IInv, NEW r \in Requests, InCall(r), AttemptFails(r), UNCHANGED <<cache, counts>>,
         QuestionsGrow,
         \/ failed' = [failed EXCEPT ![r] = @ + 1]
         \/ /\ failed' = failed
            /\ pc[r] = "insert" /\ ask[r].text \in ToSet(questions)
  PROVE  LocalInv(r)' /\ TypeInv'
<1>0. TypeInv /\ LocalInv(r) /\ failed[r] \in Nat /\ attempt[r] \in 1..MaxAttempts
  BY DEF IInv, TypeInv, LocalInv, Called
<1>1. ask[r] \in [text : Texts, mode : Modes] /\ reply[r] = "none"
  BY <1>0 DEF LocalInv, Called, InCall
<1>2. \/ attempt[r] - 1 <= failed[r]
      \/ attempt[r] - 2 <= failed[r] /\ ask[r].text \in ToSet(questions) /\ pc[r] # "insert"
      \/ Unfindable(r)
  BY <1>0 DEF LocalInv, Excused
<1>5. /\ questions' \in Seq(Texts) /\ ToSet(questions) \subseteq ToSet(questions')
      /\ failed' \in [Requests -> Nat]
      /\ \/ failed'[r] = failed[r] + 1
         \/ failed'[r] = failed[r] /\ pc[r] = "insert" /\ ask[r].text \in ToSet(questions)
  BY <1>0 DEF QuestionsGrow, TypeInv
<1>3. CASE attempt[r] < MaxAttempts
  <2>1. /\ Starts(r, attempt[r] + 1)
        /\ UNCHANGED <<ask, reply>>
    BY <1>3 DEF AttemptFails
  <2>2. pc'[r] = "router" /\ attempt'[r] = attempt[r] + 1 /\ TypeInv'
    BY <1>0, <1>5, <2>1 DEF Starts, TypeInv, Steps
  <2>3. Called(r)' /\ Matched(r)' /\ Blamed(r)'
    BY <1>0, <1>1, <1>3, <2>1, <2>2, AttemptAssumption
    DEF Called, Matched, MatchedSteps, AnsweredSteps, Blamed, InCall
  <2>4. Excused(r)'
    BY <1>0, <1>2, <1>5, <2>1, <2>2 DEF Excused, InCall, Unfindable
  <2> QED
    BY <2>2, <2>3, <2>4 DEF LocalInv
<1>4. CASE ~(attempt[r] < MaxAttempts)
  <2>1. Ends(r, "error") /\ UNCHANGED <<ask, match, answer>>
    BY <1>4 DEF AttemptFails
  <2>2. pc'[r] = "answered" /\ reply'[r] = "error" /\ attempt[r] = MaxAttempts /\ TypeInv'
    BY <1>0, <1>4, <1>5, <2>1, AttemptAssumption DEF Ends, TypeInv, Steps
  <2>3. Called(r)' /\ Matched(r)' /\ Excused(r)'
    BY <1>1, <2>1, <2>2 DEF Called, Matched, MatchedSteps, AnsweredSteps, Excused, InCall
  <2>4. Blamed(r)'
    BY <1>0, <1>2, <1>5, <2>1, <2>2, AttemptAssumption DEF Blamed, Unfindable
  <2> QED
    BY <2>2, <2>3, <2>4 DEF LocalInv
<1> QED
  BY <1>3, <1>4

-----------------------------------------------------------------------------
(* Each action of a request keeps the invariant *)

Kept(r) == LocalInv(r)' /\ TypeInv' /\ CacheInv'

LEMMA BeginKept ==
  ASSUME IInv, NEW r \in Requests, NEW t \in Texts, NEW mode \in Modes, Begin(r, t, mode)
  PROVE  Kept(r)
<1>0. TypeInv /\ LocalInv(r) /\ CacheInv
  BY DEF IInv
<1>1. /\ pc'[r] = "router" /\ attempt'[r] = 1 /\ ask'[r] = [text |-> t, mode |-> mode]
      /\ reply'[r] = "none" /\ failed' = failed /\ failed[r] \in Nat
  BY <1>0 DEF Begin, Starts, TypeInv, LocalInv, Called
<1>2. TypeInv'
  BY <1>0 DEF Begin, Starts, TypeInv, Steps, store
<1>3. Called(r)'
  BY <1>1, AttemptAssumption DEF Called, InCall
<1>4. Matched(r)' /\ Blamed(r)'
  BY <1>1 DEF Matched, MatchedSteps, AnsweredSteps, Blamed
<1>5. Excused(r)'
  BY <1>1 DEF Excused
<1>6. CacheInv'
  BY <1>0 DEF Begin, store, CacheInv
<1> QED
  BY <1>2, <1>3, <1>4, <1>5, <1>6 DEF LocalInv, Kept

\* A step of an attempt that has matched nothing yet, to a lookup or the insert.
LEMMA LooksOn ==
  ASSUME IInv, NEW r \in Requests, InCall(r), NEW step \in LookupSteps \cup {"insert"},
         GoesTo(r, step), UNCHANGED <<store, match, answer>>,
         step = "exact" => ask[r].mode \in {"exact", "hybrid"},
         step = "semantic_hash" => ask[r].mode = "semantic_hash",
         step = "similarity" => ask[r].mode \in {"similarity", "hybrid"},
         step = "insert" /\ ask[r].text \in ToSet(questions) => Unfindable(r)
  PROVE  Kept(r)
<1>0. /\ TypeInv /\ LocalInv(r) /\ CacheInv /\ ask[r] \in [text : Texts, mode : Modes]
      /\ reply[r] = "none" /\ attempt[r] \in 1..MaxAttempts
  BY DEF IInv, LocalInv, Called, InCall
<1>1. /\ pc'[r] = step /\ TypeInv' /\ CacheInv'
      /\ UNCHANGED <<ask, attempt, reply, failed, questions>>
  BY <1>0 DEF GoesTo, TypeInv, CacheInv, Steps, LookupSteps, store
<1>2. Called(r)' /\ Matched(r)' /\ Blamed(r)'
  BY <1>0, <1>1 DEF Called, Matched, MatchedSteps, AnsweredSteps, Blamed, InCall, LookupSteps
<1>3. Excused(r)'
  BY <1>0, <1>1 DEF LocalInv, Excused, InCall, Unfindable
<1> QED
  BY <1>1, <1>2, <1>3 DEF LocalInv, Kept

LEMMA AdmitKept ==
  ASSUME IInv, NEW r \in Requests, Admit(r)
  PROVE  Kept(r)
<1>1. /\ InCall(r) /\ ask[r] \in [text : Texts, mode : Modes]
      /\ GoesTo(r, FirstLookup(ask[r].mode)) /\ UNCHANGED <<store, match, answer>>
  BY DEF Admit, IInv, LocalInv, Called, InCall
<1>2. /\ FirstLookup(ask[r].mode) \in LookupSteps
      /\ FirstLookup(ask[r].mode) = "exact" => ask[r].mode \in {"exact", "hybrid"}
      /\ FirstLookup(ask[r].mode) = "semantic_hash" => ask[r].mode = "semantic_hash"
      /\ FirstLookup(ask[r].mode) = "similarity" => ask[r].mode \in {"similarity", "hybrid"}
  BY <1>1 DEF FirstLookup, Modes, LookupSteps
<1>3. FirstLookup(ask[r].mode) # "insert"
  BY <1>2 DEF LookupSteps
<1> QED
  BY <1>1, <1>2, <1>3, LooksOn

LEMMA LookupKept ==
  ASSUME IInv, NEW r \in Requests,
         FindExact(r) \/ FindBySemanticHash(r) \/ FindNearest(r)
  PROVE  Kept(r)
<1>0. /\ TypeInv /\ LocalInv(r) /\ CacheInv
      /\ pc[r] \in LookupSteps /\ InCall(r) /\ ask[r] \in [text : Texts, mode : Modes]
      /\ reply[r] = "none" /\ attempt[r] \in 1..MaxAttempts
  BY DEF IInv, FindExact, FindBySemanticHash, FindNearest, LookupSteps, InCall, LocalInv, Called
<1>1. CASE \E t \in Texts : Finds(r, t) /\ Matches(ask[r].mode, ask[r].text, t)
  <2>1. PICK t \in Texts : Finds(r, t) /\ Matches(ask[r].mode, ask[r].text, t)
    BY <1>1
  <2>2. /\ pc'[r] = "cached" /\ match'[r] = t /\ TypeInv' /\ CacheInv'
        /\ UNCHANGED <<ask, attempt, reply, failed, questions>>
    BY <1>0, <2>1 DEF Finds, GoesTo, TypeInv, CacheInv, Steps, store
  <2>3. Called(r)' /\ Matched(r)' /\ Blamed(r)'
    BY <1>0, <2>1, <2>2 DEF Called, Matched, Matches, Distance, MatchedSteps, AnsweredSteps, Blamed, InCall
  <2>4. Excused(r)'
    BY <1>0, <2>2 DEF LocalInv, Excused, InCall, Unfindable
  <2> QED
    BY <2>2, <2>3, <2>4 DEF LocalInv, Kept
<1>2. CASE /\ \E step \in {"similarity", "insert"} : Misses(r, step)
           /\ ask[r].text \in ToSet(questions) => Unfindable(r)
  <2>1. PICK step \in {"similarity", "insert"} : Misses(r, step)
    BY <1>2
  <2>2. pc'[r] = step
    BY <1>0, <2>1 DEF Misses, GoesTo, TypeInv
  <2>3. step = "similarity" => ask[r].mode \in {"similarity", "hybrid"}
    <3>1. step = "similarity" => FindExact(r) /\ ask[r].mode = "hybrid"
      BY <1>0, <2>1, <2>2 DEF FindExact, FindBySemanticHash, FindNearest, Misses, Finds, GoesTo, TypeInv
    <3> QED
      BY <3>1
  <2>4. step \in LookupSteps \cup {"insert"} /\ GoesTo(r, step) /\ UNCHANGED <<store, match, answer>>
    BY <2>1 DEF LookupSteps, Misses
  <2> QED
    BY <1>0, <1>2, <2>3, <2>4, LooksOn
<1> QED
  BY <1>1, <1>2, FoundMatches

CachedAnswers == [Texts -> [answer : Texts, fresh : BOOLEAN] \cup {None}]

\* A step after the lookup that stays in the attempt, for its question.
LEMMA GoesOn ==
  ASSUME IInv, NEW r \in Requests, NEW step \in {"llm", "drop", "save", "count", "top", "reply"},
         pc[r] \in MatchedSteps, pc' = [pc EXCEPT ![r] = step],
         UNCHANGED <<questions, ask, attempt, match, reply, failed>>,
         \/ step \in {"llm", "drop"} /\ UNCHANGED answer
         \/ answer' = [answer EXCEPT ![r] = match[r]]
         \/ pc[r] \in AnsweredSteps /\ UNCHANGED answer,
         counts' \in [Names -> Nat], cache' \in CachedAnswers, CacheInv'
  PROVE  Kept(r)
<1>0. /\ TypeInv /\ LocalInv(r) /\ match[r] \in Texts
      /\ ask[r] \in [text : Texts, mode : Modes]
      /\ Matches(ask[r].mode, ask[r].text, match[r]) /\ InCall(r) /\ reply[r] = "none"
      /\ attempt[r] \in 1..MaxAttempts
  BY DEF IInv, LocalInv, Called, Matched, MatchedSteps, InCall
<1>1. /\ pc'[r] = step /\ pc' \in [Requests -> Steps]
      /\ match'[r] = match[r] /\ ask'[r] = ask[r] /\ attempt'[r] = attempt[r]
      /\ failed'[r] = failed[r]
  BY <1>0 DEF TypeInv, Steps
<1>2. step \in AnsweredSteps => answer'[r] = match[r]
  BY <1>0 DEF LocalInv, Matched, TypeInv, AnsweredSteps
<1>3. Called(r)' /\ Blamed(r)'
  BY <1>0, <1>1 DEF Called, Blamed, InCall
<1>4. Matched(r)'
  BY <1>0, <1>1, <1>2 DEF Matched, MatchedSteps, AnsweredSteps, Matches, Distance
<1>5. Excused(r)'
  BY <1>0, <1>1 DEF LocalInv, Excused, InCall, Unfindable
<1>6. answer' \in [Requests -> Texts \cup {None}]
  BY <1>0 DEF TypeInv
<1> QED
  BY <1>0, <1>1, <1>3, <1>4, <1>5, <1>6 DEF LocalInv, TypeInv, CachedAnswers, Kept

LEMMA GetAnswerKept ==
  ASSUME IInv, NEW r \in Requests, GetAnswer(r)
  PROVE  Kept(r)
<1>0. /\ TypeInv /\ CacheInv /\ pc[r] \in MatchedSteps /\ match[r] \in Texts
  BY DEF IInv, LocalInv, Matched, MatchedSteps, GetAnswer
<1>1. UNCHANGED <<questions, cache, counts, ask, attempt, match, reply, failed>>
  BY DEF GetAnswer, GoesTo, store
<1>2. counts' \in [Names -> Nat] /\ cache' \in CachedAnswers /\ CacheInv'
  BY <1>0, <1>1 DEF TypeInv, CachedAnswers, CacheInv
<1>3. \E step \in {"llm", "drop", "count"} :
        /\ pc' = [pc EXCEPT ![r] = step]
        /\ \/ step \in {"llm", "drop"} /\ UNCHANGED answer
           \/ answer' = [answer EXCEPT ![r] = match[r]]
  BY <1>0 DEF GetAnswer, GoesTo, CacheInv
<1>4. PICK step \in {"llm", "drop", "count"} :
        /\ pc' = [pc EXCEPT ![r] = step]
        /\ \/ step \in {"llm", "drop"} /\ UNCHANGED answer
           \/ answer' = [answer EXCEPT ![r] = match[r]]
  BY <1>3
<1> QED
  BY <1>0, <1>1, <1>2, <1>4, GoesOn

\* What a delete, a save or an increment leaves is right, whether it is reported
\* as failed or not.
LEMMA WritesKeep ==
  ASSUME IInv, NEW r \in Requests, pc[r] \in {"drop", "save", "count"}
  PROVE  /\ match[r] \in Texts /\ pc[r] \in MatchedSteps
         /\ Dropped(r) \in CachedAnswers /\ Counted(r) \in [Names -> Nat]
         /\ pc[r] = "save" => Saved(r) \in CachedAnswers
         /\ \A t \in Texts : Dropped(r)[t] # None => Dropped(r)[t].answer = t
         /\ pc[r] = "save" => \A t \in Texts : Saved(r)[t] # None => Saved(r)[t].answer = t
<1>0. /\ TypeInv /\ CacheInv /\ match[r] \in Texts /\ pc[r] \in MatchedSteps
      /\ pc[r] = "save" => answer[r] = match[r]
  BY DEF IInv, LocalInv, Matched, MatchedSteps, AnsweredSteps
<1>1. Counted(r) \in [Names -> Nat]
  BY <1>0 DEF Counted, TypeInv
<1>2. Dropped(r) \in CachedAnswers
  BY <1>0 DEF Dropped, TypeInv, CachedAnswers
<1>3. \A t \in Texts : Dropped(r)[t] # None => Dropped(r)[t].answer = t
  BY <1>0 DEF Dropped, TypeInv, CacheInv
<1>4. CASE pc[r] = "save"
  <2>1. Saved(r) \in CachedAnswers
    BY <1>0, <1>4 DEF Saved, TypeInv, CachedAnswers
  <2>2. \A t \in Texts : Saved(r)[t] # None => Saved(r)[t].answer = t
    BY <1>0, <1>4 DEF Saved, TypeInv, CacheInv
  <2> QED
    BY <1>0, <1>1, <1>2, <1>3, <2>1, <2>2
<1> QED
  BY <1>0, <1>1, <1>2, <1>3, <1>4

LEMMA WriteKept ==
  ASSUME IInv, NEW r \in Requests,
         UNCHANGED <<questions, ask, attempt, match, answer, reply, failed>>,
         \/ /\ pc[r] = "drop" /\ pc' = [pc EXCEPT ![r] = "llm"]
            /\ cache' \in {cache, Dropped(r)} /\ counts' = counts
         \/ /\ pc[r] = "save" /\ pc' = [pc EXCEPT ![r] = "count"]
            /\ cache' \in {cache, Saved(r)} /\ counts' = counts
         \/ /\ pc[r] = "count" /\ pc' = [pc EXCEPT ![r] = "top"]
            /\ cache' = cache /\ counts' \in {counts, Counted(r)}
  PROVE  Kept(r)
<1>0. /\ counts \in [Names -> Nat] /\ cache \in CachedAnswers
      /\ \A t \in Texts : cache[t] # None => cache[t].answer = t
  BY DEF IInv, TypeInv, CachedAnswers, CacheInv
<1>1. /\ counts' \in [Names -> Nat] /\ cache' \in CachedAnswers
      /\ \A t \in Texts : cache'[t] # None => cache'[t].answer = t
      /\ pc[r] \in MatchedSteps
  BY <1>0, WritesKeep
<1>2. CacheInv'
  BY <1>1 DEF CacheInv
<1>3. pc[r] = "drop" \/ pc[r] \in AnsweredSteps
  BY DEF AnsweredSteps
<1>4. PICK step \in {"llm", "count", "top"} :
        /\ pc' = [pc EXCEPT ![r] = step]
        /\ step = "llm" \/ pc[r] \in AnsweredSteps
  BY <1>3
<1> QED
  BY <1>1, <1>2, <1>4, GoesOn

LEMMA DropSaveIncrementKept ==
  ASSUME IInv, NEW r \in Requests, DropExpired(r) \/ SaveAnswer(r) \/ IncrementQuery(r)
  PROVE  Kept(r)
  BY WriteKept DEF DropExpired, SaveAnswer, IncrementQuery, GoesTo

LEMMA AskLLMKept ==
  ASSUME IInv, NEW r \in Requests, AskLLM(r)
  PROVE  Kept(r)
<1>0. /\ TypeInv /\ CacheInv /\ pc[r] \in MatchedSteps /\ pc' = [pc EXCEPT ![r] = "save"]
  BY DEF IInv, MatchedSteps, AskLLM, GoesTo
<1>1. /\ UNCHANGED <<questions, cache, counts, ask, attempt, match, reply, failed>>
      /\ answer' = [answer EXCEPT ![r] = match[r]]
  BY <1>0 DEF AskLLM, GoesTo, store
<1>2. counts' \in [Names -> Nat] /\ cache' \in CachedAnswers /\ CacheInv'
  BY <1>0, <1>1 DEF TypeInv, CachedAnswers, CacheInv
<1> QED
  BY <1>0, <1>1, <1>2, GoesOn

\* The recommendations are read, or not.
LEMMA TopKept ==
  ASSUME IInv, NEW r \in Requests, pc[r] = "top", pc' = [pc EXCEPT ![r] = "reply"],
         UNCHANGED <<questions, cache, counts, ask, attempt, match, answer, reply, failed>>
  PROVE  Kept(r)
<1>1. pc[r] \in MatchedSteps /\ pc[r] \in AnsweredSteps
  BY DEF MatchedSteps, AnsweredSteps
<1>2. counts' \in [Names -> Nat] /\ cache' \in CachedAnswers /\ CacheInv'
  BY DEF IInv, TypeInv, CachedAnswers, CacheInv
<1> QED
  BY <1>1, <1>2, GoesOn

LEMMA InsertKept ==
  ASSUME IInv, NEW r \in Requests, InsertQuestion(r)
  PROVE  Kept(r)
<1> DEFINE t == ask[r].text
<1>0. /\ TypeInv /\ LocalInv(r) /\ CacheInv /\ pc[r] = "insert" /\ InCall(r)
      /\ ask[r] \in [text : Texts, mode : Modes] /\ t \in Texts /\ reply[r] = "none"
      /\ attempt[r] \in 1..MaxAttempts
  BY DEF IInv, InsertQuestion, InCall, LocalInv, Called
<1>1. CASE /\ t \notin ToSet(questions)
           /\ questions' = Append(questions, t)
           /\ match' = [match EXCEPT ![r] = t]
           /\ GoesTo(r, "llm")
           /\ UNCHANGED <<cache, counts, answer>>
  <2>1. TypeInv' /\ CacheInv' /\ pc'[r] = "llm" /\ match'[r] = t
    BY <1>0, <1>1 DEF TypeInv, CacheInv, GoesTo, Steps
  <2>2. Called(r)' /\ Blamed(r)'
    BY <1>0, <1>1, <2>1 DEF Called, Blamed, InCall, GoesTo
  <2>3. Matches(ask[r].mode, t, t)
    BY <1>0, TextAssumption DEF Matches, Distance
  <2>4. Matched(r)'
    BY <1>0, <1>1, <2>1, <2>3 DEF Matched, Matches, Distance, MatchedSteps, AnsweredSteps, GoesTo
  <2>5. Excused(r)'
    <3>1. attempt[r] - 1 <= failed[r]
      BY <1>0, <1>1 DEF LocalInv, Excused, Unfindable
    <3> QED
      BY <1>1, <3>1 DEF Excused, GoesTo
  <2> QED
    BY <2>1, <2>2, <2>4, <2>5 DEF LocalInv, Kept
<1>2. CASE /\ t \in ToSet(questions)
           /\ AttemptFails(r)
           /\ UNCHANGED <<store, failed, warned, faults, expiries>>
  <2>1. QuestionsGrow /\ UNCHANGED <<cache, counts>>
    BY <1>0, <1>2 DEF QuestionsGrow, store, TypeInv
  <2>2. LocalInv(r)' /\ TypeInv'
    BY <1>0, <1>2, <2>1, FailureKept
  <2> QED
    BY <1>0, <2>1, <2>2 DEF CacheInv, Kept
<1> QED
  BY <1>1, <1>2 DEF InsertQuestion

\* A request that is over, with what it has got if it succeeded.
LEMMA EndsWell ==
  ASSUME IInv, NEW r \in Requests, NEW code \in {"ok", "refused", "lost"}, InCall(r),
         Ends(r, code), code = "ok" => pc[r] = "reply",
         UNCHANGED <<store, ask, match, answer, failed>>
  PROVE  Kept(r)
<1>0. /\ TypeInv /\ LocalInv(r) /\ CacheInv /\ ask[r] \in [text : Texts, mode : Modes]
      /\ pc'[r] = "answered" /\ reply'[r] = code /\ attempt'[r] = 0
  BY DEF IInv, TypeInv, Ends, LocalInv, Called, InCall
<1>1. Called(r)' /\ Excused(r)' /\ Blamed(r)'
  BY <1>0 DEF Called, Excused, Blamed, InCall
<1>2. Matched(r)'
  BY <1>0 DEF LocalInv, Matched, MatchedSteps, AnsweredSteps, Matches, Distance
<1>3. TypeInv' /\ CacheInv'
  BY <1>0 DEF TypeInv, CacheInv, Ends, Steps, store
<1> QED
  BY <1>1, <1>2, <1>3 DEF LocalInv, Kept

LEMMA CallFailsKept ==
  ASSUME IInv, NEW r \in Requests, CallFails(r)
  PROVE  Kept(r)
<1>1. InCall(r) /\ AttemptFails(r) /\ UNCHANGED <<cache, counts>>
  BY DEF CallFails, InCall
<1>2. QuestionsGrow
  BY TablesGrow DEF Acts
<1>3. LocalInv(r)' /\ TypeInv'
  BY <1>1, <1>2, FailureKept DEF CallFails
<1> QED
  BY <1>1, <1>3 DEF IInv, CacheInv, Kept

LEMMA CallFailsQuietlyKept ==
  ASSUME IInv, NEW r \in Requests, CallFailsQuietly(r)
  PROVE  Kept(r)
<1>1. CASE pc[r] = "top" /\ pc' = [pc EXCEPT ![r] = "reply"]
  BY <1>1, TopKept DEF CallFailsQuietly, Quietly
<1>2. CASE pc[r] \in {"drop", "save", "count"}
  BY <1>2, WriteKept DEF CallFailsQuietly, Quietly
<1> QED
  BY <1>1, <1>2 DEF CallFailsQuietly, Quietly

LEMMA ActsKept ==
  ASSUME IInv, NEW r \in Requests, Acts(r)
  PROVE  Kept(r)
<1>1. CASE Refuse(r) \/ Respond(r) \/ Unheard(r)
  BY <1>1, EndsWell DEF Refuse, Respond, Unheard, InCall
<1>2. CASE TopQueries(r)
  BY <1>2, TopKept DEF TopQueries, GoesTo, store
<1> QED
  BY <1>1, <1>2, BeginKept, AdmitKept, LookupKept, GetAnswerKept, DropSaveIncrementKept, InsertKept,
     AskLLMKept, CallFailsKept, CallFailsQuietlyKept DEF Acts, Step

-----------------------------------------------------------------------------
(* The steps of nobody *)

LEMMA ExpireKept ==
  ASSUME IInv, NEW t \in Texts, Expire(t)
  PROVE  IInv'
<1>0. TypeInv /\ CacheInv /\ \A r \in Requests : LocalInv(r)
  BY DEF IInv
<1>1. cache[t] \in [answer : Texts, fresh : BOOLEAN]
  BY <1>0 DEF Expire, TypeInv
<1>2. TypeInv' /\ CacheInv'
  BY <1>0, <1>1 DEF Expire, TypeInv, CacheInv, mine
<1>3. \A r \in Requests : LocalInv(r)'
  BY <1>0 DEF Expire, mine, LocalInv, Called, Matched, Matches, Distance, Excused, Blamed, InCall,
     Unfindable
<1> QED
  BY <1>2, <1>3 DEF IInv

LEMMA DiesKept ==
  ASSUME IInv, Dies
  PROVE  IInv'
<1>0. TypeInv /\ CacheInv /\ \A r \in Requests : LocalInv(r)
  BY DEF IInv
<1>1. TypeInv' /\ CacheInv'
  BY <1>0 DEF Dies, Fault, TypeInv, CacheInv, Steps, store
<1>2. ASSUME NEW r \in Requests
      PROVE  LocalInv(r)'
  <2>1. /\ LocalInv(r) /\ UNCHANGED <<questions, ask, match, answer, failed>>
        /\ pc'[r] = (IF InCall(r) THEN "answered" ELSE pc[r])
        /\ reply'[r] = (IF InCall(r) THEN "lost" ELSE reply[r])
    BY <1>0 DEF Dies, Fault, store
  <2>2. Called(r)' /\ Excused(r)' /\ Blamed(r)'
    BY <2>1, AttemptAssumption DEF LocalInv, Called, Excused, Blamed, InCall, Unfindable
  <2>3. Matched(r)'
    BY <2>1 DEF LocalInv, Called, Matched, MatchedSteps, AnsweredSteps, Matches, Distance, InCall
  <2> QED
    BY <2>2, <2>3 DEF LocalInv
<1> QED
  BY <1>1, <1>2 DEF IInv

LEMMA StutterKept ==
  ASSUME IInv, UNCHANGED vars
  PROVE  IInv'
<1>1. TypeInv' /\ CacheInv'
  BY DEF IInv, vars, store, mine, TypeInv, CacheInv
<1>2. \A r \in Requests : LocalInv(r)'
  BY DEF IInv, vars, store, mine, LocalInv, Called, Matched, Matches, Distance, Excused, Blamed,
     InCall, Unfindable
<1> QED
  BY <1>1, <1>2 DEF IInv

LEMMA StepIInv == IInv /\ [Next]_vars => IInv'
<1> SUFFICES ASSUME IInv, [Next]_vars PROVE IInv'
  OBVIOUS
<1>1. ASSUME NEW r \in Requests, Acts(r)
      PROVE  IInv'
  <2>1. \A q \in Requests \ {r} : LocalInv(q)'
    BY <1>1, OthersKept
  <2>2. LocalInv(r)' /\ TypeInv' /\ CacheInv'
    BY <1>1, ActsKept DEF Kept
  <2> QED
    BY <2>1, <2>2 DEF IInv
<1>2. Next => \/ \E r \in Requests : Acts(r)
              \/ \E t \in Texts : Expire(t)
              \/ Dies
  BY DEF Next, Acts
<1> QED
  BY <1>1, <1>2, ExpireKept, DiesKept, StutterKept

\* The invariant that the theorems rest on holds in every reachable state.
THEOREM IInvHolds == Spec => []IInv
  BY InitiallyIInv, StepIInv, PTL DEF Spec

-----------------------------------------------------------------------------
(* The results *)

\* AnswersItsMatch, for any embeddings and any interleaving: what service.Answer
\* returns is the answer to the question it matched, and its mode allows the match.
THEOREM AnswersItsMatchHolds == Spec => []AnswersItsMatch
<1>1. IInv => AnswersItsMatch
  BY DEF IInv, LocalInv, Matched, AnswersItsMatch
<1> QED
  BY <1>1, IInvHolds, PTL

\* RetriesAbsorbFaults, for any number of attempts of withRetry and of requests
\* that ask the same thing: the insert a request loses costs it one attempt only,
\* and the failing calls of another request cost it none.
THEOREM RetriesAbsorbFaultsHolds == Spec => []RetriesAbsorbFaults
<1>1. IInv => RetriesAbsorbFaults
  BY DEF IInv, LocalInv, Blamed, Unfindable, RetriesAbsorbFaults
<1> QED
  BY <1>1, IInvHolds, PTL

-----------------------------------------------------------------------------
(* The trending counts *)

Begun == {r \in Requests : pc[r] # "new"}
Of(n) == {r \in Requests : pc[r] # "new" /\ Canonical[ask[r].text] = n}
Served(n) == {r \in Of(n) : pc[r] \in {"top", "reply"} \/ reply[r] = "ok"}
Lost(n) == {r \in Of(n) : reply[r] = "lost"}
Upper(n) == Served(n) \cup Lost(n)
Lower(n) == Served(n) \ warned

\* At any time finitely many requests have begun, so that they can be counted.
Bounds(n) == counts[n] <= Cardinality(Upper(n)) /\ Cardinality(Lower(n)) <= counts[n]
CountInv == IsFiniteSet(Begun) /\ \A n \in Names : Bounds(n)

LEMMA InitiallyCountInv == Init => CountInv
<1> SUFFICES ASSUME Init PROVE CountInv
  OBVIOUS
<1>1. Begun = {} /\ \A n \in Names : Upper(n) = {} /\ Lower(n) = {} /\ counts[n] = 0
  BY DEF Init, Begun, Upper, Lower, Served, Lost, Of
<1> QED
  BY <1>1, FS_EmptySet DEF CountInv, Bounds

\* How the bounds of a text follow the step: nothing is counted, or one query
\* of a request that was in neither bound.
Uncounted(n) == counts'[n] = counts[n] /\ Lower(n)' \subseteq Lower(n)
OneMore(n) ==
  /\ counts'[n] = counts[n] + 1
  /\ \E r \in Upper(n)' : r \notin Upper(n) /\ Lower(n)' \subseteq Lower(n) \cup {r}

LEMMA BoundsFollow ==
  ASSUME TypeInv, IsFiniteSet(Begun), IsFiniteSet(Begun)', NEW n \in Names, Bounds(n),
         Upper(n) \subseteq Upper(n)', Uncounted(n) \/ OneMore(n)
  PROVE  Bounds(n)'
<1>1. /\ IsFiniteSet(Upper(n)) /\ IsFiniteSet(Upper(n)') /\ IsFiniteSet(Lower(n))
      /\ counts[n] \in Nat
  <2>1. Upper(n) \subseteq Begun /\ Lower(n) \subseteq Begun /\ Upper(n)' \subseteq Begun'
    BY DEF Upper, Lower, Served, Lost, Of, Begun
  <2> QED
    BY <2>1, FS_Subset DEF TypeInv
<1>2. /\ Cardinality(Upper(n)) \in Nat /\ Cardinality(Upper(n)') \in Nat
      /\ Cardinality(Lower(n)) \in Nat
  BY <1>1, FS_CardinalityType
<1>3. CASE Uncounted(n)
  <2>1. /\ Cardinality(Upper(n)) <= Cardinality(Upper(n)')
        /\ IsFiniteSet(Lower(n)') /\ Cardinality(Lower(n)') <= Cardinality(Lower(n))
    BY <1>1, <1>3, FS_Subset DEF Uncounted
  <2>2. Cardinality(Lower(n)') \in Nat
    BY <2>1, FS_CardinalityType
  <2> QED
    BY <1>1, <1>2, <1>3, <2>1, <2>2 DEF Bounds, Uncounted
<1>4. CASE OneMore(n)
  <2>1. PICK r \in Upper(n)' : r \notin Upper(n) /\ Lower(n)' \subseteq Lower(n) \cup {r}
    BY <1>4 DEF OneMore
  <2>2. /\ IsFiniteSet(Upper(n) \cup {r}) /\ IsFiniteSet(Lower(n) \cup {r})
        /\ Cardinality(Upper(n) \cup {r}) = Cardinality(Upper(n)) + 1
        /\ r \notin Lower(n)
    BY <1>1, <2>1, FS_AddElement DEF Upper, Lower
  <2>3. Cardinality(Lower(n) \cup {r}) = Cardinality(Lower(n)) + 1
    BY <1>1, <2>2, FS_AddElement
  <2>4. Upper(n) \cup {r} \subseteq Upper(n)'
    BY <2>1
  <2>5. /\ Cardinality(Upper(n) \cup {r}) <= Cardinality(Upper(n)')
        /\ IsFiniteSet(Lower(n)') /\ Cardinality(Lower(n)') <= Cardinality(Lower(n) \cup {r})
    BY <1>1, <2>1, <2>2, <2>4, FS_Subset
  <2>6. Cardinality(Lower(n)') \in Nat
    BY <2>5, FS_CardinalityType
  <2> QED
    BY <1>1, <1>2, <1>4, <2>2, <2>3, <2>5, <2>6 DEF Bounds, OneMore
<1> QED
  BY <1>3, <1>4

\* The four shapes of a step of a request that has begun: before its count, at
\* it, after it, and at its end.
Before(r) ==
  /\ pc[r] \notin {"count", "top", "reply"} /\ pc'[r] \notin {"new", "top", "reply"}
  /\ reply'[r] \in {"none", "refused", "error"} /\ counts' = counts /\ warned' = warned
Counting(r) ==
  /\ pc[r] = "count" /\ pc'[r] = "top" /\ reply'[r] = "none"
  /\ \/ counts' = counts /\ warned' = warned \cup {r}
     \/ counts' = Counted(r) /\ warned \subseteq warned'
After(r) ==
  /\ pc[r] = "top" /\ pc'[r] = "reply" /\ reply'[r] = "none"
  /\ counts' = counts /\ warned' = warned
AtEnd(r) ==
  /\ pc[r] = "reply" /\ pc'[r] = "answered" /\ reply'[r] \in {"ok", "lost"}
  /\ counts' = counts /\ warned' = warned
Shape(r) == InCall(r) /\ ask' = ask /\ (Before(r) \/ Counting(r) \/ After(r) \/ AtEnd(r))

LEMMA Shapes ==
  ASSUME IInv, NEW r \in Requests, Step(r) \/ CallFails(r) \/ CallFailsQuietly(r) \/ Unheard(r)
  PROVE  Shape(r)
<1>0. TypeInv /\ Called(r)
  BY DEF IInv, LocalInv
<1> USE DEF Shape, InCall
<1>1. ASSUME AttemptFails(r), UNCHANGED <<counts, warned>>, InCall(r),
             pc[r] \notin {"count", "top", "reply"}
      PROVE  Shape(r)
  <2>1. CASE attempt[r] < MaxAttempts
    BY <1>0, <1>1, <2>1 DEF AttemptFails, Starts, Before, Called, TypeInv
  <2>2. CASE ~(attempt[r] < MaxAttempts)
    BY <1>0, <1>1, <2>2 DEF AttemptFails, Ends, Before, TypeInv
  <2> QED
    BY <2>1, <2>2
<1>2. ASSUME NEW step \in Steps \ {"new", "top", "reply"}, GoesTo(r, step), counts' = counts,
             InCall(r), pc[r] \notin {"count", "top", "reply"}
      PROVE  Shape(r)
  BY <1>0, <1>2 DEF GoesTo, Before, Called, TypeInv
<1>3. CASE CallFails(r)
  BY <1>1, <1>3 DEF CallFails
<1>4. CASE CallFailsQuietly(r)
  <2>1. CASE Quietly(r, "drop", "llm") /\ UNCHANGED <<counts, warned>>
    BY <1>0, <2>1 DEF Quietly, Before, Called, TypeInv
  <2>2. CASE Quietly(r, "save", "count") /\ UNCHANGED <<counts, warned>>
    BY <1>0, <2>2 DEF Quietly, Before, Called, TypeInv
  <2>3. CASE /\ Quietly(r, "count", "top")
             /\ counts' \in {counts, Counted(r)} /\ warned' = warned \cup {r}
    BY <1>0, <2>3 DEF Quietly, Counting, Called, TypeInv
  <2>4. CASE Quietly(r, "top", "reply") /\ UNCHANGED <<counts, warned>>
    BY <1>0, <2>4 DEF Quietly, After, Called, TypeInv
  <2> QED
    BY <1>4, <2>1, <2>2, <2>3, <2>4 DEF CallFailsQuietly
<1>5. CASE Unheard(r) \/ Respond(r)
  BY <1>0, <1>5 DEF Unheard, Respond, Ends, AtEnd, TypeInv, store
<1>6. CASE TopQueries(r)
  BY <1>0, <1>6 DEF TopQueries, GoesTo, After, Called, TypeInv, store
<1>7. CASE IncrementQuery(r)
  BY <1>0, <1>7 DEF IncrementQuery, GoesTo, Counting, Called, TypeInv
<1>8. CASE Refuse(r)
  BY <1>0, <1>8 DEF Refuse, Ends, Before, TypeInv, store
<1>9. CASE Admit(r)
  <2>1. FirstLookup(ask[r].mode) \in Steps \ {"new", "top", "reply"}
    BY <1>0, <1>9 DEF Admit, Called, FirstLookup, Modes, Steps
  <2> QED
    BY <1>2, <1>9, <2>1 DEF Admit, store
<1>10. CASE FindExact(r) \/ FindBySemanticHash(r) \/ FindNearest(r)
  <2>1. \E step \in {"cached", "insert", "similarity"} : GoesTo(r, step) /\ counts' = counts
    BY <1>10 DEF FindExact, FindBySemanticHash, FindNearest, Finds, Misses, store
  <2> QED
    BY <1>2, <1>10, <2>1 DEF FindExact, FindBySemanticHash, FindNearest, Steps
<1>11. CASE GetAnswer(r) \/ DropExpired(r) \/ AskLLM(r) \/ SaveAnswer(r)
  <2>1. \E step \in {"llm", "drop", "count", "save"} : GoesTo(r, step) /\ counts' = counts
    BY <1>11 DEF GetAnswer, DropExpired, AskLLM, SaveAnswer, store
  <2> QED
    BY <1>2, <1>11, <2>1 DEF GetAnswer, DropExpired, AskLLM, SaveAnswer, Steps
<1>12. CASE InsertQuestion(r)
  <2>1. CASE GoesTo(r, "llm") /\ counts' = counts
    BY <1>2, <1>12, <2>1 DEF InsertQuestion, Steps
  <2>2. CASE AttemptFails(r) /\ UNCHANGED <<counts, warned>>
    BY <1>1, <1>12, <2>2 DEF InsertQuestion
  <2> QED
    BY <1>12, <2>1, <2>2 DEF InsertQuestion, store
<1> QED
  BY <1>3, <1>4, <1>5, <1>6, <1>7, <1>8, <1>9, <1>10, <1>11, <1>12 DEF Step

\* What a step of r does to the bounds of a text.
LEMMA ShapeBounds ==
  ASSUME IInv, NEW r \in Requests, Shape(r), \A q \in Requests \ {r} : Same(q), NEW n \in Names
  PROVE  Upper(n) \subseteq Upper(n)' /\ (Uncounted(n) \/ OneMore(n))
<1>0. reply[r] = "none" /\ ask' = ask /\ pc[r] # "new" /\ counts \in [Names -> Nat]
  BY DEF IInv, TypeInv, LocalInv, Called, Shape, InCall
<1>1. \A q \in Requests \ {r} : /\ q \in Served(n) <=> q \in Served(n)'
                                /\ q \in Lost(n) <=> q \in Lost(n)'
  BY <1>0 DEF Served, Lost, Of, Same
<1>2. Upper(n) \subseteq Requests /\ Lower(n)' \subseteq Requests /\ Served(n)' \subseteq Requests
  BY DEF Upper, Lower, Served, Lost, Of
<1>3. CASE Before(r)
  <2>1. r \notin Upper(n) /\ r \notin Served(n)'
    BY <1>0, <1>3 DEF Before, Upper, Served, Lost
  <2> QED
    BY <1>1, <1>2, <1>3, <2>1 DEF Before, Uncounted, Upper, Lower
<1>4. CASE Counting(r)
  <2>1. r \notin Upper(n) /\ (r \in Upper(n)' <=> Canonical[ask[r].text] = n)
    BY <1>0, <1>4 DEF Counting, Upper, Served, Lost, Of
  <2>2. CASE counts' = counts /\ warned' = warned \cup {r}
    BY <1>1, <1>2, <2>1, <2>2 DEF Uncounted, Upper, Lower
  <2>3. CASE counts' = Counted(r) /\ warned \subseteq warned'
    <3>1. CASE Canonical[ask[r].text] = n
      <4>1. counts'[n] = counts[n] + 1
        BY <2>3, <3>1 DEF Counted
      <4>2. Lower(n)' \subseteq Lower(n) \cup {r} /\ Upper(n) \subseteq Upper(n)'
        BY <1>1, <1>2, <2>1, <2>3 DEF Upper, Lower
      <4> QED
        BY <2>1, <3>1, <4>1, <4>2 DEF OneMore
    <3>2. CASE Canonical[ask[r].text] # n
      <4>1. counts'[n] = counts[n]
        BY <2>3, <3>2 DEF Counted
      <4> QED
        BY <1>1, <1>2, <2>1, <2>3, <3>2, <4>1 DEF Uncounted, Upper, Lower
    <3> QED
      BY <3>1, <3>2
  <2> QED
    BY <1>4, <2>2, <2>3 DEF Counting
<1>5. CASE After(r)
  <2>1. (r \in Served(n) <=> r \in Served(n)') /\ (r \in Lost(n) <=> r \in Lost(n)')
    BY <1>0, <1>5 DEF After, Served, Lost, Of
  <2> QED
    BY <1>1, <1>2, <1>5, <2>1 DEF After, Uncounted, Upper, Lower
<1>6. CASE AtEnd(r)
  <2>1. (r \in Upper(n) => r \in Upper(n)') /\ (r \in Served(n)' => r \in Served(n))
    BY <1>0, <1>6 DEF AtEnd, Upper, Served, Lost, Of
  <2> QED
    BY <1>1, <1>2, <1>6, <2>1 DEF AtEnd, Uncounted, Upper, Lower
<1> QED
  BY <1>3, <1>4, <1>5, <1>6 DEF Shape

LEMMA StepCountInv == IInv /\ CountInv /\ [Next]_vars => CountInv'
<1> SUFFICES ASSUME IInv, CountInv, [Next]_vars PROVE CountInv'
  OBVIOUS
<1>0. TypeInv /\ \A r \in Requests : Called(r)
  BY DEF IInv, LocalInv
<1>1. ASSUME IsFiniteSet(Begun)',
             \A n \in Names : Upper(n) \subseteq Upper(n)' /\ (Uncounted(n) \/ OneMore(n))
      PROVE  CountInv'
  BY <1>0, <1>1, BoundsFollow DEF CountInv
<1>2. ASSUME NEW r \in Requests, NEW t \in Texts, NEW mode \in Modes, Begin(r, t, mode)
      PROVE  CountInv'
  <2>1. /\ \A q \in Requests \ {r} : Same(q)
        /\ reply[r] = "none" /\ reply'[r] = "none" /\ pc[r] = "new" /\ pc'[r] = "router"
        /\ counts' = counts /\ warned' = warned
    BY <1>0, <1>2, OthersStay DEF Begin, Starts, Called, TypeInv, store, Acts
  <2>2. Begun' = Begun \cup {r}
    BY <2>1 DEF Begun, Same
  <2>3. IsFiniteSet(Begun)'
    BY <2>2, FS_AddElement DEF CountInv
  <2>4. \A n \in Names : Served(n)' = Served(n) /\ Lost(n)' = Lost(n)
    BY <2>1 DEF Served, Lost, Of, Same
  <2> QED
    BY <1>1, <2>1, <2>3, <2>4 DEF Upper, Lower, Uncounted
<1>3. ASSUME NEW r \in Requests, Step(r) \/ CallFails(r) \/ CallFailsQuietly(r) \/ Unheard(r)
      PROVE  CountInv'
  <2>1. Shape(r) /\ \A q \in Requests \ {r} : Same(q)
    BY <1>3, Shapes, OthersStay DEF Acts
  <2>2. Begun' = Begun
    <3>1. pc[r] # "new" /\ pc'[r] # "new"
      BY <2>1 DEF Shape, InCall, Before, Counting, After, AtEnd
    <3> QED
      BY <2>1, <3>1 DEF Begun, Same
  <2>3. \A n \in Names : Upper(n) \subseteq Upper(n)' /\ (Uncounted(n) \/ OneMore(n))
    BY <2>1, ShapeBounds
  <2> QED
    BY <1>1, <2>2, <2>3 DEF CountInv
<1>4. CASE Dies
  <2>1. /\ counts' = counts /\ warned' = warned /\ ask' = ask
        /\ \A r \in Requests :
             /\ reply'[r] = (IF InCall(r) THEN "lost" ELSE reply[r])
             /\ pc'[r] = (IF InCall(r) THEN "answered" ELSE pc[r])
    BY <1>4 DEF Dies, Fault, store
  <2>2. Begun' = Begun
    BY <2>1 DEF Begun, InCall
  <2>3. \A n \in Names : Upper(n) \subseteq Upper(n)' /\ Served(n)' \subseteq Served(n)
    BY <2>1 DEF Upper, Served, Lost, Of, InCall
  <2> QED
    BY <1>1, <2>1, <2>2, <2>3 DEF CountInv, Uncounted, Lower
<1>5. CASE (\E t \in Texts : Expire(t)) \/ UNCHANGED vars
  <2>1. UNCHANGED <<counts, warned, ask, reply, pc>>
    BY <1>5 DEF Expire, vars, store, mine
  <2>2. Begun' = Begun /\ \A n \in Names : Served(n)' = Served(n) /\ Lost(n)' = Lost(n)
    BY <2>1 DEF Begun, Served, Lost, Of
  <2> QED
    BY <1>1, <2>1, <2>2 DEF CountInv, Upper, Lower, Uncounted
<1> QED
  BY <1>2, <1>3, <1>4, <1>5 DEF Next

\* CountedOnce, for any texts and any number of requests, attempts, retries and
\* faults: IncrementQuery (service.go:202) is reached by at most one attempt of a
\* request, the one that has its answer.
THEOREM CountedOnceHolds == Spec => []CountedOnce
<1>1. CountInv => CountedOnce
  BY DEF CountInv, Bounds, CountedOnce, Upper, Lower, Served, Lost, Of
<1> QED
  BY <1>1, IInvHolds, InitiallyCountInv, StepCountInv, PTL DEF Spec
=============================================================================
