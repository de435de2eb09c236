------------------------------ MODULE FaqAnswers ------------------------------
(***************************************************************************)
(* Smart FAQ over SQLite behind the retry of POST requests and the router: *)
(* the questions, the answer cache and the trending counts, one action per *)
(* call that Answer makes, as interleaved by concurrent requests.          *)
(*                                                                         *)
(* A question is named by its text, which is unique in the table, and an   *)
(* answer by the question the model was asked.  Embeddings are points on a *)
(* line; the distance of two of them and their semantic hashes are         *)
(* constants, so the same text always has the same embedding.  Whether the *)
(* limiter has a token left and the access token of a user still lives is  *)
(* in other modules: here either may refuse any attempt.                   *)
(***************************************************************************)
EXTENDS Integers, FiniteSets, Sequences, SequencesExt

CONSTANTS
  Requests,
  Texts,       \* what users ask, trimmed
  Position,    \* the embedding of a text
  Threshold,   \* faq.similarityThreshold
  Hash,        \* the semantic hash of a text's embedding
  Canonical,   \* the normalized text, None when it has no letter or digit
  None,
  Priors,      \* bound: what an earlier process may have left in the table questions
  MaxAttempts, \* http.retry.maxAttempts
  MaxFaults,   \* bound on failing calls and process deaths
  MaxExpiries  \* bound on cached answers that expire

ASSUME TextAssumption ==
  /\ Position \in [Texts -> Int]
  /\ Hash \in [Texts -> Nat]
  /\ Threshold \in Nat
  /\ None \notin Texts
ASSUME PriorAssumption ==
  \A ids \in Priors : ids \in Seq(Texts) /\ IsInjective(ids)
ASSUME AttemptAssumption == MaxAttempts \in Nat \ {0}
ASSUME BoundAssumption == MaxFaults \in Nat /\ MaxExpiries \in Nat

VARIABLES
  questions,  \* the table questions, in the order of the ids
  cache,      \* faq_answer_cache: [answer, fresh] of a question, or None
  counts,     \* faq_trending_queries, by normalized text
  pc,         \* the next call of a request
  ask,        \* what a request asks: [text, mode]
  attempt,    \* the attempt it is in, 0 before and after
  match,      \* the question it works for
  answer,     \* the answer it has got
  reply,      \* "none", "ok", "refused" (a 4xx), "error" (a 5xx) or "lost"
  failed,     \* history: the attempts of a request that a failing call ended,
  warned,     \* and the requests for which the log says the count failed
  faults, expiries

store == <<questions, cache, counts>>
mine == <<ask, attempt, match, answer, reply, failed, warned>>
vars == <<store, pc, mine, faults, expiries>>

Modes == {"exact", "semantic_hash", "similarity", "hybrid"}
Names == {Canonical[t] : t \in Texts} \ {None}

Init ==
  /\ questions \in Priors
  /\ cache = [t \in Texts |-> None]
  /\ counts = [n \in Names |-> 0]
  /\ pc = [r \in Requests |-> "new"]
  /\ ask = [r \in Requests |-> None]
  /\ attempt = [r \in Requests |-> 0]
  /\ match = [r \in Requests |-> None]
  /\ answer = [r \in Requests |-> None]
  /\ reply = [r \in Requests |-> "none"]
  /\ failed = [r \in Requests |-> 0]
  /\ warned = {}
  /\ faults = 0
  /\ expiries = 0

-----------------------------------------------------------------------------
(* Attempts *)

FirstLookup(mode) == IF mode = "hybrid" THEN "exact" ELSE mode

\* A new request, or a new attempt of one after its backoff, enters the router.
Starts(r, n) ==
  /\ pc' = [pc EXCEPT ![r] = "router"]
  /\ attempt' = [attempt EXCEPT ![r] = n]
  /\ match' = [match EXCEPT ![r] = None]
  /\ answer' = [answer EXCEPT ![r] = None]

Begin(r, t, mode) ==
  /\ pc[r] = "new"
  /\ ask' = [ask EXCEPT ![r] = [text |-> t, mode |-> mode]]
  /\ Starts(r, 1)
  /\ UNCHANGED <<store, reply, failed, warned, faults, expiries>>

Ends(r, code) ==
  /\ pc' = [pc EXCEPT ![r] = "answered"]
  /\ reply' = [reply EXCEPT ![r] = code]
  /\ attempt' = [attempt EXCEPT ![r] = 0]

\* Faulty variant: the last attempt is not made.
GivesUpEarly(r) ==
  IF attempt[r] < MaxAttempts - 1
  THEN Starts(r, attempt[r] + 1) /\ UNCHANGED <<ask, reply>>
  ELSE Ends(r, "error") /\ UNCHANGED <<ask, match, answer>>

\* Every error of Answer is a status of 500 or more.
AttemptFails(r) ==
  IF attempt[r] < MaxAttempts
  THEN Starts(r, attempt[r] + 1) /\ UNCHANGED <<ask, reply>>
  ELSE Ends(r, "error") /\ UNCHANGED <<ask, match, answer>>

-----------------------------------------------------------------------------
(* The steps of Answer *)

GoesTo(r, step) ==
  /\ pc' = [pc EXCEPT ![r] = step]
  /\ UNCHANGED <<ask, attempt, reply, failed, warned, faults, expiries>>

\* Each attempt passes the rate limit and the authentication again.
Admit(r) ==
  /\ pc[r] = "router"
  /\ GoesTo(r, FirstLookup(ask[r].mode))
  /\ UNCHANGED <<store, match, answer>>

\* The bucket of the visitor is empty, or the access token has run out: the
\* answer is 429 or 403, and is not tried again.
Refuse(r) ==
  /\ pc[r] = "router"
  /\ Ends(r, "refused")
  /\ UNCHANGED <<store, ask, match, answer, failed, warned, faults, expiries>>

\* A lookup that found a question, or the next step when it found none.
Finds(r, t) ==
  /\ match' = [match EXCEPT ![r] = t]
  /\ GoesTo(r, "cached")
  /\ UNCHANGED <<store, answer>>

Misses(r, step) ==
  /\ GoesTo(r, step)
  /\ UNCHANGED <<store, match, answer>>

FindExact(r) ==
  LET t == ask[r].text
      Stored == t \in ToSet(questions)
  IN /\ pc[r] = "exact"
     /\ \/ Stored /\ Finds(r, t)
        \/ ~Stored /\ ask[r].mode = "exact" /\ Misses(r, "insert")
        \/ ~Stored /\ ask[r].mode = "hybrid" /\ Misses(r, "similarity")

\* A query returns the first row, by id, of those that qualify.
FirstOf(ids, i) == i \in ids /\ \A j \in ids : i <= j

\* The first question in the same bucket; a hash of 0 is taken for none.
FindBySemanticHash(r) ==
  LET hash == Hash[ask[r].text]
      Bucket == {i \in DOMAIN questions : hash # 0 /\ Hash[questions[i]] = hash}
  IN /\ pc[r] = "semantic_hash"
     /\ \/ \E i \in Bucket : FirstOf(Bucket, i) /\ Finds(r, questions[i])
        \/ Bucket = {} /\ Misses(r, "insert")

Distance(t, u) == IF Position[t] < Position[u] THEN Position[u] - Position[t]
                                               ELSE Position[t] - Position[u]

\* The first of the nearest questions, unless it is too far.
FindNearest(r) ==
  LET Far(i) == Distance(ask[r].text, questions[i])
      Nearest == {i \in DOMAIN questions : \A j \in DOMAIN questions : Far(i) <= Far(j)}
  IN /\ pc[r] = "similarity"
     /\ \/ \E i \in Nearest :
             FirstOf(Nearest, i) /\ Far(i) <= Threshold /\ Finds(r, questions[i])
        \/ (\A i \in Nearest : Far(i) > Threshold) /\ Misses(r, "insert")

GetAnswer(r) ==
  LET row == cache[match[r]]
  IN /\ pc[r] = "cached"
     /\ \/ row = None /\ GoesTo(r, "llm") /\ UNCHANGED answer
        \/ row # None /\ ~row.fresh /\ GoesTo(r, "drop") /\ UNCHANGED answer
        \/ /\ row # None /\ row.fresh
           /\ answer' = [answer EXCEPT ![r] = row.answer]
           /\ GoesTo(r, "count")
     /\ UNCHANGED <<store, match>>

\* The delete names the question only: it removes a fresh answer as well.
Dropped(r) == [cache EXCEPT ![match[r]] = None]
DropExpired(r) ==
  /\ pc[r] = "drop"
  /\ cache' = Dropped(r)
  /\ GoesTo(r, "llm")
  /\ UNCHANGED <<questions, counts, match, answer>>

InsertQuestion(r) ==
  LET t == ask[r].text
  IN /\ pc[r] = "insert"
     /\ \/ /\ t \notin ToSet(questions)
           /\ questions' = Append(questions, t)
           /\ match' = [match EXCEPT ![r] = t]
           /\ GoesTo(r, "llm")
           /\ UNCHANGED <<cache, counts, answer>>
        \/ /\ t \in ToSet(questions)
           /\ AttemptFails(r)
           /\ UNCHANGED <<store, failed, warned, faults, expiries>>

\* Faulty variant: the model is asked what the user asked.
AskLLMAsAsked(r) ==
  /\ pc[r] = "llm"
  /\ answer' = [answer EXCEPT ![r] = ask[r].text]
  /\ GoesTo(r, "save")
  /\ UNCHANGED <<store, match>>

\* The model is asked the question of the table, not the user's.
AskLLM(r) ==
  /\ pc[r] = "llm"
  /\ answer' = [answer EXCEPT ![r] = match[r]]
  /\ GoesTo(r, "save")
  /\ UNCHANGED <<store, match>>

Saved(r) == [cache EXCEPT ![match[r]] = [answer |-> answer[r], fresh |-> TRUE]]

\* The query is counted, unless its normalized text is empty.
Counted(r) ==
  [n \in Names |-> IF n = Canonical[ask[r].text] THEN counts[n] + 1 ELSE counts[n]]

\* Faulty variant: the query is counted with the answer that is saved.
SaveAndCount(r) ==
  /\ pc[r] = "save"
  /\ cache' = Saved(r)
  /\ counts' = Counted(r)
  /\ GoesTo(r, "count")
  /\ UNCHANGED <<questions, match, answer>>

SaveAnswer(r) ==
  /\ pc[r] = "save"
  /\ cache' = Saved(r)
  /\ GoesTo(r, "count")
  /\ UNCHANGED <<questions, counts, match, answer>>

IncrementQuery(r) ==
  /\ pc[r] = "count"
  /\ counts' = Counted(r)
  /\ GoesTo(r, "top")
  /\ UNCHANGED <<questions, cache, match, answer>>

\* The recommendations are read; what they are is in FaqStores.
TopQueries(r) ==
  /\ pc[r] = "top"
  /\ GoesTo(r, "reply")
  /\ UNCHANGED <<store, match, answer>>

Respond(r) ==
  /\ pc[r] = "reply"
  /\ Ends(r, "ok")
  /\ UNCHANGED <<store, ask, match, answer, failed, warned, faults, expiries>>

Step(r) ==
  \/ Admit(r)
  \/ Refuse(r)
  \/ FindExact(r)
  \/ FindBySemanticHash(r)
  \/ FindNearest(r)
  \/ GetAnswer(r)
  \/ DropExpired(r)
  \/ InsertQuestion(r)
  \/ AskLLM(r)
  \/ SaveAnswer(r)
  \/ IncrementQuery(r)
  \/ TopQueries(r)
  \/ Respond(r)

-----------------------------------------------------------------------------
(* Time and failures *)

Expire(t) ==
  /\ expiries < MaxExpiries
  /\ expiries' = expiries + 1
  /\ cache[t] # None /\ cache[t].fresh
  /\ cache' = [cache EXCEPT ![t].fresh = FALSE]
  /\ UNCHANGED <<questions, counts, pc, mine, faults>>

Fault ==
  /\ faults < MaxFaults
  /\ faults' = faults + 1
  /\ UNCHANGED expiries

\* A call fails, and Answer returns the error.  The client may have gone away,
\* which ends the context of the call: what it wrote may be there all the same.
CallFails(r) ==
  /\ Fault
  /\ pc[r] \in {"exact", "semantic_hash", "similarity", "cached", "insert", "llm"}
  /\ failed' = [failed EXCEPT ![r] = @ + 1]
  /\ \/ UNCHANGED questions
     \/ /\ pc[r] = "insert" /\ ask[r].text \notin ToSet(questions)
        /\ questions' = Append(questions, ask[r].text)
  /\ AttemptFails(r)
  /\ UNCHANGED <<cache, counts, warned>>

\* A call fails, its write done or not, and Answer only logs the error.
Quietly(r, step, next) ==
  /\ pc[r] = step
  /\ pc' = [pc EXCEPT ![r] = next]
  /\ UNCHANGED <<questions, ask, attempt, match, answer, reply, failed>>

CallFailsQuietly(r) ==
  /\ Fault
  /\ \/ /\ Quietly(r, "drop", "llm")
        /\ cache' \in {cache, Dropped(r)}
        /\ UNCHANGED <<counts, warned>>
     \/ /\ Quietly(r, "save", "count")
        /\ cache' \in {cache, Saved(r)}
        /\ UNCHANGED <<counts, warned>>
     \/ /\ Quietly(r, "count", "top")
        /\ counts' \in {counts, Counted(r)}
        /\ warned' = warned \cup {r}
        /\ UNCHANGED cache
     \/ /\ Quietly(r, "top", "reply")
        /\ UNCHANGED <<cache, counts, warned>>

\* The client is gone when its answer is written, which nobody is told.
Unheard(r) ==
  /\ Fault
  /\ pc[r] = "reply"
  /\ Ends(r, "lost")
  /\ UNCHANGED <<store, ask, match, answer, failed, warned>>

InCall(r) == pc[r] \notin {"new", "answered"}

\* The process dies with every request in it; the tables stay.
Dies ==
  /\ Fault
  /\ \E r \in Requests : InCall(r)
  /\ pc' = [r \in Requests |-> IF InCall(r) THEN "answered" ELSE pc[r]]
  /\ reply' = [r \in Requests |-> IF InCall(r) THEN "lost" ELSE reply[r]]
  /\ attempt' = [r \in Requests |-> 0]
  /\ UNCHANGED <<store, ask, match, answer, failed, warned>>

Next ==
  \/ \E r \in Requests, t \in Texts, mode \in Modes : Begin(r, t, mode)
  \/ \E r \in Requests : Step(r) \/ CallFails(r) \/ CallFailsQuietly(r) \/ Unheard(r)
  \/ \E t \in Texts : Expire(t)
  \/ Dies

Spec == Init /\ [][Next]_vars

-----------------------------------------------------------------------------
(* Properties *)

\* What a mode may take for the same question.
Matches(mode, t, u) ==
  CASE mode = "exact" -> t = u
    [] mode = "semantic_hash" -> Hash[t] = Hash[u]
    [] OTHER -> Distance(t, u) <= Threshold

\* Whoever gets an answer gets the one to the question that was matched, never
\* one cached for a neighbour of it, and the match is one its mode allows; a
\* user of the exact mode gets an answer to the very question asked.  This holds
\* across modes that share the cache, expiries and failed attempts.  A question
\* at the threshold is a match in the code (service.go:126).
AnswersItsMatch ==
  \A r \in Requests :
    reply[r] = "ok" =>
      /\ answer[r] = match[r]
      /\ Matches(ask[r].mode, ask[r].text, match[r])

\* What docs/faq/faq-spec.md:149-154 says of the similarity mode: a question is
\* a match if it is nearer than the threshold, and else a new one.
MatchIsNearer ==
  \A r \in Requests :
    reply[r] = "ok" /\ ask[r].mode = "similarity" =>
      \/ match[r] = ask[r].text
      \/ Distance(ask[r].text, match[r]) < Threshold

\* A request counts once in the trending list, however many attempts it took,
\* and only if it got as far as an answer: the count of a text is at most the
\* requests for it that were answered, are about to be, or lost their answer to
\* a death or a client gone, and at least those of the first two whose increment
\* did not fail.
CountedOnce ==
  \A n \in Names :
    LET Of == {r \in Requests : pc[r] # "new" /\ Canonical[ask[r].text] = n}
        Served == {r \in Of : pc[r] \in {"top", "reply"} \/ reply[r] = "ok"}
        Lost == {r \in Of : reply[r] = "lost"}
    IN /\ counts[n] <= Cardinality(Served \cup Lost)
       /\ Cardinality(Served \ warned) <= counts[n]

\* Concurrent first askers of one question do not see that they raced: the loser
\* of the insert is retried and then finds the question.  The status of the last
\* attempt is 500 or more only when failing calls ended all the attempts of this
\* very request but the one that was lost like this; or when it asks by hash for
\* a stored question whose hash is 0, which is never found, and so inserts it in
\* vain on every attempt.  What the retry does not hide is a refusal: a later
\* attempt may be answered 429 or 403 where the first one only lost the race.
RetriesAbsorbFaults ==
  \A r \in Requests :
    reply[r] = "error" =>
      \/ failed[r] >= MaxAttempts - 1
      \/ /\ ask[r].mode = "semantic_hash" /\ Hash[ask[r].text] = 0
         /\ ask[r].text \in ToSet(questions)
===============================================================================
