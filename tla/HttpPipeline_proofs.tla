------------------------- MODULE HttpPipeline_proofs -------------------------
(***************************************************************************)
(* Proofs about HttpPipeline, for any requests and workloads, any limits,  *)
(* deadlines and number of attempts.                                       *)
(***************************************************************************)
EXTENDS HttpPipeline, TLAPS

-----------------------------------------------------------------------------
(* What a status tells of the cause of it *)

Tells(e, cause, status) ==
  /\ status \in Nat
  /\ status < 400 <=> cause = "ok"
  /\ status = 429 => cause = "rate_limit_exceeded"
  /\ (status >= 500 /\ e # "google_callback") => cause \notin CallersFault

\* The tables of the routes give each error a service returns there a status that
\* tells whose fault it was, but for the callback of Google.
LEMMA StatusTells ==
  ASSUME NEW e \in Gets \cup Posts, NEW code \in Raised(e) \cup {"ok", "panic"}
  PROVE  Tells(e, code, StatusOf(e, code))
<1> USE DEF Raised, Tells, StatusOf, OkStatus, ErrorStatus, AuthStatus, GoogleStatus, AdviceStatus,
        UploadStatus, UploadAsk, CallersFault, Flaws
<1>1. CASE e = "register"
  BY <1>1
<1>2. CASE e = "login"
  BY <1>2
<1>3. CASE e = "refresh"
  BY <1>3
<1>4. CASE e = "google_login"
  BY <1>4
<1>5. CASE e = "google_callback"
  BY <1>5
<1>6. CASE e = "me"
  BY <1>6
<1>7. CASE e = "logout"
  BY <1>7
<1>8. CASE e \in {"summaries", "stream"}
  BY <1>8
<1>9. CASE e = "uv"
  BY <1>9
<1>10. CASE e = "faq"
  BY <1>10
<1>11. CASE e = "trending"
  BY <1>11
<1>12. CASE e = "upload"
  BY <1>12
<1>13. CASE e = "ask"
  BY <1>13
<1>14. CASE e \in {"documents", "sessions"}
  BY <1>14
<1>15. CASE e \in {"document", "logs"}
  BY <1>15
<1>16. \/ e \in {"register", "login", "refresh", "google_login", "google_callback", "me", "logout"}
       \/ e \in {"summaries", "stream", "uv", "faq", "trending", "upload", "ask"}
       \/ e \in {"documents", "sessions", "document", "logs"}
  BY DEF Gets, Posts, Public
<1>17. CASE e \in {"register", "login", "refresh", "google_login", "google_callback", "me", "logout"}
  BY <1>1, <1>2, <1>3, <1>4, <1>5, <1>6, <1>7, <1>17
<1>18. CASE e \in {"summaries", "stream", "uv", "faq", "trending", "upload", "ask"}
  BY <1>8, <1>9, <1>10, <1>11, <1>12, <1>13, <1>18
<1>19. CASE e \in {"documents", "sessions", "document", "logs"}
  BY <1>14, <1>15, <1>19
<1> QED
  BY <1>16, <1>17, <1>18, <1>19

\* What the middleware objects to is always the fault of the caller.
LEMMA FlawTells ==
  ASSUME NEW e, NEW flaw \in Flaws
  PROVE  Tells(e, flaw, FlawStatus[flaw])
  BY DEF Tells, FlawStatus, Flaws

-----------------------------------------------------------------------------
(* The inductive invariant *)

Causes == (UNION {Raised(e) : e \in Gets \cup Posts}) \cup Flaws
            \cup {"ok", "panic", "rate_limit_exceeded"}

TypeInv ==
  /\ pc \in [Requests -> {"new", "limit", "handler", "backoff", "answered"}]
  /\ call \in [Requests -> Calls]
  /\ attempt \in [Requests -> Nat]
  /\ answer \in [Requests -> Nat \cup {None, Lost}]
  /\ tried \in [Requests -> Seq(Causes)]

\* A request under way has tried every attempt before the present one.
Underway(r) ==
  /\ pc[r] = "new" => attempt[r] = 0 /\ tried[r] = <<>>
  /\ pc[r] \in {"limit", "handler", "backoff"} => attempt[r] # 0 /\ Len(tried[r]) = attempt[r] - 1

\* Every attempt that was followed by another was one of a route that is retried,
\* and failed for a reason that is not the caller's.
Earlier(r) == IF pc[r] = "answered" THEN Len(tried[r]) - 1 ELSE Len(tried[r])
TriedAgain(r) ==
  /\ \A i \in 1..Earlier(r) : tried[r][i] \notin CallersFault \cup {"ok"}
  /\ Earlier(r) > 0 => Retried(call[r].endpoint)

\* An answered request was not tried at all, for its body, or its answer tells of
\* the last attempt.
Told(r) ==
  (pc[r] = "answered" /\ attempt[r] # 0) =>
    \/ tried[r] = <<>> /\ answer[r] \in {400, 413}
    \/ /\ Len(tried[r]) = attempt[r]
       /\ answer[r] # Lost =>
            Tells(call[r].endpoint, tried[r][Len(tried[r])], answer[r])

LocalInv(r) == Underway(r) /\ TriedAgain(r) /\ Told(r)
IInv == TypeInv /\ \A r \in Requests : LocalInv(r)

LEMMA CallIsOne ==
  ASSUME NEW c \in Calls
  PROVE  c.endpoint \in Gets \cup Posts /\ c.visitor \in Visitors
<1>1. PICK e \in Gets \cup Posts, v \in Visitors, t \in 0..MaxNow : c \in CallsTo(e, v, t)
  BY DEF Calls
<1> QED
  BY <1>1 DEF CallsTo

LEMMA InitiallyIInv == Init => IInv
<1> SUFFICES ASSUME Init PROVE IInv
  OBVIOUS
<1>1. TypeInv
  BY WorkloadAssumption DEF Init, TypeInv
<1>2. ASSUME NEW r \in Requests
      PROVE  LocalInv(r)
  BY DEF Init, LocalInv, Underway, TriedAgain, Earlier, Told
<1> QED
  BY <1>1, <1>2 DEF IInv

-----------------------------------------------------------------------------
(* What the steps of one request do *)

LEMMA EndKept ==
  ASSUME IInv, NEW r \in Requests, pc[r] \in {"limit", "handler"}, NEW cause \in Causes, NEW status,
         Tells(call[r].endpoint, cause, status), EndAttempt(r, cause, status)
  PROVE  LocalInv(r)' /\ TypeInv'
<1> DEFINE e == call[r].endpoint
           n == Len(tried[r])
<1>0. /\ TypeInv /\ status \in Nat
      /\ attempt[r] \in Nat /\ n = attempt[r] - 1 /\ tried[r] \in Seq(Causes) /\ n \in Nat
      /\ \A i \in 1..n : tried[r][i] \notin CallersFault \cup {"ok"}
      /\ n > 0 => Retried(e)
  BY DEF IInv, TypeInv, LocalInv, Underway, TriedAgain, Earlier, Tells
<1>1. /\ call' = call /\ tried' = [tried EXCEPT ![r] = Append(@, cause)]
      /\ tried'[r] = Append(tried[r], cause) /\ Len(tried'[r]) = n + 1 /\ tried'[r][n + 1] = cause
      /\ \A i \in 1..n : tried'[r][i] = tried[r][i]
      /\ tried' \in [Requests -> Seq(Causes)]
  BY <1>0 DEF EndAttempt, TypeInv
<1>2. CASE Retried(e) /\ status >= 500 /\ attempt[r] < MaxAttempts
  <2>1. /\ pc' = [pc EXCEPT ![r] = "backoff"]
        /\ attempt' = [attempt EXCEPT ![r] = @ + 1]
        /\ UNCHANGED answer
    BY <1>2 DEF EndAttempt
  <2>2. pc'[r] = "backoff" /\ attempt'[r] = attempt[r] + 1 /\ TypeInv'
    BY <1>0, <1>1, <2>1 DEF TypeInv
  <2>3. cause \notin CallersFault \cup {"ok"}
    <3>1. e # "google_callback"
      BY <1>2 DEF Retried, Posts, Public, Gets
    <3> QED
      BY <1>0, <1>2, <3>1 DEF Tells
  <2>4. Underway(r)' /\ Told(r)'
    BY <1>0, <1>1, <2>2 DEF Underway, Told
  <2>5. TriedAgain(r)'
    <3>1. Earlier(r)' = n + 1
      BY <1>1, <2>2 DEF Earlier
    <3>2. \A i \in 1..(n + 1) : tried'[r][i] \notin CallersFault \cup {"ok"}
      BY <1>0, <1>1, <2>3
    <3>3. Retried(call'[r].endpoint)
      BY <1>1, <1>2
    <3> QED
      BY <3>1, <3>2, <3>3 DEF TriedAgain
  <2> QED
    BY <2>2, <2>4, <2>5 DEF LocalInv
<1>3. CASE ~(Retried(e) /\ status >= 500 /\ attempt[r] < MaxAttempts)
  <2>1. Reply(r, status)
    BY <1>3 DEF EndAttempt
  <2>2. /\ pc'[r] = "answered" /\ attempt' = attempt /\ answer'[r] \in {Lost, status} /\ TypeInv'
    BY <1>0, <1>1, <2>1 DEF Reply, TypeInv
  <2>3. Underway(r)'
    BY <2>2 DEF Underway
  <2>4. TriedAgain(r)'
    <3>1. Earlier(r)' = n
      BY <1>0, <1>1, <2>2 DEF Earlier
    <3> QED
      BY <1>0, <1>1, <3>1 DEF TriedAgain
  <2>5. Told(r)'
    BY <1>0, <1>1, <2>2 DEF Told
  <2> QED
    BY <2>2, <2>3, <2>4, <2>5 DEF LocalInv
<1> QED
  BY <1>2, <1>3

LEMMA ArriveKept ==
  ASSUME IInv, NEW r \in Requests, Arrive(r) \/ Preflight(r) \/ Wake(r)
  PROVE  LocalInv(r)' /\ TypeInv'
<1>0. TypeInv /\ LocalInv(r)
  BY DEF IInv
<1>1. CASE Arrive(r)
  <2>0. FlawStatus["body_broken"] = 400 /\ FlawStatus["body_too_large"] = 413
    BY DEF FlawStatus
  <2>1. /\ UNCHANGED <<call, tried>> /\ attempt' = [attempt EXCEPT ![r] = 1]
        /\ tried[r] = <<>>
        /\ \/ pc' = [pc EXCEPT ![r] = "limit"] /\ answer' = answer
           \/ \E status \in {400, 413} :
                pc' = [pc EXCEPT ![r] = "answered"] /\ answer' = [answer EXCEPT ![r] = status]
    BY <1>0, <1>1, <2>0 DEF Arrive, LocalInv, Underway
  <2>2. attempt' \in [Requests -> Nat] /\ attempt'[r] = 1
    BY <1>0, <2>1 DEF TypeInv
  <2>3. /\ pc' \in [Requests -> {"new", "limit", "handler", "backoff", "answered"}]
        /\ answer' \in [Requests -> Nat \cup {None, Lost}]
        /\ pc'[r] \in {"limit", "answered"}
        /\ pc'[r] = "answered" => answer'[r] \in {400, 413}
    <3>1. CASE pc' = [pc EXCEPT ![r] = "limit"] /\ answer' = answer
      BY <1>0, <3>1 DEF TypeInv
    <3>2. ASSUME NEW status \in {400, 413},
                 pc' = [pc EXCEPT ![r] = "answered"], answer' = [answer EXCEPT ![r] = status]
          PROVE  /\ pc' \in [Requests -> {"new", "limit", "handler", "backoff", "answered"}]
                 /\ answer' \in [Requests -> Nat \cup {None, Lost}]
                 /\ pc'[r] = "answered" /\ answer'[r] \in {400, 413}
      BY <1>0, <3>2 DEF TypeInv
    <3> QED
      BY <2>1, <3>1, <3>2
  <2>4. TypeInv'
    BY <1>0, <2>1, <2>2, <2>3 DEF TypeInv
  <2> QED
    BY <2>1, <2>2, <2>3, <2>4 DEF LocalInv, Underway, TriedAgain, Earlier, Told
<1>2. CASE Preflight(r)
  <2>1. /\ TypeInv' /\ attempt'[r] = 0 /\ tried' = tried /\ tried[r] = <<>> /\ pc'[r] = "answered"
    BY <1>0, <1>2 DEF Preflight, TypeInv, LocalInv, Underway
  <2> QED
    BY <2>1 DEF LocalInv, Underway, TriedAgain, Earlier, Told
<1>3. CASE Wake(r)
  <2>1. /\ TypeInv' /\ UNCHANGED <<call, attempt, tried>> /\ pc[r] = "backoff" /\ pc'[r] = "limit"
    BY <1>0, <1>3 DEF Wake, TypeInv
  <2> QED
    BY <1>0, <2>1 DEF LocalInv, Underway, TriedAgain, Earlier, Told
<1> QED
  BY <1>1, <1>2, <1>3

LEMMA EnterKept ==
  ASSUME IInv, NEW r \in Requests, Enter(r)
  PROVE  LocalInv(r)' /\ TypeInv'
<1>0. TypeInv /\ LocalInv(r) /\ pc[r] = "limit"
  BY DEF IInv, Enter
<1>1. CASE EndAttempt(r, "rate_limit_exceeded", 429)
  <2>1. Tells(call[r].endpoint, "rate_limit_exceeded", 429) /\ "rate_limit_exceeded" \in Causes
    BY DEF Tells, CallersFault, Flaws, Causes
  <2> QED
    BY <1>0, <1>1, <2>1, EndKept
<1>2. CASE pc' = [pc EXCEPT ![r] = "handler"] /\ UNCHANGED <<call, attempt, answer, tried>>
  <2>1. TypeInv' /\ pc'[r] = "handler"
    BY <1>0, <1>2 DEF TypeInv
  <2> QED
    BY <1>0, <1>2, <2>1 DEF LocalInv, Underway, TriedAgain, Earlier, Told
<1> QED
  BY <1>1, <1>2 DEF Enter

LEMMA HandleKept ==
  ASSUME IInv, NEW r \in Requests, Handle(r)
  PROVE  LocalInv(r)' /\ TypeInv'
<1> DEFINE e == call[r].endpoint
<1>0. TypeInv /\ pc[r] = "handler" /\ e \in Gets \cup Posts
  <2>1. TypeInv /\ pc[r] = "handler" /\ call[r] \in Calls
    BY DEF IInv, TypeInv, Handle
  <2> QED
    BY <2>1, CallIsOne
<1>1. ASSUME NEW flaw \in Flaws, EndAttempt(r, flaw, FlawStatus[flaw])
      PROVE  LocalInv(r)' /\ TypeInv'
  <2>1. flaw \in Causes
    BY DEF Causes
  <2> QED
    BY <1>0, <1>1, <2>1, FlawTells, EndKept
<1>2. ASSUME NEW code \in Raised(e) \cup {"ok", "panic"}, EndAttempt(r, code, StatusOf(e, code))
      PROVE  LocalInv(r)' /\ TypeInv'
  <2>1. code \in Causes
    BY <1>0 DEF Causes
  <2> QED
    BY <1>0, <1>2, <2>1, StatusTells, EndKept
<1> QED
  BY <1>1, <1>2 DEF Handle

Acts(r) == Arrive(r) \/ Preflight(r) \/ Enter(r) \/ Handle(r) \/ Wake(r)

LEMMA OthersKept ==
  ASSUME IInv, NEW r \in Requests, Acts(r), NEW q \in Requests \ {r}
  PROVE  LocalInv(q)'
<1>0. TypeInv /\ LocalInv(q)
  BY DEF IInv
<1>1. /\ pc'[q] = pc[q] /\ attempt'[q] = attempt[q] /\ answer'[q] = answer[q]
      /\ tried'[q] = tried[q] /\ call'[q] = call[q]
  <2>1. ASSUME NEW cause, NEW status, EndAttempt(r, cause, status)
        PROVE  /\ pc'[q] = pc[q] /\ attempt'[q] = attempt[q] /\ answer'[q] = answer[q]
               /\ tried'[q] = tried[q] /\ call'[q] = call[q]
    BY <1>0, <2>1 DEF EndAttempt, Reply, TypeInv
  <2> QED
    BY <1>0, <2>1 DEF Acts, Arrive, Preflight, Enter, Handle, Wake, TypeInv
<1> QED
  BY <1>0, <1>1 DEF LocalInv, Underway, TriedAgain, Earlier, Told

LEMMA StepIInv == IInv /\ [Next]_vars => IInv'
<1> SUFFICES ASSUME IInv, [Next]_vars PROVE IInv'
  OBVIOUS
<1>1. ASSUME NEW r \in Requests, Acts(r)
      PROVE  IInv'
  <2>1. \A q \in Requests \ {r} : LocalInv(q)'
    BY <1>1, OthersKept
  <2>2. LocalInv(r)' /\ TypeInv'
    BY <1>1, ArriveKept, EnterKept, HandleKept DEF Acts
  <2> QED
    BY <2>1, <2>2 DEF IInv
<1>2. CASE UNCHANGED request
  BY <1>2 DEF request, IInv, TypeInv, LocalInv, Underway, TriedAgain, Earlier, Told
<1> QED
  BY <1>1, <1>2 DEF Next, Acts, Tick, vars

\* The invariant that the theorems rest on holds in every reachable state.
THEOREM IInvHolds == Spec => []IInv
  BY InitiallyIInv, StepIInv, PTL DEF Spec

-----------------------------------------------------------------------------
(* The results *)

\* CallerErrorsAreFinal, for any workload and any number of attempts: withRetry
\* never repeats what the caller did wrong, what succeeded or what is excluded.
THEOREM CallerErrorsAreFinalHolds == Spec => []CallerErrorsAreFinal
<1>1. IInv => CallerErrorsAreFinal
  <2> SUFFICES ASSUME IInv, NEW r \in Requests
               PROVE  /\ \A i \in 1..Earlier(r) : tried[r][i] \notin CallersFault \cup {"ok"}
                      /\ Earlier(r) > 0 =>
                           call[r].endpoint \in {"logout", "summaries", "uv", "faq", "ask"}
    BY DEF CallerErrorsAreFinal, Earlier
  <2>1. TriedAgain(r)
    BY DEF IInv, LocalInv
  <2> QED
    BY <2>1 DEF TriedAgain, Retried, Posts, Public, Gets, Excluded
<1> QED
  BY <1>1, IInvHolds, PTL

\* AnswersAreTrue, for any workload and any number of attempts: the status that
\* goes out tells how the last attempt ended, and what the earlier ones did.
THEOREM AnswersAreTrueHolds == Spec => []AnswersAreTrue
<1>1. IInv => AnswersAreTrue
  <2> DEFINE causes(r) == ToSet(tried[r])
             done(r) == Len(tried[r]) > 0 /\ Last(tried[r]) = "ok"
  <2> SUFFICES ASSUME IInv, NEW r \in Requests, attempt[r] > 0, pc[r] = "answered", answer[r] # Lost
               PROVE  /\ answer[r] < 400 <=> done(r)
                      /\ answer[r] >= 500 => Len(tried[r]) = attempt[r] /\ "ok" \notin causes(r)
                      /\ answer[r] = 429 => Last(tried[r]) = "rate_limit_exceeded"
                      /\ (answer[r] >= 500 /\ call[r].endpoint # "google_callback") =>
                           causes(r) \cap CallersFault = {}
    BY DEF AnswersAreTrue
  <2> DEFINE n == Len(tried[r])
             e == call[r].endpoint
  <2>0. attempt[r] \in Nat /\ tried[r] \in Seq(Causes) /\ n \in Nat
    BY DEF IInv, TypeInv
  <2>1. CASE tried[r] = <<>> /\ answer[r] \in {400, 413}
    BY <2>1
  <2>2. CASE n = attempt[r] /\ Tells(e, tried[r][n], answer[r])
    <3>1. Last(tried[r]) = tried[r][n] /\ n > 0
      BY <2>0, <2>2 DEF Last
    <3>2. \A i \in 1..(n - 1) : tried[r][i] \notin CallersFault \cup {"ok"}
      BY DEF IInv, LocalInv, TriedAgain, Earlier
    <3>3. \A c \in causes(r) : c = tried[r][n] \/ \E i \in 1..(n - 1) : c = tried[r][i]
      BY <2>0 DEF ToSet
    <3>4. done(r) <=> tried[r][n] = "ok"
      BY <3>1
    <3>5. answer[r] \in Nat
      BY <2>2 DEF Tells
    <3>6. answer[r] >= 500 => tried[r][n] # "ok"
      BY <2>2, <3>5 DEF Tells
    <3>7. (answer[r] >= 500 /\ e # "google_callback") => tried[r][n] \notin CallersFault
      BY <2>2 DEF Tells
    <3> HIDE DEF n, done, causes, e
    <3>8. answer[r] >= 500 => "ok" \notin causes(r)
      BY <3>2, <3>3, <3>6
    <3>9. (answer[r] >= 500 /\ e # "google_callback") => causes(r) \cap CallersFault = {}
      BY <3>2, <3>3, <3>7
    <3> QED
      BY <2>2, <3>1, <3>4, <3>8, <3>9 DEF Tells, n, e
  <2> QED
    BY <2>0, <2>1, <2>2 DEF IInv, LocalInv, Told
<1> QED
  BY <1>1, IInvHolds, PTL

-----------------------------------------------------------------------------
(* The rate limiter *)

Full == Burst * Cost

LEMMA FullIsNat == Full \in Nat /\ Cost \in Nat /\ Rate \in Nat
  BY LimitAssumption DEF Full

LEMMA MinOfTwo ==
  ASSUME NEW a \in Int, NEW b \in Int
  PROVE  Min({a, b}) = IF a <= b THEN a ELSE b
<1> DEFINE m == IF a <= b THEN a ELSE b
<1>1. m \in {a, b} /\ \A y \in {a, b} : m <= y
  OBVIOUS
<1>2. \A x \in {a, b} : (\A y \in {a, b} : x <= y) => x = m
  OBVIOUS
<1> QED
  BY <1>1, <1>2 DEF Min

\* What n ticks give back.
Back(n) == n * Rate

LEMMA BackGrows ==
  /\ \A n \in Nat : Back(n) \in Nat
  /\ \A n \in Int : Back(n) \in Int /\ Back(n + 1) = Back(n) + Rate
  /\ Back(0) = 0
  /\ \A m, n \in Nat : m <= n => Back(m) <= Back(n)
<1>1. \A n \in Int : Back(n) \in Int /\ Back(n + 1) = Back(n) + Rate
  BY LimitAssumption DEF Back
<1>2. /\ Back(0) = 0
      /\ \A n \in Nat : Back(n) \in Nat
  <2>1. Back(0) = 0
    BY LimitAssumption DEF Back
  <2>2. ASSUME NEW n \in Nat
        PROVE  Back(n) \in Nat
    <3>1. Rate \in Nat
      BY LimitAssumption
    <3> QED
      BY <3>1 DEF Back
  <2> QED
    BY <2>1, <2>2
<1>3. ASSUME NEW m \in Nat, NEW n \in Nat, m <= n
      PROVE  Back(m) <= Back(n)
  <2>1. n - m \in Nat /\ n * Rate = m * Rate + (n - m) * Rate
    BY <1>3, LimitAssumption
  <2>2. (n - m) * Rate \in Nat
    BY <2>1, LimitAssumption
  <2> QED
    BY <2>1, <2>2, LimitAssumption DEF Back
<1> QED
  BY <1>1, <1>2, <1>3

LimitTypeInv ==
  /\ now \in 0..MaxNow
  /\ DOMAIN buckets \subseteq Visitors
  /\ \A v \in DOMAIN buckets : buckets[v].tokens \in 0..Full /\ buckets[v].seen \in 0..now
  /\ admitted \in [Visitors -> [0..MaxNow -> Nat]]
  /\ refused \in [Visitors -> [0..MaxNow -> Nat]]

\* What is left of the allowance of the span from s to t.
Left(v, s, t) == Allowed(s, t) - Cost * Admitted(v, s, t)

\* The level of a bucket is the least that is left of any span until now.
LevelOf(v) ==
  /\ Refilled(v) \in 0..Full
  /\ \A s \in 0..now : Refilled(v) <= Left(v, s, now)
  /\ \E s \in 0..now : Refilled(v) = Left(v, s, now)
  /\ \A t \in now..MaxNow :
       admitted[v][t] = admitted[v][now] /\ (t # now => refused[v][t] = 0)

\* No span that has ended was exceeded, and each refusal was due to one.
PastOf(v) ==
  \A t \in 0..now :
    /\ \A s \in 0..t : Left(v, s, t) >= 0
    /\ refused[v][t] > 0 => \E s \in 0..t : Left(v, s, t) < Cost

LimiterInv == LimitTypeInv /\ \A v \in Visitors : LevelOf(v) /\ PastOf(v)

LEMMA LeftIsInt ==
  ASSUME LimitTypeInv, NEW v \in Visitors, NEW t \in 0..MaxNow, NEW s \in 0..t
  PROVE  /\ Admitted(v, s, t) \in Int /\ Cost * Admitted(v, s, t) \in Int
         /\ Allowed(s, t) = Full + Back(t - s) /\ Allowed(s, t) \in Int
         /\ Left(v, s, t) = Full + Back(t - s) - Cost * Admitted(v, s, t) /\ Left(v, s, t) \in Int
<1>0. t \in Nat /\ s \in Nat /\ t - s \in Nat /\ (s # 0 => s - 1 \in 0..MaxNow)
  BY ClockAssumption
<1>1. Admitted(v, s, t) \in Int
  <2>1. \A u \in 0..MaxNow : admitted[v][u] \in Nat
    BY DEF LimitTypeInv
  <2>2. (IF s = 0 THEN 0 ELSE admitted[v][s - 1]) \in Nat /\ admitted[v][t] \in Nat
    BY <1>0, <2>1
  <2> QED
    BY <2>2 DEF Admitted
<1>2. Cost * Admitted(v, s, t) \in Int
  BY <1>1, LimitAssumption
<1>3. Back(t - s) = Rate * (t - s) /\ Back(t - s) \in Int
  BY <1>0, LimitAssumption DEF Back
<1> QED
  BY <1>1, <1>2, <1>3, FullIsNat DEF Allowed, Left, Full

LEMMA InitiallyLimiterInv == Init => LimiterInv
<1> SUFFICES ASSUME Init PROVE LimiterInv
  OBVIOUS
<1>1. LimitTypeInv
  BY ClockAssumption DEF Init, LimitTypeInv
<1>2. now = 0 /\ 0 \in 0..MaxNow /\ 0..now = {0}
  BY ClockAssumption DEF Init
<1>3. ASSUME NEW v \in Visitors
      PROVE  LevelOf(v) /\ PastOf(v)
  <2>1. \A t \in 0..MaxNow : admitted[v][t] = 0 /\ refused[v][t] = 0
    BY DEF Init
  <2>2. Refilled(v) = Full
    BY DEF Init, Refilled, Full
  <2>3. Left(v, 0, 0) = Full
    <3>1. Admitted(v, 0, 0) = 0
      BY <1>2, <2>1 DEF Admitted
    <3>2. Left(v, 0, 0) = Full + Back(0 - 0) - Cost * Admitted(v, 0, 0)
      BY <1>1, <1>2, LeftIsInt
    <3> QED
      BY <3>1, <3>2, FullIsNat, BackGrows
  <2> QED
    BY <1>2, <2>1, <2>2, <2>3, FullIsNat DEF LevelOf, PastOf
<1> QED
  BY <1>1, <1>3 DEF LimiterInv

\* What a visitor finds in its bucket.
LEMMA RefillOf ==
  ASSUME NEW held \in 0..Full, NEW n \in Nat
  PROVE  /\ held + Back(n) \in Nat
         /\ Min({Burst * Cost, held + n * Rate}) =
              IF Full <= held + Back(n) THEN Full ELSE held + Back(n)
<1>1. held \in Nat /\ held + Back(n) \in Nat /\ n * Rate = Back(n)
  BY FullIsNat, BackGrows DEF Back
<1> QED
  BY <1>1, FullIsNat, MinOfTwo DEF Full

\* A step in one tick that lets nobody through and leaves the level of w.
LEMMA SteadyKept ==
  ASSUME LimiterInv, LimitTypeInv', now' = now, NEW w \in Visitors,
         admitted'[w] = admitted[w], Refilled(w)' = Refilled(w),
         \A t \in 0..MaxNow :
           refused'[w][t] = refused[w][t] \/ (t = now /\ Refilled(w) < Cost)
  PROVE  LevelOf(w)' /\ PastOf(w)'
<1>0. /\ LimitTypeInv /\ LevelOf(w) /\ PastOf(w)
      /\ now \in 0..MaxNow /\ MaxNow \in Nat /\ Cost \in Nat
  BY FullIsNat, ClockAssumption DEF LimiterInv, LimitTypeInv
<1>1. \A s, t : Left(w, s, t)' = Left(w, s, t)
  BY DEF Left, Admitted, Allowed
<1>2. LevelOf(w)'
  BY <1>0, <1>1 DEF LevelOf
<1>3. Refilled(w) < Cost => \E s \in 0..now : Left(w, s, now) < Cost
  BY <1>0 DEF LevelOf
<1> QED
  BY <1>0, <1>1, <1>2, <1>3 DEF PastOf

\* A step that lets an attempt of v through, for its price.
LEMMA AdmitKept ==
  ASSUME LimiterInv, LimitTypeInv', now' = now, NEW v \in Visitors,
         admitted'[v] = [t \in 0..MaxNow |-> IF t < now THEN admitted[v][t] ELSE admitted[v][t] + 1],
         Refilled(v) >= Cost, Refilled(v)' = Refilled(v) - Cost, refused'[v] = refused[v]
  PROVE  LevelOf(v)' /\ PastOf(v)'
<1>0. LimitTypeInv /\ LevelOf(v) /\ PastOf(v) /\ now \in 0..MaxNow /\ now \in Nat /\ MaxNow \in Nat
  <2>1. LimitTypeInv /\ LevelOf(v) /\ PastOf(v)
    BY DEF LimiterInv
  <2>2. now \in 0..MaxNow /\ MaxNow \in Nat
    BY <2>1, ClockAssumption DEF LimitTypeInv
  <2> QED
    BY <2>1, <2>2
<1>1. ASSUME NEW t \in 0..now, NEW s \in 0..t, t < now
      PROVE  Left(v, s, t)' = Left(v, s, t)
  <2>1. s # 0 => s - 1 \in 0..MaxNow /\ s - 1 < now
    BY <1>0, <1>1
  <2>2. admitted'[v][t] = admitted[v][t] /\ (s # 0 => admitted'[v][s - 1] = admitted[v][s - 1])
    BY <1>0, <1>1, <2>1
  <2>3. Admitted(v, s, t)' = Admitted(v, s, t)
    BY <2>2 DEF Admitted
  <2> QED
    BY <2>3 DEF Left, Allowed
<1>2. ASSUME NEW s \in 0..now
      PROVE  Left(v, s, now)' = Left(v, s, now) - Cost /\ Left(v, s, now) \in Int
  <2>1. s # 0 => s - 1 \in 0..MaxNow /\ s - 1 < now
    BY <1>0
  <2>2. /\ admitted'[v][now] = admitted[v][now] + 1 /\ admitted[v][now] \in Nat
        /\ s # 0 => admitted'[v][s - 1] = admitted[v][s - 1] /\ admitted[v][s - 1] \in Nat
    <3>1. \A u \in 0..MaxNow : admitted[v][u] \in Nat
      BY <1>0 DEF LimitTypeInv
    <3> QED
      BY <1>0, <2>1, <3>1
  <2>3. Admitted(v, s, now)' = Admitted(v, s, now) + 1
    BY <2>2 DEF Admitted
  <2>4. /\ Admitted(v, s, now) \in Int /\ Cost * Admitted(v, s, now) \in Int
        /\ Allowed(s, now) \in Int /\ Left(v, s, now) \in Int
    BY <1>0, LeftIsInt
  <2>5. \A a \in Int : Cost * (a + 1) = Cost * a + Cost
    BY LimitAssumption
  <2> QED
    BY <2>3, <2>4, <2>5, FullIsNat DEF Left, Allowed
<1>3. LevelOf(v)'
  <2>1. Refilled(v)' \in 0..Full /\ Refilled(v) \in Int
    BY <1>0, FullIsNat DEF LevelOf
  <2>2. \A s \in 0..now : Refilled(v)' <= Left(v, s, now)'
    BY <1>0, <1>2, <2>1, FullIsNat DEF LevelOf
  <2>3. \E s \in 0..now : Refilled(v)' = Left(v, s, now)'
    BY <1>0, <1>2 DEF LevelOf
  <2>4. \A t \in now..MaxNow :
          admitted'[v][t] = admitted'[v][now] /\ (t # now => refused'[v][t] = 0)
    BY <1>0 DEF LevelOf
  <2> QED
    BY <2>1, <2>2, <2>3, <2>4 DEF LevelOf
<1>4. ASSUME NEW t \in 0..now
      PROVE  /\ \A s \in 0..t : Left(v, s, t)' >= 0
             /\ refused'[v][t] > 0 => \E s \in 0..t : Left(v, s, t)' < Cost
  <2>1. CASE t < now
    BY <1>0, <1>1, <2>1 DEF PastOf
  <2>2. CASE t = now
    <3>1. ASSUME NEW s \in 0..now
          PROVE  Left(v, s, now)' >= 0
      <4>1. PICK level, left : level = Refilled(v) /\ left = Left(v, s, now)
        OBVIOUS
      <4>2. level \in Int /\ level <= left
        BY <1>0, <4>1, FullIsNat DEF LevelOf
      <4>3. Left(v, s, now)' = left - Cost /\ left \in Int
        BY <1>2, <4>1
      <4> QED
        BY <4>1, <4>2, <4>3, FullIsNat
    <3>2. refused[v][now] > 0 => \E s \in 0..now : Left(v, s, now) < Cost
      BY <1>0, <2>2 DEF PastOf
    <3> QED
      BY <1>2, <2>2, <3>1, <3>2, FullIsNat
  <2> QED
    BY <1>0, <2>1, <2>2
<1> QED
  BY <1>3, <1>4 DEF PastOf

LEMMA TickKept ==
  ASSUME LimiterInv, Tick
  PROVE  LimiterInv'
<1>0. /\ LimitTypeInv /\ now \in Nat /\ MaxNow \in Nat /\ now < MaxNow /\ now' = now + 1
      /\ UNCHANGED <<buckets, admitted, refused>>
  BY ClockAssumption DEF LimiterInv, LimitTypeInv, Tick
<1>1. LimitTypeInv'
  BY <1>0 DEF LimitTypeInv
<1>2. \A v, s, t : Left(v, s, t)' = Left(v, s, t)
  BY <1>0 DEF Left, Allowed, Admitted
<1>3. ASSUME NEW v \in Visitors
      PROVE  LevelOf(v)' /\ PastOf(v)'
  <2>0. LevelOf(v) /\ PastOf(v) /\ \A t \in 0..MaxNow : admitted[v][t] \in Nat
    BY <1>0 DEF LimiterInv, LimitTypeInv
  <2>1. Refilled(v)' = IF Full <= Refilled(v) + Rate THEN Full ELSE Refilled(v) + Rate
    <3>1. CASE v \notin DOMAIN buckets
      BY <1>0, <3>1, FullIsNat DEF Refilled, Full
    <3>2. CASE v \in DOMAIN buckets
      <4> DEFINE held == buckets[v].tokens
                 n == now - buckets[v].seen
      <4>1. held \in 0..Full /\ n \in Nat /\ n + 1 \in Nat /\ now' - buckets[v].seen = n + 1
        <5>1. held \in 0..Full /\ buckets[v].seen \in 0..now
          BY <1>0, <3>2 DEF LimitTypeInv
        <5>2. \A seen \in 0..now : now - seen \in Nat /\ (now + 1) - seen = (now - seen) + 1
          BY <1>0
        <5> QED
          BY <1>0, <5>1, <5>2
      <4>2. Refilled(v) = Min({Burst * Cost, held + n * Rate})
        BY <3>2 DEF Refilled
      <4>3. Refilled(v)' = Min({Burst * Cost, held + (n + 1) * Rate})
        <5>1. v \in DOMAIN buckets' /\ buckets' = buckets
          BY <1>0, <3>2
        <5>2. Refilled(v)' = Min({Burst * Cost, buckets[v].tokens + (now' - buckets[v].seen) * Rate})
          BY <5>1 DEF Refilled
        <5>3. (now' - buckets[v].seen) * Rate = (n + 1) * Rate
          BY <4>1
        <5> HIDE DEF n
        <5> QED
          BY <5>2, <5>3
      <4> HIDE DEF held, n
      <4>4. Back(n + 1) = Back(n) + Rate /\ held + Back(n) \in Nat
        <5>1. Back(n + 1) = Back(n) + Rate
          BY <4>1, BackGrows
        <5>2. held + Back(n) \in Nat
          BY <4>1, RefillOf
        <5> QED
          BY <5>1, <5>2
      <4>5. /\ Refilled(v) = (IF Full <= held + Back(n) THEN Full ELSE held + Back(n))
            /\ Refilled(v)' = (IF Full <= held + Back(n + 1) THEN Full ELSE held + Back(n + 1))
        BY <4>1, <4>2, <4>3, RefillOf
      <4>6. held \in Nat /\ Back(n) \in Int
        BY <4>1, FullIsNat, BackGrows
      <4> QED
        BY <4>4, <4>5, <4>6, FullIsNat
    <3> QED
      BY <3>1, <3>2
  <2>2. Refilled(v) \in 0..Full /\ Refilled(v)' \in 0..Full
    BY <2>0, <2>1, FullIsNat DEF LevelOf
  <2>3. ASSUME NEW s \in 0..now
        PROVE  Left(v, s, now + 1) = Left(v, s, now) + Rate /\ Left(v, s, now) \in Int
    <3>1. Admitted(v, s, now + 1) = Admitted(v, s, now)
      BY <1>0, <2>0 DEF LevelOf, Admitted
    <3>2. Left(v, s, now) = Full + Back(now - s) - Cost * Admitted(v, s, now)
      BY <1>0, LeftIsInt
    <3>3. now + 1 \in 0..MaxNow /\ s \in 0..(now + 1) /\ now \in 0..MaxNow
      BY <1>0
    <3>4. Left(v, s, now + 1) = Full + Back((now + 1) - s) - Cost * Admitted(v, s, now)
      BY <1>0, <3>1, <3>3, LeftIsInt
    <3>5. (now + 1) - s = (now - s) + 1 /\ now - s \in Int
      BY <1>0
    <3>6. Back((now + 1) - s) = Back(now - s) + Rate /\ Back(now - s) \in Int
      BY <3>5, BackGrows
    <3>7. Cost * Admitted(v, s, now) \in Int
      BY <1>0, <3>3, LeftIsInt
    <3> QED
      BY <3>2, <3>4, <3>6, <3>7, FullIsNat
  <2>4. Left(v, now + 1, now + 1) = Full
    <3>1. Admitted(v, now + 1, now + 1) = 0
      BY <1>0, <2>0 DEF LevelOf, Admitted
    <3>2. now + 1 \in 0..MaxNow /\ now + 1 \in 0..(now + 1) /\ (now + 1) - (now + 1) = 0
      BY <1>0
    <3>3. Left(v, now + 1, now + 1) = Full + Back(0) - Cost * Admitted(v, now + 1, now + 1)
      BY <1>0, <3>2, LeftIsInt
    <3> QED
      BY <3>1, <3>3, FullIsNat, BackGrows
  <2>5. \A s \in 0..(now + 1) : Refilled(v)' <= Left(v, s, now + 1)
    <3>1. ASSUME NEW s \in 0..now
          PROVE  Refilled(v)' <= Left(v, s, now + 1)
      BY <2>0, <2>1, <2>2, <2>3, FullIsNat DEF LevelOf
    <3>2. \A s \in 0..(now + 1) : s \in 0..now \/ s = now + 1
      BY <1>0
    <3> QED
      BY <2>2, <2>4, <3>1, <3>2, FullIsNat
  <2>6. \E s \in 0..(now + 1) : Refilled(v)' = Left(v, s, now + 1)
    <3>1. CASE Refilled(v)' = Full
      BY <1>0, <2>4, <3>1
    <3>2. CASE Refilled(v)' = Refilled(v) + Rate
      <4>1. PICK s \in 0..now : Refilled(v) = Left(v, s, now)
        BY <2>0 DEF LevelOf
      <4>2. s \in 0..(now + 1)
        BY <1>0
      <4> QED
        BY <2>3, <3>2, <4>1, <4>2
    <3> QED
      BY <2>1, <3>1, <3>2
  <2>7. /\ refused[v][now + 1] = 0
        /\ \A t \in (now + 1)..MaxNow :
             admitted[v][t] = admitted[v][now + 1] /\ (t # now + 1 => refused[v][t] = 0)
    <3>1. now + 1 \in now..MaxNow /\ \A t \in (now + 1)..MaxNow : t \in now..MaxNow
      BY <1>0
    <3> QED
      BY <2>0, <3>1 DEF LevelOf
  <2>8. LevelOf(v)'
    BY <1>0, <1>2, <2>2, <2>5, <2>6, <2>7 DEF LevelOf
  <2>9. PastOf(v)'
    <3>1. \A s \in 0..(now + 1) : Left(v, s, now + 1) >= 0
      <4>1. ASSUME NEW s \in 0..(now + 1)
            PROVE  Left(v, s, now + 1) >= 0
        <5>1. now + 1 \in 0..MaxNow
          BY <1>0
        <5>2. Left(v, s, now + 1) \in Int
          BY <1>0, <5>1, LeftIsInt
        <5> QED
          BY <2>2, <2>5, <5>2, FullIsNat
      <4> QED
        BY <4>1
    <3>2. \A t \in 0..(now + 1) : t \in 0..now \/ t = now + 1
      BY <1>0
    <3> QED
      BY <1>0, <1>2, <2>0, <2>7, <3>1, <3>2 DEF PastOf
  <2> QED
    BY <2>8, <2>9
<1> QED
  BY <1>1, <1>3 DEF LimiterInv

\* Idle buckets are kept until they are full again.
TtlIsEnough == Ttl * Rate >= Full

\* The visitor who asks has its level less what it pays; the others keep theirs,
\* also when their buckets are dropped.
LEMMA BucketsAfter ==
  ASSUME LimitTypeInv, TtlIsEnough, NEW v \in Visitors, NEW tokens \in 0..Full,
         buckets' = Cleaned(Asked(v, tokens)), now' = now
  PROVE  /\ DOMAIN buckets' \subseteq Visitors
         /\ \A w \in DOMAIN buckets' : buckets'[w].tokens \in 0..Full /\ buckets'[w].seen \in 0..now
         /\ Refilled(v)' = tokens
         /\ \A w \in Visitors \ {v} : Refilled(w)' = Refilled(w)
<1> DEFINE filled == Asked(v, tokens)
<1>0. now \in Nat /\ Ttl \in Nat /\ now - now = 0 /\ tokens \in Nat
  BY ClockAssumption, FullIsNat DEF LimitTypeInv
<1>1. /\ DOMAIN filled = DOMAIN buckets \cup {v} /\ filled[v] = [tokens |-> tokens, seen |-> now]
      /\ \A w \in DOMAIN buckets \ {v} : filled[w] = buckets[w]
  BY DEF Asked
<1>2. /\ DOMAIN buckets' = {w \in DOMAIN filled : now - filled[w].seen <= Ttl}
      /\ \A w \in DOMAIN buckets' : buckets'[w] = filled[w]
  BY DEF Cleaned
<1> HIDE DEF filled
<1>3. DOMAIN buckets' \subseteq Visitors
  BY <1>1, <1>2 DEF LimitTypeInv
<1>4. \A w \in DOMAIN buckets' : buckets'[w].tokens \in 0..Full /\ buckets'[w].seen \in 0..now
  BY <1>0, <1>1, <1>2 DEF LimitTypeInv
<1>5. Refilled(v)' = tokens
  <2>1. v \in DOMAIN buckets' /\ buckets'[v] = [tokens |-> tokens, seen |-> now]
    BY <1>0, <1>1, <1>2
  <2>2. Refilled(v)' = Min({Burst * Cost, tokens + (now - now) * Rate})
    BY <2>1 DEF Refilled
  <2>3. Refilled(v)' = IF Full <= tokens + Back(0) THEN Full ELSE tokens + Back(0)
    BY <1>0, <2>2, RefillOf
  <2> QED
    BY <1>0, <2>3, BackGrows, FullIsNat
<1>6. ASSUME NEW w \in Visitors \ {v}
      PROVE  Refilled(w)' = Refilled(w)
  <2>1. CASE w \notin DOMAIN buckets
    BY <1>1, <1>2, <2>1 DEF Refilled
  <2>2. CASE w \in DOMAIN buckets'
    BY <1>1, <1>2, <2>2 DEF Refilled
  <2>3. CASE w \in DOMAIN buckets \ DOMAIN buckets'
    <3> DEFINE held == buckets[w].tokens
               n == now - buckets[w].seen
    <3>1. held \in 0..Full /\ buckets[w].seen \in 0..now
      BY <2>3 DEF LimitTypeInv
    <3>2. n \in Nat
      BY <1>0, <3>1
    <3>3. n > Ttl
      BY <1>0, <1>1, <1>2, <2>3, <3>2
    <3>4. Refilled(w) = Min({Burst * Cost, held + n * Rate})
      BY <2>3 DEF Refilled
    <3>5. Refilled(w)' = Full
      BY <2>3 DEF Refilled, Full
    <3> HIDE DEF held, n
    <3>6. Full <= Back(Ttl) /\ Back(Ttl) <= Back(n) /\ Back(n) \in Nat /\ Back(Ttl) \in Nat
      <4>1. Full <= Back(Ttl)
        <5>1. Back(Ttl) \in Nat /\ Back(Ttl) >= Full
          BY ClockAssumption, BackGrows DEF TtlIsEnough, Back
        <5> QED
          BY <5>1, FullIsNat
      <4>2. Ttl \in Nat /\ Ttl <= n
        BY <3>2, <3>3, ClockAssumption
      <4> QED
        BY <3>2, <4>1, <4>2, BackGrows
    <3>7. Full <= held + Back(n)
      BY <3>1, <3>6, FullIsNat
    <3> QED
      BY <3>1, <3>2, <3>4, <3>5, <3>7, RefillOf
  <2> QED
    BY <1>1, <1>2, <2>1, <2>2, <2>3
<1> QED
  BY <1>3, <1>4, <1>5, <1>6

LEMMA EnterLimited ==
  ASSUME IInv, LimiterInv, TtlIsEnough, NEW r \in Requests, Enter(r)
  PROVE  LimiterInv'
<1>v. PICK v \in Visitors : v = call[r].visitor
  BY CallIsOne DEF IInv, TypeInv
<1>t. PICK tokens \in 0..Full : tokens = Refilled(v)
  BY DEF LimiterInv, LevelOf
<1>0. now' = now /\ now \in 0..MaxNow /\ LimitTypeInv /\ Cost \in Nat
  BY FullIsNat DEF Enter, LimiterInv, LimitTypeInv
<1>1. CASE /\ tokens < Cost
           /\ buckets' = Cleaned(Asked(v, tokens))
           /\ refused' = [refused EXCEPT ![v][now] = @ + 1]
           /\ admitted' = admitted
  <2>1. /\ LimitTypeInv'
        /\ \A w \in Visitors : Refilled(w)' = Refilled(w)
    <3>1. refused' \in [Visitors -> [0..MaxNow -> Nat]]
      <4>1. refused[v] \in [0..MaxNow -> Nat]
        BY <1>0 DEF LimitTypeInv
      <4>2. [refused[v] EXCEPT ![now] = @ + 1] \in [0..MaxNow -> Nat]
        <5>1. ASSUME NEW f \in [0..MaxNow -> Nat], NEW n \in 0..MaxNow
              PROVE  [f EXCEPT ![n] = @ + 1] \in [0..MaxNow -> Nat]
          OBVIOUS
        <5> QED
          BY <1>0, <4>1, <5>1
      <4> QED
        BY <1>0, <1>1, <4>2 DEF LimitTypeInv
    <3>2. /\ DOMAIN buckets' \subseteq Visitors
          /\ \A w \in DOMAIN buckets' :
               buckets'[w].tokens \in 0..Full /\ buckets'[w].seen \in 0..now
          /\ Refilled(v)' = tokens
          /\ \A w \in Visitors \ {v} : Refilled(w)' = Refilled(w)
      BY <1>0, <1>1, BucketsAfter
    <3> QED
      BY <1>0, <1>1, <1>t, <3>1, <3>2 DEF LimitTypeInv
  <2>2. \A t \in 0..MaxNow : refused'[v][t] = refused[v][t] \/ t = now
    BY <1>0, <1>1 DEF LimitTypeInv
  <2>3. \A w \in Visitors \ {v} : refused'[w] = refused[w]
    BY <1>0, <1>1 DEF LimitTypeInv
  <2>4. ASSUME NEW w \in Visitors
        PROVE  LevelOf(w)' /\ PastOf(w)'
    <3>1. admitted'[w] = admitted[w] /\ Refilled(w)' = Refilled(w)
      BY <1>1, <2>1
    <3>2. \A t \in 0..MaxNow :
            refused'[w][t] = refused[w][t] \/ (t = now /\ Refilled(w) < Cost)
      BY <1>1, <1>t, <2>2, <2>3
    <3> QED
      BY <1>0, <2>1, <3>1, <3>2, SteadyKept
  <2> QED
    BY <2>1, <2>4 DEF LimiterInv
<1>2. CASE /\ ~(tokens < Cost)
           /\ buckets' = Cleaned(Asked(v, tokens - Cost))
           /\ admitted' = [admitted EXCEPT ![v] =
                [t \in 0..MaxNow |-> IF t < now THEN @[t] ELSE @[t] + 1]]
           /\ refused' = refused
  <2>1. tokens - Cost \in 0..Full /\ tokens >= Cost
    BY <1>0, <1>2, FullIsNat
  <2>2. /\ admitted'[v] =
             [t \in 0..MaxNow |-> IF t < now THEN admitted[v][t] ELSE admitted[v][t] + 1]
        /\ \A w \in Visitors \ {v} : admitted'[w] = admitted[w]
    BY <1>0, <1>2 DEF LimitTypeInv
  <2>3. /\ LimitTypeInv'
        /\ Refilled(v)' = Refilled(v) - Cost
        /\ \A w \in Visitors \ {v} : Refilled(w)' = Refilled(w)
    <3>1. admitted' \in [Visitors -> [0..MaxNow -> Nat]]
      <4>1. \A t \in 0..MaxNow : admitted[v][t] \in Nat
        BY <1>0 DEF LimitTypeInv
      <4>2. [t \in 0..MaxNow |-> IF t < now THEN admitted[v][t] ELSE admitted[v][t] + 1]
              \in [0..MaxNow -> Nat]
        BY <4>1
      <4> QED
        BY <1>0, <1>2, <4>2 DEF LimitTypeInv
    <3>2. /\ DOMAIN buckets' \subseteq Visitors
          /\ \A w \in DOMAIN buckets' :
               buckets'[w].tokens \in 0..Full /\ buckets'[w].seen \in 0..now
          /\ Refilled(v)' = tokens - Cost
          /\ \A w \in Visitors \ {v} : Refilled(w)' = Refilled(w)
      BY <1>0, <1>2, <2>1, BucketsAfter
    <3> QED
      BY <1>0, <1>2, <1>t, <3>1, <3>2 DEF LimitTypeInv
  <2>4. LevelOf(v)' /\ PastOf(v)'
    BY <1>0, <1>2, <1>t, <2>1, <2>2, <2>3, AdmitKept
  <2>5. \A w \in Visitors \ {v} : LevelOf(w)' /\ PastOf(w)'
    BY <1>0, <1>2, <2>2, <2>3, SteadyKept
  <2> QED
    BY <2>3, <2>4, <2>5 DEF LimiterInv
<1> QED
  BY <1>1, <1>2, <1>v, <1>t DEF Enter

LEMMA StepLimiterInv == IInv /\ TtlIsEnough /\ LimiterInv /\ [Next]_vars => LimiterInv'
<1> SUFFICES ASSUME IInv, TtlIsEnough, LimiterInv, [Next]_vars PROVE LimiterInv'
  OBVIOUS
<1>1. CASE UNCHANGED <<now, buckets, admitted, refused>>
  <2>1. \A v, s, t : Left(v, s, t)' = Left(v, s, t) /\ Refilled(v)' = Refilled(v)
    BY <1>1 DEF Left, Allowed, Admitted, Refilled
  <2> QED
    BY <1>1, <2>1 DEF LimiterInv, LimitTypeInv, LevelOf, PastOf
<1>2. \/ UNCHANGED <<now, buckets, admitted, refused>>
      \/ Tick
      \/ \E r \in Requests : Enter(r)
  BY DEF Next, vars, Arrive, Preflight, Handle, Wake
<1> QED
  BY <1>1, <1>2, TickKept, EnterLimited

\* LimiterIsExact, for any burst, rate and number of visitors, at any time and for
\* every pattern of requests: the lazily refilled buckets of RateLimiter.Allow let
\* through what the allowance of no span forbids, and nothing less.
THEOREM LimiterIsExactHolds == Spec => []LimiterIsExact
<1> DEFINE Limited == TtlIsEnough => LimiterInv
<1>1. Init => Limited
  BY InitiallyLimiterInv
<1>2. IInv /\ Limited /\ [Next]_vars => Limited'
  BY StepLimiterInv DEF TtlIsEnough, Full
<1>3. Limited => LimiterIsExact
  <2> SUFFICES ASSUME Limited, Ttl * Rate >= Burst * Cost, NEW v \in Visitors, NEW t \in 0..now
               PROVE  /\ \A s \in 0..t : Cost * Admitted(v, s, t) <= Allowed(s, t)
                      /\ refused[v][t] > 0 =>
                           \E s \in 0..t : Cost * (Admitted(v, s, t) + 1) > Allowed(s, t)
    BY DEF LimiterIsExact
  <2>1. LimitTypeInv /\ PastOf(v) /\ t \in 0..MaxNow
    <3>1. TtlIsEnough
      BY DEF TtlIsEnough, Full
    <3>2. LimitTypeInv /\ PastOf(v)
      BY <3>1 DEF LimiterInv
    <3> QED
      BY <3>2, ClockAssumption DEF LimitTypeInv
  <2>2. ASSUME NEW s \in 0..t
        PROVE  /\ Left(v, s, t) >= 0 => Cost * Admitted(v, s, t) <= Allowed(s, t)
               /\ Left(v, s, t) < Cost => Cost * (Admitted(v, s, t) + 1) > Allowed(s, t)
    <3>1. /\ Admitted(v, s, t) \in Int /\ Cost * Admitted(v, s, t) \in Int
          /\ Allowed(s, t) \in Int /\ Left(v, s, t) \in Int
      BY <2>1, LeftIsInt
    <3>2. Cost * (Admitted(v, s, t) + 1) = Cost * Admitted(v, s, t) + Cost
      BY <3>1, LimitAssumption
    <3> QED
      BY <3>1, <3>2, FullIsNat DEF Left
  <2> QED
    BY <2>1, <2>2 DEF PastOf
<1> QED
  BY <1>1, <1>2, <1>3, IInvHolds, PTL DEF Spec
=============================================================================
