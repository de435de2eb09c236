----------------------------- MODULE HttpPipeline -----------------------------
(***************************************************************************)
(* The way of a request through the server: the retry of POST requests,    *)
(* around the CORS, rate limit and authentication middleware, around the   *)
(* handler and the status it answers with.                                 *)
(*                                                                         *)
(* Time is counted in ticks.  The bucket of a visitor holds units, Cost of *)
(* them make one token of the code, and Rate of them come back per tick.   *)
(* What a service does is the code of the error it returns, or "ok".       *)
(***************************************************************************)
EXTENDS Integers, Sequences, SequencesExt, FiniteSetsExt

CONSTANTS
  Requests,
  Workloads,    \* bound: what the requests may be, [endpoint, visitor, flaw, at] for each
  Visitors,     \* client addresses
  MaxAttempts,  \* http.retry.maxAttempts
  BaseBackoff,  \* http.retry.baseBackoff, in ticks
  Burst,        \* http.rateLimit.burst
  Rate,         \* http.rateLimit.requestsPerMinute, in units per tick
  Cost,
  Ttl,          \* idle ticks after which a bucket is dropped
  WriteTimeout, \* http.writeTimeout
  MaxNow,       \* bound on time
  None, Lost    \* no value, and the answer of a connection that was closed

ASSUME RetryAssumption == MaxAttempts \in Nat \ {0} /\ BaseBackoff \in Nat
ASSUME LimitAssumption == Burst \in Nat \ {0} /\ Rate \in Nat \ {0} /\ Cost \in Nat \ {0}
ASSUME ClockAssumption == Ttl \in Nat /\ WriteTimeout \in Nat /\ MaxNow \in Nat

-----------------------------------------------------------------------------
(* The routes, and the status of each error a service returns there *)

Gets == {"google_login", "google_callback", "trending", "me", "documents", "document",
         "sessions", "logs"}
Public == {"register", "login", "refresh", "google_login", "google_callback"}
UploadAsk == {"upload", "ask", "documents", "document", "sessions", "logs"}
Posts == (Public \ Gets) \cup {"logout", "summaries", "stream", "uv", "faq", "upload", "ask"}

\* http.retry.exclude; an upload is also multipart.
Excluded == {"stream", "login", "register", "refresh", "upload"}

\* The errors the services return to the handlers, by route.
Raised(e) ==
  CASE e = "register" -> {"invalid_input", "email_exists", "auth_error"}
    [] e = "login" -> {"invalid_input", "invalid_credentials", "auth_error"}
    [] e = "refresh" -> {"invalid_token", "user_not_found", "auth_error"}
    [] e = "google_login" -> {"auth_not_configured", "auth_error"}
    [] e = "google_callback" ->
         {"invalid_state", "invalid_request", "invalid_input", "oauth_exchange_failed",
          "invalid_credentials", "invalid_token", "account_linking_disabled", "user_not_found",
          "email_exists", "auth_not_configured", "auth_error"}
    [] e = "me" -> {"user_not_found", "auth_error"}
    [] e = "logout" -> {"auth_error"}
    [] e \in {"summaries", "stream"} -> {"invalid_input", "llm_error"}
    [] e = "uv" -> {"invalid_input", "uv_data_error", "llm_error"}
    [] e = "faq" -> {"invalid_input", "llm_error", "faq_error"}
    [] e = "trending" -> {"faq_error"}
    [] e = "upload" -> {"invalid_input", "upload_failed", "storage_error"}
    [] e = "ask" -> {"invalid_input", "not_found", "embedding_error", "storage_error"}
    [] e \in {"documents", "sessions"} -> {"storage_error"}
    [] e \in {"document", "logs"} -> {"invalid_request", "not_found", "storage_error"}

\* The statuses the handlers give to them; any other error is a 500.
AuthStatus ==
  [invalid_input |-> 400, email_exists |-> 409, invalid_credentials |-> 401, user_not_found |-> 404,
   invalid_token |-> 401]
GoogleStatus ==
  [invalid_state |-> 400, invalid_request |-> 400, oauth_exchange_failed |-> 401,
   invalid_credentials |-> 401, invalid_token |-> 401, account_linking_disabled |-> 409,
   auth_not_configured |-> 501]
AdviceStatus(e) ==
  CASE e = "uv" -> [invalid_input |-> 400, uv_data_error |-> 502, llm_error |-> 502]
    [] e = "faq" -> [invalid_input |-> 400, llm_error |-> 502]
    [] OTHER -> [invalid_input |-> 400]
\* Faulty variant: a route forgets that what it looks for may be missing.
UploadStatusShort == [invalid_input |-> 400, invalid_request |-> 400]
UploadStatus == [invalid_input |-> 400, invalid_request |-> 400, not_found |-> 404]

ErrorStatus(e) ==
  CASE e \in {"google_login", "google_callback"} -> GoogleStatus
    [] e \in UploadAsk -> UploadStatus
    [] e \in {"summaries", "stream", "uv", "faq", "trending"} -> AdviceStatus(e)
    [] OTHER -> AuthStatus

OkStatus(e) ==
  CASE e = "register" -> 201
    [] e = "google_login" -> 302
    [] e = "logout" -> 204
    [] e = "upload" -> 202
    [] OTHER -> 200

StatusOf(e, code) ==
  IF code = "ok" THEN OkStatus(e)
  ELSE IF code \in DOMAIN ErrorStatus(e) THEN ErrorStatus(e)[code]
  ELSE 500

\* What the middleware and the binding may object to, before the service is asked.
Flaws == {"body_broken", "body_too_large", "no_header", "bad_token", "unbindable"}
FlawStatus == [no_header |-> 401, bad_token |-> 403, unbindable |-> 400, body_broken |-> 400,
               body_too_large |-> 413]
Bound == {"register", "login", "refresh", "summaries", "stream", "uv", "faq", "upload", "ask"}

Retried(e) == MaxAttempts > 1 /\ e \in Posts \ Excluded

\* The requests there may be to a route: with a flaw only where it is looked for.
CallsTo(e, v, t) ==
  [endpoint : {e}, visitor : {v}, at : {t},
   flaw : {None} \cup (IF e \in Public THEN {} ELSE {"no_header", "bad_token"})
                 \cup (IF e \in Bound THEN {"unbindable", "body_broken"} ELSE {})
                 \cup (IF Retried(e) THEN {"body_broken", "body_too_large"} ELSE {})]
Calls == UNION {CallsTo(e, v, t) : e \in Gets \cup Posts, v \in Visitors, t \in 0..MaxNow}

ASSUME WorkloadAssumption == Workloads \subseteq [Requests -> Calls]

-----------------------------------------------------------------------------

VARIABLES
  now,
  buckets,   \* visitor -> [tokens, seen], for the visitors that have one
  pc,        \* "new", "limit", "handler", "backoff" or "answered"
  call,      \* what a request is: [endpoint, visitor, flaw, at]
  attempt,
  due,       \* when the write deadline passes, and when a sleeper wakes
  wake,
  answer,    \* the status the client gets, None or Lost
  tried,     \* history: how the attempts of a request ended
  admitted,  \* history: attempts let through until the end of each tick, by visitor,
  refused    \* and those refused in it

request == <<pc, call, attempt, due, wake, answer, tried>>
vars == <<now, buckets, request, admitted, refused>>

Init ==
  /\ now = 0
  /\ buckets = [v \in {} |-> None]
  /\ pc = [r \in Requests |-> "new"]
  /\ call \in Workloads
  /\ attempt = [r \in Requests |-> 0]
  /\ due = [r \in Requests |-> 0]
  /\ wake = [r \in Requests |-> 0]
  /\ answer = [r \in Requests |-> None]
  /\ tried = [r \in Requests |-> <<>>]
  /\ admitted = [v \in Visitors |-> [t \in 0..MaxNow |-> 0]]
  /\ refused = [v \in Visitors |-> [t \in 0..MaxNow |-> 0]]

-----------------------------------------------------------------------------
(* The rate limiter, under its lock *)

\* The bucket of a visitor who asks now: new and full, or filled up since it asked last.
Refilled(v) ==
  IF v \notin DOMAIN buckets THEN Burst * Cost
  ELSE Min({Burst * Cost, buckets[v].tokens + (now - buckets[v].seen) * Rate})

\* The buckets after that, without those whose visitors have been away too long.
Cleaned(filled) ==
  [w \in {u \in DOMAIN filled : now - filled[u].seen <= Ttl} |-> filled[w]]

\* Faulty variant: the visit is not noted, so the time before it counts again.
AskedSince(v, tokens) ==
  [w \in DOMAIN buckets \cup {v} |->
     IF w # v THEN buckets[w]
     ELSE [tokens |-> tokens, seen |-> IF v \in DOMAIN buckets THEN buckets[v].seen ELSE now]]
Asked(v, tokens) ==
  [w \in DOMAIN buckets \cup {v} |-> IF w = v THEN [tokens |-> tokens, seen |-> now] ELSE buckets[w]]

-----------------------------------------------------------------------------
(* The retry of requests *)

\* The answer goes out; after the write deadline the connection is closed instead.
Reply(r, status) ==
  /\ pc' = [pc EXCEPT ![r] = "answered"]
  /\ answer' = [answer EXCEPT ![r] = IF now > due[r] THEN Lost ELSE status]
  /\ UNCHANGED <<attempt, wake>>

\* Faulty variant: any status is tried again.
EndAnyAttempt(r, cause, status) ==
  /\ tried' = [tried EXCEPT ![r] = Append(@, cause)]
  /\ IF Retried(call[r].endpoint) /\ attempt[r] < MaxAttempts
     THEN /\ pc' = [pc EXCEPT ![r] = "backoff"]
          /\ attempt' = [attempt EXCEPT ![r] = @ + 1]
          /\ wake' = [wake EXCEPT ![r] = now + BaseBackoff * 2 ^ (attempt[r] - 1)]
          /\ UNCHANGED answer
     ELSE Reply(r, status)
  /\ UNCHANGED <<call, due>>

\* The recorder holds back a status of 500 and above, unless it is the last attempt.
EndAttempt(r, cause, status) ==
  /\ tried' = [tried EXCEPT ![r] = Append(@, cause)]
  /\ IF Retried(call[r].endpoint) /\ status >= 500 /\ attempt[r] < MaxAttempts
     THEN /\ pc' = [pc EXCEPT ![r] = "backoff"]
          /\ attempt' = [attempt EXCEPT ![r] = @ + 1]
          /\ wake' = [wake EXCEPT ![r] = now + BaseBackoff * 2 ^ (attempt[r] - 1)]
          /\ UNCHANGED answer
     ELSE Reply(r, status)
  /\ UNCHANGED <<call, due>>

\* A request arrives.  The body of one that may be retried is read first, up to the limit.
Arrive(r) ==
  /\ pc[r] = "new" /\ now = call[r].at
  /\ due' = [due EXCEPT ![r] = now + WriteTimeout]
  /\ attempt' = [attempt EXCEPT ![r] = 1]
  /\ IF Retried(call[r].endpoint) /\ call[r].flaw \in {"body_broken", "body_too_large"}
     THEN /\ pc' = [pc EXCEPT ![r] = "answered"]
          /\ answer' = [answer EXCEPT ![r] = FlawStatus[call[r].flaw]]
     ELSE /\ pc' = [pc EXCEPT ![r] = "limit"]
          /\ UNCHANGED answer
  /\ UNCHANGED <<now, buckets, call, wake, tried, admitted, refused>>

\* A preflight is answered before the rate limit.
Preflight(r) ==
  /\ pc[r] = "new" /\ now = call[r].at
  /\ pc' = [pc EXCEPT ![r] = "answered"]
  /\ answer' = [answer EXCEPT ![r] = 204]
  /\ UNCHANGED <<now, buckets, call, attempt, due, wake, tried, admitted, refused>>

\* Each attempt asks the rate limiter again.
Enter(r) ==
  LET v == call[r].visitor
      tokens == Refilled(v)
  IN /\ pc[r] = "limit"
     /\ IF tokens < Cost
        THEN /\ buckets' = Cleaned(Asked(v, tokens))
             /\ refused' = [refused EXCEPT ![v][now] = @ + 1]
             /\ EndAttempt(r, "rate_limit_exceeded", 429)
             /\ UNCHANGED admitted
        ELSE /\ buckets' = Cleaned(Asked(v, tokens - Cost))
             /\ admitted' = [admitted EXCEPT ![v] =
                  [t \in 0..MaxNow |-> IF t < now THEN @[t] ELSE @[t] + 1]]
             /\ pc' = [pc EXCEPT ![r] = "handler"]
             /\ UNCHANGED <<refused, call, attempt, due, wake, answer, tried>>
     /\ UNCHANGED now

\* Authentication, binding and the service, which may also panic.
Handle(r) ==
  LET e == call[r].endpoint
      flaw == call[r].flaw
  IN /\ pc[r] = "handler"
     /\ IF flaw \in Flaws THEN EndAttempt(r, flaw, FlawStatus[flaw])
        ELSE \E code \in Raised(e) \cup {"ok", "panic"} : EndAttempt(r, code, StatusOf(e, code))
     /\ UNCHANGED <<now, buckets, admitted, refused>>

Wake(r) ==
  /\ pc[r] = "backoff" /\ now >= wake[r]
  /\ pc' = [pc EXCEPT ![r] = "limit"]
  /\ UNCHANGED <<now, buckets, call, attempt, due, wake, answer, tried, admitted, refused>>

\* Handlers and sleeps take time, the middleware before them does not.  Bounds: a
\* handler that is past the write deadline ends, a sleeper that is due and past it wakes,
\* and time stops when no request is to come or to end.
Tick ==
  /\ \E r \in Requests : pc[r] \in {"handler", "backoff"} \/ (pc[r] = "new" /\ now < call[r].at)
  /\ \A r \in Requests :
       /\ pc[r] # "limit"
       /\ pc[r] = "handler" => now <= due[r]
       /\ pc[r] = "backoff" => now < wake[r] \/ now <= due[r]
  /\ now < MaxNow
  /\ now' = now + 1
  /\ UNCHANGED <<buckets, request, admitted, refused>>

Next ==
  \/ \E r \in Requests :
       \/ Arrive(r)
       \/ Preflight(r)
       \/ Enter(r)
       \/ Handle(r)
       \/ Wake(r)
  \/ Tick

Spec == Init /\ [][Next]_vars

-----------------------------------------------------------------------------
(* Properties *)

Allowed(s, t) == Burst * Cost + Rate * (t - s)
Admitted(v, s, t) == admitted[v][t] - (IF s = 0 THEN 0 ELSE admitted[v][s - 1])

\* The rate limiter is exact: in no span of time does a visitor get more attempts
\* through than the burst and what comes back in that span, and an attempt is
\* refused only where one more would have been too many.  Neither the moments at
\* which requests come nor the dropping of idle buckets changes this, as long as a
\* bucket is kept until it is full again.
LimiterIsExact ==
  Ttl * Rate >= Burst * Cost =>
    \A v \in Visitors, t \in 0..now :
      /\ \A s \in 0..t : Cost * Admitted(v, s, t) <= Allowed(s, t)
      /\ refused[v][t] > 0 => \E s \in 0..t : Cost * (Admitted(v, s, t) + 1) > Allowed(s, t)

\* What a client did wrong is answered at once and never tried again, and a request
\* that is not to be repeated is tried once, whatever fails: across all routes, no
\* error of the caller is taken for one of the server.
CallersFault ==
  Flaws \cup {"invalid_input", "invalid_request", "email_exists", "invalid_credentials", "invalid_token",
              "user_not_found", "not_found", "rate_limit_exceeded"}
CallerErrorsAreFinal ==
  \A r \in Requests :
    LET earlier == IF pc[r] = "answered" THEN Len(tried[r]) - 1 ELSE Len(tried[r])
    IN /\ \A i \in 1..earlier : tried[r][i] \notin CallersFault \cup {"ok"}
       /\ earlier > 0 => call[r].endpoint \in {"logout", "summaries", "uv", "faq", "ask"}

\* The answer tells the truth about the whole request, over all its attempts: a
\* success only if the service succeeded, and then always, a server error only if
\* every attempt failed, and a refusal of a later attempt never hides that the
\* work was done.  Only an answer that comes after the write deadline is lost.
\* The callback of Google is left out of the last line: it answers 500 to errors
\* of the caller that its table does not name.
AnswersAreTrue ==
  \A r \in Requests :
    LET causes == ToSet(tried[r])
        done == Len(tried[r]) > 0 /\ Last(tried[r]) = "ok"
    IN (attempt[r] > 0 /\ pc[r] = "answered" /\ answer[r] # Lost) =>
         /\ (answer[r] < 400) <=> done
         /\ answer[r] >= 500 => Len(tried[r]) = attempt[r] /\ "ok" \notin causes
         /\ answer[r] = 429 => Last(tried[r]) = "rate_limit_exceeded"
         /\ (answer[r] >= 500 /\ call[r].endpoint # "google_callback") => causes \cap CallersFault = {}
===============================================================================
