# Formal models of ai-helloworld

TLA+ modules of the program, the TLC runs that check them on small instances,
and theorems that TLAPS checks for every value of the constants.
`PROJECT.json` maps every definition to the lines it models, and lists the
hazards at their lines.

## 1. The system

One Go program (`cmd/app`) serves a JSON API over HTTP with SQLite, or Postgres,
Valkey and R2, and asks a chat model, Google and data.gov.sg.

| Component | State it keeps | Operations | Hard about it |
|---|---|---|---|
| Upload & Ask documents (`internal/domain/uploadask`) | documents, file rows, chunks, blobs, the job queue | Upload, ProcessDocument, lost jobs, re-runs | jobs run in goroutines or behind Valkey, concurrently with requests; each of the calls may fail; the queue or the blobs may die with the process |
| Conversational answering (same service) | sessions, query log, messages, memories | Ask, SummarizeSession, prune | questions of a session interleave; most errors are dropped; a failed request is run again |
| Smart FAQ (`internal/domain/faq`) | questions, answer cache with expiry, trending counts | Answer in four modes | check-then-insert over several statements, an expiry between read and delete, retries that pass the router again |
| Accounts (`internal/domain/auth`) | users, linked Google identities | Register, Login, GoogleCallback | check-then-insert races, two inserts without a transaction, emails that change at Google |
| Session tokens (same package) | none on the server; a client holds a signed pair | issue, validate, refresh | the id in a token outlives the table that gave it |
| SQLite migrations (`internal/infra/sqlite`) | the whole local file | 20 statements at every start | no transaction: interruption between any two, start again over the result |
| Store variants (`internal/infra/*repo`, `faqstore`, `uploadask/memory`) | the same tables in maps, SQLite, Postgres and Valkey | insert, find, list, search, prune | written three times: ties, times as text, unique keys and NULLs differ |
| HTTP pipeline (`internal/interface/http`) | token buckets per address, the buffered answer of a retried request | retry of POST on a status of 500 or more, rate limit, authentication, error table of each route | a handler runs again after it has changed something, and spends a token each time |
| Summarizer and chat client | a goroutine, a channel, an HTTP stream | Summarize, StreamSummary, Recv | pieces split the markers, a stream breaks off, a client leaves |
| Chunker and embedders | none | Chunk, Embed | budgets, words above them, overlap, batches |
| UV advisor, data.gov client | none | Recommend | records that repeat hours, rounding, lists of the model |
| Configuration | constant after the start | defaults, file, environment, checks | one layer undoes the consistency of another |
| Wiring and life cycle (`cmd/app`, `internal/bootstrap`) | which variant each store has | providers, serve, shutdown | every provider falls back for itself; nothing waits for background jobs |

How they interact. A handler calls its service, and the service calls the
repositories one statement at a time: no transaction spans two calls except the
insert of the chunks of a document. The whole router is inside the retry of POST
requests (`retry_middleware.go`), so a service may be run again from the start
after an attempt that failed half-way. Upload and Ask hand jobs to a queue whose
handler (`cmd/app/providers.go`) calls ProcessDocument or SummarizeSession: the
immediate queue starts a goroutine, the Valkey queue has one consumer loop per
server. At the start each provider picks its variant; a startup migration that
fails leaves the process serving from memory. A request is known by the id in
its token, which is not looked up.

The properties that make each correct are those of section 3; the hazards they
are aimed at are in `PROJECT.json`, each at its line.

## 2. Modules

| Module | Models | State and actions |
|---|---|---|
| `UploadDocuments` | Upload and ProcessDocument, both queues, stores and databases | the tables, the blobs, the step of each upload and each worker; one action per call (`CreateDocument` to `Enqueue`, `Take` to `MarkProcessed`/`MarkFailed`), `LoseJob`, `Rerun`, `Restart`, `EmbedPanics` |
| `DocumentLifecycle` | what a client may rely on | status and search hits of a document: Submit, Start, Complete, Fail |
| `Conversation` | Ask and SummarizeSession over SQLite inside the retry | the four tables, the step, attempt and loaded history of each request, the step of each summary job |
| `FaqAnswers` | Answer over SQLite inside the retry and the router | questions, cache, counts, the step and attempt of each request; `Admit` or `Refuse` at the start of each attempt, one action per call (`FindExact` to `TopQueries`), `Respond`, `Unheard`, `Dies` |
| `Accounts` | Register, Login, GoogleCallback over SQLite | users, links, the step of each request, the emails Google reports |
| `SqliteMigrations` | the migrations of `Open` | tables and rows of the file, the next statement |
| `HttpPipeline` | the router with retry, CORS, rate limit, authentication, binding, error tables | the bucket of each visitor, the place, attempt and buffered answer of each request; `Arrive`, `Enter`, `Handle`, `Wake`, `Tick` |
| `SummaryStream` | StreamSummary, the handler of the stream, Recv | what has come of the answer, the goroutine, the channel, what the client got; `Recv`, `Done`, `BreaksOff`, `Take`, `HandlerEnds`, `ClientLeaves` |
| `UvAdvice`, `Chunker` | Recommend; Chunk and Embed | pure functions, applied by one action to every bounded input |
| `SqlRows` | unique keys, ORDER BY, times as text | operators of the store modules |
| `DocumentStores`, `ConversationStores`, `UserStores`, `FaqStores` | the variants of each store | the rows of every variant, driven by the same call |
| `Wiring` | providers, life of a process, tokens, who is shown what | the variant of each store, the databases, the clients' tokens; one action per provider, `Signal`, `Shutdown`, `Crash`, `Register` to `Upload` |
| `Configuration` | Load and the checks | `ConfigLoad` of a file and an environment |
| `UploadDocuments_proofs`, `Conversation_proofs`, `FaqAnswers_proofs`, `Accounts_proofs`, `HttpPipeline_proofs`; `TextModels_proofs` of `SummaryStream`, `UvAdvice` and `Chunker`; `Startup_proofs` of `SqliteMigrations`, `Configuration` and `Wiring`; `Stores_proofs` of the store modules | theorems | |
| `MC*` | constants for TLC; `MCStores`, `MCWiring` and `MCSummaryStream` put modules that share no state into one run, and a behaviour drives one of them | |

Common to all of them:

- An action is one call on a database, queue, store or provider with the local
  code around it. The interleavings are those of these calls. In the store
  modules calls come one after another: each is one statement or one lock, and
  the modules of the services interleave them.
- A failing call of one of the local stores has no effect. A call over the
  network may have had its effect although it failed: in `UploadDocuments` the push
  to the queue, the writes to Postgres (`DatabaseFault`) and the upload to R2. Deaths
  are actions of their own. A client that leaves cancels the context of its
  request; the calls after that fail, as modelled. `FaqAnswers` leaves open for
  every failing write whether it was done, as the context may end during it.
- The number of failures, crashes, re-runs, expiries, changes, starts and ticks
  is bounded by a constant in a guard (`MaxFaults`, `MaxCrashes`, `MaxReruns`,
  `MaxExpiries`, `MaxChanges`, `MaxNew`, `MaxStarts`, `MaxNow`, `MaxDocuments`;
  `DocEnd`, `ChatEnd`, `UserEnd`, `FaqEnd` count the calls); nothing else is.
- Data is kept to what the properties tell apart: a text is an element of a
  set, an embedding a point on a line, a password the request that brought it, a
  message the turn it belongs to. In `UploadDocuments` a chunk set is a count; in
  `Chunker` a word is its number of runes.
- In the modules of the services, two events never carry the same time, and
  memories are ordered by their insert, which follows the taking of the time
  with no other call between. Equal times, and times that are written as text,
  are in the store modules.
- Definitions commented "Faulty variant" are not used by `Next`: they are the
  bugs that each property has been shown to find (`PROJECT.json`, mutants).

What is particular to a module, or left out of it:

- `UploadDocuments`: the content of chunks (see `Chunker`) and the lists of
  documents (see `DocumentStores`).
- `Conversation`: what retrieval and the model return (failing retrieval is in;
  a failing model is answered by a fallback text), requests that switch the
  history off (they act as those whose listing failed), the messages' token
  counts (one each; the token budget is in `ConversationStores`). A question is
  asked in an existing session only when the attempt that created it is over,
  and `MaxNew` bounds the requests for a new one (1 in the run; sessions share
  nothing but the order of times). A listing is a set of positions in the table, a
  loaded history the set of its messages; `stamps` has the time both messages of
  a turn carry, drawn from `clock` when the turn is written.
- `FaqAnswers`: the arithmetic of the hash and of the embedding (a constant per
  text), what is on the trending list (see `FaqStores`). Whether the limiter has a
  token and an access token still lives is in `HttpPipeline` and `Wiring`; here either
  may refuse any attempt. `failed` and `warned` are history: how many attempts of a
  request a failing call ended, and whose increment the log says failed. `Priors`
  has the tables an earlier process may have left.
- `Accounts`: Logout, which changes nothing stored, and the state cookie.
- `SqliteMigrations`: the statements that only create a table or backfill a
  column. `LegacyAssumption` says what an older version may have left: no replacement
  table, unique ids, answers cached for stored questions only, complete rows. A row
  with a NULL, which the copy of the identities ignores, and an id that is no
  integer, which makes it fail, are in no file of the model.
- `HttpPipeline`: a request is drawn in `Init`, with the flaw it has; what the
  service returns is drawn when it runs, from the errors it can return. Time is
  in ticks: handlers and backoffs take any number of them, the middleware none. A
  bucket holds units, `Cost` of them to a token, `Rate` of them coming back a tick,
  as fractions of tokens do. A handler that outlives the write deadline loses its
  answer.
- `SummaryStream`: a text is a sequence of symbols and each marker has two, so a
  piece may end within one. The answer may stop anywhere, by its end mark, by
  the end of the connection or by an error.
- `UvAdvice`: values are in hundredths, so that one may round up to a band it has
  not reached, and may be negative. Times are parsed by a table (`TimeOf`), which has
  two spellings of one hour and one that cannot be read; blanks are trimmed by a
  table (`Clean`). What the two services may answer is a constant (`Queries`), which a
  run makes small.
- The store modules: an embedding stands for its two ranks against the question's,
  `near` by the cosine and `close` by the distance. They are independent: nothing
  makes the vectors of the deterministic embedder unit vectors. A request may ask for
  more hits than the SQL variants give, for a history budget of zero or less, and the
  configuration for no recommendations at all.
- `Chunker`: a token of the encoder is `TokenRunes` runes and does not cross
  words; the code's budgets of 800 and 80 tokens and its 5 runes a token are
  scaled down. Invalid UTF-8 from an overlap that begins within a character is
  not modelled (listed as a hazard).
- `Wiring`: uploading a document stands for all requests that store something
  for a user. A provider's database answers or not; five deployments. Time
  passes while serving only, since nothing reads the clock before.
- `Configuration`: a value is one of the classes that the checks and uses tell
  apart; a number has the width of its field, an int32 of 16 values, an int64 of 64,
  a megabyte is 4 bytes. A conversion or a product wraps (`Wrapped`). A key is its
  length and whether it is blanks only. Each section may deviate by one setting of
  the file and one of the environment from four bases.

## 3. Runs

Each property has a faulty variant that violates it. Deadlock checking is off:
in all of these instances every request and job may be done, and a process may be
down for good.

| Run | Instance and bounds | What it shows |
|---|---|---|
| `documents_local` | 3 uploads (one blank), 2 goroutines, 1 server, SQLite, blobs in memory; 2 faults, 1 crash | no document is shown processed without its chunks, a failed one has none, only a fault strands one; the pipeline implements `DocumentLifecycle`; every upload settles |
| `documents_shared` | 2 documents, 2 servers, Valkey, R2, Postgres; 1 fault, 1 crash, 2 re-runs | with concurrent jobs of one document and writes that may be done although they failed: copies of chunks are bounded by the jobs asked for, stored chunks are behind a failed status only after an operator's re-run or an insert whose answer was lost, every job leaves the queue |
| `http_pipeline` | any request to any route beside a retried one, and three requests of two visitors around the expiry of a bucket; 2 attempts, burst 2, half a token a tick, 8 ticks | the limiter admits exactly the burst and the refill; errors of the caller are answered at once; the answer is true of all attempts |
| `summary_stream` | every answer of up to 4 symbols, of 5 behind the first marker, and one of 9, in pieces of 1 or 2; every UV answer of up to three records of one entry or one of two, and every message of the model about one reading; every text of up to 4 words under 3 budgets | the client has seen all that can be shown, a completed summary is whole unless the stream broke off, both goroutines end; the advice is about the data; the chunks hold the text |
| `stores` | 2 documents, owners and sessions, 7 calls, up to 3 hits where SQL gives 2; histories of 3 messages under budgets of -1, 0 and 4; 3 memories; 0 to 2 recommendations; 2 emails and Google accounts, 6 calls; 3 questions, hashes and points, 5 calls | a caller is answered the same by every variant, but for the named differences |
| `wiring` | 2 processes, 2 people, 1 document, 2 ticks, 5 deployments; any single deviation of file and environment over 4 bases; every legacy SQLite file with up to two rows per table, 2 interruptions, one text asked | tables that refer to one another are in one database; each person is shown their own; a request is let in only within the life of an access token; a signal ends the process; a configuration that is accepted can be used; identities, questions and answers survive the migrations, except in the cases the property names |
| `conversation` | 3 questions, 2 users, retried once, history of 3 messages, prune at 1 memory; 1 fault | a turn is written at most once and by the answered attempt; histories keep question and answer together; the prune holds its limit and takes turns before summaries; sessions stay private |
| `faq` | 2 questions over 3 texts in any mode, 3 tables left by an earlier process, 3 attempts; 2 faults, 1 expiry | an answer belongs to the question matched, is counted once; a lost insert alone is never answered by an error |
| `faq_boundary` (violation) | the same instance; no fault is needed | a question at the very threshold is a match, against the specification |
| `accounts` | 3 requests, 2 emails, 2 Google accounts; 1 fault, 1 changed email | nobody gets or loses an account that is not theirs |
| `accounts_retried_sign_up` (violation) | 1 fault | a sign-up that fails between its two inserts locks the Google account out |
| `migrations_taken_id` (violation) | no fault | an answer is kept under the id of another question |

Why the bounds are enough. The races are between two actors, and a third
observes or adds to the result: three requests, two documents with two workers, or,
in `faq`, two requests over the questions that earlier ones have left.
In `conversation` two questions are concurrent in a session that has one turn
already, so the history of three messages is cut, and one memory is fewer than
any session ends with. Two rows per table include every collision of ids
and of texts. One fault can fall on every call, two allow a failing recovery. Two
attempts are the fewest that retry; `faq` has the configured three, of which a lost
insert and two failing calls take all, and one failing call does not. In `http_pipeline` a burst of two is spent, refilled in part
and spent again, and four idle ticks, after which a bucket is dropped, lie within
the eight. In `summary_stream` both markers come whole, in halves, swapped and
twice, and the piece of two symbols bridges the two halves or a half and its
neighbour. Two records repeat an hour, and disagree on it; of its values one is below
the start of the loop, one at a band and one rounds up to it. A word of nine runes
is longer than any budget of runes, four words fill a chunk and start the next
with its overlap; a batch of four tokens is too small for some chunks and
holds several of others. In `stores` five to seven calls bring two rows into each tie
and clash and a third over each limit, which a question may ask for all the same; in a second of four ticks a time may be
written with no digit, one or two, which are the ways the text of two times
misorders them. In `wiring` the second
process finds what the first left, with any of its databases gone; an access
token has ended, or has not, in the two ticks.

Exceptions that the properties state rather than hide:

- `SubjectKeepsItsUser` (its parts `OneUserPerSubject` and `LinkIsForGood`) and
  `StrandedOnlyByFailure`: when the email of a Google account changes between two
  first sign-ins that overlap, the later of them logs in as a new user that is
  never linked.
- `StartKeepsData`: an interruption between `DROP TABLE` and the rename of its
  replacement loses the table's rows (`cut` remembers it: `IdentitiesKept`,
  `AnswersKept`). A legacy question whose id is taken is dropped
  (`QuestionsKept`, `AnswersMatch`). Only duplicates make the process serve from
  memory (`FallbackOnlyOnDuplicates`).
- `ProcessedHasChunks` and the properties of `documents_shared` allow several copies
  of the chunks on Postgres: its insert does not conflict on document and chunk
  index, though `docs/upload-ask/upload-ask-spec.md` calls it idempotent.
- The error paths before the blob is read set no status; the document stays
  processing (`StrandedOnlyByFault` counts the fault).
- When a summary is due is counted on the history that was loaded, which is cut:
  no property claims a schedule (listed as a hazard).
- A retried question may leave an empty session of its failed attempt, which the
  session list shows. A session whose insert failed is given to the client all
  the same (`SessionsStayPrivate` holds its existence only without a failure).
- `HiddenChunksAreExplained`: a batch that Postgres has committed may be reported as
  an error, and the document is then shown as failed with its chunks stored
  (`LostInsert`).
- `AnswersItsMatch` takes a question at the threshold for a match, as
  `service.go:126` does; the specification (`docs/faq/faq-spec.md:149-154`) wants it
  nearer. The run `faq_boundary` shows the difference (`MatchIsNearer`).
- `CountedOnce`: a query may be counted whose answer is lost to a death or to a
  client gone, and one is not counted whose increment is in the log as failed.
- `RetriesAbsorbFaults`: a later attempt passes the limiter and the authentication
  again, so a request that only lost an insert race may be answered 429 or 403; the
  property is about statuses of 500 and more. A question whose semantic hash is 0 is stored, and never
  found by it (`sqlite_repository.go:37`); whoever asks it again in that mode
  inserts it in vain on every attempt and gets the error without any fault.
- `LimiterIsExact` assumes that a bucket is kept until it is full again. Five
  minutes fill the default bucket, but not that of one request a minute with a
  burst of twenty, which the configuration accepts.
- `AnswersAreTrue`: the Google callback answers 500 to errors of the caller that
  its table does not name.
- `CompletedIsWhole`: a stream that breaks off is parsed as if it had ended, so
  a completed summary may be cut; it is cut only then.
- `DocumentStoresAgree`, `ConversationStoresAgree`: SQLite orders times as text,
  Postgres does not order rows of one time; memory lists the log of a session
  oldest first; SQLite refuses the chunks of a second job. A question gets as many
  hits as it asks for from memory and at most 64 from the SQL variants. Postgres
  ranks by distance and the others by the cosine, so that they find equally near
  rows only where the two rank alike (`RankedAlike`), as they do unit vectors.
- `UserStoresAgree`: on Postgres an identity without a refresh token is stored as
  NULL and cannot be read again.
- `QuestionsAgree`, `CachesAgree`: on Postgres the hash is unique, so a second
  question of a hash is refused for good; Valkey rounds a TTL to seconds, breaks
  ties the other way and takes ten for a configured number of recommendations of
  zero, which is no limit in memory and in SQLite.
- `AcceptedConfigIsUsable`: an encryption key of blanks is accepted, and the Google
  sign-in is then not offered; a size of documents whose bytes exceed an int64
  becomes another limit, or none. A size of a pool that wraps to zero or less leaves
  the pool its default.
- `AdviceIsTrue`: the maximum and its category are those of the readings before they
  are rounded for display, and a day with no reading above -1.0 has no peak hour.
- `OwnDocuments`: users and documents may be in different databases, and two
  tables of users give out the same ids: a document may be shown to a person
  whose id is from another table than the one it was stored under.

Fairness. `FairSpec` of `UploadDocuments` gives weak fairness to the steps of the
upload handlers and of the workers, including taking a job: the Go scheduler runs every
runnable goroutine, the consumer loop polls for ever, and every client has a
timeout, so a call ends. `SummaryStream` gives it to the read of the stream, which the
timeout of the chat client ends, and to both goroutines. `Wiring` gives it to
`Shutdown` only: its context has a deadline of ten seconds, while a request may
hang for good. Faults, crashes, re-runs and clients that leave are never required
to happen.

## 4. Proofs

All theorems hold for any constants that satisfy the named assumptions of the
module, any number of requests, documents, people or tables, and any bound on
faults. Each proof module has an inductive invariant, one lemma or step per action, and
a theorem per property. The argument of each:

`UploadDocuments_proofs`

- `TypeCorrect`: types are inductive, one lemma per group of actions.
- `ProcessedHasChunksHolds`: the invariant is not inductive, since the step that
  sets processed relies on chunks stored before. `ChunksInv` adds that a worker
  about to finish has its chunks stored.
- `StrandedOnlyByFaultHolds`: `StrandedInv` adds which steps of an upload have
  its rows, and `JobsHaveRow` that every job's document exists; proved
  for the steps that leave no fault behind, as a fault makes the goal true.
- `ChunksBoundedByJobsHolds`: `Budget` counts, for a document, the copies of its
  chunks, its jobs in the queue, those that may still insert and the push its
  upload owes: together they are at most one more than the re-runs. Taking a job,
  losing it or storing its chunks moves one unit or drops it, and only a re-run
  adds one.
- `FailedHasNoChunksHolds`, `BackgroundJobFindsFileHolds`,
  `ImplementsLifecycleHolds`, `HiddenChunksAreExplainedHolds`: without a re-run a
  document has one job at most, with either queue. `OneJobInv` ties the step of
  that job, the status and the number of chunk sets together; from it every step
  maps to a step of the lifecycle or to a stutter. Where Postgres may have
  committed a batch that failed, the job that is about to record it as failed is the
  one place where chunks are hidden (`PerhapsStored`). That a job finds its file row is
  a step of this argument and no run checks it by itself.

`Conversation_proofs`

- `Turn(r)` says of each request how far it is written in the tables (`Written`,
  `Complete`), whose session it is in (`Placed`) and whose messages it has loaded
  (`Loaded`); `LogInv` that no message is stored twice and a question stands
  before its answer. `TurnIsWrittenOnceHolds` and `SessionsStayPrivateHolds` follow: an
  attempt writes only after the last call whose failure ends it.
- `HistoryKeepsTurnsHolds`: the messages of two concurrent turns interleave in the
  table, but those of one turn carry one time. A history is an end of the order
  by time without a gap (`RecentIsAnEnd`), so that it can tear only the turn it was
  cut in, and then has the answer.
- `MemoriesArePrunedHolds`: `MemoriesInv` says that whenever a session is over its
  limit somebody is about to prune it. A prune keeps at most the limit
  (`KeptAreFew`: the lowest memory it keeps has all others it keeps above it).
- `SummariesOutliveTurnsHolds`: an action property, from what a prune keeps: a
  memory that ranks higher has fewer above it (`HigherHasFewerAbove`).

`FaqAnswers_proofs`

- `AnswersItsMatchHolds`: `Matched` says that after its lookup a request works for a
  question its mode allows and has that question's answer; with it `CacheInv`, that
  the cache has for a question the answer to it, whoever stored it.
- `RetriesAbsorbFaultsHolds`: `Excused` accounts for every attempt before the present
  one by a failing call of the same request, or one of them by the insert of another,
  after which the question is there to be found (`FoundMatches`: a lookup misses a
  stored question only for a hash of zero) and the request does not insert again.
  `Blamed` is what remains of it when the last attempt ends in an error.
- `CountedOnceHolds`: `Bounds` holds the count of a text between the number of the
  requests that have their answer or lost it and of those whose increment is not in
  the log. A step either counts nothing or one request that was in neither bound
  (`BoundsFollow`, `ShapeBounds`). The requests that have begun are finite at any time
  even if the set of all requests is not (`CountInv`).

`Accounts_proofs`

- `TypeCorrect`, which no run repeats: `CallsInv` adds what a request carries at each
  step.
- `CreatedOwnsAccountHolds`: passwords are only ever set when there is none
  (`PasswordStays`), and only `RegisterCreate` answers created.
- `NoForeignAccountHolds`: `Holds(s, u)` says that user u is linked to the Google
  account s, or that a callback of s works for u or has logged in as u.
  `HoldersInv`: such a user was created by a callback and is held by no other
  Google account. A step adds a holder only for the user it creates, who had no
  holder before as it did not exist (`StepHolds`).
- `SubjectKeepsItsUserHolds`, `StrandedOnlyByFailureHolds`: `LinksInv` follows a user
  without a password to the link or to the one request that made it and knows it;
  that two requests made a user for one Google account means that they signed in
  under two emails (`OwnMeansTwoEmails`), as the emails are unique.

`HttpPipeline_proofs`

- `CallerErrorsAreFinalHolds`, `AnswersAreTrueHolds`: `TriedAgain` says that every
  attempt that was followed by another failed for a reason that is not the caller's,
  `Told` that the answer tells of the last one. `Tells` is what a status says of
  its cause, proved from the error table of each route.
- `LimiterIsExactHolds`: the level of a bucket, as it would be refilled now, is the
  least that is left of the allowance of any span until now (`LevelOf`): an exact
  invariant, from which both directions follow. It needs a bucket to be kept until
  it is full, as the property says.

`TextModels_proofs`

- `ClientIsUpToDateHolds`, `CompletedIsWholeHolds`: `Offering` says that what lies in
  the channel is what can be shown of what has come, `Seen` that the client has the
  last that was offered before, `Ending` how each end comes about. The summary of a finished
  text is its last partial one (`SummaryIsLastPartial`).
- `AdviceIsTrueHolds`: for records and messages of any length. A loop is a function
  of the number of rounds; it exists (`LoopExists`), and what holds after every round
  is shown at the least round that would break it: the peak (`PeakIsHighest`), the
  cleaned list (`ListIsCleaned`). The second cleaning changes nothing since a clean text
  is clean (`CleanAssumption`; `CleanedTwice`). The readings are those of the entries
  `Keeps` lets through, of which a list by time exists (`OrderLists`, ranks in a total
  order) and names every one (`ListsAll`, counting). `sort.Slice` leaves the order of
  equal times open, and so does the list. It assumes of what the services answer its
  types only (`HourAssumption`, `QueryAssumption`).
- `ChunksHoldTheTextHolds`: for texts and chunks of any length. `Good` is the
  invariant of the loop over the words: every finished chunk follows on the one
  before, and so does the one being written. It is kept by a word within the budget
  (`WordWritten`), by one above it, whose parts are a loop of their own
  (`LongWordWritten`), by the overlap (`TailRepeats`) and by the break behind a
  paragraph, which widens a gap but no content (`WidenGap`). `Batched` is that of
  the embedder: what was sent and what waits are the contents so far. Runes and
  tokens are added up by `Total`, which splits over a text (`TotalSplits`).
  `TokenAssumption` asks for tokens and budgets above zero, as the constants of
  the code are; a configured budget may be any integer.

`Startup_proofs`

- `StartKeepsDataHolds`: every identity, question and answer the file was given is
  in one of the tables where the statement that comes next looks for it, or the
  statement that cannot find it is one the property names (`IdentitiesInv`,
  `QuestionsInv`, `AnswersInv`). An interruption changes no table, so that the
  invariant also says why starting over the result is safe. Fresh ids are above the
  largest, which exists as a table is finite (`MaxOfBounded`).
- `RequestsAreFreshHolds`: `TokensInv` says that the pair a client
  holds was signed at the time recorded with it, and which of the two is the
  access token; the step that lets a request in checks that one.
- `OwnDocumentsHolds`: a client, a request and a document each name a person by
  an id of a table of users. `NamesInv`: an id of a table is that of one
  person. It is not inductive, since a sign-in adds a name; `RootedInv` adds that
  the table, while it is there, has the person under that id, also the table of
  an ended process, which no later process is confused with as the
  start is part of its name. `WiredInv` adds that a process that serves has the
  users in some database, which follows from the order of the providers.
- `OneDatabaseHolds`: `VariantsInv` ties the variant of every store that has its
  provider behind it to what came of the one opening of the file and of the one
  pool, which later providers find unchanged.
- `AcceptedConfigIsUsableHolds`: what `Load` returns has passed the checks
  (`LoadChecks`), and the budgets without a check of their own are numbers in the
  defaults and stay numbers through the file and the environment, of whose settings
  of one name the last that can be read counts; then the uses follow
  (`CheckedIsUsable`). A product that fits its width is not changed by it
  (`WrappedKeeps`).

`Stores_proofs`

- ORDER BY and sort (`SqlRows!Sorted`) are first order: the order is a set of pairs,
  and each row is one that no remaining row goes before. `SortedArranges`: for a strict
  partial order on finite rows it lists every row once, none after a row it goes
  before; `OneArrangement`: if the order is total it is the only such list. `SameKeys`:
  two arrangements of tables that correspond, by the same key, show the same keys,
  however the ties come out; with these two what a query answers is compared without
  knowing how ties are broken. `TextByRank`: times of different text are ordered
  by the rank the text gives them.
- `DocumentStoresAgreeHolds`: `DocStoresInv` says of each of the five tables that the
  three variants have the same rows, and of what memory keeps in slices that it is
  in the order of the calls (`InOrder`), no two documents or sessions of one time. Lists
  then follow from `OneArrangement`; the log of a session, which memory lists in the
  other direction, from `ReverseIsNewest`; searches, whose ties are left open, from
  `SameKeys` on the nearness and the limits from `TopShows`, for any number of hits
  above the limit or below it; for Postgres where distance sorts as the cosine does
  (`DistanceSorts`).
- `ConversationStoresAgreeHolds`, the history: `ChatLogInv` says that the tables have the
  messages of the slice, numbered in the order they were written, no earlier time after
  a later one. `Spent` is a sum that no prefix lowers (`SpentSums`), so that the
  messages that fit are the longest prefix that does (`FittingIsLongest`) and LIMIT
  hides none of them (`LimitHidesNothing`); read backwards it is the longest end
  (`EndSums`, `RecentIsNewest`). SQLite and Postgres list the messages backwards under the
  conditions the property names, by `OneArrangement`.
- The memories: the slice has the rows of Postgres (`SliceUpserted`, `SlicePruned`).
  That those of SQLite are the same while no text misorders two of them is
  not inductive: a pair that misled a prune may be pruned itself later, and the
  tables would differ with nothing left to blame. `Parted` says what remains: all
  that one variant kept outrank, in its own order or as later and as important, what
  only the other has, and it is full (`PartedStays`, from `PruneStays`: a full store
  takes a memory only for one of no more importance). Rows above each other in both
  orders are a pair that the text misorders (`InOrderNotParted`). A token
  budget may be any integer; that the limits of messages, prunes and searches are above
  zero (`ChatAssumption`) the service and the providers see to.
- `CachesAgreeHolds`: `CachesInv` says what each cache keeps for a key and until when,
  where Valkey's expiry is the time to live in whole seconds (`WholeSeconds`), and that
  counts and first spellings are the same. The lists of the most asked have the same
  counts for any ties (`TopsHaveTheSameCounts`).
- `QuestionsAgreeHolds`: the three question repositories. `QuestionsInv`: memory
  numbers its records, no two with one text, and its indexes lead to a record of
  the text and of the hash; SQLite has the same rows; Postgres has a question of
  every hash, the first one (`FirstOfHash`). A new question is the first of its hash
  exactly when Postgres takes it. That one row to a hash is one record is counted
  (`OneEachIsOne`), and of the nearest there is a first (`FirstExists`).
- `UserStoresAgreeHolds`: the three variants of the user repository, driven with the
  same calls. `StoresInv`: memory and its two indexes have one user per email and one
  identity per Google account and per user; SQLite has the same rows under the same
  ids; Postgres has the same emails under ids of its own and links the same Google
  accounts to them, with the same email and token where it has a token. An upsert
  keeps it if the row fits (`Fits`), memory and SQLite store it (`Stored`) and
  Postgres stores the same or cannot read what it has (`Followed`).

Where an argument needs the largest or the least of a set of numbers, it is taken
from well-foundedness of the order on the naturals and not by induction.

Only model-checked:

- Liveness under fairness: `UploadsSettle`, `JobsDrain`, `StreamEnds`,
  `SignalStops`.
- The disagreements with the documentation, which are counterexamples of TLC.

## 5. Not modelled

- The JSON, HTTP and SQL of the clients and stores, the wording of prompts and of
  fallback answers, logging and the counters of tokens: input and output.
- Signatures, password hashes and the token cipher, which are taken to work; the
  arithmetic of the semantic hash and of the embeddings, and the vocabulary of
  the encoder, which are constants.
- The fields that a binding accepts, multipart parsing, and the state cookie of
  the Google redirect.
- The agent harness and its orchestrator: a tool for developing the program that
  shares no state with it. Templates, scripts, examples.

## 6. Plan

What is left, in this order:

1. The Postgres variants as constants of `FaqAnswers` and `Accounts`, whose
   unique keys decide their races differently.
2. An abstract answer service that `FaqAnswers` implements.
