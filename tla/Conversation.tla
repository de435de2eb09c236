---------------------------- MODULE Conversation ----------------------------
(***************************************************************************)
(* Questions over uploaded documents, with sessions, the message log and   *)
(* the long-term memories in SQLite, behind the retry of POST requests:    *)
(* one action per call of Ask that changes something or whose failure      *)
(* decides, and the summary jobs it starts on the immediate queue.         *)
(*                                                                         *)
(* A question is named by its request, a session by the request and the    *)
(* attempt that created it.  Every message counts one token.  What is      *)
(* retrieved and answered is left out: only its failure changes the state. *)
(***************************************************************************)
EXTENDS Integers, FiniteSets, Sequences, SequencesExt

CONSTANTS
  Requests,
  Users,
  MaxHistory,   \* messages the token budget of the history allows
  SummaryEvery, \* uploadask.memory.summaryEveryNTurns
  PruneLimit,   \* uploadask.memory.pruneLimit
  MaxAttempts,  \* http.retry.maxAttempts
  MaxNew,       \* bound on the requests for a new session
  MaxFaults     \* bound on failing calls and process deaths

ASSUME ConversationAssumption ==
  /\ MaxHistory \in Nat \ {0}
  /\ SummaryEvery \in Nat \ {0}
  /\ PruneLimit \in Nat \ {0}
  /\ MaxAttempts \in Nat \ {0, 1}
  /\ MaxNew \in Nat
  /\ MaxFaults \in Nat

VARIABLES
  sessions,  \* upload_qa_sessions
  messages,  \* upload_qa_messages [role, turn], by id
  clock,     \* the last time that was given to a turn
  stamps,    \* the time that the messages of a turn carry, 0 before it has one
  logs,      \* upload_query_logs: the turns in it
  memories,  \* upload_qa_memories [session, source, turn], by id
  pc,        \* the next call of a request
  user,      \* who sent it
  requested, \* the session it asks for, or None
  session,   \* the session its turn is in
  attempt,   \* the attempt it is in, 0 before and after
  history,   \* the messages it has loaded
  reply,     \* "none", "ok", "error" or "lost"
  job,       \* the next call of the summary job that a request started
  faults

tables == <<sessions, messages, clock, stamps, logs, memories>>
locals == <<user, requested, session, attempt, history, reply>>
vars == <<tables, locals, pc, job, faults>>

None == <<>> \* no user, no session
Sessions == Requests \X (1..MaxAttempts)
Roles == {"user", "assistant"}
Owner(s) == user[s[1]]

Init ==
  /\ sessions = {}
  /\ messages = <<>>
  /\ clock = 0
  /\ stamps = [r \in Requests |-> 0]
  /\ logs = {}
  /\ memories = <<>>
  /\ pc = [r \in Requests |-> "new"]
  /\ user = [r \in Requests |-> None]
  /\ requested = [r \in Requests |-> None]
  /\ session = [r \in Requests |-> None]
  /\ attempt = [r \in Requests |-> 0]
  /\ history = [r \in Requests |-> {}]
  /\ reply = [r \in Requests |-> "none"]
  /\ job = [r \in Requests |-> "none"]
  /\ faults = 0

-----------------------------------------------------------------------------
(* Attempts *)

GoesTo(r, step) == pc' = [pc EXCEPT ![r] = step]

Ends(r, code) ==
  /\ GoesTo(r, "answered")
  /\ reply' = [reply EXCEPT ![r] = code]
  /\ attempt' = [attempt EXCEPT ![r] = 0]
  /\ history' = [history EXCEPT ![r] = {}]

\* An error of Ask is a status of 500: the request is handled from the start
\* again, unless this was the last attempt.
AttemptFails(r) ==
  /\ IF attempt[r] < MaxAttempts
     THEN /\ GoesTo(r, "session")
          /\ attempt' = [attempt EXCEPT ![r] = attempt[r] + 1]
          /\ history' = [history EXCEPT ![r] = {}]
          /\ UNCHANGED reply
     ELSE Ends(r, "error")
  /\ UNCHANGED <<user, requested, session, job>>

\* A client asks in a new session, in one that it or somebody else was given, or
\* in one that a failed attempt left, which is listed.
Begin(r, u, s) ==
  /\ pc[r] = "new"
  /\ \/ s = None /\ Cardinality({q \in Requests : pc[q] # "new" /\ requested[q] = None}) < MaxNew
     \/ s \in sessions /\ session[s[1]] # s
     \/ \E q \in Requests : reply[q] = "ok" /\ session[q] = s
  /\ GoesTo(r, "session")
  /\ user' = [user EXCEPT ![r] = u]
  /\ requested' = [requested EXCEPT ![r] = s]
  /\ attempt' = [attempt EXCEPT ![r] = 1]
  /\ UNCHANGED <<tables, session, history, reply, job, faults>>

-----------------------------------------------------------------------------
(* The steps of Ask *)

UsesSession(r, s) ==
  /\ session' = [session EXCEPT ![r] = s]
  /\ GoesTo(r, "history")
  /\ UNCHANGED <<user, requested, attempt, history, reply, job>>

\* Faulty variant: a session is found by its id alone.
EnsureAnySession(r) ==
  /\ pc[r] = "session"
  /\ \/ /\ requested[r] = None
        /\ sessions' = sessions \cup {<<r, attempt[r]>>}
        /\ UsesSession(r, <<r, attempt[r]>>)
     \/ /\ requested[r] \in sessions
        /\ UsesSession(r, requested[r])
        /\ UNCHANGED sessions
  /\ UNCHANGED <<messages, clock, stamps, logs, memories, faults>>

EnsureSession(r) ==
  /\ pc[r] = "session"
  /\ \/ /\ requested[r] = None
        /\ sessions' = sessions \cup {<<r, attempt[r]>>}
        /\ UsesSession(r, <<r, attempt[r]>>)
     \/ /\ requested[r] \in sessions
        /\ Owner(requested[r]) = user[r]
        /\ UsesSession(r, requested[r])
        /\ UNCHANGED sessions
     \/ /\ requested[r] # None
        /\ requested[r] \notin sessions \/ Owner(requested[r]) # user[r]
        /\ Ends(r, "not_found")
        /\ UNCHANGED <<user, requested, session, job, sessions>>
  /\ UNCHANGED <<messages, clock, stamps, logs, memories, faults>>

InSessionOf(r, turn) == session[turn] = session[r] /\ user[turn] = user[r]

MessagesOf(r) == {i \in DOMAIN messages : InSessionOf(r, messages[i].turn)}

\* Faulty variant: the messages are listed by id only.
ById(i, j) == i < j

\* The order of a list of messages: by the time they carry, then by id.
Before(i, j) ==
  \/ stamps[messages[i].turn] < stamps[messages[j].turn]
  \/ messages[i].turn = messages[j].turn /\ i < j

\* The last messages of the session.
ListRecent(r) ==
  {i \in MessagesOf(r) : Cardinality({j \in MessagesOf(r) : Before(i, j)}) < MaxHistory}

LoadHistory(r) ==
  /\ pc[r] = "history"
  /\ history' = [history EXCEPT ![r] = {messages[i] : i \in ListRecent(r)}]
  /\ GoesTo(r, "retrieve")
  /\ UNCHANGED <<tables, user, requested, session, attempt, reply, job, faults>>

Passes(r, from, to) ==
  /\ pc[r] = from
  /\ GoesTo(r, to)
  /\ UNCHANGED <<locals, job>>

\* Embed the question, search chunks and memories, ask the model: an answer is
\* made up when the model gives none.
Retrieve(r) ==
  /\ Passes(r, "retrieve", "log")
  /\ UNCHANGED <<tables, faults>>

\* Both messages of a turn carry the time at which the log has been written.
Stamps(r) ==
  /\ clock' = clock + 1
  /\ stamps' = [stamps EXCEPT ![r] = clock']

\* Rows of a turn need the row of its session.
HasSession(r) == session[r] \in sessions

AppendLog(r) ==
  /\ Passes(r, "log", "question")
  /\ logs' = IF HasSession(r) THEN logs \cup {r} ELSE logs
  /\ Stamps(r)
  /\ UNCHANGED <<sessions, messages, memories, faults>>

AddMessage(r, role) ==
  messages' = IF HasSession(r) THEN Append(messages, [role |-> role, turn |-> r]) ELSE messages

AppendQuestion(r) ==
  /\ Passes(r, "question", "answer")
  /\ AddMessage(r, "user")
  /\ UNCHANGED <<sessions, clock, stamps, logs, memories, faults>>

\* Faulty variant: an answer that cannot be stored is an error of Ask.
AppendAnswerOrFail(r) ==
  \/ /\ Passes(r, "answer", "remember")
     /\ AddMessage(r, "assistant")
     /\ UNCHANGED <<sessions, clock, stamps, logs, memories, faults>>
  \/ /\ pc[r] = "answer"
     /\ faults < MaxFaults
     /\ faults' = faults + 1
     /\ AttemptFails(r)
     /\ UNCHANGED tables

AppendAnswer(r) ==
  /\ Passes(r, "answer", "remember")
  /\ AddMessage(r, "assistant")
  /\ UNCHANGED <<sessions, clock, stamps, logs, memories, faults>>

AddMemory(r, source) ==
  memories' = IF HasSession(r)
    THEN Append(memories, [session |-> session[r], source |-> source, turn |-> r])
    ELSE memories

PersistTurn(r) ==
  /\ Passes(r, "remember", "prune")
  /\ AddMemory(r, "qa_turn")
  /\ UNCHANGED <<sessions, messages, clock, stamps, logs, faults>>

MemoriesOf(r) == {i \in DOMAIN memories : InSessionOf(r, memories[i].turn)}

\* Faulty variant: the oldest memories go, whatever their importance.
IsLater(j, i) == j > i

\* A summary has more importance than a turn; of two alike the later is kept.
Outranks(j, i) ==
  IF memories[j].source = memories[i].source THEN j > i ELSE memories[j].source = "summary"

\* The first PruneLimit memories of the session are kept.
Kept(r) ==
  {i \in MemoriesOf(r) : Cardinality({j \in MemoriesOf(r) : Outranks(j, i)}) < PruneLimit}

\* The rows at the positions S, in their order.
Rows(S) ==
  [n \in 1..Cardinality(S) |-> memories[CHOOSE i \in S : Cardinality({j \in S : j <= i}) = n]]

Prune(r) == memories' = Rows(DOMAIN memories \ (MemoriesOf(r) \ Kept(r)))

\* Faulty variant: only the summary job prunes.
PruneTurnsLater(r) ==
  /\ Passes(r, "prune", "summary")
  /\ UNCHANGED <<tables, faults>>

PruneTurns(r) ==
  /\ Passes(r, "prune", "summary")
  /\ Prune(r)
  /\ UNCHANGED <<sessions, messages, clock, stamps, logs, faults>>

\* The turns that are counted are the messages of the loaded history and two.
SummaryDue(r) == (Cardinality(history[r]) + 2) % SummaryEvery = 0

TriggerSummary(r) ==
  /\ pc[r] = "summary"
  /\ job' = [job EXCEPT ![r] = IF SummaryDue(r) THEN "list" ELSE "none"]
  /\ Ends(r, "ok")
  /\ UNCHANGED <<tables, user, requested, session, faults>>

AskStep(r) ==
  \/ EnsureSession(r)
  \/ LoadHistory(r)
  \/ Retrieve(r)
  \/ AppendLog(r)
  \/ AppendQuestion(r)
  \/ AppendAnswer(r)
  \/ PersistTurn(r)
  \/ PruneTurns(r)
  \/ TriggerSummary(r)

-----------------------------------------------------------------------------
(* SummarizeSession *)

JobPasses(r, from, to) ==
  /\ job[r] = from
  /\ job' = [job EXCEPT ![r] = to]
  /\ UNCHANGED <<sessions, messages, clock, stamps, logs, locals, pc>>

ListMessages(r) ==
  /\ JobPasses(r, "list", IF ListRecent(r) = {} THEN "none" ELSE "upsert")
  /\ UNCHANGED <<memories, faults>>

UpsertSummary(r) ==
  /\ JobPasses(r, "upsert", "prune")
  /\ AddMemory(r, "summary")
  /\ UNCHANGED faults

PruneSummaries(r) ==
  /\ JobPasses(r, "prune", "none")
  /\ Prune(r)
  /\ UNCHANGED faults

JobStep(r) ==
  \/ ListMessages(r)
  \/ UpsertSummary(r)
  \/ PruneSummaries(r)

-----------------------------------------------------------------------------
(* Failures *)

Fault ==
  /\ faults < MaxFaults
  /\ faults' = faults + 1

\* The call fails without an effect, and Ask returns the error.
CallFails(r) ==
  /\ Fault
  /\ \/ pc[r] = "retrieve"
     \/ pc[r] = "session" /\ requested[r] # None
  /\ AttemptFails(r)
  /\ UNCHANGED tables

Following == [history |-> "retrieve", question |-> "answer", answer |-> "remember",
              prune |-> "summary"]

\* The call fails without an effect, and Ask goes on.  A session that was not
\* created is used all the same; a turn that was not embedded is not pruned for.
CallFailsQuietly(r) ==
  /\ Fault
  /\ \/ /\ pc[r] = "session" /\ requested[r] = None
        /\ UsesSession(r, <<r, attempt[r]>>)
        /\ UNCHANGED tables
     \/ /\ pc[r] \in DOMAIN Following
        /\ Passes(r, pc[r], Following[pc[r]])
        /\ UNCHANGED tables
     \/ /\ Passes(r, "log", "question")
        /\ Stamps(r)
        /\ UNCHANGED <<sessions, messages, logs, memories>>
     \/ /\ \E next \in {"prune", "summary"} : Passes(r, "remember", next)
        /\ UNCHANGED tables
     \/ /\ pc[r] = "summary"
        /\ Ends(r, "ok")
        /\ UNCHANGED <<tables, user, requested, session, job>>

\* A failing upsert is followed by the prune, any other failure ends the job.
JobFails(r) ==
  /\ Fault
  /\ \/ job[r] = "upsert" /\ JobPasses(r, "upsert", "prune")
     \/ job[r] # "none" /\ JobPasses(r, job[r], "none")
  /\ UNCHANGED memories

InCall(r) == pc[r] \notin {"new", "answered"}

\* The process dies with its requests and jobs; the tables stay.
Dies ==
  /\ Fault
  /\ \E r \in Requests : InCall(r) \/ job[r] # "none"
  /\ pc' = [r \in Requests |-> IF InCall(r) THEN "answered" ELSE pc[r]]
  /\ reply' = [r \in Requests |-> IF InCall(r) THEN "lost" ELSE reply[r]]
  /\ attempt' = [r \in Requests |-> 0]
  /\ history' = [r \in Requests |-> {}]
  /\ job' = [r \in Requests |-> "none"]
  /\ UNCHANGED <<tables, user, requested, session>>

Next ==
  \/ \E r \in Requests, u \in Users, s \in Sessions \cup {None} : Begin(r, u, s)
  \/ \E r \in Requests : AskStep(r) \/ JobStep(r)
  \/ \E r \in Requests : CallFails(r) \/ CallFailsQuietly(r) \/ JobFails(r)
  \/ Dies

Spec == Init /\ [][Next]_vars

-----------------------------------------------------------------------------
(* Properties *)

\* However often a request is retried, its turn is written at most once, by the
\* attempt whose answer the client gets; an answered turn is complete in the
\* message log and the query log unless a call failed.
TurnIsWrittenOnce ==
  \A r \in Requests :
    LET Mine(role) == Cardinality({i \in DOMAIN messages : messages[i] = [role |-> role, turn |-> r]})
    IN /\ \A role \in Roles : Mine(role) <= 1
       /\ reply[r] = "error" => r \notin logs /\ \A role \in Roles : Mine(role) = 0
       /\ reply[r] = "ok" /\ faults = 0 => r \in logs /\ \A role \in Roles : Mine(role) = 1

\* In the history that any question or summary of a session would load, an answer
\* comes right after its question, although turns are appended concurrently; only
\* the oldest question may be cut off, unless a call failed.
HistoryKeepsTurns ==
  \A r \in Requests :
    LET h == ListRecent(r)
        RightAfter(i, j) == Before(i, j) /\ ~ \E k \in h : Before(i, k) /\ Before(k, j)
    IN \A i, j \in h :
         /\ messages[i].role = "user" /\ messages[i].turn = messages[j].turn /\ i # j =>
              RightAfter(i, j)
         /\ faults = 0 /\ messages[j].role = "assistant" /\ RightAfter(i, j) =>
              messages[i] = [role |-> "user", turn |-> messages[j].turn]

\* A summary is pruned only in favour of summaries: a session that has lost one
\* has no memories of single turns left.
SummariesOutliveTurns ==
  [][\A m \in ToSet(memories) :
       m.source = "summary" /\ m \notin ToSet(memories') =>
         \A n \in ToSet(memories') : n.session = m.session => n.source = "summary"]_vars

\* A session has more memories than the limit only while somebody who added one
\* has still to prune, or after a failure.
MemoriesArePruned ==
  \A s \in sessions :
    \/ Cardinality({m \in ToSet(memories) : m.session = s}) <= PruneLimit
    \/ \E r \in Requests : session[r] = s /\ "prune" \in {pc[r], job[r]}
    \/ faults # 0

\* Whoever asks in the session of another user, whether it exists or not, adds
\* nothing to it and is answered nothing from it; the session that a client is
\* told exists unless a call failed.
SessionsStayPrivate ==
  \A r \in Requests :
    /\ HasSession(r) => Owner(session[r]) = user[r]
    /\ \A m \in history[r] : user[m.turn] = user[r]
    /\ reply[r] = "ok" /\ faults = 0 => HasSession(r)
===============================================================================
