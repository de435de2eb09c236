-------------------------- MODULE Conversation_proofs --------------------------
(***************************************************************************)
(* Proofs about Conversation, for any requests and users, any limits of    *)
(* histories and memories, any number of attempts and of failures.         *)
(***************************************************************************)
EXTENDS Conversation, FiniteSetTheorems, WellFoundedInduction, TLAPS

-----------------------------------------------------------------------------
(* Rows that are deleted *)

\* The rows at S are those of the table that are at a position in S.
LEMMA RowsOfPositions ==
  ASSUME NEW S, IsFiniteSet(S), S \subseteq Int
  PROVE  /\ Cardinality(S) \in Nat
         /\ DOMAIN Rows(S) = 1..Cardinality(S)
         /\ \A n \in 1..Cardinality(S) : \E i \in S : Rows(S)[n] = memories[i]
         /\ \A i \in S : \E n \in 1..Cardinality(S) : Rows(S)[n] = memories[i]
<1> DEFINE Upto(i) == {j \in S : j <= i}
           c == [i \in S |-> Cardinality(Upto(i))]
           N == Cardinality(S)
<1>1. N \in Nat /\ IsFiniteSet(1..N) /\ Cardinality(1..N) = N
  BY FS_CardinalityType, FS_Interval
<1>2. ASSUME NEW i \in S
      PROVE  IsFiniteSet(Upto(i)) /\ c[i] \in 1..N
  <2>1. Upto(i) \in SUBSET S /\ i \in Upto(i)
    OBVIOUS
  <2> HIDE DEF Upto
  <2>2. IsFiniteSet(Upto(i)) /\ Cardinality(Upto(i)) <= N
    BY <2>1, FS_Subset
  <2>3. Cardinality(Upto(i)) \in Nat /\ Cardinality(Upto(i)) # 0
    BY <2>1, <2>2, FS_CardinalityType, FS_EmptySet
  <2> QED
    BY <1>1, <2>2, <2>3
<1>3. ASSUME NEW i \in S, NEW k \in S, c[i] = c[k], i <= k
      PROVE  i = k
  <2>0. Cardinality(Upto(i)) = Cardinality(Upto(k))
    BY <1>3
  <2>1. Upto(i) \in SUBSET Upto(k)
    <3>1. ASSUME NEW j \in S, j <= i
          PROVE  j <= k
      <4>1. i \in Int /\ j \in Int /\ k \in Int
        OBVIOUS
      <4> QED
        BY <1>3, <3>1, <4>1
    <3> QED
      BY <3>1
  <2>2. IsFiniteSet(Upto(k))
    BY <1>2
  <2>3. Upto(i) = Upto(k)
    <3> HIDE DEF Upto
    <3> QED
      BY <2>0, <2>1, <2>2, FS_Subset
  <2> QED
    BY <1>3, <2>3
<1>4. c \in Injection(S, 1..N)
  <2>1. c \in [S -> 1..N]
    BY <1>2
  <2>2. ASSUME NEW i \in S, NEW k \in S, c[i] = c[k]
        PROVE  i = k
    <3>1. i <= k \/ k <= i
      OBVIOUS
    <3> HIDE DEF c
    <3> QED
      BY <1>3, <2>2, <3>1
  <2> HIDE DEF c
  <2> QED
    BY <2>1, <2>2 DEF Injection, IsInjective
<1>5. \A n \in 1..N : \E i \in S : c[i] = n
  <2> HIDE DEF c
  <2>1. c \in Surjection(S, 1..N)
    BY <1>1, <1>4, FS_Injection
  <2> QED
    BY <2>1 DEF Surjection
<1>6. \A n \in 1..N : Rows(S)[n] = memories[CHOOSE i \in S : c[i] = n]
  BY DEF Rows
<1>7. ASSUME NEW n \in 1..N
      PROVE  \E i \in S : c[i] = n /\ Rows(S)[n] = memories[i]
  <2> HIDE DEF c
  <2> QED
    BY <1>5, <1>6
<1>8. ASSUME NEW i \in S
      PROVE  Rows(S)[c[i]] = memories[i] /\ c[i] \in 1..N
  <2>1. PICK k \in S : c[k] = c[i] /\ Rows(S)[c[i]] = memories[k]
    BY <1>2, <1>7
  <2>2. k = i
    BY <1>3, <2>1
  <2> QED
    BY <1>2, <2>1, <2>2
<1> HIDE DEF c
<1> QED
  BY <1>1, <1>7, <1>8 DEF Rows

-----------------------------------------------------------------------------
(* Types *)

Steps == {"session", "history", "retrieve", "log", "question", "answer", "remember", "prune",
          "summary"}

Message == [role : Roles, turn : Requests]

Memory == [session : Sessions, source : {"qa_turn", "summary"}, turn : Requests]

\* The values of the variables; a request that is being handled is in an attempt.
TypeInv ==
  /\ sessions \subseteq Sessions
  /\ messages \in Seq(Message)
  /\ clock \in Nat
  /\ stamps \in [Requests -> Nat]
  /\ logs \subseteq Requests
  /\ memories \in Seq(Memory)
  /\ pc \in [Requests -> Steps \cup {"new", "answered"}]
  /\ user \in [Requests -> Users \cup {None}]
  /\ requested \in [Requests -> Sessions \cup {None}]
  /\ session \in [Requests -> Sessions \cup {None}]
  /\ attempt \in [Requests -> 0..MaxAttempts]
  /\ history \in [Requests -> SUBSET Message]
  /\ reply \in [Requests -> {"none", "ok", "error", "not_found", "lost"}]
  /\ job \in [Requests -> {"none", "list", "upsert", "prune"}]
  /\ faults \in Nat
  /\ \A r \in Requests : pc[r] \in Steps => attempt[r] # 0

\* A table of positions in a finite range: its rows are again rows of the table.
LEMMA PruneKeepsRows ==
  ASSUME NEW r \in Requests, TypeInv, Prune(r)
  PROVE  /\ memories' \in Seq(Memory)
         /\ \A n \in DOMAIN memories' : \E i \in DOMAIN memories :
              /\ i \notin MemoriesOf(r) \ Kept(r)
              /\ memories'[n] = memories[i]
         /\ \A i \in DOMAIN memories \ (MemoriesOf(r) \ Kept(r)) :
              \E n \in DOMAIN memories' : memories'[n] = memories[i]
<1> DEFINE S == DOMAIN memories \ (MemoriesOf(r) \ Kept(r))
<1>1. memories' = Rows(S)
  BY DEF Prune
<1>2. DOMAIN memories = 1..Len(memories) /\ Len(memories) \in Nat /\ memories \in [DOMAIN memories -> Memory]
  BY DEF TypeInv
<1>3. S \in SUBSET DOMAIN memories
  OBVIOUS
<1>4. IsFiniteSet(S) /\ S \subseteq Int
  <2> HIDE DEF S
  <2>1. IsFiniteSet(1..Len(memories))
    <3>1. Len(memories) \in Int /\ 1 \in Int
      BY <1>2
    <3> QED
      BY <3>1, FS_Interval
  <2>2. IsFiniteSet(S)
    BY <1>2, <1>3, <2>1, FS_Subset
  <2> QED
    BY <1>2, <1>3, <2>2
<1>5. \A i \in S : i \in DOMAIN memories /\ i \notin MemoriesOf(r) \ Kept(r)
  OBVIOUS
<1> DEFINE T == Rows(S)
<1>6. /\ Cardinality(S) \in Nat
      /\ DOMAIN T = 1..Cardinality(S)
      /\ \A n \in 1..Cardinality(S) : \E i \in S : T[n] = memories[i]
      /\ \A i \in S : \E n \in 1..Cardinality(S) : T[n] = memories[i]
  <2> HIDE DEF S
  <2> QED
    BY <1>4, RowsOfPositions
<1>7. T = [n \in 1..Cardinality(S) |-> T[n]]
  <2> HIDE DEF S
  <2> QED
    BY <1>6 DEF Rows
<1> HIDE DEF S, T
<1>8. \A n \in 1..Cardinality(S) : T[n] \in Memory
  BY <1>2, <1>5, <1>6
<1>9. T \in Seq(Memory)
  BY <1>6, <1>7, <1>8
<1>10. memories' = T
  BY <1>1 DEF T
<1>11. \A i \in DOMAIN memories \ (MemoriesOf(r) \ Kept(r)) : i \in S
  BY DEF S
<1> QED
  BY <1>5, <1>6, <1>9, <1>10, <1>11

\* No session is called None.
LEMMA NoneIsNoSession == None \notin Sessions
BY DEF None, Sessions

\* What a turn or a summary adds to the memories is a memory of its session.
LEMMA AddingMemoryKeepsTypes ==
  ASSUME TypeInv, NEW r \in Requests, NEW source \in {"qa_turn", "summary"}, AddMemory(r, source)
  PROVE  memories' \in Seq(Memory)
<1> DEFINE m == [session |-> session[r], source |-> source, turn |-> r]
<1>1. CASE HasSession(r)
  <2>1. m \in Memory
    BY <1>1 DEF HasSession, TypeInv, Memory
  <2>2. memories' = Append(memories, m)
    BY <1>1 DEF AddMemory
  <2> HIDE DEF m
  <2> QED
    BY <2>1, <2>2 DEF TypeInv
<1>2. CASE ~HasSession(r)
  BY <1>2 DEF AddMemory, TypeInv
<1> QED
  BY <1>1, <1>2

\* The end of an attempt keeps the types, and the attempt is counted.
LEMMA FailingKeepsTypes ==
  ASSUME TypeInv, NEW r \in Requests, AttemptFails(r)
  PROVE  /\ pc' \in [Requests -> Steps \cup {"new", "answered"}]
         /\ attempt' \in [Requests -> 0..MaxAttempts]
         /\ history' \in [Requests -> SUBSET Message]
         /\ reply' \in [Requests -> {"none", "ok", "error", "not_found", "lost"}]
         /\ \A q \in Requests : pc'[q] \in Steps => attempt'[q] # 0
         /\ UNCHANGED <<user, requested, session, job>>
<1>1. CASE attempt[r] < MaxAttempts
  <2>1. /\ pc' = [pc EXCEPT ![r] = "session"]
        /\ attempt' = [attempt EXCEPT ![r] = attempt[r] + 1]
        /\ history' = [history EXCEPT ![r] = {}]
        /\ UNCHANGED <<reply, user, requested, session, job>>
    BY <1>1 DEF AttemptFails, GoesTo
  <2>2. attempt[r] + 1 \in 0..MaxAttempts /\ attempt[r] + 1 # 0
    BY <1>1, ConversationAssumption DEF TypeInv
  <2> QED
    BY <2>1, <2>2 DEF TypeInv, Steps
<1>2. CASE ~(attempt[r] < MaxAttempts)
  <2>1. /\ pc' = [pc EXCEPT ![r] = "answered"]
        /\ attempt' = [attempt EXCEPT ![r] = 0]
        /\ history' = [history EXCEPT ![r] = {}]
        /\ reply' = [reply EXCEPT ![r] = "error"]
        /\ UNCHANGED <<user, requested, session, job>>
    BY <1>2 DEF AttemptFails, Ends, GoesTo
  <2> QED
    BY <2>1, ConversationAssumption DEF TypeInv, Steps
<1> QED
  BY <1>1, <1>2

LEMMA TypeInvInit == Init => TypeInv
BY ConversationAssumption DEF Init, TypeInv, Steps, Message, Memory

LEMMA AskKeepsTypes ==
  ASSUME TypeInv, NEW r \in Requests, AskStep(r)
  PROVE  TypeInv'
<1> USE ConversationAssumption
<1>1. CASE EnsureSession(r)
  <2>1. <<r, attempt[r]>> \in Sessions
    BY <1>1 DEF EnsureSession, TypeInv, Sessions, Steps
  <2>2. CASE requested[r] = None /\ sessions' = sessions \cup {<<r, attempt[r]>>} /\ UsesSession(r, <<r, attempt[r]>>)
    BY <1>1, <2>1, <2>2 DEF EnsureSession, UsesSession, GoesTo, TypeInv, Steps
  <2>3. CASE requested[r] \in sessions /\ UsesSession(r, requested[r]) /\ UNCHANGED sessions
    BY <1>1, <2>3 DEF EnsureSession, UsesSession, GoesTo, TypeInv, Steps
  <2>4. CASE Ends(r, "not_found") /\ UNCHANGED <<user, requested, session, job, sessions>>
    BY <1>1, <2>4 DEF EnsureSession, Ends, GoesTo, TypeInv, Steps
  <2> QED
    BY <1>1, <2>2, <2>3, <2>4 DEF EnsureSession
<1>2. CASE LoadHistory(r)
  <2>1. {messages[i] : i \in ListRecent(r)} \in SUBSET Message
    <3>1. \A i \in DOMAIN messages : messages[i] \in Message
      BY DEF TypeInv
    <3>2. ListRecent(r) \subseteq DOMAIN messages
      BY DEF ListRecent, MessagesOf
    <3> QED
      BY <3>1, <3>2
  <2> QED
    BY <1>2, <2>1 DEF LoadHistory, GoesTo, TypeInv, Steps, tables
<1>3. CASE Retrieve(r)
  BY <1>3 DEF Retrieve, Passes, GoesTo, TypeInv, Steps, tables, locals
<1>4. CASE AppendLog(r)
  BY <1>4 DEF AppendLog, Passes, Stamps, GoesTo, TypeInv, Steps, tables, locals
<1>5. ASSUME NEW role \in Roles, AddMessage(r, role)
      PROVE  messages' \in Seq(Message)
  <2> DEFINE m == [role |-> role, turn |-> r]
  <2>1. m \in Message
    BY DEF Message
  <2>2. messages' = Append(messages, m) \/ messages' = messages
    BY <1>5 DEF AddMessage
  <2>3. messages \in Seq(Message)
    BY DEF TypeInv
  <2> HIDE DEF m
  <2>4. Append(messages, m) \in Seq(Message)
    BY <2>1, <2>3
  <2> QED
    BY <2>2, <2>3, <2>4
<1>6. CASE AppendQuestion(r)
  <2>1. messages' \in Seq(Message)
    BY <1>5, <1>6 DEF AppendQuestion, Roles
  <2> QED
    BY <1>6, <2>1 DEF AppendQuestion, Passes, GoesTo, TypeInv, Steps, locals
<1>7. CASE AppendAnswer(r)
  <2>1. messages' \in Seq(Message)
    BY <1>5, <1>7 DEF AppendAnswer, Roles
  <2> QED
    BY <1>7, <2>1 DEF AppendAnswer, Passes, GoesTo, TypeInv, Steps, locals
<1>8. CASE PersistTurn(r)
  <2>1. memories' \in Seq(Memory)
    BY <1>8, AddingMemoryKeepsTypes DEF PersistTurn
  <2> QED
    BY <1>8, <2>1 DEF PersistTurn, Passes, GoesTo, TypeInv, Steps, locals
<1>9. CASE PruneTurns(r)
  <2>1. memories' \in Seq(Memory)
    BY <1>9, PruneKeepsRows DEF PruneTurns
  <2> QED
    BY <1>9, <2>1 DEF PruneTurns, Passes, GoesTo, TypeInv, Steps, locals
<1>10. CASE TriggerSummary(r)
  BY <1>10 DEF TriggerSummary, Ends, GoesTo, TypeInv, Steps, tables
<1> QED
  BY <1>1, <1>2, <1>3, <1>4, <1>6, <1>7, <1>8, <1>9, <1>10 DEF AskStep

LEMMA JobKeepsTypes ==
  ASSUME TypeInv, NEW r \in Requests, JobStep(r) \/ JobFails(r)
  PROVE  TypeInv'
<1>1. CASE ListMessages(r)
  BY <1>1 DEF ListMessages, JobPasses, TypeInv, locals
<1>2. CASE UpsertSummary(r)
  <2>1. memories' \in Seq(Memory)
    BY <1>2, AddingMemoryKeepsTypes DEF UpsertSummary
  <2> QED
    BY <1>2, <2>1 DEF UpsertSummary, JobPasses, TypeInv, locals
<1>3. CASE PruneSummaries(r)
  <2>1. memories' \in Seq(Memory)
    BY <1>3, PruneKeepsRows DEF PruneSummaries
  <2> QED
    BY <1>3, <2>1 DEF PruneSummaries, JobPasses, TypeInv, locals
<1>4. CASE JobFails(r)
  <2>1. faults' \in Nat
    BY <1>4 DEF JobFails, Fault, TypeInv
  <2>2. \E to \in {"none", "prune"} : JobPasses(r, job[r], to)
    BY <1>4 DEF JobFails
  <2>3. memories' = memories
    BY <1>4 DEF JobFails
  <2> QED
    BY <2>1, <2>2, <2>3 DEF JobPasses, TypeInv, locals
<1> QED
  BY <1>1, <1>2, <1>3, <1>4 DEF JobStep

LEMMA FaultsKeepTypes ==
  ASSUME TypeInv, NEW r \in Requests, CallFails(r) \/ CallFailsQuietly(r)
  PROVE  TypeInv'
<1> USE ConversationAssumption
<1>0. faults' \in Nat
  BY DEF CallFails, CallFailsQuietly, Fault, TypeInv
<1>1. CASE CallFails(r)
  BY <1>0, <1>1, FailingKeepsTypes DEF CallFails, TypeInv, tables
<1>2. CASE pc[r] = "session" /\ UsesSession(r, <<r, attempt[r]>>) /\ UNCHANGED tables
  <2>1. <<r, attempt[r]>> \in Sessions
    BY <1>2 DEF TypeInv, Sessions, Steps
  <2> QED
    BY <1>0, <1>2, <2>1 DEF UsesSession, GoesTo, TypeInv, Steps, tables
<1>3. CASE pc[r] \in DOMAIN Following /\ Passes(r, pc[r], Following[pc[r]]) /\ UNCHANGED tables
  <2>1. pc[r] \in Steps /\ Following[pc[r]] \in Steps
    BY <1>3 DEF Following, Steps
  <2> QED
    BY <1>0, <1>3, <2>1 DEF Passes, GoesTo, TypeInv, tables, locals
<1>4. CASE Passes(r, "log", "question") /\ Stamps(r) /\ UNCHANGED <<sessions, messages, logs, memories>>
  BY <1>0, <1>4 DEF Passes, Stamps, GoesTo, TypeInv, Steps, tables, locals
<1>5. CASE (\E next \in {"prune", "summary"} : Passes(r, "remember", next)) /\ UNCHANGED tables
  BY <1>0, <1>5 DEF Passes, GoesTo, TypeInv, Steps, tables, locals
<1>6. CASE Ends(r, "ok") /\ UNCHANGED <<tables, user, requested, session, job>>
  BY <1>0, <1>6 DEF Ends, GoesTo, TypeInv, Steps, tables
<1> QED
  BY <1>1, <1>2, <1>3, <1>4, <1>5, <1>6 DEF CallFailsQuietly

LEMMA TypeInvNext == TypeInv /\ [Next]_vars => TypeInv'
<1> SUFFICES ASSUME TypeInv, [Next]_vars
             PROVE  TypeInv'
  OBVIOUS
<1>1. ASSUME NEW r \in Requests, NEW u \in Users, NEW s \in Sessions \cup {None}, Begin(r, u, s)
      PROVE  TypeInv'
  BY <1>1, ConversationAssumption DEF Begin, GoesTo, TypeInv, Steps, tables
<1>2. CASE Dies
  BY <1>2, ConversationAssumption DEF Dies, Fault, InCall, TypeInv, Steps, tables
<1>3. CASE UNCHANGED vars
  BY <1>3 DEF vars, tables, locals, TypeInv
<1> QED
  BY <1>1, <1>2, <1>3, AskKeepsTypes, JobKeepsTypes, FaultsKeepTypes DEF Next

\* The type invariant: every table, every request and every job has a value that
\* the code can give it.
THEOREM TypeInvHolds == Spec => []TypeInv
<1> QED
  BY TypeInvInit, TypeInvNext, PTL DEF Spec

-----------------------------------------------------------------------------
(* Sessions and turns *)

Early == {"new", "session", "history", "retrieve", "log"}

\* The message log has this message of a turn.
Has(role, r) == \E i \in DOMAIN messages : messages[i] = [role |-> role, turn |-> r]

\* The session of a turn is the session of its user.
Placed(r) ==
  session[r] \in Sessions =>
    /\ pc[r] # "new"
    /\ pc[session[r][1]] # "new"
    /\ Owner(session[r]) = user[r]

\* What a request has loaded was sent to its user.
Loaded(r) == \A m \in history[r] : pc[r] # "new" /\ pc[m.turn] # "new" /\ user[m.turn] = user[r]

\* A request that is being handled has no answer and no job yet.
Pending(r) == pc[r] # "answered" => reply[r] = "none" /\ job[r] = "none"

\* A turn is written from the log on, question before answer; no attempt fails then.
Written(r) ==
  /\ pc[r] \in Early \/ reply[r] = "error" => r \notin logs
  /\ pc[r] \in Early \cup {"question"} \/ reply[r] = "error" => ~ Has("user", r)
  /\ pc[r] \in Early \cup {"question", "answer"} \/ reply[r] = "error" => ~ Has("assistant", r)

\* Without a failure every call has had its effect.
Complete(r) ==
  faults = 0 =>
    /\ pc[r] \in Steps \ {"session"} \/ reply[r] = "ok" => session[r] \in sessions
    /\ pc[r] \in Steps \ (Early \cup {"session"}) \/ reply[r] = "ok" => r \in logs
    /\ pc[r] \in Steps \ (Early \cup {"question"}) \/ reply[r] = "ok" => Has("user", r)
    /\ pc[r] \in Steps \ (Early \cup {"question", "answer"}) \/ reply[r] = "ok" =>
         Has("assistant", r)

Turn(r) == Placed(r) /\ Loaded(r) /\ Pending(r) /\ Written(r) /\ Complete(r)

\* Nobody has opened a session before asking; no message is stored twice, and the
\* question of a turn before its answer.
LogInv ==
  /\ \A s \in sessions : pc[s[1]] # "new"
  /\ \A i, j \in DOMAIN messages : messages[i] = messages[j] => i = j
  /\ \A i, j \in DOMAIN messages :
       messages[i].role = "user" /\ messages[j].role = "assistant" /\ messages[i].turn = messages[j].turn =>
         i < j
  /\ faults = 0 => \A r \in Requests : Has("assistant", r) => Has("user", r)

TurnsInv == LogInv /\ \A r \in Requests : Turn(r)

\* What a step leaves as it was: the requests other than r, and whatever nobody takes back.
Others(r) ==
  \A q \in Requests \ {r} :
    /\ pc'[q] = pc[q] /\ user'[q] = user[q] /\ session'[q] = session[q]
    /\ history'[q] = history[q] /\ reply'[q] = reply[q]
    /\ job'[q] = job[q]
    /\ q \in logs' <=> q \in logs
    /\ \A role \in Roles : Has(role, q)' <=> Has(role, q)

Lasting ==
  /\ sessions \subseteq sessions'
  /\ faults' = 0 => faults = 0
  /\ \A q \in Requests : pc[q] # "new" => pc'[q] # "new" /\ user'[q] = user[q]

LEMMA OthersStand ==
  ASSUME TypeInv, TurnsInv, NEW r \in Requests, Others(r), Lasting,
         NEW q \in Requests \ {r}
  PROVE  Turn(q)'
<1>0. Turn(q) /\ q \in Requests
  BY DEF TurnsInv
<1>1. /\ pc'[q] = pc[q] /\ user'[q] = user[q] /\ session'[q] = session[q]
      /\ history'[q] = history[q] /\ reply'[q] = reply[q] /\ job'[q] = job[q]
      /\ q \in logs' <=> q \in logs
      /\ Has("user", q)' <=> Has("user", q)
      /\ Has("assistant", q)' <=> Has("assistant", q)
  BY DEF Others, Roles
<1>2. \A p \in Requests : pc[p] # "new" => pc'[p] # "new" /\ user'[p] = user[p]
  BY DEF Lasting
<1>3. Placed(q)'
  <2> SUFFICES ASSUME session[q] \in Sessions
               PROVE  pc[q] # "new" /\ pc'[session[q][1]] # "new" /\ user'[session[q][1]] = user[q]
    BY <1>1 DEF Placed, Owner
  <2>1. session[q][1] \in Requests
    BY DEF Sessions
  <2> QED
    BY <1>0, <1>2, <2>1 DEF Turn, Placed, Owner
<1>4. Loaded(q)'
  <2>1. \A m \in history[q] : m.turn \in Requests
    BY <1>0 DEF TypeInv, Message
  <2> QED
    BY <1>0, <1>1, <1>2, <2>1 DEF Turn, Loaded
<1>5. Pending(q)' /\ Written(q)'
  BY <1>0, <1>1 DEF Turn, Pending, Written
<1>6. Complete(q)'
  BY <1>0, <1>1 DEF Turn, Complete, Lasting
<1> QED
  BY <1>3, <1>4, <1>5, <1>6 DEF Turn

\* One more message of a turn, if its session is there.
LEMMA AddingMessage ==
  ASSUME TypeInv, NEW r \in Requests, NEW role \in Roles, AddMessage(r, role)
  PROVE  /\ \A o \in Roles, q \in Requests :
              Has(o, q)' <=> Has(o, q) \/ (HasSession(r) /\ o = role /\ q = r)
         /\ HasSession(r) =>
              /\ DOMAIN messages' = DOMAIN messages \cup {Len(messages) + 1}
              /\ messages'[Len(messages) + 1] = [role |-> role, turn |-> r]
              /\ \A i \in DOMAIN messages : messages'[i] = messages[i] /\ i < Len(messages) + 1
         /\ ~ HasSession(r) => messages' = messages
<1> DEFINE m == [role |-> role, turn |-> r]
<1>1. CASE HasSession(r)
  <2>1. messages' = Append(messages, m)
    BY <1>1 DEF AddMessage
  <2>2. messages \in Seq(Message)
    BY DEF TypeInv
  <2> HIDE DEF m
  <2>3. /\ DOMAIN messages' = DOMAIN messages \cup {Len(messages) + 1}
        /\ messages'[Len(messages) + 1] = m
        /\ \A i \in DOMAIN messages : messages'[i] = messages[i] /\ i < Len(messages) + 1
    BY <2>1, <2>2
  <2>4. \A o \in Roles, q \in Requests : Has(o, q)' <=> Has(o, q) \/ m = [role |-> o, turn |-> q]
    BY <2>3 DEF Has
  <2>5. \A o \in Roles, q \in Requests : m = [role |-> o, turn |-> q] <=> o = role /\ q = r
    BY DEF m
  <2> QED
    BY <1>1, <2>3, <2>4, <2>5 DEF m
<1>2. CASE ~HasSession(r)
  <2>1. messages' = messages
    BY <1>2 DEF AddMessage
  <2> QED
    BY <1>2, <2>1 DEF Has
<1> QED
  BY <1>1, <1>2

\* A message that its turn did not have, the answer after the question, keeps the log.
LEMMA AddingKeepsLog ==
  ASSUME TypeInv, LogInv, NEW r \in Requests, NEW role \in Roles, AddMessage(r, role),
         ~ Has(role, r), role = "user" => ~ Has("assistant", r),
         Lasting, UNCHANGED sessions,
         role = "assistant" /\ faults = 0 => Has("user", r)
  PROVE  LogInv'
<1>1. \A s \in sessions' : pc'[s[1]] # "new"
  <2>1. \A s \in sessions : s[1] \in Requests
    BY DEF TypeInv, Sessions
  <2> QED
    BY <2>1 DEF LogInv, Lasting
<1>2. faults' = 0 => \A q \in Requests : Has("assistant", q)' => Has("user", q)'
  <2>1. \A o \in Roles, q \in Requests :
          Has(o, q)' <=> Has(o, q) \/ (HasSession(r) /\ o = role /\ q = r)
    BY AddingMessage
  <2>2. role \in {"user", "assistant"}
    BY DEF Roles
  <2>3. \A q \in Requests :
          /\ Has("user", q)' <=> Has("user", q) \/ (HasSession(r) /\ "user" = role /\ q = r)
          /\ Has("assistant", q)' <=> Has("assistant", q) \/ (HasSession(r) /\ "assistant" = role /\ q = r)
    BY <2>1 DEF Roles
  <2>4. faults' = 0 => faults = 0 /\ \A q \in Requests : Has("assistant", q) => Has("user", q)
    BY DEF LogInv, Lasting
  <2> QED
    BY <2>2, <2>3, <2>4
<1>3. CASE ~HasSession(r)
  <2>1. messages' = messages
    BY <1>3, AddingMessage
  <2> QED
    BY <1>1, <1>2, <2>1 DEF LogInv
<1>4. CASE HasSession(r)
  <2> DEFINE n == Len(messages) + 1
  <2>1. /\ DOMAIN messages' = DOMAIN messages \cup {n}
        /\ messages'[n] = [role |-> role, turn |-> r]
        /\ \A i \in DOMAIN messages : messages'[i] = messages[i] /\ i < n
    BY <1>4, AddingMessage
  <2>2. DOMAIN messages \subseteq Nat /\ n \in Nat /\ \A i \in DOMAIN messages : messages[i] \in Message
    BY DEF TypeInv
  <2> HIDE DEF n
  <2>3. \A i \in DOMAIN messages : messages[i] # [role |-> role, turn |-> r]
    BY DEF Has
  <2>4. role = "user" => \A i \in DOMAIN messages : messages[i] # [role |-> "assistant", turn |-> r]
    BY DEF Has
  <2>5. ASSUME NEW i \in DOMAIN messages', NEW j \in DOMAIN messages', messages'[i] = messages'[j]
        PROVE  i = j
    BY <2>1, <2>3, <2>5 DEF LogInv
  <2>6. ASSUME NEW i \in DOMAIN messages', NEW j \in DOMAIN messages',
               messages'[i].role = "user", messages'[j].role = "assistant",
               messages'[i].turn = messages'[j].turn
        PROVE  i < j
    <3>1. CASE i # n /\ j # n
      BY <2>1, <2>6, <3>1 DEF LogInv
    <3>2. CASE j = n /\ i # n
      BY <2>1, <3>2
    <3>3. CASE i = n
      <4>1. role = "user" /\ messages'[j].turn = r
        BY <2>1, <2>6, <3>3
      <4>2. j # n
        BY <2>1, <2>6, <4>1
      <4>3. messages[j] = [role |-> "assistant", turn |-> r]
        BY <2>1, <2>2, <2>6, <4>1, <4>2 DEF Message
      <4> QED
        BY <2>1, <2>4, <4>1, <4>2, <4>3
    <3> QED
      BY <3>1, <3>2, <3>3
  <2> QED
    BY <1>1, <1>2, <2>5, <2>6 DEF LogInv
<1> QED
  BY <1>3, <1>4

\* A step that leaves the message log keeps what is said of it.
LEMMA LogStands ==
  ASSUME TypeInv, LogInv, Lasting, UNCHANGED messages,
         \A s \in sessions' \ sessions : pc'[s[1]] # "new"
  PROVE  LogInv' /\ \A role \in Roles, q \in Requests : Has(role, q)' <=> Has(role, q)
<1>1. \A s \in sessions' : pc'[s[1]] # "new"
  <2>1. \A s \in sessions : s[1] \in Requests
    BY DEF TypeInv, Sessions
  <2> QED
    BY <2>1 DEF LogInv, Lasting
<1>2. \A role, q : Has(role, q)' <=> Has(role, q)
  BY DEF Has
<1> QED
  BY <1>1, <1>2 DEF LogInv, Lasting

LEMMA TurnsInvInit == Init => TurnsInv
<1> SUFFICES ASSUME Init
             PROVE  TurnsInv
  OBVIOUS
<1>1. DOMAIN messages = {}
  BY DEF Init
<1>2. \A role, q : ~ Has(role, q)
  BY <1>1 DEF Has
<1>3. LogInv
  BY <1>1, <1>2 DEF Init, LogInv
<1>4. ASSUME NEW r \in Requests
      PROVE  Turn(r)
  BY <1>2, NoneIsNoSession DEF Init, Turn, Placed, Loaded, Pending, Written, Complete, Early, Steps
<1> QED
  BY <1>3, <1>4 DEF TurnsInv

\* A step of one request that adds no message.
LEMMA SilentStep ==
  ASSUME TypeInv, TurnsInv, NEW r \in Requests, Others(r), Lasting, UNCHANGED messages,
         Turn(r)', \A s \in sessions' \ sessions : pc'[s[1]] # "new"
  PROVE  TurnsInv'
BY OthersStand, LogStands DEF TurnsInv

\* The messages of all turns are what they were.
LEMMA MessagesStand ==
  ASSUME UNCHANGED messages
  PROVE  \A role, q : Has(role, q)' <=> Has(role, q)
BY DEF Has

LEMMA BeginKeepsTurns ==
  ASSUME TypeInv, TurnsInv, NEW r \in Requests, NEW u \in Users, NEW s \in Sessions \cup {None},
         Begin(r, u, s)
  PROVE  TurnsInv'
<1>1. /\ pc[r] = "new" /\ pc' = [pc EXCEPT ![r] = "session"]
      /\ user' = [user EXCEPT ![r] = u]
      /\ UNCHANGED <<sessions, messages, logs, session, history, reply, job, faults>>
  BY DEF Begin, GoesTo, tables
<1>2. \A role, q : Has(role, q)' <=> Has(role, q)
  BY <1>1, MessagesStand
<1>3. Others(r) /\ Lasting
  BY <1>1, <1>2 DEF Others, Lasting, TypeInv
<1>4. Turn(r)
  BY DEF TurnsInv
<1>5. Turn(r)'
  <2>1. session[r] \notin Sessions /\ history[r] = {}
    BY <1>1, <1>4 DEF Turn, Placed, Loaded
  <2>2. Placed(r)' /\ Loaded(r)'
    BY <1>1, <2>1 DEF Placed, Loaded
  <2>3. pc'[r] = "session"
    BY <1>1 DEF TypeInv
  <2>4. Pending(r)' /\ Written(r)' /\ Complete(r)'
    BY <1>1, <1>2, <1>4, <2>3 DEF Turn, Pending, Written, Complete, Early, Steps
  <2> QED
    BY <2>2, <2>4 DEF Turn
<1> QED
  BY <1>1, <1>3, <1>5, SilentStep

\* A request goes on in its own session, or in the one it asks for and that is its user's.
LEMMA UsingSession ==
  ASSUME TypeInv, TurnsInv, NEW r \in Requests, NEW s \in Sessions, pc[r] = "session",
         UsesSession(r, s), pc[s[1]] # "new", Owner(s) = user[r],
         sessions \subseteq sessions', sessions' \subseteq sessions \cup {s},
         faults' = 0 => faults = 0 /\ s \in sessions', UNCHANGED <<messages, logs>>
  PROVE  TurnsInv'
<1>1. /\ pc' = [pc EXCEPT ![r] = "history"] /\ session' = [session EXCEPT ![r] = s]
      /\ UNCHANGED <<user, history, reply, job>>
  BY DEF UsesSession, GoesTo
<1>2. \A role, q : Has(role, q)' <=> Has(role, q)
  BY MessagesStand
<1>3. Others(r) /\ Lasting
  BY <1>1, <1>2 DEF Others, Lasting, TypeInv
<1>4. Turn(r)
  BY DEF TurnsInv
<1>5. Turn(r)'
  <2>1. pc'[r] = "history" /\ session'[r] = s /\ s[1] \in Requests
    BY <1>1 DEF TypeInv, Sessions
  <2>2. Placed(r)'
    BY <1>1, <2>1 DEF Placed, Owner, TypeInv
  <2>3. Loaded(r)'
    <3>1. \A m \in history[r] : m.turn \in Requests
      BY DEF TypeInv, Message
    <3> QED
      BY <1>1, <1>3, <1>4, <3>1 DEF Turn, Loaded, Lasting
  <2>4. Pending(r)' /\ Written(r)' /\ Complete(r)'
    BY <1>1, <1>2, <1>4, <2>1 DEF Turn, Pending, Written, Complete, Early, Steps
  <2> QED
    BY <2>2, <2>3, <2>4 DEF Turn
<1>6. \A t \in sessions' \ sessions : pc'[t[1]] # "new"
  <2>1. s[1] \in Requests
    BY DEF Sessions
  <2> QED
    BY <1>3, <2>1 DEF Lasting
<1> QED
  BY <1>3, <1>5, <1>6, SilentStep

\* A request ends early, or starts again, before its turn is written.
LEMMA EndingEarly ==
  ASSUME TypeInv, TurnsInv, NEW r \in Requests,
         pc[r] \in {"session", "retrieve"},
         UNCHANGED <<sessions, messages, logs, user, session, job>>,
         \/ pc' = [pc EXCEPT ![r] = "session"] /\ UNCHANGED reply /\ faults' # 0
         \/ /\ pc' = [pc EXCEPT ![r] = "answered"]
            /\ \E code \in {"error", "not_found"} : reply' = [reply EXCEPT ![r] = code],
         history' = [history EXCEPT ![r] = {}],
         faults' = 0 => faults = 0
  PROVE  TurnsInv'
<1>1. \A role, q : Has(role, q)' <=> Has(role, q)
  BY MessagesStand
<1>2. Others(r) /\ Lasting
  BY <1>1 DEF Others, Lasting, TypeInv
<1>3. Turn(r)
  BY DEF TurnsInv
<1>4. Turn(r)'
  <2>1. pc'[r] \in {"session", "answered"} /\ history'[r] = {}
    BY DEF TypeInv
  <2>2. Placed(r)'
    <3>1. session[r] \in Sessions => session[r][1] \in Requests
      BY DEF Sessions
    <3> QED
      BY <1>2, <1>3, <2>1, <3>1 DEF Turn, Placed, Owner, Lasting
  <2>3. Loaded(r)'
    BY <2>1 DEF Loaded
  <2>4. reply[r] = "none" /\ job[r] = "none"
    BY <1>3 DEF Turn, Pending
  <2>5. \/ pc'[r] = "session" /\ reply'[r] = "none"
        \/ pc'[r] = "answered" /\ reply'[r] \in {"error", "not_found"}
    BY <2>4 DEF TypeInv
  <2>6. r \notin logs /\ ~ Has("user", r) /\ ~ Has("assistant", r)
    BY <1>3 DEF Turn, Written, Early
  <2>7. Pending(r)' /\ Written(r)'
    BY <1>1, <2>4, <2>5, <2>6 DEF Pending, Written
  <2>8. Complete(r)'
    BY <2>5 DEF Complete, Steps, Early
  <2> QED
    BY <2>2, <2>3, <2>7, <2>8 DEF Turn
<1> QED
  BY <1>2, <1>4, SilentStep

LEMMA EnsureSessionKeepsTurns ==
  ASSUME TypeInv, TurnsInv, NEW r \in Requests, EnsureSession(r)
  PROVE  TurnsInv'
<1>1. pc[r] = "session" /\ UNCHANGED <<messages, clock, stamps, logs, memories, faults>>
  BY DEF EnsureSession
<1>2. CASE /\ sessions' = sessions \cup {<<r, attempt[r]>>}
           /\ UsesSession(r, <<r, attempt[r]>>)
  <2>1. <<r, attempt[r]>> \in Sessions
    BY <1>1, ConversationAssumption DEF TypeInv, Sessions, Steps
  <2> QED
    BY <1>1, <1>2, <2>1, UsingSession DEF Owner
<1>3. CASE /\ requested[r] \in sessions /\ Owner(requested[r]) = user[r]
           /\ UsesSession(r, requested[r]) /\ UNCHANGED sessions
  <2>1. requested[r] \in Sessions /\ pc[requested[r][1]] # "new"
    BY <1>3 DEF TypeInv, TurnsInv, LogInv
  <2> QED
    BY <1>1, <1>3, <2>1, UsingSession
<1>4. CASE Ends(r, "not_found") /\ UNCHANGED <<user, requested, session, job, sessions>>
  BY <1>1, <1>4, EndingEarly DEF Ends, GoesTo
<1> QED
  BY <1>2, <1>3, <1>4 DEF EnsureSession

\* A failing attempt of Ask.
LEMMA CallFailsKeepsTurns ==
  ASSUME TypeInv, TurnsInv, NEW r \in Requests, CallFails(r)
  PROVE  TurnsInv'
<1>1. /\ pc[r] \in {"session", "retrieve"} /\ faults' # 0
      /\ UNCHANGED <<sessions, messages, logs, user, session, job>>
      /\ AttemptFails(r)
  BY DEF CallFails, Fault, AttemptFails, tables, TypeInv
<1>2. /\ \/ pc' = [pc EXCEPT ![r] = "session"] /\ UNCHANGED reply
         \/ pc' = [pc EXCEPT ![r] = "answered"] /\ reply' = [reply EXCEPT ![r] = "error"]
      /\ history' = [history EXCEPT ![r] = {}]
  BY <1>1 DEF AttemptFails, Ends, GoesTo
<1> QED
  BY <1>1, <1>2, EndingEarly

LEMMA LoadHistoryKeepsTurns ==
  ASSUME TypeInv, TurnsInv, NEW r \in Requests, LoadHistory(r)
  PROVE  TurnsInv'
<1>1. /\ pc[r] = "history" /\ pc' = [pc EXCEPT ![r] = "retrieve"]
      /\ history' = [history EXCEPT ![r] = {messages[i] : i \in ListRecent(r)}]
      /\ UNCHANGED <<sessions, messages, logs, user, session, reply, job, faults>>
  BY DEF LoadHistory, GoesTo, tables
<1>2. \A role, q : Has(role, q)' <=> Has(role, q)
  BY <1>1, MessagesStand
<1>3. Others(r) /\ Lasting
  BY <1>1, <1>2 DEF Others, Lasting, TypeInv
<1>4. Turn(r) /\ pc'[r] = "retrieve"
  BY <1>1 DEF TurnsInv, TypeInv
<1>5. Loaded(r)'
  <2> SUFFICES ASSUME NEW i \in ListRecent(r)
               PROVE  pc'[messages[i].turn] # "new" /\ user[messages[i].turn] = user[r]
    BY <1>1, <1>4 DEF Loaded, TypeInv
  <2>1. i \in DOMAIN messages /\ user[messages[i].turn] = user[r]
    BY DEF ListRecent, MessagesOf, InSessionOf
  <2>2. messages[i] \in Message
    BY <2>1 DEF TypeInv
  <2>3. PICK role \in Roles, q \in Requests : messages[i] = [role |-> role, turn |-> q]
    BY <2>2 DEF Message
  <2>4. Has(role, q) /\ Written(q)
    BY <2>1, <2>3 DEF Has, TurnsInv, Turn
  <2>5. pc[q] # "new"
    BY <2>4 DEF Written, Roles, Early
  <2> QED
    BY <1>3, <2>1, <2>3, <2>5 DEF Lasting
<1>6. Placed(r)'
  <2>1. session[r] \in Sessions => session[r][1] \in Requests
    BY DEF Sessions
  <2> QED
    BY <1>1, <1>3, <1>4, <2>1 DEF Turn, Placed, Owner, Lasting
<1>7. Pending(r)' /\ Written(r)' /\ Complete(r)'
  BY <1>1, <1>2, <1>4 DEF Turn, Pending, Written, Complete, Early, Steps
<1> QED
  BY <1>1, <1>3, <1>5, <1>6, <1>7, SilentStep DEF Turn

\* A request goes to its next call: what is left is what is written of its turn.
LEMMA PassingOn ==
  ASSUME TypeInv, TurnsInv, NEW r \in Requests, NEW from \in Steps, NEW to \in Steps,
         Passes(r, from, to), UNCHANGED sessions, faults' = 0 => faults = 0,
         \A q \in Requests \ {r} :
           /\ q \in logs' <=> q \in logs
           /\ \A role \in Roles : Has(role, q)' <=> Has(role, q),
         Written(r)', Complete(r)'
  PROVE  Lasting /\ \A q \in Requests : Turn(q)'
<1>1. /\ pc[r] = from /\ pc' = [pc EXCEPT ![r] = to]
      /\ UNCHANGED <<user, session, history, reply, job>>
  BY DEF Passes, GoesTo, locals
<1>2. Others(r) /\ Lasting
  BY <1>1 DEF Others, Lasting, TypeInv, Steps
<1>3. Turn(r) /\ pc'[r] = to /\ from # "new" /\ to # "new" /\ from # "answered"
  BY <1>1 DEF TurnsInv, TypeInv, Steps
<1>4. Placed(r)'
  <2>1. session[r] \in Sessions => session[r][1] \in Requests
    BY DEF Sessions
  <2> QED
    BY <1>1, <1>2, <1>3, <2>1 DEF Turn, Placed, Owner, Lasting
<1>5. Loaded(r)'
  <2>1. \A m \in history[r] : m.turn \in Requests
    BY DEF TypeInv, Message
  <2> QED
    BY <1>1, <1>2, <1>3, <2>1 DEF Turn, Loaded, Lasting
<1>6. Pending(r)'
  BY <1>1, <1>3 DEF Turn, Pending
<1>7. Turn(r)'
  BY <1>4, <1>5, <1>6 DEF Turn
<1> QED
  BY <1>2, <1>7, OthersStand

\* A request goes on without writing anything.
LEMMA PassingSilently ==
  ASSUME TypeInv, TurnsInv, NEW r \in Requests, NEW from \in Steps, NEW to \in Steps,
         Passes(r, from, to), UNCHANGED <<sessions, messages, logs>>, faults' = 0 => faults = 0,
         \/ <<from, to>> \in {<<"retrieve", "log">>, <<"remember", "prune">>, <<"prune", "summary">>}
         \/ /\ faults' # 0
            /\ <<from, to>> \in {<<"history", "retrieve">>, <<"log", "question">>,
                                 <<"question", "answer">>, <<"answer", "remember">>,
                                 <<"remember", "summary">>}
  PROVE  TurnsInv'
<1>1. \A role, q : Has(role, q)' <=> Has(role, q)
  BY MessagesStand
<1>2. pc[r] = from /\ pc'[r] = to /\ UNCHANGED reply /\ Turn(r)
  BY DEF Passes, GoesTo, locals, TypeInv, TurnsInv
<1>3. reply[r] = "none"
  BY <1>2 DEF Turn, Pending, Steps
<1>4. Written(r)'
  BY <1>1, <1>2, <1>3 DEF Turn, Written, Early
<1>5. Complete(r)'
  <2>1. CASE faults' # 0
    BY <2>1 DEF Complete
  <2>2. CASE faults' = 0 /\ from = "retrieve" /\ to = "log"
    BY <1>1, <1>2, <1>3, <2>2 DEF Turn, Complete, Early, Steps, Passes, locals
  <2>3. CASE faults' = 0 /\ from \in {"remember", "prune"} /\ to \in {"prune", "summary"}
    BY <1>1, <1>2, <1>3, <2>3 DEF Turn, Complete, Early, Steps, Passes, locals
  <2> QED
    BY <2>1, <2>2, <2>3
<1>6. Lasting /\ \A q \in Requests : Turn(q)'
  BY <1>1, <1>4, <1>5, PassingOn
<1> QED
  BY <1>6, LogStands DEF TurnsInv

LEMMA AppendLogKeepsTurns ==
  ASSUME TypeInv, TurnsInv, NEW r \in Requests, AppendLog(r)
  PROVE  TurnsInv'
<1>1. /\ Passes(r, "log", "question") /\ UNCHANGED <<sessions, messages, faults>>
      /\ logs' = IF HasSession(r) THEN logs \cup {r} ELSE logs
  BY DEF AppendLog
<1>2. \A role, q : Has(role, q)' <=> Has(role, q)
  BY <1>1, MessagesStand
<1>3. pc[r] = "log" /\ pc'[r] = "question" /\ UNCHANGED <<reply, session>> /\ Turn(r)
  BY <1>1 DEF Passes, GoesTo, locals, TypeInv, TurnsInv
<1>4. reply[r] = "none"
  BY <1>3 DEF Turn, Pending
<1>5. Written(r)'
  BY <1>2, <1>3, <1>4 DEF Turn, Written, Early
<1>6. Complete(r)'
  <2>1. faults = 0 => session[r] \in sessions
    BY <1>3 DEF Turn, Complete, Steps
  <2>2. faults = 0 => r \in logs'
    BY <1>1, <2>1 DEF HasSession
  <2> QED
    BY <1>1, <1>3, <1>4, <2>1, <2>2 DEF Complete, Early, Steps
<1>7. \A q \in Requests \ {r} : q \in logs' <=> q \in logs
  BY <1>1
<1>8. Lasting /\ \A q \in Requests : Turn(q)'
  BY <1>1, <1>2, <1>5, <1>6, <1>7, PassingOn DEF Steps
<1> QED
  BY <1>1, <1>8, LogStands DEF TurnsInv

LEMMA AppendQuestionKeepsTurns ==
  ASSUME TypeInv, TurnsInv, NEW r \in Requests, AppendQuestion(r)
  PROVE  TurnsInv'
<1>1. /\ Passes(r, "question", "answer") /\ UNCHANGED <<sessions, logs, faults>>
      /\ AddMessage(r, "user")
  BY DEF AppendQuestion
<1>2. \A o \in Roles, q \in Requests : Has(o, q)' <=> Has(o, q) \/ (HasSession(r) /\ o = "user" /\ q = r)
  BY <1>1, AddingMessage DEF Roles
<1>3. pc[r] = "question" /\ pc'[r] = "answer" /\ UNCHANGED <<reply, session>> /\ Turn(r)
  BY <1>1 DEF Passes, GoesTo, locals, TypeInv, TurnsInv
<1>4. reply[r] = "none" /\ ~ Has("user", r) /\ ~ Has("assistant", r)
  BY <1>3 DEF Turn, Pending, Written
<1>5. ~ Has("assistant", r)' /\ (HasSession(r) => Has("user", r)')
  BY <1>2, <1>4 DEF Roles
<1>6. Written(r)'
  BY <1>3, <1>4, <1>5 DEF Written, Early
<1>7. Complete(r)'
  <2>1. faults = 0 => session[r] \in sessions /\ r \in logs
    BY <1>3 DEF Turn, Complete, Early, Steps
  <2> QED
    BY <1>1, <1>3, <1>4, <1>5, <2>1 DEF Complete, HasSession, Early, Steps
<1>8. Lasting /\ \A q \in Requests : Turn(q)'
  BY <1>1, <1>2, <1>6, <1>7, PassingOn DEF Steps
<1>9. LogInv'
  BY <1>1, <1>4, <1>8, AddingKeepsLog DEF TurnsInv, Roles
<1> QED
  BY <1>8, <1>9 DEF TurnsInv

LEMMA AppendAnswerKeepsTurns ==
  ASSUME TypeInv, TurnsInv, NEW r \in Requests, AppendAnswer(r)
  PROVE  TurnsInv'
<1>1. /\ Passes(r, "answer", "remember") /\ UNCHANGED <<sessions, logs, faults>>
      /\ AddMessage(r, "assistant")
  BY DEF AppendAnswer
<1>2. \A o \in Roles, q \in Requests :
        Has(o, q)' <=> Has(o, q) \/ (HasSession(r) /\ o = "assistant" /\ q = r)
  BY <1>1, AddingMessage DEF Roles
<1>3. pc[r] = "answer" /\ pc'[r] = "remember" /\ UNCHANGED <<reply, session>> /\ Turn(r)
  BY <1>1 DEF Passes, GoesTo, locals, TypeInv, TurnsInv
<1>4. reply[r] = "none" /\ ~ Has("assistant", r)
  BY <1>3 DEF Turn, Pending, Written
<1>5. (Has("user", r) => Has("user", r)') /\ (HasSession(r) => Has("assistant", r)')
  BY <1>2 DEF Roles
<1>6. Written(r)'
  BY <1>3, <1>4 DEF Written, Early
<1>7. faults = 0 => session[r] \in sessions /\ r \in logs /\ Has("user", r)
  BY <1>3 DEF Turn, Complete, Early, Steps
<1>8. Complete(r)'
  BY <1>1, <1>3, <1>4, <1>5, <1>7 DEF Complete, HasSession, Early, Steps
<1>9. Lasting /\ \A q \in Requests : Turn(q)'
  BY <1>1, <1>2, <1>6, <1>8, PassingOn DEF Steps
<1>10. LogInv'
  BY <1>1, <1>4, <1>7, <1>9, AddingKeepsLog DEF TurnsInv, Roles
<1> QED
  BY <1>9, <1>10 DEF TurnsInv

\* The answer goes out once everything that the turn writes is written or has failed.
LEMMA AnsweringKeepsTurns ==
  ASSUME TypeInv, TurnsInv, NEW r \in Requests, pc[r] = "summary", Ends(r, "ok"),
         UNCHANGED <<sessions, messages, logs, user, session>>, faults' = 0 => faults = 0,
         \A q \in Requests \ {r} : job'[q] = job[q]
  PROVE  TurnsInv'
<1>1. /\ pc' = [pc EXCEPT ![r] = "answered"] /\ reply' = [reply EXCEPT ![r] = "ok"]
      /\ history' = [history EXCEPT ![r] = {}]
  BY DEF Ends, GoesTo
<1>2. \A role, q : Has(role, q)' <=> Has(role, q)
  BY MessagesStand
<1>3. Others(r) /\ Lasting
  BY <1>1, <1>2 DEF Others, Lasting, TypeInv
<1>4. Turn(r) /\ pc'[r] = "answered" /\ reply'[r] = "ok" /\ history'[r] = {}
  BY <1>1 DEF TurnsInv, TypeInv
<1>5. Placed(r)'
  <2>1. session[r] \in Sessions => session[r][1] \in Requests
    BY DEF Sessions
  <2> QED
    BY <1>3, <1>4, <2>1 DEF Turn, Placed, Owner, Lasting
<1>6. Loaded(r)' /\ Pending(r)' /\ Written(r)'
  BY <1>4 DEF Loaded, Pending, Written, Early
<1>7. Complete(r)'
  BY <1>2, <1>4 DEF Turn, Complete, Early, Steps
<1> QED
  BY <1>3, <1>5, <1>6, <1>7, SilentStep DEF Turn

\* A job runs only after its answer, and writes no turn.
LEMMA JobKeepsTurns ==
  ASSUME TypeInv, TurnsInv, NEW r \in Requests, JobStep(r) \/ JobFails(r)
  PROVE  TurnsInv'
<1>1. PICK to : job[r] # "none" /\ JobPasses(r, job[r], to)
  BY DEF JobStep, JobFails, ListMessages, UpsertSummary, PruneSummaries, JobPasses
<1>2. /\ UNCHANGED <<sessions, messages, logs, pc, user, session, history, reply>>
      /\ job' = [job EXCEPT ![r] = to]
  BY <1>1 DEF JobPasses, locals
<1>3. faults' = 0 => faults = 0
  BY DEF JobStep, JobFails, ListMessages, UpsertSummary, PruneSummaries, Fault, TypeInv
<1>4. \A role, q : Has(role, q)' <=> Has(role, q)
  BY <1>2, MessagesStand
<1>5. Others(r) /\ Lasting
  BY <1>2, <1>3, <1>4 DEF Others, Lasting, TypeInv
<1>6. Turn(r) /\ pc[r] = "answered"
  BY <1>1 DEF TurnsInv, Turn, Pending
<1>7. Placed(r)' /\ Loaded(r)' /\ Pending(r)'
  BY <1>2, <1>6 DEF Turn, Placed, Loaded, Pending, Owner
<1>8. Written(r)' /\ Complete(r)'
  BY <1>2, <1>3, <1>4, <1>6 DEF Turn, Written, Complete
<1> QED
  BY <1>2, <1>5, <1>7, <1>8, SilentStep DEF Turn

LEMMA DiesKeepsTurns ==
  ASSUME TypeInv, TurnsInv, Dies
  PROVE  TurnsInv'
<1>1. /\ faults' # 0
      /\ pc' = [r \in Requests |-> IF InCall(r) THEN "answered" ELSE pc[r]]
      /\ reply' = [r \in Requests |-> IF InCall(r) THEN "lost" ELSE reply[r]]
      /\ history' = [r \in Requests |-> {}] /\ job' = [r \in Requests |-> "none"]
      /\ UNCHANGED <<sessions, messages, logs, user, session>>
  BY DEF Dies, Fault, tables, TypeInv
<1>2. \A role, q : Has(role, q)' <=> Has(role, q)
  BY <1>1, MessagesStand
<1>3. Lasting
  BY <1>1 DEF Lasting, InCall
<1>4. ASSUME NEW r \in Requests
      PROVE  Turn(r)'
  <2>1. Turn(r)
    BY DEF TurnsInv
  <2>2. Placed(r)'
    <3>1. session[r] \in Sessions => session[r][1] \in Requests
      BY DEF Sessions
    <3> QED
      BY <1>1, <1>3, <2>1, <3>1 DEF Turn, Placed, Owner, Lasting
  <2>3. Loaded(r)' /\ Complete(r)'
    BY <1>1 DEF Loaded, Complete
  <2>4. CASE InCall(r)
    <3>1. pc'[r] = "answered" /\ reply'[r] = "lost"
      BY <1>1, <2>4
    <3>2. Pending(r)' /\ Written(r)'
      BY <3>1 DEF Pending, Written, Early
    <3> QED
      BY <2>2, <2>3, <3>2 DEF Turn
  <2>5. CASE ~InCall(r)
    <3>1. pc'[r] = pc[r] /\ reply'[r] = reply[r] /\ job'[r] = "none"
      BY <1>1, <2>5
    <3>2. Pending(r)' /\ Written(r)'
      BY <1>1, <1>2, <2>1, <3>1 DEF Turn, Pending, Written
    <3> QED
      BY <2>2, <2>3, <3>2 DEF Turn
  <2> QED
    BY <2>4, <2>5
<1> QED
  BY <1>1, <1>3, <1>4, LogStands DEF TurnsInv

LEMMA QuietFailureKeepsTurns ==
  ASSUME TypeInv, TurnsInv, NEW r \in Requests, CallFailsQuietly(r)
  PROVE  TurnsInv'
<1>0. faults' # 0 /\ faults' \in Nat
  BY DEF CallFailsQuietly, Fault, TypeInv
<1>1. CASE pc[r] = "session" /\ UsesSession(r, <<r, attempt[r]>>) /\ UNCHANGED tables
  <2>1. <<r, attempt[r]>> \in Sessions
    BY <1>1, ConversationAssumption DEF TypeInv, Sessions, Steps
  <2> QED
    BY <1>0, <1>1, <2>1, UsingSession DEF Owner, tables
<1>2. CASE pc[r] \in DOMAIN Following /\ Passes(r, pc[r], Following[pc[r]]) /\ UNCHANGED tables
  <2>1. \/ Passes(r, "history", "retrieve") \/ Passes(r, "question", "answer")
        \/ Passes(r, "answer", "remember") \/ Passes(r, "prune", "summary")
    BY <1>2 DEF Following
  <2> QED
    BY <1>0, <1>2, <2>1, PassingSilently DEF tables, Steps
<1>3. CASE Passes(r, "log", "question") /\ UNCHANGED <<sessions, messages, logs, memories>>
  BY <1>0, <1>3, PassingSilently DEF Steps
<1>4. CASE (\E next \in {"prune", "summary"} : Passes(r, "remember", next)) /\ UNCHANGED tables
  BY <1>0, <1>4, PassingSilently DEF tables, Steps
<1>5. CASE pc[r] = "summary" /\ Ends(r, "ok") /\ UNCHANGED <<tables, user, requested, session, job>>
  BY <1>0, <1>5, AnsweringKeepsTurns DEF tables
<1> QED
  BY <1>1, <1>2, <1>3, <1>4, <1>5 DEF CallFailsQuietly

LEMMA AskKeepsTurns ==
  ASSUME TypeInv, TurnsInv, NEW r \in Requests, AskStep(r)
  PROVE  TurnsInv'
<1>1. CASE Retrieve(r)
  BY <1>1, PassingSilently DEF Retrieve, tables, Steps
<1>2. CASE PersistTurn(r)
  BY <1>2, PassingSilently DEF PersistTurn, Steps
<1>3. CASE PruneTurns(r)
  BY <1>3, PassingSilently DEF PruneTurns, Steps
<1>4. CASE TriggerSummary(r)
  <2>1. \A q \in Requests \ {r} : job'[q] = job[q]
    BY <1>4 DEF TriggerSummary, TypeInv
  <2> QED
    BY <1>4, <2>1, AnsweringKeepsTurns DEF TriggerSummary, tables
<1> QED
  BY <1>1, <1>2, <1>3, <1>4, EnsureSessionKeepsTurns, LoadHistoryKeepsTurns, AppendLogKeepsTurns,
     AppendQuestionKeepsTurns, AppendAnswerKeepsTurns DEF AskStep

LEMMA TurnsInvNext == TypeInv /\ TurnsInv /\ [Next]_vars => TurnsInv'
<1> SUFFICES ASSUME TypeInv, TurnsInv, [Next]_vars
             PROVE  TurnsInv'
  OBVIOUS
<1>1. CASE UNCHANGED vars
  BY <1>1 DEF vars, tables, locals, TurnsInv, LogInv, Has, Turn, Placed, Owner, Loaded, Pending,
              Written, Complete
<1>2. CASE \E r \in Requests, u \in Users, s \in Sessions \cup {None} : Begin(r, u, s)
  BY <1>2, BeginKeepsTurns
<1>3. CASE \E r \in Requests : AskStep(r) \/ JobStep(r) \/ JobFails(r)
  BY <1>3, AskKeepsTurns, JobKeepsTurns
<1>4. CASE \E r \in Requests : CallFails(r) \/ CallFailsQuietly(r)
  BY <1>4, CallFailsKeepsTurns, QuietFailureKeepsTurns
<1>5. CASE Dies
  BY <1>5, DiesKeepsTurns
<1> QED
  BY <1>1, <1>2, <1>3, <1>4, <1>5 DEF Next

-----------------------------------------------------------------------------
(* What the message log says *)

\* At most one message of a kind: none, or the only one of a set without two.
LEMMA AtMostOne ==
  ASSUME NEW S, \A i, j \in S : i = j
  PROVE  /\ Cardinality(S) <= 1
         /\ S = {} => Cardinality(S) = 0
         /\ S # {} => Cardinality(S) = 1
<1>1. CASE S = {}
  BY <1>1, FS_EmptySet
<1>2. CASE S # {}
  <2>1. PICK i \in S : TRUE
    BY <1>2
  <2>2. S = {i}
    BY <2>1
  <2>3. Cardinality({i}) = 1
    BY FS_Singleton
  <2>4. Cardinality(S) = 1
    BY <2>2, <2>3
  <2> QED
    BY <1>2, <2>4
<1> QED
  BY <1>1, <1>2

LEMMA WrittenOnceFollows == TypeInv /\ TurnsInv => TurnIsWrittenOnce
<1> SUFFICES ASSUME TypeInv, TurnsInv, NEW r \in Requests
             PROVE  LET Mine(role) == Cardinality({i \in DOMAIN messages :
                                                     messages[i] = [role |-> role, turn |-> r]})
                    IN /\ \A role \in Roles : Mine(role) <= 1
                       /\ reply[r] = "error" => r \notin logs /\ \A role \in Roles : Mine(role) = 0
                       /\ reply[r] = "ok" /\ faults = 0 =>
                            r \in logs /\ \A role \in Roles : Mine(role) = 1
  BY DEF TurnIsWrittenOnce
<1> DEFINE Of(role) == {i \in DOMAIN messages : messages[i] = [role |-> role, turn |-> r]}
<1>1. ASSUME NEW role \in Roles
      PROVE  /\ Cardinality(Of(role)) <= 1
             /\ ~ Has(role, r) => Cardinality(Of(role)) = 0
             /\ Has(role, r) => Cardinality(Of(role)) = 1
  <2>1. \A i, j \in Of(role) : i = j
    BY DEF TurnsInv, LogInv
  <2>2. Has(role, r) <=> Of(role) # {}
    BY DEF Has
  <2> HIDE DEF Of
  <2> QED
    BY <2>1, <2>2, AtMostOne
<1>2. Written(r) /\ Complete(r)
  BY DEF TurnsInv, Turn
<1>3. reply[r] = "error" => r \notin logs /\ \A role \in Roles : ~ Has(role, r)
  BY <1>2 DEF Written, Roles
<1>4. reply[r] = "ok" /\ faults = 0 => r \in logs /\ \A role \in Roles : Has(role, r)
  BY <1>2 DEF Complete, Roles
<1> QED
  BY <1>1, <1>3, <1>4

LEMMA PrivacyFollows == TypeInv /\ TurnsInv => SessionsStayPrivate
<1> SUFFICES ASSUME TypeInv, TurnsInv, NEW r \in Requests
             PROVE  /\ HasSession(r) => Owner(session[r]) = user[r]
                    /\ \A m \in history[r] : user[m.turn] = user[r]
                    /\ reply[r] = "ok" /\ faults = 0 => HasSession(r)
  BY DEF SessionsStayPrivate
<1>1. Turn(r)
  BY DEF TurnsInv
<1> QED
  BY <1>1 DEF Turn, Placed, Loaded, Complete, HasSession, TypeInv

\* The rows of the message log are messages of turns, which have a time.
LEMMA RowsOfLog ==
  TypeInv => \A i \in DOMAIN messages :
    /\ messages[i] = [role |-> messages[i].role, turn |-> messages[i].turn]
    /\ messages[i].role \in {"user", "assistant"} /\ messages[i].turn \in Requests
    /\ stamps[messages[i].turn] \in Nat
<1> SUFFICES ASSUME TypeInv, NEW i \in DOMAIN messages
             PROVE  /\ messages[i] = [role |-> messages[i].role, turn |-> messages[i].turn]
                    /\ messages[i].role \in {"user", "assistant"} /\ messages[i].turn \in Requests
                    /\ stamps[messages[i].turn] \in Nat
  OBVIOUS
<1>1. messages[i] \in Message
  BY DEF TypeInv
<1> QED
  BY <1>1 DEF TypeInv, Message, Roles

\* A message comes before whatever comes after one that comes after it.
LEMMA BeforeIsTransitive ==
  ASSUME TypeInv, NEW i \in DOMAIN messages, NEW j \in DOMAIN messages, NEW k \in DOMAIN messages,
         Before(i, j), Before(j, k)
  PROVE  Before(i, k)
<1>1. /\ messages[i].turn \in Requests /\ messages[j].turn \in Requests
      /\ messages[k].turn \in Requests
  BY RowsOfLog
<1>2. i \in Nat /\ j \in Nat /\ k \in Nat
  BY DEF TypeInv
<1>3. /\ stamps[messages[i].turn] \in Nat /\ stamps[messages[j].turn] \in Nat
      /\ stamps[messages[k].turn] \in Nat
  BY <1>1 DEF TypeInv
<1> QED
  BY <1>2, <1>3 DEF Before

\* A list has no gap: what comes after one of its messages is in it.
LEMMA RecentIsAnEnd ==
  ASSUME TypeInv, NEW r \in Requests, NEW i \in ListRecent(r), NEW j \in MessagesOf(r), Before(i, j)
  PROVE  j \in ListRecent(r)
<1> DEFINE After(k) == {n \in MessagesOf(r) : Before(k, n)}
<1>1. \A k : ListRecent(r) = {n \in MessagesOf(r) : Cardinality(After(n)) < MaxHistory}
  BY DEF ListRecent
<1>2. MessagesOf(r) \subseteq DOMAIN messages
  BY DEF MessagesOf
<1>3. i \in MessagesOf(r) /\ Cardinality(After(i)) < MaxHistory
  BY <1>1
<1>4. After(j) \subseteq After(i)
  BY <1>2, <1>3, BeforeIsTransitive
<1>5. IsFiniteSet(After(i))
  <2>1. After(i) \subseteq 1..Len(messages) /\ Len(messages) \in Int
    BY <1>2 DEF TypeInv
  <2>2. IsFiniteSet(1..Len(messages))
    BY <2>1, FS_Interval
  <2> HIDE DEF After
  <2> QED
    BY <2>1, <2>2, FS_Subset
<1> HIDE DEF After
<1>6. /\ Cardinality(After(j)) <= Cardinality(After(i))
      /\ Cardinality(After(j)) \in Nat /\ Cardinality(After(i)) \in Nat
  BY <1>4, <1>5, FS_Subset, FS_CardinalityType
<1>7. Cardinality(After(j)) < MaxHistory
  BY <1>3, <1>6, ConversationAssumption
<1> QED
  BY <1>1, <1>7

LEMMA HistoryFollows == TypeInv /\ TurnsInv => HistoryKeepsTurns
<1> SUFFICES ASSUME TypeInv, TurnsInv, NEW r \in Requests
             PROVE  LET h == ListRecent(r)
                        RightAfter(i, j) ==
                          Before(i, j) /\ ~ \E k \in h : Before(i, k) /\ Before(k, j)
                    IN \A i, j \in h :
                         /\ /\ messages[i].role = "user" /\ messages[i].turn = messages[j].turn
                            /\ i # j
                            => RightAfter(i, j)
                         /\ faults = 0 /\ messages[j].role = "assistant" /\ RightAfter(i, j) =>
                              messages[i] = [role |-> "user", turn |-> messages[j].turn]
  BY DEF HistoryKeepsTurns
<1> DEFINE h == ListRecent(r)
           RightAfter(i, j) == Before(i, j) /\ ~ \E k \in h : Before(i, k) /\ Before(k, j)
<1>1. /\ h \subseteq MessagesOf(r) /\ MessagesOf(r) \subseteq DOMAIN messages
      /\ DOMAIN messages \subseteq Nat
  BY DEF ListRecent, MessagesOf, TypeInv
<1>2. \A i \in DOMAIN messages :
        /\ messages[i] = [role |-> messages[i].role, turn |-> messages[i].turn]
        /\ messages[i].role \in {"user", "assistant"} /\ messages[i].turn \in Requests
        /\ stamps[messages[i].turn] \in Nat
  BY RowsOfLog
<1>3. \A i, j \in DOMAIN messages :
        /\ messages[i] = messages[j] => i = j
        /\ messages[i].role = "user" /\ messages[j].role = "assistant"
           /\ messages[i].turn = messages[j].turn => i < j
  BY DEF TurnsInv, LogInv
<1>4. ASSUME NEW i \in h, NEW j \in h,
             messages[i].role = "user", messages[i].turn = messages[j].turn, i # j
      PROVE  RightAfter(i, j)
  <2>1. i \in DOMAIN messages /\ j \in DOMAIN messages
    BY <1>1
  <2>2. messages[j].role = "assistant"
    BY <1>2, <1>3, <1>4, <2>1
  <2>3. i < j
    BY <1>3, <1>4, <2>1, <2>2
  <2>4. ASSUME NEW k \in h, Before(i, k), Before(k, j)
        PROVE  FALSE
    <3>1. k \in DOMAIN messages
      BY <1>1
    <3>2. messages[k].turn = messages[i].turn /\ i < k /\ k < j
      BY <1>2, <1>4, <2>1, <2>4, <3>1 DEF Before
    <3>3. messages[k] = messages[i] \/ messages[k] = messages[j]
      BY <1>2, <1>4, <2>1, <2>2, <3>1, <3>2
    <3>4. k = i \/ k = j
      BY <1>3, <2>1, <3>1, <3>3
    <3> QED
      BY <1>1, <2>1, <3>1, <3>2, <3>4
  <2> QED
    BY <1>4, <2>3, <2>4 DEF Before
<1>5. ASSUME NEW i \in h, NEW j \in h,
             faults = 0, messages[j].role = "assistant", RightAfter(i, j)
      PROVE  messages[i] = [role |-> "user", turn |-> messages[j].turn]
  <2>1. i \in DOMAIN messages /\ j \in DOMAIN messages /\ i \in MessagesOf(r) /\ j \in MessagesOf(r)
    BY <1>1
  <2>2. Has("assistant", messages[j].turn)
    BY <1>2, <1>5, <2>1 DEF Has
  <2>3. PICK q \in DOMAIN messages : messages[q] = [role |-> "user", turn |-> messages[j].turn]
    BY <1>2, <1>5, <2>1, <2>2 DEF TurnsInv, LogInv, Has
  <2>4. q \in MessagesOf(r) /\ q < j /\ Before(q, j)
    BY <1>3, <1>5, <2>1, <2>3 DEF MessagesOf, Before
  <2>5. CASE messages[i].turn = messages[j].turn
    <3>1. i # j
      BY <1>1, <1>2, <1>5, <2>1 DEF Before
    <3>2. messages[i].role # "assistant"
      BY <1>2, <1>3, <1>5, <2>1, <2>5, <3>1
    <3> QED
      BY <1>2, <2>1, <2>5, <3>2
  <2>6. CASE messages[i].turn # messages[j].turn
    <3>1. Before(i, q)
      BY <1>5, <2>3, <2>6 DEF Before
    <3>2. q \in h
      BY <2>1, <2>4, <3>1, RecentIsAnEnd
    <3> QED
      BY <1>5, <2>4, <3>1, <3>2
  <2> QED
    BY <2>5, <2>6
<1> HIDE DEF h
<1> QED
  BY <1>4, <1>5 DEF h

-----------------------------------------------------------------------------
(* What a prune keeps *)

\* A set of natural numbers that is not empty has a least one.
LEMMA LeastNatural ==
  ASSUME NEW S \in SUBSET Nat, S # {}
  PROVE  \E m \in S : \A y \in S : m <= y
<1> DEFINE R == {ss \in Nat \X Nat : ss[1] < ss[2]}
<1>1. IsWellFoundedOn(R, Nat)
  BY NatLessThanWellFounded DEF OpToRel
<1>2. \E m \in S : \A y \in S : <<y, m>> \notin R
  <2> HIDE DEF R
  <2> QED
    BY <1>1, WFMin
<1>3. PICK m \in S : \A y \in S : <<y, m>> \notin R
  BY <1>2
<1>4. ASSUME NEW y \in S, y < m
      PROVE  FALSE
  <2>1. <<y, m>> \in Nat \X Nat /\ <<y, m>>[1] = y /\ <<y, m>>[2] = m
    OBVIOUS
  <2> QED
    BY <1>3, <1>4, <2>1
<1> QED
  BY <1>4

\* The memories of a session that outrank one of them.
Above(r, i) == {j \in MemoriesOf(r) : Outranks(j, i)}

\* The positions of memories are numbers, and only finitely many outrank one.
LEMMA PositionsOfMemories ==
  ASSUME TypeInv, NEW r \in Requests
  PROVE  /\ MemoriesOf(r) \subseteq DOMAIN memories
         /\ DOMAIN memories \subseteq Nat
         /\ IsFiniteSet(DOMAIN memories)
         /\ \A i \in DOMAIN memories : /\ memories[i] \in Memory
                                       /\ memories[i].source \in {"qa_turn", "summary"}
         /\ \A i : IsFiniteSet(Above(r, i)) /\ Cardinality(Above(r, i)) \in Nat
<1>1. MemoriesOf(r) \subseteq DOMAIN memories
  BY DEF MemoriesOf
<1>2. DOMAIN memories = 1..Len(memories) /\ Len(memories) \in Int
  BY DEF TypeInv
<1>3. IsFiniteSet(1..Len(memories))
  BY <1>2, FS_Interval
<1>4. ASSUME NEW i
      PROVE  IsFiniteSet(Above(r, i)) /\ Cardinality(Above(r, i)) \in Nat
  <2>1. Above(r, i) \in SUBSET (1..Len(memories))
    BY <1>1, <1>2 DEF Above
  <2> QED
    BY <1>3, <2>1, FS_Subset, FS_CardinalityType
<1>5. ASSUME NEW i \in DOMAIN memories
      PROVE  memories[i] \in Memory /\ memories[i].source \in {"qa_turn", "summary"}
  <2>1. memories[i] \in Memory
    BY DEF TypeInv
  <2> QED
    BY <2>1 DEF Memory
<1> QED
  BY <1>1, <1>2, <1>3, <1>4, <1>5

\* Fewer memories outrank one that outranks another.
LEMMA HigherHasFewerAbove ==
  ASSUME TypeInv, NEW r \in Requests, NEW i \in MemoriesOf(r), NEW k \in MemoriesOf(r), Outranks(i, k)
  PROVE  Cardinality(Above(r, i)) < Cardinality(Above(r, k))
<1>1. \A j \in MemoriesOf(r) : j \in Nat /\ memories[j].source \in {"qa_turn", "summary"}
  BY PositionsOfMemories
<1>2. Above(r, i) \subseteq Above(r, k) /\ i \in Above(r, k) /\ i \notin Above(r, i)
  BY <1>1 DEF Above, Outranks
<1>3. /\ IsFiniteSet(Above(r, k))
      /\ Cardinality(Above(r, k)) \in Nat /\ Cardinality(Above(r, i)) \in Nat
  BY PositionsOfMemories
<1>4. Cardinality(Above(r, i)) <= Cardinality(Above(r, k))
  BY <1>2, <1>3, FS_Subset
<1>5. Cardinality(Above(r, i)) # Cardinality(Above(r, k))
  <2>1. Above(r, i) # Above(r, k) /\ Above(r, i) \in SUBSET Above(r, k)
    BY <1>2
  <2> QED
    BY <1>3, <2>1, FS_Subset
<1> QED
  BY <1>3, <1>4, <1>5

\* A prune keeps no more memories than its limit.
LEMMA KeptAreFew ==
  ASSUME TypeInv, NEW r \in Requests
  PROVE  IsFiniteSet(Kept(r)) /\ Cardinality(Kept(r)) \in Nat /\ Cardinality(Kept(r)) <= PruneLimit
<1>1. Kept(r) = {i \in MemoriesOf(r) : Cardinality(Above(r, i)) < PruneLimit}
  BY DEF Kept, Above
<1>2. IsFiniteSet(Kept(r)) /\ Cardinality(Kept(r)) \in Nat
  <2>1. Kept(r) \in SUBSET DOMAIN memories /\ IsFiniteSet(DOMAIN memories)
    BY <1>1, PositionsOfMemories
  <2> QED
    BY <2>1, FS_Subset, FS_CardinalityType
<1>3. CASE Kept(r) = {}
  BY <1>2, <1>3, FS_EmptySet, ConversationAssumption
<1>4. CASE Kept(r) # {}
  <2> DEFINE Short(i) == PruneLimit - Cardinality(Above(r, i))
             D == {n \in Nat : \E i \in Kept(r) : n = Short(i)}
  <2>1. \A i \in Kept(r) : Short(i) \in Nat
    BY <1>1, PositionsOfMemories, ConversationAssumption
  <2>2. D \in SUBSET Nat /\ D # {}
    BY <1>4, <2>1
  <2>3. \E m \in D : \A y \in D : m <= y
    <3> HIDE DEF D
    <3> QED
      BY <2>2, LeastNatural
  <2>4. PICK e \in Kept(r) : \A i \in Kept(r) : Short(e) <= Short(i)
    BY <2>1, <2>3
  <2>5. \A i \in Kept(r) : Cardinality(Above(r, i)) <= Cardinality(Above(r, e))
    BY <2>4, PositionsOfMemories, ConversationAssumption
  <2>6. ASSUME NEW i \in Kept(r), i # e
        PROVE  i \in Above(r, e)
    <3>1. i \in MemoriesOf(r) /\ e \in MemoriesOf(r)
      BY <1>1
    <3>2. /\ i \in Nat /\ e \in Nat
          /\ memories[i].source \in {"qa_turn", "summary"}
          /\ memories[e].source \in {"qa_turn", "summary"}
      BY <3>1, PositionsOfMemories
    <3>3. ~ Outranks(e, i)
      <4>1. SUFFICES ASSUME Outranks(e, i)
                     PROVE  FALSE
        OBVIOUS
      <4>2. Cardinality(Above(r, e)) < Cardinality(Above(r, i))
        BY <3>1, <4>1, HigherHasFewerAbove
      <4>3. Cardinality(Above(r, i)) <= Cardinality(Above(r, e))
        BY <2>5
      <4> QED
        BY <4>2, <4>3, PositionsOfMemories
    <3>4. Outranks(i, e)
      BY <2>6, <3>2, <3>3 DEF Outranks
    <3> QED
      BY <3>1, <3>4 DEF Above
  <2> HIDE DEF Short, D
  <2>7. Kept(r) \subseteq Above(r, e) \cup {e} /\ e \in MemoriesOf(r)
    BY <1>1, <2>6
  <2>8. e \notin Above(r, e)
    BY <2>7, PositionsOfMemories DEF Above, Outranks
  <2>9. /\ IsFiniteSet(Above(r, e) \cup {e})
        /\ Cardinality(Above(r, e) \cup {e}) = Cardinality(Above(r, e)) + 1
    BY <2>8, PositionsOfMemories, FS_AddElement
  <2>10. Cardinality(Kept(r)) <= Cardinality(Above(r, e) \cup {e})
    BY <2>7, <2>9, FS_Subset
  <2>11. Cardinality(Above(r, e)) < PruneLimit /\ Cardinality(Above(r, e)) \in Nat
    BY <1>1, PositionsOfMemories
  <2> QED
    BY <1>2, <2>9, <2>10, <2>11, ConversationAssumption
<1> QED
  BY <1>2, <1>3, <1>4

-----------------------------------------------------------------------------
(* The memories of a session *)

Late == {"prune", "summary", "answered"}

\* The memories of a session, as the limit counts them.
Held(s) == {m \in ToSet(memories) : m.session = s}

\* Somebody has still to prune in this session.
ToPrune(s) == \E r \in Requests : session[r] = s /\ "prune" \in {pc[r], job[r]}

\* A memory is of the session its turn is in, and written after the turn.
MemoriesInv ==
  /\ \A i \in DOMAIN memories :
       /\ memories[i].session \in sessions
       /\ session[memories[i].turn] = memories[i].session
       /\ pc[memories[i].turn] \in Late
  /\ \A s \in sessions : Cardinality(Held(s)) <= PruneLimit \/ ToPrune(s) \/ faults # 0

\* What a step that neither begins nor prunes leaves to the memories.
Settled ==
  /\ sessions \subseteq sessions'
  /\ faults' = 0 => faults = 0
  /\ \A q \in Requests :
       /\ pc[q] \in Late => pc'[q] \in Late /\ session'[q] = session[q]
       /\ "prune" \in {pc[q], job[q]} => faults' # 0 \/ "prune" \in {pc'[q], job'[q]}

LEMMA HeldIsFinite ==
  ASSUME TypeInv, NEW s
  PROVE  /\ IsFiniteSet(ToSet(memories))
         /\ IsFiniteSet(Held(s))
         /\ Cardinality(Held(s)) \in Nat
<1> DEFINE f == [i \in DOMAIN memories |-> memories[i]]
<1>1. DOMAIN memories = 1..Len(memories) /\ Len(memories) \in Int
  BY DEF TypeInv
<1>2. IsFiniteSet(DOMAIN memories)
  BY <1>1, FS_Interval
<1>3. f \in Surjection(DOMAIN memories, ToSet(memories))
  BY DEF Surjection, ToSet
<1>4. IsFiniteSet(ToSet(memories))
  <2> HIDE DEF f
  <2> QED
    BY <1>2, <1>3, FS_Surjection
<1>5. Held(s) \in SUBSET ToSet(memories)
  BY DEF Held
<1> QED
  BY <1>4, <1>5, FS_Subset, FS_CardinalityType

\* A request that has still to prune has an answer or is about to get one.
LEMMA PruningIsLate ==
  ASSUME TypeInv, TurnsInv, NEW q \in Requests, "prune" \in {pc[q], job[q]}
  PROVE  pc[q] \in Late
BY DEF TurnsInv, Turn, Pending, Late

LEMMA ToPruneStands ==
  ASSUME TypeInv, TurnsInv, Settled, faults' = 0, NEW s, ToPrune(s)
  PROVE  ToPrune(s)'
<1>1. PICK q \in Requests : session[q] = s /\ "prune" \in {pc[q], job[q]}
  BY DEF ToPrune
<1>2. pc[q] \in Late
  BY <1>1, PruningIsLate
<1>3. session'[q] = s /\ "prune" \in {pc'[q], job'[q]}
  BY <1>1, <1>2 DEF Settled
<1> QED
  BY <1>3 DEF ToPrune

\* The memories stay, and a new session has none.
LEMMA MemoriesStand ==
  ASSUME TypeInv, TurnsInv, MemoriesInv, Settled, UNCHANGED memories
  PROVE  MemoriesInv'
<1>1. ASSUME NEW i \in DOMAIN memories
      PROVE  /\ memories[i].session \in sessions'
             /\ session'[memories[i].turn] = memories[i].session
             /\ pc'[memories[i].turn] \in Late
  <2>1. memories[i].turn \in Requests
    <3>1. memories[i] \in Memory
      BY DEF TypeInv
    <3> QED
      BY <3>1 DEF Memory
  <2> QED
    BY <2>1 DEF MemoriesInv, Settled
<1>2. ASSUME NEW s \in sessions', faults' = 0
      PROVE  Cardinality(Held(s)') <= PruneLimit \/ ToPrune(s)'
  <2>1. Held(s)' = Held(s)
    BY DEF Held
  <2>2. CASE s \in sessions
    <3>1. Cardinality(Held(s)) <= PruneLimit \/ ToPrune(s)
      BY <1>2, <2>2 DEF MemoriesInv, Settled
    <3> QED
      BY <1>2, <2>1, <3>1, ToPruneStands
  <2>3. CASE s \notin sessions
    <3>1. Held(s) = {}
      BY <2>3 DEF Held, ToSet, MemoriesInv
    <3> QED
      BY <2>1, <3>1, FS_EmptySet, ConversationAssumption
  <2> QED
    BY <2>2, <2>3
<1>3. \A s \in sessions' : Cardinality(Held(s)') <= PruneLimit \/ ToPrune(s)' \/ faults' # 0
  BY <1>2
<1> QED
  BY <1>1, <1>3 DEF MemoriesInv

\* A memory is added by somebody who has then to prune.
LEMMA AddingMemoryKeepsLimit ==
  ASSUME TypeInv, TurnsInv, MemoriesInv, Settled, UNCHANGED sessions,
         NEW r \in Requests, NEW source \in {"qa_turn", "summary"}, AddMemory(r, source),
         pc'[r] \in Late, session'[r] = session[r], "prune" \in {pc'[r], job'[r]}
  PROVE  MemoriesInv'
<1>1. CASE ~HasSession(r)
  BY <1>1, MemoriesStand DEF AddMemory
<1>2. CASE HasSession(r)
  <2> DEFINE m == [session |-> session[r], source |-> source, turn |-> r]
             n == Len(memories) + 1
  <2>1. memories' = Append(memories, m)
    BY <1>2 DEF AddMemory
  <2>2. memories \in Seq(Memory)
    BY DEF TypeInv
  <2>3. m.session = session[r] /\ m.turn = r
    OBVIOUS
  <2> HIDE DEF m
  <2>4. /\ DOMAIN memories' = DOMAIN memories \cup {n}
        /\ memories'[n] = m
        /\ \A i \in DOMAIN memories : i # n /\ memories'[i] = memories[i]
    BY <2>1, <2>2
  <2> HIDE DEF n
  <2>5. ASSUME NEW i \in DOMAIN memories'
        PROVE  /\ memories'[i].session \in sessions'
               /\ session'[memories'[i].turn] = memories'[i].session
               /\ pc'[memories'[i].turn] \in Late
    <3>1. CASE i = n
      BY <1>2, <2>3, <2>4, <3>1 DEF HasSession
    <3>2. CASE i \in DOMAIN memories
      <4>1. memories[i].turn \in Requests
        <5>1. memories[i] \in Memory
          BY <3>2 DEF TypeInv
        <5> QED
          BY <5>1 DEF Memory
      <4> QED
        BY <2>4, <3>2, <4>1 DEF MemoriesInv, Settled
    <3> QED
      BY <2>4, <3>1, <3>2
  <2>6. ASSUME NEW s \in sessions', faults' = 0
        PROVE  Cardinality(Held(s)') <= PruneLimit \/ ToPrune(s)'
    <3>1. CASE s = session[r]
      BY <3>1 DEF ToPrune
    <3>2. CASE s # session[r]
      <4>1. Held(s)' = Held(s)
        BY <2>3, <2>4, <3>2 DEF Held, ToSet
      <4>2. Cardinality(Held(s)) <= PruneLimit \/ ToPrune(s)
        BY <2>6 DEF MemoriesInv, Settled
      <4> QED
        BY <2>6, <4>1, <4>2, ToPruneStands
    <3> QED
      BY <3>1, <3>2
  <2>7. \A s \in sessions' : Cardinality(Held(s)') <= PruneLimit \/ ToPrune(s)' \/ faults' # 0
    BY <2>6
  <2> QED
    BY <2>5, <2>7 DEF MemoriesInv
<1> QED
  BY <1>1, <1>2

\* The memories of a session are those of its user's turns in it.
LEMMA HeldAreListed ==
  ASSUME TypeInv, TurnsInv, MemoriesInv, NEW r \in Requests, NEW i \in DOMAIN memories,
         memories[i].session = session[r]
  PROVE  i \in MemoriesOf(r)
<1>1. memories[i] \in Memory
  BY DEF TypeInv
<1>2. memories[i].turn \in Requests
  BY <1>1 DEF Memory
<1>3. session[memories[i].turn] = session[r] /\ session[r] \in Sessions
  BY <1>1 DEF MemoriesInv, Memory
<1>4. Placed(memories[i].turn) /\ Placed(r)
  BY <1>2 DEF TurnsInv, Turn
<1>5. user[memories[i].turn] = user[r]
  BY <1>3, <1>4 DEF Placed
<1> QED
  BY <1>3, <1>5 DEF MemoriesOf, InSessionOf

\* After a prune its session holds the limit; every other session has what it had.
LEMMA PruningKeepsLimit ==
  ASSUME TypeInv, TurnsInv, MemoriesInv, NEW r \in Requests, Prune(r), UNCHANGED <<sessions, session>>,
         \A q \in Requests : pc[q] \in Late => pc'[q] \in Late,
         faults' = 0 => faults = 0,
         \A q \in Requests \ {r} : pc'[q] = pc[q] /\ job'[q] = job[q]
  PROVE  MemoriesInv'
<1>1. \A n \in DOMAIN memories' : \E i \in DOMAIN memories :
        i \notin MemoriesOf(r) \ Kept(r) /\ memories'[n] = memories[i]
  BY PruneKeepsRows
<1>2. ASSUME NEW n \in DOMAIN memories'
      PROVE  /\ memories'[n].session \in sessions'
             /\ session'[memories'[n].turn] = memories'[n].session
             /\ pc'[memories'[n].turn] \in Late
  <2>1. PICK i \in DOMAIN memories : memories'[n] = memories[i]
    BY <1>1
  <2>2. memories[i] \in Memory
    BY DEF TypeInv
  <2> QED
    BY <2>1, <2>2 DEF MemoriesInv, Memory
<1>3. ASSUME NEW s \in sessions', faults' = 0
      PROVE  Cardinality(Held(s)') <= PruneLimit \/ ToPrune(s)'
  <2>1. CASE s = session[r]
    <3> DEFINE f == [i \in Kept(r) |-> memories[i]]
               T == {m \in ToSet(memories) : \E i \in Kept(r) : m = memories[i]}
    <3>1. Kept(r) \subseteq DOMAIN memories
      BY DEF Kept, MemoriesOf
    <3>2. f \in Surjection(Kept(r), T)
      BY <3>1 DEF Surjection, ToSet
    <3>3. Held(s)' \in SUBSET T
      <4> SUFFICES ASSUME NEW n \in DOMAIN memories', memories'[n].session = s
                   PROVE  memories'[n] \in T
        BY DEF Held, ToSet
      <4>1. PICK i \in DOMAIN memories : i \notin MemoriesOf(r) \ Kept(r) /\ memories'[n] = memories[i]
        BY <1>1
      <4>2. i \in Kept(r)
        BY <2>1, <4>1, HeldAreListed
      <4> QED
        BY <4>1, <4>2 DEF ToSet
    <3> HIDE DEF f, T
    <3>4. IsFiniteSet(T) /\ Cardinality(T) <= Cardinality(Kept(r))
      BY <3>2, KeptAreFew, FS_Surjection
    <3>5. /\ Cardinality(Held(s)') <= Cardinality(T)
          /\ Cardinality(T) \in Nat /\ Cardinality(Held(s)') \in Nat
      BY <3>3, <3>4, FS_Subset, FS_CardinalityType
    <3>6. Cardinality(Kept(r)) \in Nat /\ Cardinality(Kept(r)) <= PruneLimit
      BY KeptAreFew
    <3> QED
      BY <3>4, <3>5, <3>6, ConversationAssumption
  <2>2. CASE s # session[r]
    <3>1. Held(s)' \in SUBSET Held(s)
      <4> SUFFICES ASSUME NEW n \in DOMAIN memories', memories'[n].session = s
                   PROVE  memories'[n] \in Held(s)
        BY DEF Held, ToSet
      <4>1. PICK i \in DOMAIN memories : memories'[n] = memories[i]
        BY <1>1
      <4> QED
        BY <4>1 DEF Held, ToSet
    <3>2. IsFiniteSet(Held(s)) /\ Cardinality(Held(s)) \in Nat
      BY HeldIsFinite
    <3>3. Cardinality(Held(s)') <= Cardinality(Held(s)) /\ Cardinality(Held(s)') \in Nat
      BY <3>1, <3>2, FS_Subset, FS_CardinalityType
    <3>4. Cardinality(Held(s)) <= PruneLimit \/ ToPrune(s)
      BY <1>3 DEF MemoriesInv
    <3>5. ToPrune(s) => ToPrune(s)'
      BY <2>2 DEF ToPrune
    <3> QED
      BY <3>2, <3>3, <3>4, <3>5, ConversationAssumption
  <2> QED
    BY <2>1, <2>2
<1>4. \A s \in sessions' : Cardinality(Held(s)') <= PruneLimit \/ ToPrune(s)' \/ faults' # 0
  BY <1>3
<1> QED
  BY <1>2, <1>4 DEF MemoriesInv

LEMMA AskKeepsMemories ==
  ASSUME TypeInv, TurnsInv, MemoriesInv, NEW r \in Requests, AskStep(r)
  PROVE  MemoriesInv'
<1>0. Turn(r)
  BY DEF TurnsInv
<1>1. CASE EnsureSession(r)
  <2>1. /\ pc[r] = "session" /\ UNCHANGED <<memories, faults>>
        /\ \E to \in {"history", "answered"} : pc' = [pc EXCEPT ![r] = to]
        /\ UNCHANGED session \/ \E s : session' = [session EXCEPT ![r] = s]
        /\ sessions \subseteq sessions' /\ UNCHANGED job
    BY <1>1 DEF EnsureSession, UsesSession, Ends, GoesTo
  <2>2. job[r] = "none"
    BY <1>0, <2>1 DEF Turn, Pending
  <2>3. Settled
    BY <2>1, <2>2 DEF Settled, Late, TypeInv
  <2> QED
    BY <2>1, <2>3, MemoriesStand
<1>2. CASE LoadHistory(r) \/ Retrieve(r) \/ AppendLog(r) \/ AppendQuestion(r) \/ AppendAnswer(r)
  <2>1. /\ pc[r] \in {"history", "retrieve", "log", "question", "answer"}
        /\ UNCHANGED <<sessions, memories, faults, session, job>>
        /\ \E to \in Steps : pc' = [pc EXCEPT ![r] = to]
    BY <1>2 DEF LoadHistory, Retrieve, AppendLog, AppendQuestion, AppendAnswer, Passes, GoesTo,
                tables, locals, Steps
  <2>2. Settled
    BY <2>1 DEF Settled, Late, TypeInv
  <2> QED
    BY <2>1, <2>2, MemoriesStand
<1>3. CASE PersistTurn(r)
  <2>1. /\ pc[r] = "remember" /\ pc' = [pc EXCEPT ![r] = "prune"]
        /\ UNCHANGED <<sessions, faults, session, job>> /\ AddMemory(r, "qa_turn")
    BY <1>3 DEF PersistTurn, Passes, GoesTo, locals
  <2>2. Settled /\ pc'[r] = "prune"
    BY <2>1 DEF Settled, Late, TypeInv
  <2> QED
    BY <2>1, <2>2, AddingMemoryKeepsLimit DEF Late
<1>4. CASE PruneTurns(r)
  <2>1. /\ pc[r] = "prune" /\ pc' = [pc EXCEPT ![r] = "summary"]
        /\ UNCHANGED <<sessions, faults, session, job>> /\ Prune(r)
    BY <1>4 DEF PruneTurns, Passes, GoesTo, locals
  <2>2. /\ \A q \in Requests : pc[q] \in Late => pc'[q] \in Late
        /\ \A q \in Requests \ {r} : pc'[q] = pc[q] /\ job'[q] = job[q]
    BY <2>1 DEF Late, TypeInv
  <2> QED
    BY <2>1, <2>2, PruningKeepsLimit
<1>5. CASE TriggerSummary(r)
  <2>1. /\ pc[r] = "summary" /\ pc' = [pc EXCEPT ![r] = "answered"]
        /\ UNCHANGED <<sessions, faults, session, memories>>
        /\ \E to : job' = [job EXCEPT ![r] = to]
    BY <1>5 DEF TriggerSummary, Ends, GoesTo, tables
  <2>2. job[r] = "none"
    BY <1>0, <2>1 DEF Turn, Pending
  <2>3. Settled
    BY <2>1, <2>2 DEF Settled, Late, TypeInv
  <2> QED
    BY <2>1, <2>3, MemoriesStand
<1> QED
  BY <1>1, <1>2, <1>3, <1>4, <1>5 DEF AskStep

LEMMA JobKeepsMemories ==
  ASSUME TypeInv, TurnsInv, MemoriesInv, NEW r \in Requests, JobStep(r) \/ JobFails(r)
  PROVE  MemoriesInv'
<1>0. Turn(r)
  BY DEF TurnsInv
<1>1. CASE ListMessages(r)
  <2>1. /\ job[r] = "list" /\ \E to : job' = [job EXCEPT ![r] = to]
        /\ UNCHANGED <<sessions, memories, faults, session, pc>>
    BY <1>1 DEF ListMessages, JobPasses, locals
  <2>2. pc[r] = "answered"
    BY <1>0, <2>1 DEF Turn, Pending
  <2>3. Settled
    BY <2>1, <2>2 DEF Settled, Late, TypeInv
  <2> QED
    BY <2>1, <2>3, MemoriesStand
<1>2. CASE UpsertSummary(r)
  <2>1. /\ job[r] = "upsert" /\ job' = [job EXCEPT ![r] = "prune"]
        /\ UNCHANGED <<sessions, faults, session, pc>> /\ AddMemory(r, "summary")
    BY <1>2 DEF UpsertSummary, JobPasses, locals
  <2>2. pc[r] = "answered" /\ job'[r] = "prune"
    BY <1>0, <2>1 DEF Turn, Pending, TypeInv
  <2>3. Settled
    BY <2>1, <2>2 DEF Settled, Late, TypeInv
  <2> QED
    BY <2>1, <2>2, <2>3, AddingMemoryKeepsLimit DEF Late
<1>3. CASE PruneSummaries(r)
  <2>1. /\ job' = [job EXCEPT ![r] = "none"]
        /\ UNCHANGED <<sessions, faults, session, pc>> /\ Prune(r)
    BY <1>3 DEF PruneSummaries, JobPasses, locals
  <2>2. \A q \in Requests \ {r} : pc'[q] = pc[q] /\ job'[q] = job[q]
    BY <2>1 DEF TypeInv
  <2> QED
    BY <2>1, <2>2, PruningKeepsLimit
<1>4. CASE JobFails(r)
  <2>1. /\ faults' # 0 /\ UNCHANGED <<sessions, memories, session, pc>>
    BY <1>4 DEF JobFails, Fault, JobPasses, locals, TypeInv
  <2>2. Settled
    BY <2>1 DEF Settled
  <2> QED
    BY <2>1, <2>2, MemoriesStand
<1> QED
  BY <1>1, <1>2, <1>3, <1>4 DEF JobStep

\* A failing call adds no memory, and only before the turn is written does the
\* request start again.
LEMMA FaultsKeepMemories ==
  ASSUME TypeInv, TurnsInv, MemoriesInv, NEW r \in Requests, CallFails(r) \/ CallFailsQuietly(r)
  PROVE  MemoriesInv'
<1>1. faults' # 0
  BY DEF CallFails, CallFailsQuietly, Fault, TypeInv
<1>2. CASE CallFails(r)
  <2>1. /\ pc[r] \in {"session", "retrieve"} /\ UNCHANGED <<sessions, memories, session>>
        /\ \E to : pc' = [pc EXCEPT ![r] = to]
    BY <1>2 DEF CallFails, AttemptFails, Ends, GoesTo, tables
  <2>2. Settled
    BY <1>1, <2>1 DEF Settled, Late, TypeInv
  <2> QED
    BY <2>1, <2>2, MemoriesStand
<1>3. CASE pc[r] = "session" /\ UsesSession(r, <<r, attempt[r]>>) /\ UNCHANGED tables
  <2>1. Settled /\ UNCHANGED memories
    BY <1>1, <1>3 DEF Settled, Late, UsesSession, GoesTo, tables, TypeInv
  <2> QED
    BY <2>1, MemoriesStand
<1>4. CASE pc[r] \in DOMAIN Following /\ Passes(r, pc[r], Following[pc[r]]) /\ UNCHANGED tables
  <2>1. \/ pc[r] \in {"history", "question", "answer"}
        \/ pc[r] = "prune" /\ pc' = [pc EXCEPT ![r] = "summary"]
    <3>1. pc[r] \in {"history", "question", "answer", "prune"}
      BY <1>4 DEF Following
    <3>2. pc[r] = "prune" => Following[pc[r]] = "summary"
      BY DEF Following
    <3> QED
      BY <1>4, <3>1, <3>2 DEF Passes, GoesTo
  <2>2. /\ UNCHANGED <<sessions, memories, session>> /\ \E to : pc' = [pc EXCEPT ![r] = to]
    BY <1>4 DEF Passes, GoesTo, tables, locals
  <2>3. Settled
    BY <1>1, <2>1, <2>2 DEF Settled, Late, TypeInv
  <2> QED
    BY <2>2, <2>3, MemoriesStand
<1>5. CASE /\ pc[r] \in {"log", "remember", "summary"} /\ UNCHANGED <<sessions, memories, session>>
           /\ \E to \in {"question", "prune", "summary", "answered"} :
                /\ pc' = [pc EXCEPT ![r] = to]
                /\ pc[r] = "summary" => to = "answered"
  <2>1. Settled
    BY <1>1, <1>5 DEF Settled, Late, TypeInv
  <2> QED
    BY <1>5, <2>1, MemoriesStand
<1>6. CASE Passes(r, "log", "question") /\ UNCHANGED <<sessions, messages, logs, memories>>
  BY <1>5, <1>6 DEF Passes, GoesTo, locals
<1>7. CASE (\E next \in {"prune", "summary"} : Passes(r, "remember", next)) /\ UNCHANGED tables
  BY <1>5, <1>7 DEF Passes, GoesTo, tables, locals
<1>8. CASE pc[r] = "summary" /\ Ends(r, "ok") /\ UNCHANGED <<tables, user, requested, session, job>>
  BY <1>5, <1>8 DEF Ends, GoesTo, tables
<1> QED
  BY <1>2, <1>3, <1>4, <1>6, <1>7, <1>8 DEF CallFailsQuietly

LEMMA MemoriesInvInit == Init => MemoriesInv
BY DEF Init, MemoriesInv

LEMMA MemoriesInvNext == TypeInv /\ TurnsInv /\ MemoriesInv /\ [Next]_vars => MemoriesInv'
<1> SUFFICES ASSUME TypeInv, TurnsInv, MemoriesInv, [Next]_vars
             PROVE  MemoriesInv'
  OBVIOUS
<1>1. CASE UNCHANGED vars
  <2>1. Settled /\ UNCHANGED memories
    BY <1>1 DEF vars, tables, locals, Settled
  <2> QED
    BY <2>1, MemoriesStand
<1>2. ASSUME NEW r \in Requests, NEW u \in Users, NEW s \in Sessions \cup {None}, Begin(r, u, s)
      PROVE  MemoriesInv'
  <2>1. /\ pc[r] = "new" /\ pc' = [pc EXCEPT ![r] = "session"]
        /\ UNCHANGED <<sessions, memories, session, job, faults>>
    BY <1>2 DEF Begin, GoesTo, tables
  <2>2. job[r] = "none"
    BY <2>1 DEF TurnsInv, Turn, Pending
  <2>3. Settled
    BY <2>1, <2>2 DEF Settled, Late, TypeInv
  <2> QED
    BY <2>1, <2>3, MemoriesStand
<1>3. CASE Dies
  <2>1. Settled /\ UNCHANGED memories
    BY <1>3 DEF Dies, Fault, Settled, Late, InCall, tables, TypeInv
  <2> QED
    BY <2>1, MemoriesStand
<1> QED
  BY <1>1, <1>2, <1>3, AskKeepsMemories, JobKeepsMemories, FaultsKeepMemories DEF Next

LEMMA PrunedFollows == MemoriesInv => MemoriesArePruned
BY DEF MemoriesInv, MemoriesArePruned, Held, ToPrune

-----------------------------------------------------------------------------
(* What a prune takes *)

\* A summary goes only when every memory that is left is a summary.
LosesSummariesLast ==
  \A m \in ToSet(memories) :
    m.source = "summary" /\ m \notin ToSet(memories') =>
      \A n \in ToSet(memories') : n.session = m.session => n.source = "summary"

LEMMA PruneLosesSummariesLast ==
  ASSUME TypeInv, TurnsInv, MemoriesInv, NEW r \in Requests, Prune(r)
  PROVE  LosesSummariesLast
<1> SUFFICES ASSUME NEW i \in DOMAIN memories, memories[i].source = "summary",
                    memories[i] \notin ToSet(memories'),
                    NEW k \in DOMAIN memories', memories'[k].session = memories[i].session
             PROVE  memories'[k].source = "summary"
  BY DEF LosesSummariesLast, ToSet
<1>1. i \in MemoriesOf(r) \ Kept(r)
  <2>1. i \notin MemoriesOf(r) \ Kept(r) => \E n \in DOMAIN memories' : memories'[n] = memories[i]
    BY PruneKeepsRows
  <2> QED
    BY <2>1 DEF ToSet
<1>2. PICK j \in DOMAIN memories : j \notin MemoriesOf(r) \ Kept(r) /\ memories'[k] = memories[j]
  BY PruneKeepsRows
<1>3. memories[i].session = session[r]
  BY <1>1 DEF MemoriesOf, InSessionOf, MemoriesInv
<1>4. j \in MemoriesOf(r) /\ j \in Kept(r)
  BY <1>2, <1>3, HeldAreListed
<1>5. SUFFICES ASSUME memories[j].source # "summary"
               PROVE  FALSE
  BY <1>2
<1>6. Outranks(i, j)
  BY <1>5 DEF Outranks
<1>7. Cardinality(Above(r, i)) < Cardinality(Above(r, j))
  BY <1>1, <1>4, <1>6, HigherHasFewerAbove
<1>8. Cardinality(Above(r, j)) < PruneLimit /\ ~ (Cardinality(Above(r, i)) < PruneLimit)
  BY <1>1, <1>4 DEF Kept, Above
<1>9. Cardinality(Above(r, i)) \in Nat /\ Cardinality(Above(r, j)) \in Nat
  BY PositionsOfMemories
<1> QED
  BY <1>7, <1>8, <1>9, ConversationAssumption

LEMMA AddingLosesNothing ==
  ASSUME TypeInv, NEW r \in Requests, NEW source, AddMemory(r, source)
  PROVE  LosesSummariesLast
<1>1. ToSet(memories) \subseteq ToSet(memories')
  <2>1. memories \in Seq(Memory)
    BY DEF TypeInv
  <2>2. CASE HasSession(r)
    <3>1. PICK m : memories' = Append(memories, m)
      BY <2>2 DEF AddMemory
    <3> QED
      BY <2>1, <3>1 DEF ToSet
  <2>3. CASE ~HasSession(r)
    BY <2>3 DEF AddMemory
  <2> QED
    BY <2>2, <2>3
<1> QED
  BY <1>1 DEF LosesSummariesLast

LEMMA SummariesNext ==
  ASSUME TypeInv, TurnsInv, MemoriesInv, [Next]_vars
  PROVE  LosesSummariesLast
<1>1. CASE UNCHANGED memories
  BY <1>1 DEF LosesSummariesLast
<1>2. ASSUME NEW r \in Requests, AskStep(r) \/ JobStep(r)
      PROVE  LosesSummariesLast
  <2>1. CASE PersistTurn(r)
    BY <2>1, AddingLosesNothing DEF PersistTurn
  <2>2. CASE UpsertSummary(r)
    BY <2>2, AddingLosesNothing DEF UpsertSummary
  <2>3. CASE PruneTurns(r) \/ PruneSummaries(r)
    BY <2>3, PruneLosesSummariesLast DEF PruneTurns, PruneSummaries
  <2>4. CASE \/ EnsureSession(r) \/ LoadHistory(r) \/ Retrieve(r) \/ AppendLog(r)
             \/ AppendQuestion(r) \/ AppendAnswer(r) \/ TriggerSummary(r) \/ ListMessages(r)
    BY <1>1, <2>4 DEF EnsureSession, LoadHistory, Retrieve, AppendLog, AppendQuestion, AppendAnswer,
                      TriggerSummary, ListMessages, tables
  <2> QED
    BY <1>2, <2>1, <2>2, <2>3, <2>4 DEF AskStep, JobStep
<1>3. CASE \E r \in Requests : CallFails(r) \/ CallFailsQuietly(r) \/ JobFails(r)
  BY <1>1, <1>3 DEF CallFails, CallFailsQuietly, JobFails, tables
<1>4. CASE \E r \in Requests, u \in Users, s \in Sessions \cup {None} : Begin(r, u, s)
  BY <1>1, <1>4 DEF Begin, tables
<1>5. CASE Dies
  BY <1>1, <1>5 DEF Dies, tables
<1>6. CASE UNCHANGED vars
  BY <1>1, <1>6 DEF vars, tables
<1> QED
  BY <1>2, <1>3, <1>4, <1>5, <1>6 DEF Next

-----------------------------------------------------------------------------
(* Theorems *)

IInv == TypeInv /\ TurnsInv /\ MemoriesInv

\* The inductive invariant: how far every request is written in the tables, whose
\* sessions and messages it uses, and that a session over the limit is about to be
\* pruned.
THEOREM IInvHolds == Spec => []IInv
<1>1. Init => IInv
  BY TypeInvInit, TurnsInvInit, MemoriesInvInit DEF IInv
<1>2. IInv /\ [Next]_vars => IInv'
  BY TypeInvNext, TurnsInvNext, MemoriesInvNext DEF IInv
<1> QED
  BY <1>1, <1>2, PTL DEF Spec

\* However often the middleware runs a request again, its turn is in the message
\* log and the query log at most once, and not at all after an error.
THEOREM TurnIsWrittenOnceHolds == Spec => []TurnIsWrittenOnce
<1>1. IInv => TurnIsWrittenOnce
  BY WrittenOnceFollows DEF IInv
<1> QED
  BY <1>1, IInvHolds, PTL

\* Concurrent turns of a session never tear a question from its answer in the
\* history that is loaded, wherever the history is cut.
THEOREM HistoryKeepsTurnsHolds == Spec => []HistoryKeepsTurns
<1>1. IInv => HistoryKeepsTurns
  BY HistoryFollows DEF IInv
<1> QED
  BY <1>1, IInvHolds, PTL

\* Nobody's question reads or writes the session of somebody else.
THEOREM SessionsStayPrivateHolds == Spec => []SessionsStayPrivate
<1>1. IInv => SessionsStayPrivate
  BY PrivacyFollows DEF IInv
<1> QED
  BY <1>1, IInvHolds, PTL

\* Turns and summary jobs that prune concurrently leave a session at its limit.
THEOREM MemoriesArePrunedHolds == Spec => []MemoriesArePruned
<1>1. IInv => MemoriesArePruned
  BY PrunedFollows DEF IInv
<1> QED
  BY <1>1, IInvHolds, PTL

\* No step takes a summary from the memories while it leaves a single turn there.
THEOREM SummariesOutliveTurnsHolds == Spec => SummariesOutliveTurns
<1>1. IInv /\ [Next]_vars =>
        [\A m \in ToSet(memories) :
           m.source = "summary" /\ m \notin ToSet(memories') =>
             \A n \in ToSet(memories') : n.session = m.session => n.source = "summary"]_vars
  BY SummariesNext DEF IInv, LosesSummariesLast
<1> QED
  BY <1>1, IInvHolds, PTL DEF Spec, SummariesOutliveTurns
================================================================================
