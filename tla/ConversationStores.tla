------------------------- MODULE ConversationStores -------------------------
(***************************************************************************)
(* The three variants of the message log and of the memory store of one    *)
(* user's session, driven with the same calls:                             *)
(* internal/infra/uploadask/memory/{memory,sqlite,postgres}.go.            *)
(*                                                                         *)
(* Abstraction: the session belongs to one user, as the service sees to,   *)
(* so the rows of others play no part.  The two messages of a turn carry   *)
(* one time, taken before both are appended (service.go:488).  A text is a *)
(* number; an embedding stands for its ranks against the question's, near  *)
(* by the cosine and close by the distance.                                *)
(***************************************************************************)
EXTENDS SqlRows, FiniteSets, Integers

CONSTANTS
  Sizes,          \* the token counts of messages
  Budgets,        \* the token budgets of histories; a request may name any
  MaxMessages,    \* the most messages of a history, 50 in the service
  Contents,       \* the texts of memories
  PruneLimit,     \* memories kept in a session
  MemTopK,        \* memories a question uses
  Embeddings,     \* of memories; one that is not near at all stands for none
  ChatEnd         \* bound: the time of the last call
\* The limits are above zero: MaxMessages is fixed, provideUploadAskConfig replaces
\* the prune limit by a default, and searchMemories asks for none with a topK of zero.
ASSUME ChatAssumption ==
  /\ Sizes \subseteq Nat /\ Budgets \subseteq Int
  /\ {MaxMessages, PruneLimit, MemTopK} \subseteq Nat \ {0}
  /\ Embeddings \subseteq [near : Nat, close : Nat]

VARIABLES
  memoryLog, memoryMems,       \* slices
  sqliteLog, sqliteMems,       \* tables
  postgresLog, postgresMems,   \* tables
  chatTime
chatVars == <<memoryLog, memoryMems, sqliteLog, sqliteMems, postgresLog, postgresMems, chatTime>>

-----------------------------------------------------------------------------
(* The tokens of the first i messages, and whether the first n of them are *)
(* within the two budgets of a history; maxTokens below one is no budget.  *)
Spent(msgs) ==
  LET sum[i \in 0..Len(msgs)] == IF i = 0 THEN 0 ELSE sum[i - 1] + msgs[i].tokens
  IN  sum
Fit(maxTokens, msgs, n) ==
  n <= MaxMessages /\ (maxTokens > 0 => Spent(msgs)[n] <= maxTokens)

(* The messages of an order that fit, from its first on; the first that    *)
(* does not fit ends the list.                                             *)
Fitting(maxTokens, msgs) ==
  LET n == CHOOSE n \in 0..Len(msgs) :
             /\ Fit(maxTokens, msgs, n)
             /\ n < Len(msgs) => ~Fit(maxTokens, msgs, n + 1)
  IN  Prefix(msgs, n)

(* MemoryMessageLog: Append, and ListRecent from the end of the slice.     *)
MemoryAppend(log, msg) == Append(log, [msg EXCEPT !.id = Len(log) + 1])
MemoryListRecent(log, maxTokens) == Reverse(Fitting(maxTokens, Reverse(log)))

(* SQLiteMessageLog: ORDER BY created_at DESC, id DESC LIMIT maxMessages.  *)
SqliteAppend(log, msg) == log \cup {[msg EXCEPT !.id = Cardinality(log) + 1]}
SqliteListRecent(log, maxTokens) ==
  LET text(m) == formatSQLiteTime(m.at)
      before == {p \in log \X log : \/ TextAbove(text(p[1]), text(p[2]))
                                    \/ text(p[1]) = text(p[2]) /\ p[1].id > p[2].id}
  IN  Reverse(Fitting(maxTokens, Prefix(Sorted(log, before), MaxMessages)))

(* PostgresMessageLog: ORDER BY created_at DESC only, so the messages of   *)
(* one time come in any order: the answers the query may give.             *)
PostgresAppend(log, msg) == log \cup {[msg EXCEPT !.id = Cardinality(log) + 1]}
PostgresListRecent(log, maxTokens) ==
  LET orders == {o \in SetToSeqs(log) :
                   \A i, j \in DOMAIN o : i < j => o[i].at >= o[j].at}
  IN  {Reverse(Fitting(maxTokens, Prefix(o, MaxMessages))) : o \in orders}

-----------------------------------------------------------------------------
Key(mem) == <<mem.source, mem.content>>

(* MemoryStore: Upsert replaces in place, Prune keeps the slice as it is   *)
(* up to the limit and sorts it beyond.                                    *)
MemoryUpsert(mems, mem) ==
  IF \E i \in DOMAIN mems : Key(mems[i]) = Key(mem)
  THEN [i \in DOMAIN mems |-> IF Key(mems[i]) = Key(mem) THEN mem ELSE mems[i]]
  ELSE Append(mems, mem)
Embedded(mems) == {m \in mems : m.embedded}
Held(mems) == {mems[i] : i \in DOMAIN mems}
MemorySearchMems(mems) == Prefix(Nearest(Embedded(Held(mems))), MemTopK)
Important(mems) ==
  Sorted(mems, {p \in mems \X mems : \/ p[1].importance > p[2].importance
                                     \/ p[1].importance = p[2].importance /\ p[1].at > p[2].at})
MemoryPrune(mems) ==
  IF Len(mems) <= PruneLimit THEN mems ELSE Prefix(Important(Held(mems)), PruneLimit)

(* SQLiteMemoryStore: the order of Prune is that of the text.              *)
Upserted(mems, mem) == {m \in mems : Key(m) # Key(mem)} \cup {mem}
SqliteUpsert(mems, mem) == Upserted(mems, mem)
SqliteSearchMems(mems) == Prefix(NearestNewest(Embedded(mems)), MemTopK)

\* Faulty variant: the newest are kept, whatever their importance.
KeepsNewest(mems) == Held(Prefix(NewestText(mems), PruneLimit))

SqlitePrune(mems) ==
  LET before == {p \in mems \X mems :
                   \/ p[1].importance > p[2].importance
                   \/ /\ p[1].importance = p[2].importance
                      /\ TextAbove(formatSQLiteTime(p[1].at), formatSQLiteTime(p[2].at))}
  IN  Held(Prefix(Sorted(mems, before), PruneLimit))

PostgresUpsert(mems, mem) == Upserted(mems, mem)
PostgresSearchMems(mems) == Prefix(ByDistance(Embedded(mems)), MemTopK)
PostgresPrune(mems) == Held(Prefix(Important(mems), PruneLimit))

-----------------------------------------------------------------------------
ChatInit ==
  /\ memoryLog = << >> /\ sqliteLog = {} /\ postgresLog = {}
  /\ memoryMems = << >> /\ sqliteMems = {} /\ postgresMems = {}
  /\ chatTime = 1

(* appendMessages: question and answer; either append may fail, in every   *)
(* variant alike here, and its error is only logged.                       *)
AppendMessages(sizes) ==
  LET msg(i) == [id |-> 0, at |-> chatTime, tokens |-> sizes[i]]
      both(App(_, _), log) ==
        LET first == App(log, msg(1))
        IN  IF Len(sizes) = 1 THEN first ELSE App(first, msg(2))
  IN  /\ memoryLog' = both(MemoryAppend, memoryLog)
      /\ sqliteLog' = both(SqliteAppend, sqliteLog)
      /\ postgresLog' = both(PostgresAppend, postgresLog)
      /\ UNCHANGED <<memoryMems, sqliteMems, postgresMems>>

(* persistTurnMemory and the summary job: an upsert, then a prune.         *)
StoreMemory(source, content, vector) ==
  LET mem == [source |-> source, content |-> content, near |-> vector.near, close |-> vector.close,
              embedded |-> vector.near > 0,
              importance |-> IF source = "summary" THEN 1 ELSE 0, at |-> chatTime]
  IN  /\ memoryMems' = MemoryPrune(MemoryUpsert(memoryMems, mem))
      /\ sqliteMems' = SqlitePrune(SqliteUpsert(sqliteMems, mem))
      /\ postgresMems' = PostgresPrune(PostgresUpsert(postgresMems, mem))
      /\ UNCHANGED <<memoryLog, sqliteLog, postgresLog>>

ChatTick ==
  /\ chatTime < ChatEnd
  /\ chatTime' \in {t \in {chatTime + 1, chatTime + 2} : t <= ChatEnd}
LogNext ==
  /\ ChatTick
  /\ \E sizes \in {<<n>> : n \in Sizes} \cup {<<n, m>> : n, m \in Sizes} : AppendMessages(sizes)
MemoryNext ==
  /\ ChatTick
  /\ \E source \in {"qa_turn", "summary"}, content \in Contents, vector \in Embeddings :
       StoreMemory(source, content, vector)

ChatStoreSpec == ChatInit /\ [][LogNext \/ MemoryNext]_chatVars

-----------------------------------------------------------------------------
(* The messages of the session in the order they were written, from one    *)
(* on.                                                                     *)
End(n) == SubSeq(memoryLog, n + 1, Len(memoryLog))
NewestThatFit(maxTokens) ==
  LET n == CHOOSE n \in 0..Len(memoryLog) :
             /\ Fit(maxTokens, End(n), Len(End(n)))
             /\ \A k \in 0..(n - 1) : ~Fit(maxTokens, End(k), Len(End(k)))
  IN  End(n)
OneTimeEach == \A a, b \in postgresLog : a.at = b.at => a.id = b.id

(* The history a question is asked with is the longest end of the          *)
(* conversation within both budgets, or within the number of messages when *)
(* the request's budget is zero or less, in its order and without a gap,   *)
(* from every variant; a message above the budget hides all before it.     *)
(* SQLite keeps this unless the text of two times misorders them, and      *)
(* Postgres, which does not order the two messages of a turn, unless they  *)
(* share their time.                                                       *)
HistoryIsNewestThatFits ==
  \A maxTokens \in Budgets :
    LET newest == NewestThatFit(maxTokens)
    IN  /\ MemoryListRecent(memoryLog, maxTokens) = newest
        /\ InTextOrder(sqliteLog) => SqliteListRecent(sqliteLog, maxTokens) = newest
        /\ OneTimeEach => PostgresListRecent(postgresLog, maxTokens) = {newest}

Nears(mems) == [i \in DOMAIN mems |-> mems[i].near]

(* The memories that survive the prunes are the same in every variant, the *)
(* summaries before the turns and the newest first, and a question finds   *)
(* equally near ones: with Postgres as long as the distances rank them as  *)
(* the cosines do, and the SQLite variant may have pruned another one only *)
(* where the text of two times misorders them.                             *)
MemoriesAgree ==
  LET memory == Held(memoryMems)
  IN  /\ memory = postgresMems
      /\ RankedAlike(Embedded(postgresMems)) =>
           Nears(MemorySearchMems(memoryMems)) = Nears(PostgresSearchMems(postgresMems))
      /\ InTextOrder(memory \cup sqliteMems) =>
           /\ memory = sqliteMems
           /\ Nears(MemorySearchMems(memoryMems)) = Nears(SqliteSearchMems(sqliteMems))

(* What a question finds of its conversation does not depend on the        *)
(* variant, its messages and its memories.                                 *)
ConversationStoresAgree == HistoryIsNewestThatFits /\ MemoriesAgree
=============================================================================
