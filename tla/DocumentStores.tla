--------------------------- MODULE DocumentStores ---------------------------
(***************************************************************************)
(* The three variants of the Upload & Ask repositories, driven with the    *)
(* same calls: internal/infra/uploadask/repo/{memory,sqlite,postgres}.go.  *)
(* The service is written against one interface and the provider picks a   *)
(* variant at start, so whatever the service sees must not depend on it.   *)
(*                                                                         *)
(* Abstraction: a table is a set of rows, its keys and references those of *)
(* internal/infra/sqlite/db.go and of docs/upload-ask/schema.sql.  An      *)
(* embedding stands for its ranks against the question's: "near" by the    *)
(* cosine of two variants, "close" by the distance of the third; nothing   *)
(* makes the vectors of an embedder unit vectors, which the two rank alike.*)
(***************************************************************************)
EXTENDS SqlRows, FiniteSets

CONSTANTS
  Docs, Owners, Chats,   \* documents, users and sessions
  Batches,               \* the sequences of embeddings a job may store
  SearchLimit,           \* LIMIT 64 of the SQL variants
  TopK,                  \* the most hits a question asks for: no limit of the request
  DocEnd                 \* bound: the time of the last insert

ASSUME SearchAssumption ==
  /\ Batches \subseteq Seq([near : Nat, close : Nat])
  /\ TopK \in Nat /\ SearchLimit \in Nat

VARIABLES
  memoryRepo,    \* maps, and for chunks and logs a slice per key
  sqliteRepo,    \* tables
  postgresRepo,  \* tables
  docTime,       \* ticks; every call takes one
  refused        \* the documents whose chunks SQLite refused to store again
docVars == <<memoryRepo, sqliteRepo, postgresRepo, docTime, refused>>

NoFilter == {}

Tables == [docs |-> {}, files |-> {}, chunks |-> {}, sessions |-> {}, logs |-> {}]

(* INSERT, refused also when a referenced row is not there.                *)
Insert(db, t, row, keys, referenced) ==
  IF Clashes(db[t], row, keys) \/ ~referenced THEN db
  ELSE [db EXCEPT ![t] = @ \cup {row}]

HasDoc(db, d) == \E r \in db.docs : r.id = d
HasChat(db, s) == \E r \in db.sessions : r.id = s

-----------------------------------------------------------------------------
(* MemoryDocumentRepository, MemoryFileRepository                          *)
MemoryCreateDoc(db, doc) == [db EXCEPT !.docs = Put(@, doc.id, doc)]
MemoryUpdateStatus(db, d, st) ==
  IF d \notin DOMAIN db.docs THEN db ELSE [db EXCEPT !.docs[d].status = st]
MemoryGetDoc(db, d, u) ==
  IF d \in DOMAIN db.docs /\ db.docs[d].user = u THEN {db.docs[d]} ELSE {}
MemoryListDocs(db, u, statuses, ids) ==
  {doc \in {db.docs[d] : d \in DOMAIN db.docs} :
     /\ doc.user = u
     /\ statuses # NoFilter => doc.status \in statuses
     /\ ids # NoFilter => doc.id \in ids}
MemoryCreateFile(db, file) == [db EXCEPT !.files = Put(@, file.doc, file)]
MemoryFindFile(db, d) == IF d \in DOMAIN db.files THEN {db.files[d]} ELSE {}

(* MemoryChunkRepository: the batch goes behind what the document has.     *)
MemoryInsertBatch(db, d, batch) ==
  [db EXCEPT !.chunks =
     Put(@, d, (IF d \in DOMAIN @ THEN @[d] ELSE <<>>) \o batch)]

(* Every chunk of the allowed documents, by score, without a limit.        *)
MemorySearch(db, u, statuses, ids) ==
  LET hits == {h \in UNION {{d} \X DOMAIN db.chunks[d] : d \in DOMAIN db.chunks} :
                 /\ ids # NoFilter => h[1] \in ids
                 /\ \E doc \in MemoryGetDoc(db, h[1], u) :
                      statuses # NoFilter => doc.status \in statuses}
      near(h) == db.chunks[h[1]][h[2]].near
  IN  Nearest({[hit |-> h, near |-> near(h)] : h \in hits})

(* MemoryQASessionRepository, MemoryQueryLogRepository; the log does not   *)
(* look at the user.                                                       *)
MemoryCreateSession(db, session) ==
  [db EXCEPT !.sessions = Put(@, session.id, session)]
MemoryFindSession(db, s, u) ==
  IF s \in DOMAIN db.sessions /\ db.sessions[s].user = u THEN {db.sessions[s]} ELSE {}
MemoryListSessions(db, u) ==
  {r \in {db.sessions[s] : s \in DOMAIN db.sessions} : r.user = u}
MemoryAppendLog(db, log) ==
  [db EXCEPT !.logs =
     Put(@, log.session, Append(IF log.session \in DOMAIN @ THEN @[log.session] ELSE <<>>, log))]
MemoryListLogs(db, s, u) == IF s \in DOMAIN db.logs THEN db.logs[s] ELSE <<>>

-----------------------------------------------------------------------------
(* The SQLite repositories; times are written and ordered as text.         *)
SqliteCreateDoc(db, doc) == Insert(db, "docs", doc, {{"id"}}, TRUE)
WithStatus(docs, d, st) ==
  {IF r.id = d THEN [r EXCEPT !.status = st] ELSE r : r \in docs}
SqliteUpdateStatus(db, d, st) == [db EXCEPT !.docs = WithStatus(@, d, st)]
SqliteGetDoc(db, d, u) == {r \in db.docs : r.id = d /\ r.user = u}

(* uuidSet, statusSet: an empty filter allows everything.                  *)
Allowed(filter, x) == filter # NoFilter => x \in filter
SqliteListDocs(db, u, statuses, ids) ==
  NewestText({r \in db.docs : r.user = u /\ Allowed(ids, r.id) /\ Allowed(statuses, r.status)})
SqliteCreateFile(db, file) ==
  Insert(db, "files", file, {{"doc"}}, HasDoc(db, file.doc))
SqliteFindFile(db, d) == {r \in db.files : r.doc = d}

(* One transaction: a chunk index that is taken takes the batch back.      *)
Rows(d, batch) ==
  {[doc |-> d, index |-> batch[i].index, near |-> batch[i].near, close |-> batch[i].close, at |-> batch[i].at]
     : i \in DOMAIN batch}
SqliteRefusesBatch(db, d, batch) ==
  \/ \E row \in Rows(d, batch) : Clashes(db.chunks, row, {{"doc", "index"}})
  \/ ~HasDoc(db, d)
SqliteInsertBatch(db, d, batch) ==
  IF SqliteRefusesBatch(db, d, batch) THEN db
  ELSE [db EXCEPT !.chunks = @ \cup Rows(d, batch)]

\* Faulty variant: the limit is part of the query, the filters come after it.
LimitedFirst(db, u, statuses, ids) ==
  SelectSeq(Prefix(Nearest({c \in db.chunks : \E d \in db.docs : d.id = c.doc /\ d.user = u}),
                   SearchLimit),
            LAMBDA c : \E d \in db.docs :
              d.id = c.doc /\ Allowed(ids, d.id) /\ Allowed(statuses, d.status))

(* The join on the user, the filters, the order and the limit.             *)
SqliteSearch(db, u, statuses, ids) ==
  LET hits == {c \in db.chunks :
                 \E d \in db.docs : /\ d.id = c.doc /\ d.user = u
                                    /\ Allowed(ids, d.id) /\ Allowed(statuses, d.status)}
  IN  Prefix(NearestNewest(hits), SearchLimit)

SqliteCreateSession(db, session) == Insert(db, "sessions", session, {{"id"}}, TRUE)
SqliteFindSession(db, s, u) == {r \in db.sessions : r.id = s /\ r.user = u}
SqliteListSessions(db, u) == NewestText({r \in db.sessions : r.user = u})
SqliteAppendLog(db, log) == Insert(db, "logs", log, {}, HasChat(db, log.session))
SqliteListLogs(db, s, u) ==
  NewestText({q \in db.logs : q.session = s /\ SqliteFindSession(db, s, u) # {}})

-----------------------------------------------------------------------------
(* The Postgres repositories; a document may have several file rows and    *)
(* several chunks of one index.                                            *)
PostgresCreateDoc(db, doc) == Insert(db, "docs", doc, {{"id"}}, TRUE)
PostgresUpdateStatus(db, d, st) == [db EXCEPT !.docs = WithStatus(@, d, st)]
PostgresGetDoc(db, d, u) == {r \in db.docs : r.id = d /\ r.user = u}
PostgresListDocs(db, u, statuses, ids) ==
  Newest({r \in db.docs : /\ r.user = u
                          /\ statuses # NoFilter => r.status \in statuses
                          /\ ids # NoFilter => r.id \in ids})
PostgresCreateFile(db, file) == Insert(db, "files", file, {}, HasDoc(db, file.doc))
PostgresFindFile(db, d) == {r \in db.files : r.doc = d}
PostgresInsertBatch(db, d, batch) ==
  IF ~HasDoc(db, d) THEN db ELSE [db EXCEPT !.chunks = @ \cup Rows(d, batch)]
PostgresSearch(db, u, statuses, ids) ==
  LET hits == {c \in db.chunks :
                 /\ \E d \in db.docs : /\ d.id = c.doc /\ d.user = u
                                       /\ statuses # NoFilter => d.status \in statuses
                 /\ ids # NoFilter => c.doc \in ids}
  IN  Prefix(ByDistance(hits), SearchLimit)
PostgresCreateSession(db, session) == Insert(db, "sessions", session, {{"id"}}, TRUE)
PostgresFindSession(db, s, u) == {r \in db.sessions : r.id = s /\ r.user = u}
PostgresListSessions(db, u) == Newest({r \in db.sessions : r.user = u})
PostgresAppendLog(db, log) == Insert(db, "logs", log, {}, HasChat(db, log.session))
PostgresListLogs(db, s, u) ==
  Newest({q \in db.logs : q.session = s /\ PostgresFindSession(db, s, u) # {}})

-----------------------------------------------------------------------------
(* The calls, in the orders the service makes them: a document, its file,  *)
(* and then its job, which may run a second time.                          *)
DocInit ==
  /\ memoryRepo = [t \in DOMAIN Tables |-> << >>]
  /\ sqliteRepo = Tables
  /\ postgresRepo = Tables
  /\ docTime = 0
  /\ refused = {}

CreateDoc(d, u) ==
  LET doc == [id |-> d, user |-> u, status |-> "pending", at |-> docTime]
  IN  /\ d \notin DOMAIN memoryRepo.docs
      /\ memoryRepo' = MemoryCreateDoc(memoryRepo, doc)
      /\ sqliteRepo' = SqliteCreateDoc(sqliteRepo, doc)
      /\ postgresRepo' = PostgresCreateDoc(postgresRepo, doc)
      /\ UNCHANGED refused

CreateFile(d) ==
  LET file == [doc |-> d, at |-> docTime]
  IN  /\ d \in DOMAIN memoryRepo.docs \ DOMAIN memoryRepo.files
      /\ memoryRepo' = MemoryCreateFile(memoryRepo, file)
      /\ sqliteRepo' = SqliteCreateFile(sqliteRepo, file)
      /\ postgresRepo' = PostgresCreateFile(postgresRepo, file)
      /\ UNCHANGED refused

UpdateStatus(d, st) ==
  /\ d \in DOMAIN memoryRepo.files
  /\ memoryRepo' = MemoryUpdateStatus(memoryRepo, d, st)
  /\ sqliteRepo' = SqliteUpdateStatus(sqliteRepo, d, st)
  /\ postgresRepo' = PostgresUpdateStatus(postgresRepo, d, st)
  /\ UNCHANGED refused

InsertBatch(d, vectors) ==
  LET batch == [i \in DOMAIN vectors |->
                  [index |-> i, near |-> vectors[i].near, close |-> vectors[i].close, at |-> docTime]]
  IN  /\ d \in DOMAIN memoryRepo.files
      /\ memoryRepo' = MemoryInsertBatch(memoryRepo, d, batch)
      /\ sqliteRepo' = SqliteInsertBatch(sqliteRepo, d, batch)
      /\ postgresRepo' = PostgresInsertBatch(postgresRepo, d, batch)
      /\ refused' = IF SqliteRefusesBatch(sqliteRepo, d, batch) THEN refused \cup {d} ELSE refused

CreateSession(s, u) ==
  LET session == [id |-> s, user |-> u, at |-> docTime]
  IN  /\ s \notin DOMAIN memoryRepo.sessions
      /\ memoryRepo' = MemoryCreateSession(memoryRepo, session)
      /\ sqliteRepo' = SqliteCreateSession(sqliteRepo, session)
      /\ postgresRepo' = PostgresCreateSession(postgresRepo, session)
      /\ UNCHANGED refused

AppendLog(s) ==
  LET log == [session |-> s, at |-> docTime]
  IN  /\ s \in DOMAIN memoryRepo.sessions
      /\ memoryRepo' = MemoryAppendLog(memoryRepo, log)
      /\ sqliteRepo' = SqliteAppendLog(sqliteRepo, log)
      /\ postgresRepo' = PostgresAppendLog(postgresRepo, log)
      /\ UNCHANGED refused

(* Every insert takes a tick; a status may change in between.              *)
DocTick == docTime < DocEnd /\ docTime' = docTime + 1

DocNext ==
  \/ /\ DocTick
     /\ \/ \E d \in Docs, u \in Owners : CreateDoc(d, u)
        \/ \E d \in Docs : CreateFile(d)
        \/ \E d \in Docs, vectors \in Batches : InsertBatch(d, vectors)
  \/ /\ \E d \in Docs, st \in {"processing", "processed", "failed"} : UpdateStatus(d, st)
     /\ UNCHANGED docTime

SessionNext ==
  /\ DocTick
  /\ \/ \E s \in Chats, u \in Owners : CreateSession(s, u)
     \/ \E s \in Chats : AppendLog(s)

DocStoreSpec == DocInit /\ [][DocNext \/ SessionNext]_docVars

-----------------------------------------------------------------------------
(* What the service sees of a variant.                                     *)
AsSet(seq) == {seq[i] : i \in DOMAIN seq}
TopNears(results, k) ==
  LET used == Prefix(results, k) IN [i \in DOMAIN used |-> used[i].near]

(* A user sees the same documents and files from every variant, for every  *)
(* filter; the SQL variants also list them alike, newest first, as long as *)
(* the text of the times sorts as the times do.                            *)
SameDocuments ==
  /\ \A d \in Docs, u \in Owners :
       /\ MemoryGetDoc(memoryRepo, d, u) = SqliteGetDoc(sqliteRepo, d, u)
       /\ MemoryGetDoc(memoryRepo, d, u) = PostgresGetDoc(postgresRepo, d, u)
  /\ \A d \in Docs :
       /\ MemoryFindFile(memoryRepo, d) = SqliteFindFile(sqliteRepo, d)
       /\ MemoryFindFile(memoryRepo, d) = PostgresFindFile(postgresRepo, d)
  /\ \A u \in Owners, statuses \in {NoFilter, {"processed"}}, ids \in SUBSET Docs :
       LET memory == MemoryListDocs(memoryRepo, u, statuses, ids)
           sqlite == SqliteListDocs(sqliteRepo, u, statuses, ids)
           postgres == PostgresListDocs(postgresRepo, u, statuses, ids)
       IN  /\ memory = AsSet(sqlite)
           /\ memory = AsSet(postgres)
           /\ InTextOrder(memory) => sqlite = postgres

(* A question for k chunks finds equally near ones in every variant, with  *)
(* three differences.  The SQL variants answer with SearchLimit of them at *)
(* most, memory with as many as are asked for.  Postgres ranks by distance,*)
(* the others by the cosine.  And of a second job of a document memory and *)
(* Postgres keep the chunks, so that they are found twice, while SQLite    *)
(* refuses them.                                                           *)
SameHits ==
  \A u \in Owners, ids \in SUBSET Docs, k \in 1..TopK :
    LET memory == MemorySearch(memoryRepo, u, {"processed"}, ids)
        postgres == PostgresSearch(postgresRepo, u, {"processed"}, ids)
        sqlite == SqliteSearch(sqliteRepo, u, {"processed"}, ids)
        within == IF k > SearchLimit THEN SearchLimit ELSE k
    IN  /\ RankedAlike(postgresRepo.chunks) => TopNears(postgres, k) = TopNears(memory, within)
        /\ refused = {} => TopNears(sqlite, k) = TopNears(memory, within)

(* A user's sessions are the same, and the log of a session the user has   *)
(* (ListQueryLogs looks for it first), but in memory it starts with the    *)
(* oldest question and in the SQL variants with the newest.                *)
SameSessions ==
  \A u \in Owners :
    /\ MemoryListSessions(memoryRepo, u) = AsSet(SqliteListSessions(sqliteRepo, u))
    /\ MemoryListSessions(memoryRepo, u) = AsSet(PostgresListSessions(postgresRepo, u))
    /\ \A s \in Chats :
         LET found == MemoryFindSession(memoryRepo, s, u)
             oldestFirst == MemoryListLogs(memoryRepo, s, u)
         IN  /\ found = SqliteFindSession(sqliteRepo, s, u)
             /\ found = PostgresFindSession(postgresRepo, s, u)
             /\ found # {} =>
                  /\ Reverse(oldestFirst) = PostgresListLogs(postgresRepo, s, u)
                  /\ InTextOrder(AsSet(oldestFirst)) =>
                       Reverse(oldestFirst) = SqliteListLogs(sqliteRepo, s, u)

(* The documents, hits and sessions a caller sees do not depend on the     *)
(* variant of the stores that was wired.                                   *)
DocumentStoresAgree == SameDocuments /\ SameHits /\ SameSessions
=============================================================================
