----------------------------- MODULE FaqStores -----------------------------
(***************************************************************************)
(* The variants of the Smart FAQ stores, driven with the same calls: the   *)
(* question repository (internal/infra/faqrepo: memory, SQLite, Postgres)  *)
(* and the answer cache with the trending counts (internal/infra/faqstore: *)
(* memory, SQLite, Valkey).                                                *)
(*                                                                         *)
(* Abstraction: an embedding is a point on a line; a semantic hash is not  *)
(* zero (the variants disagree on zero, which 64 signs do not produce in   *)
(* practice).  A second has Second ticks.  Texts, displays and canonical   *)
(* forms are numbers, which order them.                                    *)
(***************************************************************************)
EXTENDS SqlRows, Integers, FiniteSets

CONSTANTS Questions, Hashes, Points,
          Canonicals, DisplaysOf(_),   \* the spellings of a canonical question
          Second, CacheTtls,           \* the TTL of the configuration, 0 for none
          FaqEnd,                      \* bound: the number of calls
          Recommended,                 \* the configured numbers of recommendations
          DefaultTop                   \* what Valkey makes of a number that is not positive

ASSUME PointAssumption == Points \subseteq Int
\* Every spelling has one canonical form.
ASSUME SpellingAssumption ==
  /\ Canonicals \subseteq Int /\ IsFiniteSet(Canonicals)
  /\ \A c \in Canonicals : DisplaysOf(c) \subseteq Int
  /\ \A c, d \in Canonicals : c # d => DisplaysOf(c) \cap DisplaysOf(d) = {}
ASSUME TtlAssumption == Second \in Nat \ {0} /\ CacheTtls \subseteq Nat
\* The configuration refuses a negative number of recommendations, not zero.
ASSUME TopAssumption == Recommended \subseteq Nat /\ DefaultTop \in Nat \ {0}

VARIABLES memoryFaq, sqliteFaq, postgresFaq,        \* questions
          memoryCache, sqliteCache, valkeyCache,    \* answers and counts
          cacheTtl, faqTime, faqCalls
questionVars == <<memoryFaq, sqliteFaq, postgresFaq>>
cacheVars == <<memoryCache, sqliteCache, valkeyCache>>
faqStoreVars == <<questionVars, cacheVars, cacheTtl, faqTime, faqCalls>>

Apart(p, q) == IF p > q THEN p - q ELSE q - p

-----------------------------------------------------------------------------
(* faqrepo.MemoryRepository: the indexes keep the last insert.             *)
MemoryInsertQuestion(db, q) ==
  [nextID |-> db.nextID + 1, records |-> Put(db.records, db.nextID, q),
   byText |-> Put(db.byText, q.text, db.nextID),
   byHash |-> Put(db.byHash, q.hash, db.nextID)]
MemoryFindExact(db, t) == IF t \in DOMAIN db.byText THEN {db.records[db.byText[t]]} ELSE {}
MemoryFindByHash(db, h) == IF h \in DOMAIN db.byHash THEN {db.records[db.byHash[h]]} ELSE {}
MemoryNearest(db, p) ==
  {Apart(p, db.records[i].point) : i \in {j \in DOMAIN db.records :
     \A k \in DOMAIN db.records : Apart(p, db.records[j].point) <= Apart(p, db.records[k].point)}}

(* faqrepo.SQLiteRepository: the text is unique, of one hash the first row *)
(* is found.                                                               *)
Numbered(table, q) ==
  [id |-> Cardinality(table) + 1, text |-> q.text, hash |-> q.hash, point |-> q.point]
SqliteInsertQuestion(table, q) ==
  IF Clashes(table, q, {{"text"}}) THEN table ELSE table \cup {Numbered(table, q)}
First(rows) == {r \in rows : \A s \in rows : r.id <= s.id}
SqliteFindExact(table, t) == {r \in table : r.text = t}

\* Faulty variant: the newest row of a hash is found.
FindNewestByHash(table, h) ==
  LET rows == {r \in table : r.hash = h} IN {r \in rows : \A s \in rows : r.id >= s.id}

SqliteFindByHash(table, h) == First({r \in table : r.hash = h})
SqliteNearest(table, p) ==
  {Apart(p, r.point) : r \in First({s \in table :
     \A k \in table : Apart(p, s.point) <= Apart(p, k.point)})}

(* faqrepo.PostgresRepository: text and hash are unique.                   *)
PostgresRefuses(table, q) == Clashes(table, q, {{"text"}, {"hash"}})
PostgresInsertQuestion(table, q) ==
  IF PostgresRefuses(table, q) THEN table ELSE table \cup {Numbered(table, q)}
PostgresFindExact(table, t) == {r \in table : r.text = t}
PostgresFindByHash(table, h) == {r \in table : r.hash = h}
PostgresNearest(table, p) ==
  {Apart(p, r.point) : r \in {s \in table :
     \A k \in table : Apart(p, s.point) <= Apart(p, k.point)}}

-----------------------------------------------------------------------------
(* The caches keep for a question the answer and the time it expires at.   *)
Never == 0
Expires(ttl) == IF ttl > 0 THEN faqTime + ttl ELSE Never
Expired(at) == at # Never /\ at < faqTime

MemorySaveAnswer(db, q, a) ==
  [db EXCEPT !.answers = Put(@, q, [answer |-> a, expires |-> Expires(cacheTtl)])]
MemoryGetAnswer(db, q) ==
  IF q \in DOMAIN db.answers /\ ~Expired(db.answers[q].expires)
  THEN {db.answers[q].answer} ELSE {}
MemoryDropExpired(db, q) ==
  IF q \in DOMAIN db.answers /\ Expired(db.answers[q].expires)
  THEN [db EXCEPT !.answers = [r \in DOMAIN @ \ {q} |-> @[r]]] ELSE db
MemoryIncrement(db, c, d) ==
  [db EXCEPT !.trending = Put(@, c, IF c \in DOMAIN @ THEN @[c] + 1 ELSE 1),
             !.displays = IF c \in DOMAIN @ THEN @ ELSE Put(@, c, d)]
ByCount(rows) ==
  Sorted(rows, {p \in rows \X rows :
                  \/ p[1].count > p[2].count
                  \/ p[1].count = p[2].count /\ p[1].display < p[2].display})
\* In process and in SQLite a limit that is not positive is none.
Limited(items, limit) == IF limit <= 0 THEN items ELSE Prefix(items, limit)
MemoryTop(db, limit) ==
  Limited(ByCount({[display |-> db.displays[c], count |-> db.trending[c]]
                     : c \in DOMAIN db.trending}), limit)

(* faqstore.SQLiteStore: ON CONFLICT replaces the answer and keeps the     *)
(* first display.                                                          *)
SqliteSaveAnswer(db, q, a) ==
  [db EXCEPT !.answers = {r \in @ : r.question # q}
                         \cup {[question |-> q, answer |-> a, expires |-> Expires(cacheTtl)]}]
SqliteGetAnswer(db, q) ==
  {r.answer : r \in {s \in db.answers : s.question = q /\ ~Expired(s.expires)}}
SqliteDropExpired(db, q) ==
  [db EXCEPT !.answers = {r \in @ : ~(r.question = q /\ Expired(r.expires))}]

\* Faulty variant: the display follows the last spelling.
LastSpelling(db, c, d) ==
  LET count == Cardinality({r \in db.trending : r.canonical = c})
      n == IF count = 0 THEN 0 ELSE (CHOOSE r \in db.trending : r.canonical = c).count
  IN  [db EXCEPT !.trending = {r \in @ : r.canonical # c}
                              \cup {[canonical |-> c, display |-> d, count |-> n + 1]}]

SqliteIncrement(db, c, d) ==
  [db EXCEPT !.trending =
     IF \E r \in @ : r.canonical = c
     THEN {IF r.canonical = c THEN [r EXCEPT !.count = @ + 1] ELSE r : r \in @}
     ELSE @ \cup {[canonical |-> c, display |-> d, count |-> 1]}]
SqliteTop(db, limit) ==
  Limited(ByCount({[display |-> r.display, count |-> r.count] : r \in db.trending}), limit)

(* faqstore.ValkeyStore: SET with EX, which counts whole seconds and at    *)
(* least one, ZINCRBY, SET NX, and ZREVRANGE, which orders equal counts by *)
(* the canonical text, backwards.                                          *)
ValkeySetString(ttl) ==
  IF ttl = 0 THEN Never
  ELSE faqTime + (IF ttl < Second THEN Second ELSE (ttl \div Second) * Second)
ValkeySaveAnswer(db, q, a) ==
  [db EXCEPT !.answers = Put(@, q, [answer |-> a, expires |-> ValkeySetString(cacheTtl)])]
ValkeyGetAnswer(db, q) ==
  IF q \in DOMAIN db.answers /\ ~Expired(db.answers[q].expires)
  THEN {db.answers[q].answer} ELSE {}
ValkeyIncrement(db, c, d) ==
  [db EXCEPT !.trending = Put(@, c, IF c \in DOMAIN @ THEN @[c] + 1 ELSE 1),
             !.displays = IF c \in DOMAIN @ THEN @ ELSE Put(@, c, d)]
ValkeyLimit(limit) == IF limit <= 0 THEN DefaultTop ELSE limit
ValkeyTop(db, limit) ==
  LET rows == {[canonical |-> c, count |-> db.trending[c]] : c \in DOMAIN db.trending}
      before == {p \in rows \X rows : \/ p[1].count > p[2].count
                                      \/ /\ p[1].count = p[2].count
                                         /\ p[1].canonical > p[2].canonical}
      top == Prefix(Sorted(rows, before), ValkeyLimit(limit))
  IN  [i \in DOMAIN top |-> [display |-> db.displays[top[i].canonical], count |-> top[i].count]]

-----------------------------------------------------------------------------
FaqStoreInit ==
  /\ memoryFaq = [nextID |-> 1, records |-> << >>, byText |-> << >>, byHash |-> << >>]
  /\ sqliteFaq = {} /\ postgresFaq = {}
  /\ memoryCache = [answers |-> << >>, trending |-> << >>, displays |-> << >>]
  /\ valkeyCache = [answers |-> << >>, trending |-> << >>, displays |-> << >>]
  /\ sqliteCache = [answers |-> {}, trending |-> {}]
  /\ cacheTtl \in CacheTtls
  /\ faqTime = 1 /\ faqCalls = 0

(* The service inserts a question that the exact lookup did not find; in   *)
(* the exact mode nobody has looked for its hash.                          *)
AddQuestion(t, h, p) ==
  LET q == [text |-> t, hash |-> h, point |-> p]
  IN  /\ MemoryFindExact(memoryFaq, t) = {}
      /\ memoryFaq' = MemoryInsertQuestion(memoryFaq, q)
      /\ sqliteFaq' = SqliteInsertQuestion(sqliteFaq, q)
      /\ postgresFaq' = PostgresInsertQuestion(postgresFaq, q)
      /\ UNCHANGED <<cacheVars, faqTime>>

(* An answer is looked up, which drops it once it expired, and stored when *)
(* there is none.                                                          *)
AnswerQuestion(q, a) ==
  LET missed == MemoryGetAnswer(memoryCache, q) = {}
  IN  /\ memoryCache' = IF missed THEN MemorySaveAnswer(MemoryDropExpired(memoryCache, q), q, a)
                        ELSE memoryCache
      /\ sqliteCache' = IF missed THEN SqliteSaveAnswer(SqliteDropExpired(sqliteCache, q), q, a)
                        ELSE sqliteCache
      /\ valkeyCache' = IF missed THEN ValkeySaveAnswer(valkeyCache, q, a) ELSE valkeyCache
      /\ UNCHANGED <<questionVars, faqTime>>

CountQuery(c, d) ==
  /\ memoryCache' = MemoryIncrement(memoryCache, c, d)
  /\ sqliteCache' = SqliteIncrement(sqliteCache, c, d)
  /\ valkeyCache' = ValkeyIncrement(valkeyCache, c, d)
  /\ UNCHANGED <<questionVars, faqTime>>

FaqTick == faqTime' = faqTime + 1 /\ UNCHANGED <<questionVars, cacheVars>>

FaqCall == faqCalls < FaqEnd /\ faqCalls' = faqCalls + 1 /\ UNCHANGED cacheTtl
QuestionNext ==
  /\ FaqCall
  /\ \E t \in Questions, h \in Hashes, p \in Points : AddQuestion(t, h, p)
CacheNext ==
  /\ FaqCall
  /\ \/ \E q \in 1..2, a \in 1..2 : AnswerQuestion(q, a)
     \/ \E c \in Canonicals : \E d \in DisplaysOf(c) : CountQuery(c, d)
     \/ FaqTick

FaqStoreSpec == FaqStoreInit /\ [][QuestionNext \/ CacheNext]_faqStoreVars

-----------------------------------------------------------------------------
TextsOf(rows) == {r.text : r \in rows}
Sharing(h) == {r \in sqliteFaq : r.hash = h}

(* A question is found the same in every repository: by its text, by its   *)
(* hash and as the nearest.  Two questions of one hash part them: Postgres *)
(* refuses the second, for good, and of the others memory finds the last   *)
(* and SQLite the first.                                                   *)
QuestionsAgree ==
  LET oneEach == \A h \in Hashes : Cardinality(Sharing(h)) <= 1
  IN  /\ \A t \in Questions :
           LET memory == TextsOf(MemoryFindExact(memoryFaq, t))
           IN  /\ memory = TextsOf(SqliteFindExact(sqliteFaq, t))
               /\ oneEach => memory = TextsOf(PostgresFindExact(postgresFaq, t))
      /\ \A h \in Hashes :
           LET memory == TextsOf(MemoryFindByHash(memoryFaq, h))
               sqlite == TextsOf(SqliteFindByHash(sqliteFaq, h))
           IN  /\ sqlite = TextsOf(PostgresFindByHash(postgresFaq, h))
               /\ Cardinality(Sharing(h)) <= 1 => memory = sqlite
      /\ \A p \in Points :
           /\ MemoryNearest(memoryFaq, p) = SqliteNearest(sqliteFaq, p)
           /\ oneEach => MemoryNearest(memoryFaq, p) = PostgresNearest(postgresFaq, p)

Counts(top) == [i \in DOMAIN top |-> top[i].count]
Items(top) == {top[i] : i \in DOMAIN top}

(* An answer is served as long by every cache, as long as the TTL is a     *)
(* whole number of seconds, and the trending questions have the same       *)
(* counts and the spelling they were first asked in.  Valkey differs in    *)
(* two ways: it orders those of one count the other way round, and where   *)
(* zero is configured it shows its default number, the others show all.    *)
CachesAgree ==
  /\ \A q \in 1..2 :
       /\ MemoryGetAnswer(memoryCache, q) = SqliteGetAnswer(sqliteCache, q)
       /\ cacheTtl % Second = 0 =>
            MemoryGetAnswer(memoryCache, q) = ValkeyGetAnswer(valkeyCache, q)
  /\ \A limit \in Recommended :
       /\ MemoryTop(memoryCache, limit) = SqliteTop(sqliteCache, limit)
       /\ Counts(ValkeyTop(valkeyCache, limit))
            = Counts(MemoryTop(memoryCache, IF limit = 0 THEN DefaultTop ELSE limit))
  /\ Items(ValkeyTop(valkeyCache, Cardinality(Canonicals) + 1)) = Items(MemoryTop(memoryCache, 0))
=============================================================================
