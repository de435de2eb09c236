-------------------------- MODULE SqliteMigrations --------------------------
(***************************************************************************)
(* The startup migrations of the local SQLite file, one action per         *)
(* statement that changes a table.  No transaction spans two statements:   *)
(* a process that dies between two of them leaves the file as it is, and   *)
(* the next start runs all of them again.  A statement that fails makes    *)
(* Open return an error, and the process serves from memory instead.       *)
(*                                                                         *)
(* The file starts as one of LegacyDatabases, left by an older version.    *)
(* An identity row is [id, user, subject], its provider being google; a    *)
(* question and a cached answer are [id, text].  The tables and columns    *)
(* that every start only creates or backfills are left out.                *)
(***************************************************************************)
EXTENDS Integers, FiniteSets, FiniteSetsExt

CONSTANTS
  LegacyDatabases,  \* [exists, rows, legacyShape]: the files an older version left
  Texts,            \* the questions that users ask once the program serves
  MaxFaults         \* bound on crashes and failing statements

TableNames ==
  {"user_identities", "user_identities_new", "auth_identities", "questions",
   "faq_questions", "faq_answer_cache", "faq_answer_cache_new"}

TextsOf(questions) == {q.text : q \in questions}

\* A table of questions or of answers, under their primary key.
IsTextTable(S) ==
  /\ IsFiniteSet(S)
  /\ \A r \in S : r.id \in Nat /\ r = [id |-> r.id, text |-> r.text]

UniqueIds(S) == \A q, r \in S : q.id = r.id => q = r

\* No older version made a replacement table; a table that does not exist has
\* no rows; an answer is cached for a question that is stored.  Rows are complete:
\* a NULL that the copy ignores the row for, or an id that is no integer, is in no
\* file here.
ASSUME LegacyAssumption ==
  \A db \in LegacyDatabases :
    /\ db.exists \subseteq TableNames \ {"user_identities_new", "faq_answer_cache_new"}
    /\ DOMAIN db.rows = TableNames
    /\ \A t \in TableNames \ db.exists : db.rows[t] = {}
    /\ db.legacyShape \in BOOLEAN
    /\ \A r \in db.rows["user_identities"] \cup db.rows["auth_identities"] :
         DOMAIN r = {"id", "user", "subject"}
    /\ \A t \in {"questions", "faq_questions", "faq_answer_cache"} :
         IsTextTable(db.rows[t]) /\ UniqueIds(db.rows[t])
    /\ TextsOf(db.rows["faq_answer_cache"]) \subseteq
         TextsOf(db.rows["questions"] \cup db.rows["faq_questions"])
ASSUME FaultsAssumption == MaxFaults \in Nat

VARIABLES
  pc,          \* the next statement, or "down", "serving", "fallback"
  exists,      \* the tables of the file
  rows,        \* the rows of each table, none when it does not exist
  legacyShape, \* user_identities has an id that is no INTEGER PRIMARY KEY
  faults,
  cut,         \* history: the tables whose replacement an interruption cut in two
  owed,        \* history: identities, texts and answers the file was given
  legacy       \* history: the file before the first start

file == <<exists, rows, legacyShape>>
history == <<owed, legacy>>
vars == <<pc, exists, rows, legacyShape, faults, cut, owed, legacy>>

Statements ==
  {"identityTable", "dropStaleIdentities", "createIdentities", "copyIdentities",
   "dropIdentities", "renameIdentities", "moveIdentities", "renumberIdentities",
   "dropLegacyIdentities", "questionTable", "questionIndex", "moveQuestions",
   "cacheTable", "dropStaleCache", "createCache", "copyCache", "dropCache",
   "renameCache", "dropLegacyQuestions"}

Init ==
  /\ legacy \in LegacyDatabases
  /\ exists = legacy.exists
  /\ rows = legacy.rows
  /\ legacyShape = legacy.legacyShape
  /\ pc = "down"
  /\ faults = 0
  /\ cut = {}
  /\ owed = [identities |-> rows["user_identities"] \cup rows["auth_identities"],
             texts |-> TextsOf(rows["questions"] \cup rows["faq_questions"]),
             answers |-> TextsOf(rows["faq_answer_cache"])]

-----------------------------------------------------------------------------
(* The statements of SQL *)

CreateTable(t) ==
  /\ exists' = exists \cup {t}
  /\ rows' = [rows EXCEPT ![t] = {}]

DropTable(t) ==
  /\ exists' = exists \ {t}
  /\ rows' = [rows EXCEPT ![t] = {}]

RenameTable(old, new) ==
  /\ exists' = (exists \ {old}) \cup {new}
  /\ rows' = [rows EXCEPT ![new] = rows[old], ![old] = {}]

InsertRows(t, new) ==
  /\ rows' = [rows EXCEPT ![t] = @ \cup new]
  /\ UNCHANGED exists

\* The statement here runs, and there is the next one.
Step(here, there) ==
  /\ pc = here
  /\ pc' = there
  /\ UNCHANGED <<faults, cut, owed, legacy>>

Statement(here, there) == Step(here, there) /\ UNCHANGED legacyShape

-----------------------------------------------------------------------------
(* migrateAuthIdentities *)

\* ensureUserIdentitiesTable: create the table, keep it, or rebuild it.
EnsureIdentities ==
  \/ /\ "user_identities" \notin exists
     /\ Step("identityTable", "moveIdentities")
     /\ CreateTable("user_identities")
     /\ legacyShape' = FALSE
  \/ /\ "user_identities" \in exists
     /\ Statement("identityTable",
          IF legacyShape THEN "dropStaleIdentities" ELSE "moveIdentities")
     /\ UNCHANGED <<exists, rows>>

DropStaleIdentities ==
  /\ Statement("dropStaleIdentities", "createIdentities")
  /\ DropTable("user_identities_new")

CreateIdentities ==
  /\ Statement("createIdentities", "copyIdentities")
  /\ CreateTable("user_identities_new")

CopyIdentities ==
  /\ Statement("copyIdentities", "dropIdentities")
  /\ InsertRows("user_identities_new", rows["user_identities"])

DropIdentities ==
  /\ Statement("dropIdentities", "renameIdentities")
  /\ DropTable("user_identities")

RenameIdentities ==
  /\ Step("renameIdentities", "moveIdentities")
  /\ RenameTable("user_identities_new", "user_identities")
  /\ legacyShape' = FALSE

SameAccount(r, s) == r.subject = s.subject \/ r.user = s.user

\* The legacy rows whose id is free and whose account has no row yet.
MoveIdentities ==
  IF "auth_identities" \in exists
  THEN /\ Statement("moveIdentities", "renumberIdentities")
       /\ InsertRows("user_identities",
            {r \in rows["auth_identities"] :
               ~ \E s \in rows["user_identities"] : s.id = r.id \/ SameAccount(s, r)})
  ELSE /\ Statement("moveIdentities", "dropLegacyIdentities")
       /\ UNCHANGED <<exists, rows>>

\* The largest id of S; the statement numbers the rows from there.
LastId(S) == Max({0} \cup {r.id : r \in S})

\* The legacy rows whose id is taken by another account get new ids.
RenumberIdentities ==
  /\ Statement("renumberIdentities", "dropLegacyIdentities")
  /\ LET old == rows["user_identities"]
         moved == {r \in rows["auth_identities"] :
                     /\ \E s \in old : s.id = r.id
                     /\ ~ \E s \in old : SameAccount(s, r)}
     IN InsertRows("user_identities", {[r EXCEPT !.id = @ + LastId(old)] : r \in moved})

DropLegacyIdentities ==
  /\ Statement("dropLegacyIdentities", "questionTable")
  /\ DropTable("auth_identities")

-----------------------------------------------------------------------------
(* migrateFAQQuestions *)

OneRowPerText(S) == \A q, r \in S : q.text = r.text => q = r

EnsureQuestions ==
  /\ Statement("questionTable", "questionIndex")
  /\ IF "questions" \in exists THEN UNCHANGED <<exists, rows>> ELSE CreateTable("questions")

\* The unique index cannot be created over two rows with one text: Open fails.
IndexQuestions ==
  /\ Statement("questionIndex",
       IF OneRowPerText(rows["questions"]) THEN "moveQuestions" ELSE "fallback")
  /\ UNCHANGED <<exists, rows>>

\* The legacy questions whose id and text are both new.
NewQuestions ==
  {f \in rows["faq_questions"] :
     ~ \E q \in rows["questions"] : q.id = f.id \/ q.text = f.text}

\* Two legacy rows with one text violate the unique index: Open fails.
MoveQuestions ==
  \/ /\ OneRowPerText(NewQuestions)
     /\ Statement("moveQuestions", "cacheTable")
     /\ InsertRows("questions", NewQuestions)
  \/ /\ ~OneRowPerText(NewQuestions)
     /\ Statement("moveQuestions", "fallback")
     /\ UNCHANGED <<exists, rows>>

EnsureCache ==
  /\ Statement("cacheTable", "dropStaleCache")
  /\ IF "faq_answer_cache" \in exists
     THEN UNCHANGED <<exists, rows>>
     ELSE CreateTable("faq_answer_cache")

DropStaleCache ==
  /\ Statement("dropStaleCache", "createCache")
  /\ DropTable("faq_answer_cache_new")

CreateCache ==
  /\ Statement("createCache", "copyCache")
  /\ CreateTable("faq_answer_cache_new")

\* The question a cached answer is copied to: the one with its text, else the
\* one that has its id now.
Target(c) ==
  LET named == {q \in rows["questions"] : q.text = c.text}
  IN IF named # {} THEN {q.id : q \in named}
     ELSE {q.id : q \in {r \in rows["questions"] : r.id = c.id}}

\* Faulty variant: the answers are copied by id alone.
CopyCacheById ==
  /\ Statement("copyCache", "dropCache")
  /\ InsertRows("faq_answer_cache_new",
       {c \in rows["faq_answer_cache"] : \E q \in rows["questions"] : q.id = c.id})

\* Of two answers copied to one question the later row replaces the earlier.
CopyCache ==
  /\ Statement("copyCache", "dropCache")
  /\ LET old == rows["faq_answer_cache"]
         Kept(c) == ~ \E d \in old : d.id > c.id /\ Target(d) = Target(c)
     IN InsertRows("faq_answer_cache_new",
          UNION {{[id |-> i, text |-> c.text] : i \in Target(c)} : c \in {k \in old : Kept(k)}})

DropCache ==
  /\ Statement("dropCache", "renameCache")
  /\ DropTable("faq_answer_cache")

RenameCache ==
  /\ Statement("renameCache", "dropLegacyQuestions")
  /\ RenameTable("faq_answer_cache_new", "faq_answer_cache")

DropLegacyQuestions ==
  /\ Statement("dropLegacyQuestions", "serving")
  /\ DropTable("faq_questions")

-----------------------------------------------------------------------------
(* The process *)

Start ==
  /\ Step("down", "identityTable")
  /\ UNCHANGED file

Stop ==
  /\ pc \in {"serving", "fallback"}
  /\ Step(pc, "down")
  /\ UNCHANGED file

\* The process dies before a statement, or the statement fails.
Interrupt ==
  /\ pc \in Statements
  /\ faults < MaxFaults
  /\ faults' = faults + 1
  /\ pc' \in {"down", "fallback"}
  /\ cut' = cut \cup CASE pc = "renameIdentities" -> {"user_identities"}
                       [] pc = "renameCache" -> {"faq_answer_cache"}
                       [] OTHER -> {}
  /\ UNCHANGED <<exists, rows, legacyShape, owed, legacy>>

\* While it serves, the program stores a new question and caches an answer.
AskQuestion(t) ==
  /\ pc = "serving"
  /\ t \notin TextsOf(rows["questions"])
  /\ InsertRows("questions", {[id |-> LastId(rows["questions"]) + 1, text |-> t]})
  /\ owed' = [owed EXCEPT !.texts = @ \cup {t}]
  /\ UNCHANGED <<pc, legacyShape, faults, cut, legacy>>

SaveAnswer(q) ==
  /\ pc = "serving"
  /\ rows' = [rows EXCEPT !["faq_answer_cache"] = {c \in @ : c.id # q.id} \cup {q}]
  /\ owed' = [owed EXCEPT !.answers = @ \cup {q.text}]
  /\ UNCHANGED <<pc, exists, legacyShape, faults, cut, legacy>>

MigrateAuthIdentities ==
  \/ EnsureIdentities
  \/ DropStaleIdentities
  \/ CreateIdentities
  \/ CopyIdentities
  \/ DropIdentities
  \/ RenameIdentities
  \/ MoveIdentities
  \/ RenumberIdentities
  \/ DropLegacyIdentities

MigrateFAQQuestions ==
  \/ EnsureQuestions
  \/ IndexQuestions
  \/ MoveQuestions
  \/ EnsureCache
  \/ DropStaleCache
  \/ CreateCache
  \/ CopyCache
  \/ DropCache
  \/ RenameCache
  \/ DropLegacyQuestions

Next ==
  \/ Start
  \/ Stop
  \/ Interrupt
  \/ MigrateAuthIdentities
  \/ MigrateFAQQuestions
  \/ \E t \in Texts : AskQuestion(t)
  \/ \E q \in rows["questions"] : SaveAnswer(q)

Spec == Init /\ [][Next]_vars

-----------------------------------------------------------------------------
(* Properties *)

\* The program is at a statement or at rest, and a table that does not exist
\* has no rows.
TypeOK ==
  /\ pc \in Statements \cup {"down", "serving", "fallback"}
  /\ exists \subseteq TableNames
  /\ DOMAIN rows = TableNames
  /\ \A t \in TableNames \ exists : rows[t] = {}
  /\ legacyShape \in BOOLEAN
  /\ faults \in 0..MaxFaults
  /\ cut \subseteq {"user_identities", "faq_answer_cache"}

\* Every account linked before the migration is linked after it, however often
\* it was interrupted, unless an interruption fell between the drop of the old
\* table and the renaming of its replacement.
IdentitiesKept ==
  pc = "serving" /\ "user_identities" \notin cut =>
    \A r \in owed.identities : \E s \in rows["user_identities"] : SameAccount(r, s)

\* The texts of legacy questions whose id another question has: they are not
\* migrated, and dropped with the legacy table.
Taken ==
  {f.text : f \in {g \in legacy.rows["faq_questions"] :
    /\ g.text \notin TextsOf(legacy.rows["questions"])
    /\ \E q \in legacy.rows["questions"] : q.id = g.id}}

\* Every other question of the file is there once the program serves, whatever
\* was interrupted.
QuestionsKept ==
  pc = "serving" => owed.texts \ Taken \subseteq TextsOf(rows["questions"])

\* Except for those questions, a cached answer is kept under the id of the very
\* question it answers, across every merge, interruption and new question.
AnswersMatch ==
  pc = "serving" =>
    \A c \in rows["faq_answer_cache"] : c \in rows["questions"] \/ c.text \in Taken

\* Cached answers survive every start, unless one was interrupted between the
\* drop of the cache and the renaming of its replacement.
AnswersKept ==
  pc = "serving" /\ "faq_answer_cache" \notin cut /\ Taken = {} =>
    owed.answers \subseteq TextsOf(rows["faq_answer_cache"])

\* Without a fault the program falls back to memory only over a file with two
\* rows for one question.
FallbackOnlyOnDuplicates ==
  pc = "fallback" /\ faults = 0 =>
    \/ ~OneRowPerText(legacy.rows["questions"])
    \/ ~OneRowPerText(legacy.rows["faq_questions"])

\* A start loses no row, moves no answer to another question and does not serve
\* without the file, but in the cases that the parts name.
StartKeepsData ==
  TypeOK /\ IdentitiesKept /\ QuestionsKept /\ AnswersMatch /\ AnswersKept /\ FallbackOnlyOnDuplicates

\* What the specification of the feature says: the rows of faq_questions are
\* migrated and the integrity of the answer cache is preserved; unusual data
\* fails explicitly.  A cached answer is then never kept for another question.
AnswersNameTheirQuestion ==
  pc = "serving" => rows["faq_answer_cache"] \subseteq rows["questions"]
===============================================================================
