------------------------- MODULE MCSqliteMigrations -------------------------
(***************************************************************************)
(* Legacy files for TLC: every file with at most two identities in each    *)
(* identity table and no question, and every file with at most two rows in *)
(* each question table, with any of their answers cached, and no identity. *)
(***************************************************************************)
EXTENDS SqliteMigrations

Ids == 1..2

\* Identity tables: id, subject and user are each unique.
IdentityTables ==
  {S \in SUBSET [id : Ids, user : {"u", "v"}, subject : {"x", "y"}] :
     \A r, s \in S : r.id = s.id \/ SameAccount(r, s) => r = s}

\* Question tables without the unique index on the text.
QuestionTables ==
  {S \in SUBSET [id : Ids, text : {"a", "b"}] : UniqueIds(S)}

\* The file with the given tables; a table given no content does not exist.
File(content, shape) ==
  [exists |-> DOMAIN content,
   rows |-> [t \in TableNames |-> IF t \in DOMAIN content THEN content[t] ELSE {}],
   legacyShape |-> shape]

Contents(names, tables) == UNION {[S -> tables] : S \in SUBSET names}

IdentityFiles ==
  {File(c, shape) : c \in Contents({"user_identities", "auth_identities"}, IdentityTables),
                    shape \in BOOLEAN}

\* The cache refers to one of the two question tables.
QuestionFiles ==
  LET Cached(c) ==
        IF DOMAIN c = {} THEN {}
        ELSE UNION {SUBSET c[t] : t \in DOMAIN c}
      WithCache(c, k) ==
        [t \in DOMAIN c \cup {"faq_answer_cache"} |->
           IF t = "faq_answer_cache" THEN k ELSE c[t]]
      Tables == Contents({"questions", "faq_questions"}, QuestionTables)
  IN {File(c, FALSE) : c \in Tables} \cup
     UNION {{File(WithCache(c, k), FALSE) : k \in Cached(c)} : c \in Tables}

LegacyFiles ==
  {f \in IdentityFiles : f.legacyShape => "user_identities" \in f.exists} \cup QuestionFiles
===============================================================================
