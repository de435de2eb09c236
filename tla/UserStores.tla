----------------------------- MODULE UserStores -----------------------------
(***************************************************************************)
(* The three variants of the user repository, driven with the calls of     *)
(* registration and of Google sign-in:                                     *)
(* internal/infra/userrepo/{memory,sqlite,postgres}_repository.go.         *)
(*                                                                         *)
(* Abstraction: Google is the one provider; nickname and password hash are *)
(* left out.  The refresh token is encrypted before it is stored.          *)
(***************************************************************************)
EXTENDS SqlRows, FiniteSets

CONSTANTS Addresses, GoogleAccounts,
          RefreshTokens,  \* what Google may send
          NoToken,        \* the empty string
          UserEnd         \* bound: the number of calls

VARIABLES memoryUsers, sqliteUsers, postgresUsers,
          userOutcome,   \* what the last call of each variant returned
          userCalls
userVars == <<memoryUsers, sqliteUsers, postgresUsers, userOutcome, userCalls>>

Outcome(m, s, p) == userOutcome' = [memory |-> m, sqlite |-> s, postgres |-> p]

-----------------------------------------------------------------------------
(* MemoryRepository: users by id, and three indexes.                       *)
MemoryCreateUser(db, e) ==
  IF e \in DOMAIN db.emailIndex THEN db
  ELSE [db EXCEPT !.seq = @ + 1,
                  !.users = Put(@, db.seq + 1, [id |-> db.seq + 1, email |-> e]),
                  !.emailIndex = Put(@, e, db.seq + 1)]
MemoryGetByEmail(db, e) ==
  IF e \in DOMAIN db.emailIndex THEN {db.users[db.emailIndex[e]]} ELSE {}
MemoryGetByID(db, id) == IF id \in DOMAIN db.users THEN {db.users[id]} ELSE {}
MemoryGetIdentity(db, s) == IF s \in DOMAIN db.identities THEN {db.identities[s]} ELSE {}
MemoryGetIdentityByUser(db, id) == IF id \in DOMAIN db.userIndex THEN {db.userIndex[id]} ELSE {}

\* Faulty variant: the index by user is written with the first sign-in only.
StaleIndex(db, new) ==
  LET known == new.subject \in DOMAIN db.identities
      old == db.identities[new.subject]
      row == IF known THEN [old EXCEPT !.token = new.token, !.email = new.email] ELSE new
  IN  [db EXCEPT !.identities = Put(@, row.subject, row),
                 !.userIndex = IF known THEN @ ELSE Put(@, row.user, row)]

MemoryUpsertIdentity(db, new) ==
  LET old == db.identities[new.subject]
      row == IF new.subject \in DOMAIN db.identities
             THEN [old EXCEPT !.token = IF new.token # NoToken THEN new.token ELSE @,
                              !.email = new.email]
             ELSE new
  IN  [db EXCEPT !.identities = Put(@, row.subject, row),
                 !.userIndex = Put(@, row.user, row)]

-----------------------------------------------------------------------------
(* SQLiteRepository: a refused insert takes no id.                         *)
IdentityKeys == {{"subject"}, {"user"}}

SqliteCreateUser(db, e) ==
  LET row == [id |-> db.seq + 1, email |-> e]
  IN  IF Clashes(db.users, row, {{"email"}}) THEN db
      ELSE [db EXCEPT !.seq = @ + 1, !.users = @ \cup {row}]
SqliteGetByEmail(db, e) == {u \in db.users : u.email = e}
SqliteGetByID(db, id) == {u \in db.users : u.id = id}
SqliteGetIdentity(db, s) == {i \in db.identities : i.subject = s}
SqliteGetIdentityByUser(db, id) == {i \in db.identities : i.user = id}
SqliteUpsertIdentity(db, new) ==
  LET found == SqliteGetIdentity(db, new.subject)
      updated(old) == [old EXCEPT !.token = IF new.token # NoToken THEN new.token ELSE @,
                                  !.email = new.email]
  IN  IF found # {}
      THEN [db EXCEPT !.identities = (@ \ found) \cup {updated(old) : old \in found}]
      ELSE IF Clashes(db.identities, new, IdentityKeys) THEN db
      ELSE [db EXCEPT !.identities = @ \cup {new}]

-----------------------------------------------------------------------------
(* PostgresRepository: the sequence is used up by a refused insert too.    *)
PostgresCreateUser(db, e) ==
  LET row == [id |-> db.seq + 1, email |-> e]
  IN  IF Clashes(db.users, row, {{"email"}}) THEN [db EXCEPT !.seq = @ + 1]
      ELSE [db EXCEPT !.seq = @ + 1, !.users = @ \cup {row}]
PostgresGetByEmail(db, e) == {u \in db.users : u.email = e}
PostgresGetByID(db, id) == {u \in db.users : u.id = id}
PostgresGetIdentity(db, s) == {i \in db.identities : i.subject = s}
PostgresGetIdentityByUser(db, id) == {i \in db.identities : i.user = id}

(* scanIdentity reads the token into a string: a row whose token is NULL   *)
(* cannot be read, by the upsert that wrote it either.                     *)
scanIdentityFails(rows) == \E i \in rows : i.token = NoToken
PostgresUpsertIdentity(db, new) ==
  LET found == PostgresGetIdentity(db, new.subject)
      updated(old) == [old EXCEPT !.token = IF new.token # NoToken THEN new.token ELSE @,
                                  !.email = new.email]
  IN  IF found # {}
      THEN [db EXCEPT !.identities = (@ \ found) \cup {updated(old) : old \in found}]
      ELSE IF Clashes(db.identities, new, IdentityKeys) THEN db
      ELSE [db EXCEPT !.identities = @ \cup {new}]

-----------------------------------------------------------------------------
UserInit ==
  /\ memoryUsers = [users |-> << >>, emailIndex |-> << >>, identities |-> << >>,
                    userIndex |-> << >>, seq |-> 0]
  /\ sqliteUsers = [users |-> {}, identities |-> {}, seq |-> 0]
  /\ postgresUsers = [users |-> {}, identities |-> {}, seq |-> 0]
  /\ userOutcome = [memory |-> "ok", sqlite |-> "ok", postgres |-> "ok"]
  /\ userCalls = 0

(* Create, ErrEmailExists when the email is taken.                         *)
CreateUser(e) ==
  LET result(found) == IF found = {} THEN "ok" ELSE "email_exists"
  IN  /\ memoryUsers' = MemoryCreateUser(memoryUsers, e)
      /\ sqliteUsers' = SqliteCreateUser(sqliteUsers, e)
      /\ postgresUsers' = PostgresCreateUser(postgresUsers, e)
      /\ Outcome(result(MemoryGetByEmail(memoryUsers, e)),
                 result(SqliteGetByEmail(sqliteUsers, e)),
                 result(PostgresGetByEmail(postgresUsers, e)))

IdentityOf(users, e, s, token) ==
  [user |-> (CHOOSE u \in users : TRUE).id, subject |-> s, email |-> e, token |-> token]

(* A first sign-in links the user it has just created.                     *)
LinkIdentity(e, s, token) ==
  LET owner == MemoryGetByEmail(memoryUsers, e)
      row == IdentityOf(PostgresGetByEmail(postgresUsers, e), e, s, token)
  IN  /\ owner # {}
      /\ \A u \in owner : MemoryGetIdentityByUser(memoryUsers, u.id) = {}
      /\ MemoryGetIdentity(memoryUsers, s) = {}
      /\ memoryUsers' = MemoryUpsertIdentity(memoryUsers, IdentityOf(owner, e, s, token))
      /\ sqliteUsers' = SqliteUpsertIdentity(sqliteUsers,
                          IdentityOf(SqliteGetByEmail(sqliteUsers, e), e, s, token))
      /\ postgresUsers' = PostgresUpsertIdentity(postgresUsers, row)
      /\ Outcome("ok", "ok", IF scanIdentityFails({row}) THEN "error" ELSE "ok")

(* A later sign-in finds the identity and, with a new token, stores it,    *)
(* with the email Google reports now.                                      *)
RefreshIdentity(e, s, token) ==
  LET again(rows) == [(CHOOSE i \in rows : TRUE) EXCEPT !.email = e, !.token = token]
      unreadable == scanIdentityFails(PostgresGetIdentity(postgresUsers, s))
  IN  /\ MemoryGetIdentity(memoryUsers, s) # {}
      /\ token # NoToken
      /\ memoryUsers' = MemoryUpsertIdentity(memoryUsers, again(MemoryGetIdentity(memoryUsers, s)))
      /\ sqliteUsers' = SqliteUpsertIdentity(sqliteUsers, again(SqliteGetIdentity(sqliteUsers, s)))
      /\ postgresUsers' = IF unreadable THEN postgresUsers
                          ELSE PostgresUpsertIdentity(postgresUsers,
                                 again(PostgresGetIdentity(postgresUsers, s)))
      /\ Outcome("ok", "ok", IF unreadable THEN "error" ELSE "ok")

UserNext ==
  /\ userCalls < UserEnd
  /\ userCalls' = userCalls + 1
  /\ \/ \E e \in Addresses : CreateUser(e)
     \/ \E e \in Addresses, s \in GoogleAccounts, token \in RefreshTokens \cup {NoToken} :
          LinkIdentity(e, s, token)
     \/ \E e \in Addresses, s \in GoogleAccounts, token \in RefreshTokens :
          RefreshIdentity(e, s, token)

UserSpec == UserInit /\ [][UserNext]_userVars

-----------------------------------------------------------------------------
(* An identity with its user as the email of the account, since the        *)
(* variants may number their users differently.                            *)
Seen(identities, byID(_)) ==
  {[owner |-> {u.email : u \in byID(i.user)}, subject |-> i.subject,
    email |-> i.email, token |-> i.token] : i \in identities}

(* An account answers the same from every variant: the same emails are     *)
(* taken, a subject belongs to the same account with the same email and    *)
(* token, and the identity of a user is the one of the subject.  The one   *)
(* exception is Postgres after a first sign-in without a refresh token:    *)
(* that subject is stored, and every later sign-in with it fails.          *)
UserStoresAgree ==
  LET memory(s) == Seen(MemoryGetIdentity(memoryUsers, s), LAMBDA id : MemoryGetByID(memoryUsers, id))
      sqlite(s) == Seen(SqliteGetIdentity(sqliteUsers, s), LAMBDA id : SqliteGetByID(sqliteUsers, id))
      postgres(s) == Seen(PostgresGetIdentity(postgresUsers, s),
                          LAMBDA id : PostgresGetByID(postgresUsers, id))
      unreadable(s) == scanIdentityFails(PostgresGetIdentity(postgresUsers, s))
  IN  /\ \A e \in Addresses :
           /\ MemoryGetByEmail(memoryUsers, e) = SqliteGetByEmail(sqliteUsers, e)
           /\ (MemoryGetByEmail(memoryUsers, e) = {}) <=> (PostgresGetByEmail(postgresUsers, e) = {})
      /\ \A s \in GoogleAccounts :
           /\ memory(s) = sqlite(s)
           /\ memory(s) = postgres(s) \/ (unreadable(s) /\ memory(s) # {})
      /\ \A u \in sqliteUsers.users :
           MemoryGetIdentityByUser(memoryUsers, u.id) = SqliteGetIdentityByUser(sqliteUsers, u.id)
      /\ \A u \in postgresUsers.users : Cardinality(PostgresGetIdentityByUser(postgresUsers, u.id)) <= 1
      /\ userOutcome.memory = userOutcome.sqlite
      /\ userOutcome.memory = userOutcome.postgres \/ \E s \in GoogleAccounts : unreadable(s)
=============================================================================
