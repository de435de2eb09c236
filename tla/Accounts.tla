------------------------------ MODULE Accounts ------------------------------
(***************************************************************************)
(* Users and linked Google identities: registration, password login and    *)
(* the Google callback, one action per call on the SQLite repository, as   *)
(* interleaved by concurrent requests.  None of these requests is retried  *)
(* by the server (register and login are excluded, the callback is a GET). *)
(*                                                                         *)
(* users.email is unique, so a user is named by its email.  A password is  *)
(* named by the registration that chose it, a Google refresh token by the  *)
(* callback that received it.  On Postgres the upsert is one statement:    *)
(* its behaviours are those where the two steps are not interleaved.       *)
(***************************************************************************)
EXTENDS Integers

CONSTANTS
  Requests,   \* the requests, each sent once
  Emails,
  Subjects,   \* Google accounts, by their stable subject
  FirstEmail, \* the email of each Google account at first
  None,
  MaxFaults,  \* bound on failing database calls and dying requests
  MaxChanges  \* bound on changes of a Google account's email

ASSUME NoneAssumption ==
  /\ None \notin Requests \cup Emails \cup Subjects
  /\ "random" \notin Requests \cup {None}
ASSUME EmailAssumption == FirstEmail \in [Subjects -> Emails]
ASSUME BoundAssumption == MaxFaults \in Nat /\ MaxChanges \in Nat

VARIABLES
  password,  \* users: the registration whose password the user has, "random"
             \* for a user the callback created, None when there is no user
  linked,    \* user_identities: the user of a subject, or None
  token,     \* user_identities.refresh_token, None when empty
  email,     \* Google: the verified email of each account now
  call,      \* the call a request carries
  pc,        \* the next step of a request
  found,     \* the user a callback works for
  kept,      \* the token that the upsert of a callback read
  reply,     \* the answer to a request: [code, user]
  faults, changes

tables == <<password, linked, token>>
vars == <<password, linked, token, email, call, pc, found, kept, reply, faults, changes>>

NoCall == [kind |-> "none", email |-> None, subject |-> None, token |-> None]
NoReply == [code |-> "none", user |-> None]

Init ==
  /\ password = [e \in Emails |-> None]
  /\ linked = [s \in Subjects |-> None]
  /\ token = [s \in Subjects |-> None]
  /\ email = FirstEmail
  /\ call = [r \in Requests |-> NoCall]
  /\ pc = [r \in Requests |-> "new"]
  /\ found = [r \in Requests |-> None]
  /\ kept = [r \in Requests |-> None]
  /\ reply = [r \in Requests |-> NoReply]
  /\ faults = 0
  /\ changes = 0

-----------------------------------------------------------------------------
(* What the steps share *)

GoesTo(r, step) ==
  /\ pc' = [pc EXCEPT ![r] = step]
  /\ UNCHANGED <<call, reply, email, faults, changes>>

Answers(r, code, user) ==
  /\ pc' = [pc EXCEPT ![r] = "answered"]
  /\ reply' = [reply EXCEPT ![r] = [code |-> code, user |-> user]]
  /\ UNCHANGED <<call, email, faults, changes>>

LogsIn(r, user) == Answers(r, "logged_in", user)

\* The insert of a user, refused for an email that has one.
InsertUser(e, secret) ==
  /\ password[e] = None
  /\ password' = [password EXCEPT ![e] = secret]

-----------------------------------------------------------------------------
(* Register and Login *)

RegisterLookup(r) ==
  /\ pc[r] = "register"
  /\ IF password[call[r].email] = None
     THEN GoesTo(r, "create")
     ELSE Answers(r, "email_exists", None)
  /\ UNCHANGED <<tables, found, kept>>

\* Faulty variant: without a unique email the later registration wins.
CreateOverwrites(r) ==
  /\ pc[r] = "create"
  /\ password' = [password EXCEPT ![call[r].email] = r]
  /\ Answers(r, "created", call[r].email)
  /\ UNCHANGED <<linked, token, found, kept>>

RegisterCreate(r) ==
  /\ pc[r] = "create"
  /\ \/ /\ InsertUser(call[r].email, r)
        /\ Answers(r, "created", call[r].email)
     \/ /\ password[call[r].email] # None
        /\ Answers(r, "email_exists", None)
        /\ UNCHANGED password
  /\ UNCHANGED <<linked, token, found, kept>>

\* A login carries the password chosen by the registration call[r].token.
Login(r) ==
  /\ pc[r] = "login"
  /\ IF password[call[r].email] = call[r].token
     THEN LogsIn(r, call[r].email)
     ELSE Answers(r, "invalid_credentials", None)
  /\ UNCHANGED <<tables, found, kept>>

-----------------------------------------------------------------------------
(* GoogleCallback *)

\* Faulty variant: an account is found by its email instead of its subject.
FindByEmail(r) ==
  /\ pc[r] = "identity"
  /\ IF password[call[r].email] = None \/ linked[call[r].subject] = None
     THEN GoesTo(r, "email")
     ELSE LogsIn(r, call[r].email)
  /\ UNCHANGED <<tables, found, kept>>

\* A linked account logs in as its user, after storing a token Google sent.
FindIdentity(r) ==
  LET s == call[r].subject
  IN /\ pc[r] = "identity"
     /\ \/ /\ linked[s] = None
           /\ GoesTo(r, "email")
           /\ UNCHANGED found
        \/ /\ linked[s] # None
           /\ call[r].token = None
           /\ LogsIn(r, linked[s])
           /\ UNCHANGED found
        \/ /\ linked[s] # None
           /\ call[r].token # None
           /\ GoesTo(r, "upsertRead")
           /\ found' = [found EXCEPT ![r] = linked[s]]
     /\ UNCHANGED <<tables, kept>>

\* Faulty variant: a user that has the email is linked without a check.
CheckNothing(r) ==
  /\ pc[r] = "email"
  /\ IF password[call[r].email] = None
     THEN GoesTo(r, "newUser") /\ UNCHANGED found
     ELSE GoesTo(r, "upsertRead") /\ found' = [found EXCEPT ![r] = call[r].email]
  /\ UNCHANGED <<tables, kept>>

CheckEmail(r) ==
  /\ pc[r] = "email"
  /\ IF password[call[r].email] = None
     THEN GoesTo(r, "newUser")
     ELSE Answers(r, "account_linking_disabled", None)
  /\ UNCHANGED <<tables, found, kept>>

\* Faulty variant: the new user is logged in before it is linked.
CreateUnlinked(r) ==
  /\ pc[r] = "newUser"
  /\ InsertUser(call[r].email, "random")
  /\ LogsIn(r, call[r].email)
  /\ UNCHANGED <<linked, token, found, kept>>

\* The handler answers a lost race for the email with status 500.
CreateGoogleUser(r) ==
  /\ pc[r] = "newUser"
  /\ \/ /\ InsertUser(call[r].email, "random")
        /\ GoesTo(r, "upsertRead")
        /\ found' = [found EXCEPT ![r] = call[r].email]
     \/ /\ password[call[r].email] # None
        /\ Answers(r, "auth_failed", None)
        /\ UNCHANGED <<password, found>>
  /\ UNCHANGED <<linked, token, kept>>

\* The upsert reads the row of the subject, and inserts one or updates it in a
\* second statement.
UpsertRead(r) ==
  /\ pc[r] = "upsertRead"
  /\ GoesTo(r, IF linked[call[r].subject] = None THEN "insert" ELSE "update")
  /\ kept' = [kept EXCEPT ![r] = token[call[r].subject]]
  /\ UNCHANGED <<tables, found>>

\* The insert is refused when the subject, or the user, has a row by now.
InsertIdentity(r) ==
  LET s == call[r].subject
      Free == linked[s] = None /\ \A x \in Subjects : linked[x] # found[r]
  IN /\ pc[r] = "insert"
     /\ \/ /\ Free
           /\ linked' = [linked EXCEPT ![s] = found[r]]
           /\ token' = [token EXCEPT ![s] = call[r].token]
           /\ LogsIn(r, found[r])
        \/ /\ ~Free
           /\ Answers(r, "auth_failed", None)
           /\ UNCHANGED <<linked, token>>
     /\ UNCHANGED <<password, found, kept>>

\* The update stores the token Google sent, or else the one that was read, and
\* logs in the callback's user, also when the row names another one.
UpdateIdentity(r) ==
  /\ pc[r] = "update"
  /\ token' = [token EXCEPT ![call[r].subject] =
       IF call[r].token # None THEN call[r].token ELSE kept[r]]
  /\ LogsIn(r, found[r])
  /\ UNCHANGED <<password, linked, found, kept>>

Step(r) ==
  \/ RegisterLookup(r)
  \/ RegisterCreate(r)
  \/ Login(r)
  \/ FindIdentity(r)
  \/ CheckEmail(r)
  \/ CreateGoogleUser(r)
  \/ UpsertRead(r)
  \/ InsertIdentity(r)
  \/ UpdateIdentity(r)

-----------------------------------------------------------------------------
(* Clients, Google and failures *)

Begin(r, step, c) ==
  /\ pc[r] = "new"
  /\ pc' = [pc EXCEPT ![r] = step]
  /\ call' = [call EXCEPT ![r] = c]
  /\ UNCHANGED <<tables, email, found, kept, reply, faults, changes>>

BeginRegister(r, e) == Begin(r, "register", [NoCall EXCEPT !.kind = "register", !.email = e])

BeginLogin(r, e, secret) ==
  Begin(r, "login", [NoCall EXCEPT !.kind = "login", !.email = e, !.token = secret])

\* Google sends a refresh token or none; the email is the account's email now.
BeginCallback(r, s, t) ==
  Begin(r, "identity",
    [kind |-> "callback", email |-> email[s], subject |-> s, token |-> t])

InCall(r) == pc[r] \notin {"new", "answered"}

\* An account's email changes, possibly while a sign-in with the old one runs.
ChangeEmail(s, e) ==
  /\ changes < MaxChanges
  /\ changes' = changes + 1
  /\ email' = [email EXCEPT ![s] = e]
  /\ UNCHANGED <<tables, call, pc, found, kept, reply, faults>>

\* A call on the database fails without an effect, or the process dies: the
\* request ends there.
Fails(r) ==
  /\ InCall(r)
  /\ faults < MaxFaults
  /\ faults' = faults + 1
  /\ pc' = [pc EXCEPT ![r] = "answered"]
  /\ reply' = [reply EXCEPT ![r] = [code |-> "auth_failed", user |-> None]]
  /\ UNCHANGED <<tables, email, call, found, kept, changes>>

Next ==
  \/ \E r \in Requests : Step(r) \/ Fails(r)
  \/ \E r \in Requests, e \in Emails : BeginRegister(r, e)
  \/ \E r, secret \in Requests, e \in Emails : BeginLogin(r, e, secret)
  \/ \E r \in Requests, s \in Subjects : \E t \in {r, None} : BeginCallback(r, s, t)
  \/ \E s \in Subjects, e \in Emails : ChangeEmail(s, e)

Spec == Init /\ [][Next]_vars

-----------------------------------------------------------------------------
(* Properties *)

Steps == {"new", "register", "create", "login", "identity", "email", "newUser",
          "upsertRead", "insert", "update", "answered"}

\* Every variable holds a value of its type, and a request that writes an
\* identity knows the user it works for.
TypeOK ==
  /\ password \in [Emails -> Requests \cup {"random", None}]
  /\ linked \in [Subjects -> Emails \cup {None}]
  /\ token \in [Subjects -> Requests \cup {None}]
  /\ email \in [Subjects -> Emails]
  /\ pc \in [Requests -> Steps]
  /\ found \in [Requests -> Emails \cup {None}]
  /\ kept \in [Requests -> Requests \cup {None}]
  /\ \A r \in Requests : pc[r] \in {"upsertRead", "insert", "update"} => found[r] # None
  /\ faults \in Nat /\ changes \in Nat

\* Whoever was told that the account was created can log in to it with the
\* chosen password from then on, also when others register or sign in with
\* Google for the same email at the same time.
CreatedOwnsAccount ==
  \A r \in Requests :
    reply[r].code = "created" => password[reply[r].user] = r

\* Some sign-ins of this Google account carried e and some another email.
TwoEmails(s, e) ==
  \E q, r \in Requests :
    /\ call[q].subject = s /\ call[q].email = e
    /\ call[r].subject = s /\ call[r].email # e

\* A Google account logs in as its one linked user, whatever email it has by now
\* and whoever signs in or registers concurrently.  The one exception: the email
\* changes between two first sign-ins that overlap, and the later of them logs in
\* as a new user that is never linked.
OneUserPerSubject ==
  \A r \in Requests :
    reply[r].code = "logged_in" /\ call[r].kind = "callback" =>
      \/ linked[call[r].subject] = reply[r].user
      \/ /\ TwoEmails(call[r].subject, reply[r].user)
         /\ found[r] = reply[r].user
         /\ \A s \in Subjects : linked[s] # reply[r].user

\* A Google sign-in never gives access to a user that somebody registered with
\* a password, or that another Google account signed up as.
NoForeignAccount ==
  \A r \in Requests :
    reply[r].code = "logged_in" /\ call[r].kind = "callback" =>
      /\ password[reply[r].user] = "random"
      /\ \A s \in Subjects : linked[s] = reply[r].user => s = call[r].subject

\* A user that a callback created is linked, or its callback still runs, or a
\* failure or the same account's sign-in under another email stranded it: such a
\* user can log in neither by Google nor by a password, and its email is taken.
StrandedOnlyByFailure ==
  \A e \in Emails :
    password[e] = "random" =>
      \/ \E s \in Subjects : linked[s] = e
      \/ \E r \in Requests : InCall(r) /\ found[r] = e
      \/ faults # 0
      \/ \E s \in Subjects : TwoEmails(s, e)

\* A link is never moved to another user, and a stored refresh token is not
\* replaced by none (but for sign-ins that overlap under two emails).
LinkIsForGood ==
  \A s \in Subjects :
    linked[s] # None =>
      /\ linked'[s] = linked[s]
      /\ token[s] # None => token'[s] # None \/ \E e \in Emails : TwoEmails(s, e)

\* A Google account leads to one user for good, and the program keeps the right
\* to act for it: no step moves a link, or signs the account in elsewhere.
SubjectKeepsItsUser == [][LinkIsForGood /\ OneUserPerSubject']_vars

\* The design of the Google sign-in: users register or log in with a Google
\* account.  So an account is refused for its email only when a password user or
\* another Google account has it, or a sign-up for it is running.
SignInAfterFailedSignUp ==
  \A r \in Requests :
    reply[r].code = "account_linking_disabled" =>
      \/ password[call[r].email] # "random"
      \/ \E s \in Subjects : linked[s] = call[r].email
      \/ \E q \in Requests : InCall(q) /\ found[q] = call[r].email
      \/ changes # 0
===============================================================================
