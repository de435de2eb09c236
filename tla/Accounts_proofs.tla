--------------------------- MODULE Accounts_proofs ---------------------------
(***************************************************************************)
(* Proofs about Accounts, for any requests, emails and Google accounts and *)
(* any number of failures and changes of an email.                         *)
(***************************************************************************)
EXTENDS Accounts, FiniteSetTheorems, TLAPS

-----------------------------------------------------------------------------
(* Type correctness *)

Kinds == {"none", "register", "login", "callback"}
Codes == {"none", "created", "email_exists", "logged_in", "invalid_credentials",
          "account_linking_disabled", "auth_failed"}

PasswordSteps == {"register", "create", "login"}
CallbackSteps == {"identity", "email", "newUser", "upsertRead", "insert", "update"}

\* A request carries the data that its steps use, and has no answer and no user
\* before it begins.
WellCalled ==
  /\ call \in [Requests -> [kind : Kinds, email : Emails \cup {None},
                            subject : Subjects \cup {None}, token : Requests \cup {None}]]
  /\ reply \in [Requests -> [code : Codes, user : Emails \cup {None}]]
  /\ \A r \in Requests :
       /\ pc[r] = "new" => found[r] = None /\ reply[r] = NoReply
       /\ pc[r] \in PasswordSteps => call[r].kind # "callback" /\ call[r].email \in Emails
       /\ pc[r] \in CallbackSteps => call[r].kind = "callback"
       /\ call[r].kind = "callback" => call[r].email \in Emails /\ call[r].subject \in Subjects
       /\ found[r] # None => call[r].kind = "callback"
       /\ reply[r].code \in {"created", "logged_in"} => reply[r].user \in Emails

CallsInv == TypeOK /\ WellCalled

\* Init gives every variable a value of its type.
LEMMA InitCallsInv == Init => CallsInv
  BY NoneAssumption, EmailAssumption
  DEF Init, CallsInv, TypeOK, WellCalled, Steps, Kinds, Codes, PasswordSteps, CallbackSteps,
      NoCall, NoReply

\* An answer keeps the types.
LEMMA AnswerCallsInv ==
  ASSUME CallsInv, NEW r \in Requests, pc[r] # "new",
         NEW code \in Codes, NEW u \in Emails \cup {None},
         code \in {"created", "logged_in"} => u \in Emails,
         Answers(r, code, u)
  PROVE  /\ pc' \in [Requests -> Steps]
         /\ pc' = [pc EXCEPT ![r] = "answered"]
         /\ found' = found => WellCalled'
<1> USE DEF CallsInv, TypeOK
<1>1. pc' = [pc EXCEPT ![r] = "answered"] /\ pc' \in [Requests -> Steps]
  BY DEF Answers, Steps
<1>2. call' = call
  BY DEF Answers
<1>3. reply' \in [Requests -> [code : Codes, user : Emails \cup {None}]]
  BY DEF Answers, WellCalled
<1>4. reply'[r].code = code /\ reply'[r].user = u
  BY DEF Answers, WellCalled
<1>5. \A q \in Requests : q # r => reply'[q] = reply[q] /\ pc'[q] = pc[q]
  BY DEF Answers, WellCalled
<1>6. pc'[r] = "answered"
  BY <1>1
<1>7. ASSUME found' = found
      PROVE  WellCalled'
  BY <1>2, <1>3, <1>4, <1>5, <1>6, <1>7 DEF WellCalled, PasswordSteps, CallbackSteps
<1> QED
  BY <1>1, <1>7

\* A step of a registration or a login keeps the types.
LEMMA PasswordStepCallsInv ==
  ASSUME CallsInv, NEW r \in Requests, RegisterLookup(r) \/ RegisterCreate(r) \/ Login(r)
  PROVE  CallsInv'
<1> USE NoneAssumption DEF CallsInv
<1>1. pc[r] # "new" /\ call[r].email \in Emails /\ found' = found
  BY DEF TypeOK, WellCalled, RegisterLookup, RegisterCreate, Login, PasswordSteps
<1>2. CASE RegisterLookup(r)
  <2>1. CASE GoesTo(r, "create")
    BY <1>2, <2>1 DEF RegisterLookup, GoesTo, TypeOK, Steps, WellCalled, PasswordSteps,
                      CallbackSteps, tables
  <2>2. CASE Answers(r, "email_exists", None)
    BY <1>1, <1>2, <2>2, AnswerCallsInv DEF RegisterLookup, Answers, TypeOK, Codes, tables
  <2> QED
    BY <1>2, <2>1, <2>2 DEF RegisterLookup
<1>3. CASE RegisterCreate(r)
  <2>1. CASE InsertUser(call[r].email, r) /\ Answers(r, "created", call[r].email)
    BY <1>1, <1>3, <2>1, AnswerCallsInv DEF RegisterCreate, InsertUser, Answers, TypeOK, Codes
  <2>2. CASE Answers(r, "email_exists", None) /\ UNCHANGED password
    BY <1>1, <1>3, <2>2, AnswerCallsInv DEF RegisterCreate, Answers, TypeOK, Codes
  <2> QED
    BY <1>3, <2>1, <2>2 DEF RegisterCreate
<1>4. CASE Login(r)
  <2>1. CASE Answers(r, "logged_in", call[r].email)
    BY <1>1, <1>4, <2>1, AnswerCallsInv DEF Login, Answers, TypeOK, Codes, tables
  <2>2. CASE Answers(r, "invalid_credentials", None)
    BY <1>1, <1>4, <2>2, AnswerCallsInv DEF Login, Answers, TypeOK, Codes, tables
  <2> QED
    BY <1>4, <2>1, <2>2 DEF Login, LogsIn
<1> QED
  BY <1>2, <1>3, <1>4

\* So does a step of a Google callback.
LEMMA CallbackStepCallsInv ==
  ASSUME CallsInv, NEW r \in Requests,
         \/ FindIdentity(r) \/ CheckEmail(r) \/ CreateGoogleUser(r)
         \/ UpsertRead(r) \/ InsertIdentity(r) \/ UpdateIdentity(r)
  PROVE  CallsInv'
<1> USE NoneAssumption DEF CallsInv
<1>1. pc[r] # "new" /\ call[r].email \in Emails /\ call[r].subject \in Subjects
      /\ call[r].kind = "callback" /\ call[r].token \in Requests \cup {None}
  BY DEF TypeOK, WellCalled, FindIdentity, CheckEmail, CreateGoogleUser, UpsertRead,
         InsertIdentity, UpdateIdentity, CallbackSteps
<1>2. ASSUME NEW step \in CallbackSteps, GoesTo(r, step), found' \in [Requests -> Emails \cup {None}],
             \A q \in Requests \ {r} : found'[q] = found[q]
      PROVE  WellCalled' /\ pc' \in [Requests -> Steps]
  BY <1>1, <1>2 DEF GoesTo, TypeOK, WellCalled, Steps, PasswordSteps, CallbackSteps
<1>3. CASE FindIdentity(r)
  <2>1. CASE GoesTo(r, "email") /\ UNCHANGED found
    BY <1>2, <1>3, <2>1 DEF FindIdentity, GoesTo, TypeOK, CallbackSteps, tables
  <2>2. CASE linked[call[r].subject] # None /\ LogsIn(r, linked[call[r].subject]) /\ UNCHANGED found
    <3>1. PICK u : u = linked[call[r].subject]
      OBVIOUS
    <3>2. u \in Emails /\ "logged_in" \in Codes
      BY <1>1, <2>2, <3>1 DEF TypeOK, Codes
    <3>3. Answers(r, "logged_in", u) /\ found' = found
      BY <2>2, <3>1 DEF LogsIn
    <3>4. WellCalled' /\ pc' = [pc EXCEPT ![r] = "answered"] /\ pc' \in [Requests -> Steps]
      BY <1>1, <3>2, <3>3, AnswerCallsInv
    <3>5. UNCHANGED <<password, linked, token, email, kept, faults, changes>>
      BY <1>3, <3>3 DEF FindIdentity, Answers, tables
    <3> QED
      BY <3>3, <3>4, <3>5 DEF TypeOK
  <2>3. CASE /\ linked[call[r].subject] # None
             /\ GoesTo(r, "upsertRead")
             /\ found' = [found EXCEPT ![r] = linked[call[r].subject]]
    BY <1>1, <1>2, <1>3, <2>3 DEF FindIdentity, GoesTo, TypeOK, CallbackSteps, tables
  <2> QED
    BY <1>3, <2>1, <2>2, <2>3 DEF FindIdentity
<1>4. CASE CheckEmail(r)
  <2>1. CASE GoesTo(r, "newUser")
    BY <1>2, <1>4, <2>1 DEF CheckEmail, GoesTo, TypeOK, CallbackSteps, tables
  <2>2. CASE Answers(r, "account_linking_disabled", None)
    BY <1>1, <1>4, <2>2, AnswerCallsInv DEF CheckEmail, Answers, TypeOK, Codes, tables
  <2> QED
    BY <1>4, <2>1, <2>2 DEF CheckEmail
<1>5. CASE CreateGoogleUser(r)
  <2>1. CASE /\ InsertUser(call[r].email, "random")
             /\ GoesTo(r, "upsertRead")
             /\ found' = [found EXCEPT ![r] = call[r].email]
    BY <1>1, <1>2, <1>5, <2>1 DEF CreateGoogleUser, InsertUser, GoesTo, TypeOK, CallbackSteps
  <2>2. CASE Answers(r, "auth_failed", None) /\ UNCHANGED <<password, found>>
    BY <1>1, <1>5, <2>2, AnswerCallsInv DEF CreateGoogleUser, Answers, TypeOK, Codes
  <2> QED
    BY <1>5, <2>1, <2>2 DEF CreateGoogleUser
<1>6. CASE UpsertRead(r)
  BY <1>1, <1>2, <1>6 DEF UpsertRead, GoesTo, TypeOK, CallbackSteps, tables
<1>7. CASE InsertIdentity(r)
  <2>1. found[r] \in Emails
    BY <1>7 DEF InsertIdentity, TypeOK
  <2>2. CASE /\ linked' = [linked EXCEPT ![call[r].subject] = found[r]]
             /\ token' = [token EXCEPT ![call[r].subject] = call[r].token]
             /\ LogsIn(r, found[r])
    BY <1>1, <1>7, <2>1, <2>2, AnswerCallsInv DEF InsertIdentity, LogsIn, Answers, TypeOK, Codes
  <2>3. CASE Answers(r, "auth_failed", None) /\ UNCHANGED <<linked, token>>
    BY <1>1, <1>7, <2>3, AnswerCallsInv DEF InsertIdentity, Answers, TypeOK, Codes
  <2> QED
    BY <1>7, <2>2, <2>3 DEF InsertIdentity
<1>8. CASE UpdateIdentity(r)
  <2>1. found[r] \in Emails
    BY <1>8 DEF UpdateIdentity, TypeOK
  <2>2. token' \in [Subjects -> Requests \cup {None}]
    BY <1>1, <1>8 DEF UpdateIdentity, TypeOK
  <2> QED
    BY <1>1, <1>8, <2>1, <2>2, AnswerCallsInv DEF UpdateIdentity, LogsIn, Answers, TypeOK, Codes
<1> QED
  BY <1>3, <1>4, <1>5, <1>6, <1>7, <1>8

\* So do the begin of a request, its failure and the change of an email.
LEMMA OtherStepCallsInv ==
  ASSUME CallsInv, NEW r \in Requests,
         \/ Fails(r)
         \/ \E e \in Emails : BeginRegister(r, e)
         \/ \E secret \in Requests, e \in Emails : BeginLogin(r, e, secret)
         \/ \E s \in Subjects : \E t \in {r, None} : BeginCallback(r, s, t)
  PROVE  CallsInv'
<1> USE NoneAssumption DEF CallsInv, TypeOK, WellCalled, Steps, Kinds, Codes, PasswordSteps,
        CallbackSteps, NoReply, NoCall, tables
<1>1. CASE Fails(r)
  BY <1>1 DEF Fails, InCall
<1>2. ASSUME NEW e \in Emails, BeginRegister(r, e)
      PROVE  CallsInv'
  BY <1>2 DEF BeginRegister, Begin
<1>3. ASSUME NEW secret \in Requests, NEW e \in Emails, BeginLogin(r, e, secret)
      PROVE  CallsInv'
  BY <1>3 DEF BeginLogin, Begin
<1>4. ASSUME NEW s \in Subjects, NEW t \in {r, None}, BeginCallback(r, s, t)
      PROVE  CallsInv'
  BY <1>4 DEF BeginCallback, Begin
<1> QED
  BY <1>1, <1>2, <1>3, <1>4

LEMMA ChangeEmailCallsInv ==
  ASSUME CallsInv, NEW s \in Subjects, NEW e \in Emails, ChangeEmail(s, e)
  PROVE  CallsInv'
  BY DEF ChangeEmail, CallsInv, TypeOK, WellCalled, tables

LEMMA CallsHold == Spec => []CallsInv
<1>1. CallsInv /\ [Next]_vars => CallsInv'
  <2> SUFFICES ASSUME CallsInv, [Next]_vars
               PROVE  CallsInv'
    OBVIOUS
  <2>1. CASE UNCHANGED vars
    BY <2>1 DEF vars, CallsInv, TypeOK, WellCalled
  <2>2. CASE Next
    BY <2>2, PasswordStepCallsInv, CallbackStepCallsInv, OtherStepCallsInv, ChangeEmailCallsInv
    DEF Next, Step
  <2> QED
    BY <2>1, <2>2
<1> QED
  BY InitCallsInv, <1>1, PTL DEF Spec

\* Every reachable state of the accounts is well typed.
THEOREM TypeCorrect == Spec => []TypeOK
  BY CallsHold, PTL DEF CallsInv

-----------------------------------------------------------------------------
(* Created accounts *)

\* The password of a user is never changed.
LEMMA PasswordStays ==
  ASSUME CallsInv, [Next]_vars, NEW e \in Emails, password[e] # None
  PROVE  password'[e] = password[e]
<1> USE DEF CallsInv, TypeOK
<1>1. CASE UNCHANGED vars
  BY <1>1 DEF vars
<1>2. ASSUME NEW r \in Requests, Step(r)
      PROVE  password'[e] = password[e]
  BY <1>2 DEF Step, RegisterLookup, RegisterCreate, Login, FindIdentity, CheckEmail,
              CreateGoogleUser, UpsertRead, InsertIdentity, UpdateIdentity, InsertUser, tables
<1>3. CASE UNCHANGED password
  BY <1>3
<1>4. Next => (\E r \in Requests : Step(r)) \/ UNCHANGED password
  BY DEF Next, Fails, BeginRegister, BeginLogin, BeginCallback, Begin, ChangeEmail, tables
<1> QED
  BY <1>1, <1>2, <1>3, <1>4

\* Only a create answers that the account was created.
LEMMA OnlyCreateAnswersCreated ==
  ASSUME CallsInv, [Next]_vars, NEW r \in Requests, reply'[r].code = "created"
  PROVE  \/ reply'[r] = reply[r]
         \/ /\ call[r].email \in Emails
            /\ reply'[r].user = call[r].email
            /\ password'[call[r].email] = r
<1> USE NoneAssumption DEF CallsInv
<1>1. CASE UNCHANGED vars
  BY <1>1 DEF vars
<1>2. ASSUME NEW q \in Requests, Step(q)
      PROVE  \/ reply'[r] = reply[r]
             \/ /\ call[r].email \in Emails
                /\ reply'[r].user = call[r].email
                /\ password'[call[r].email] = r
  <2>1. CASE RegisterCreate(q)
    BY <1>2, <2>1 DEF RegisterCreate, InsertUser, Answers, WellCalled, TypeOK, PasswordSteps
  <2>2. CASE ~RegisterCreate(q)
    BY <1>2, <2>2 DEF Step, RegisterLookup, Login, FindIdentity, CheckEmail, CreateGoogleUser,
                      UpsertRead, InsertIdentity, UpdateIdentity, GoesTo, Answers, LogsIn, WellCalled
  <2> QED
    BY <2>1, <2>2
<1>3. ASSUME NEW q \in Requests, Fails(q)
      PROVE  reply'[r] = reply[r]
  BY <1>3 DEF Fails, WellCalled
<1>4. Next => (\E q \in Requests : Step(q) \/ Fails(q)) \/ UNCHANGED reply
  BY DEF Next, BeginRegister, BeginLogin, BeginCallback, Begin, ChangeEmail
<1> QED
  BY <1>1, <1>2, <1>3, <1>4

\* Whoever was told that the account was created has the password of the user
\* from then on, whatever other registrations and sign-ins run.
THEOREM CreatedOwnsAccountHolds == Spec => []CreatedOwnsAccount
<1>1. Init => CreatedOwnsAccount
  BY DEF Init, CreatedOwnsAccount, NoReply
<1>2. CallsInv /\ CreatedOwnsAccount /\ [Next]_vars => CreatedOwnsAccount'
  <2> SUFFICES ASSUME CallsInv, CreatedOwnsAccount, [Next]_vars,
                      NEW r \in Requests, reply'[r].code = "created"
               PROVE  password'[reply'[r].user] = r
    BY DEF CreatedOwnsAccount
  <2>1. CASE reply'[r] = reply[r]
    <3>1. reply[r].user \in Emails /\ password[reply[r].user] = r
      BY <2>1 DEF CreatedOwnsAccount, CallsInv, WellCalled
    <3> QED
      BY <2>1, <3>1, PasswordStays, NoneAssumption
  <2> QED
    BY <2>1, OnlyCreateAnswersCreated
<1> QED
  BY <1>1, <1>2, CallsHold, PTL DEF Spec

-----------------------------------------------------------------------------
(* Google accounts *)

\* A request works for the user u or has logged in as it.
Uses(r, u) == found[r] = u \/ (reply[r].code = "logged_in" /\ reply[r].user = u)

\* The user u is that of the Google account s: it is linked to it, or a callback
\* of s uses it.
Holds(s, u) ==
  \/ linked[s] = u
  \/ \E r \in Requests : call[r].kind = "callback" /\ call[r].subject = s /\ Uses(r, u)

\* Such a user was created by a callback, of no other Google account.
HoldersInv ==
  \A s \in Subjects, u \in Emails :
    Holds(s, u) => /\ password[u] = "random"
                   /\ \A t \in Subjects : Holds(t, u) => t = s

\* The step gives no Google account a user that it has not already.
NoNewHolder == \A s \in Subjects, u \in Emails : Holds(s, u)' => Holds(s, u)

\* A step of r gives nobody a new user when it takes what it finds from the
\* Google account of r.
LEMMA TakesFromOwn ==
  ASSUME NEW r \in Requests, call' = call,
         \A q \in Requests \ {r} : found'[q] = found[q] /\ reply'[q] = reply[q],
         call[r].kind = "callback" =>
           /\ found'[r] = found[r] \/ Holds(call[r].subject, found'[r])
           /\ reply'[r].code = "logged_in" => Holds(call[r].subject, reply'[r].user),
         \A s \in Subjects :
           \/ linked'[s] = linked[s]
           \/ call[r].kind = "callback" /\ s = call[r].subject /\ linked'[s] = found[r]
  PROVE  NoNewHolder
<1> SUFFICES ASSUME NEW s \in Subjects, NEW u \in Emails, Holds(s, u)'
             PROVE  Holds(s, u)
  BY DEF NoNewHolder
<1>1. CASE linked'[s] = u
  <2>1. CASE linked[s] = u
    BY <2>1 DEF Holds
  <2>2. CASE call[r].kind = "callback" /\ s = call[r].subject /\ Uses(r, u)
    BY <2>2 DEF Holds
  <2> QED
    BY <1>1, <2>1, <2>2 DEF Uses
<1>2. ASSUME NEW q \in Requests, call[q].kind = "callback", call[q].subject = s, Uses(q, u)'
      PROVE  Holds(s, u)
  <2>1. CASE Uses(q, u)
    BY <1>2, <2>1 DEF Holds
  <2>2. CASE ~Uses(q, u)
    BY <1>2, <2>2 DEF Uses
  <2> QED
    BY <2>1, <2>2
<1> QED
  BY <1>1, <1>2 DEF Holds

\* A step gives a Google account only a user that it has already, or the user
\* that the step creates.
LEMMA StepHolds ==
  ASSUME CallsInv, NEW r \in Requests, Step(r)
  PROVE  \/ NoNewHolder
         \/ /\ call[r].email \in Emails /\ password[call[r].email] = None
            /\ password'[call[r].email] = "random"
            /\ \A s \in Subjects, u \in Emails :
                 Holds(s, u)' => Holds(s, u) \/ (s = call[r].subject /\ u = call[r].email)
<1> USE NoneAssumption DEF CallsInv
<1>1. call' = call /\ \A q \in Requests \ {r} : found'[q] = found[q] /\ reply'[q] = reply[q]
  BY DEF Step, RegisterLookup, RegisterCreate, Login, FindIdentity, CheckEmail, CreateGoogleUser,
         UpsertRead, InsertIdentity, UpdateIdentity, GoesTo, Answers, LogsIn, TypeOK, WellCalled
<1>2. pc[r] \in PasswordSteps \cup CallbackSteps
  BY DEF Step, RegisterLookup, RegisterCreate, Login, FindIdentity, CheckEmail, CreateGoogleUser,
         UpsertRead, InsertIdentity, UpdateIdentity, PasswordSteps, CallbackSteps
<1>3. CASE pc[r] \in PasswordSteps
  <2>1. call[r].kind # "callback" /\ linked' = linked
    BY <1>3 DEF Step, RegisterLookup, RegisterCreate, Login, FindIdentity, CheckEmail,
                CreateGoogleUser, UpsertRead, InsertIdentity, UpdateIdentity, WellCalled,
                PasswordSteps, tables
  <2> QED
    BY <1>1, <2>1, TakesFromOwn
<1>4. CASE pc[r] \in CallbackSteps
  <2>0. /\ call[r].kind = "callback"
        /\ call[r].subject \in Subjects
        /\ call[r].email \in Emails
    BY <1>4 DEF WellCalled
  <2> DEFINE s == call[r].subject
  <2>1. Holds(s, linked[s]) /\ \A u : Uses(r, u) => Holds(s, u)
    BY <2>0 DEF Holds
  <2>2. Uses(r, found[r]) /\ (reply[r].code = "logged_in" => Uses(r, reply[r].user))
    BY DEF Uses
  <2>3. CASE FindIdentity(r)
    <3>1. /\ linked' = linked
          /\ found'[r] \in {found[r], linked[s]}
          /\ reply'[r] = reply[r] \/ reply'[r].user = linked[s]
      BY <2>0, <2>3 DEF FindIdentity, GoesTo, LogsIn, Answers, TypeOK, WellCalled, tables
    <3> QED
      BY <1>1, <2>0, <2>1, <2>2, <3>1, TakesFromOwn
  <2>4. CASE CheckEmail(r) \/ UpsertRead(r)
    <3>1. /\ linked' = linked
          /\ found'[r] = found[r]
          /\ reply'[r] = reply[r] \/ reply'[r].code # "logged_in"
      BY <2>4 DEF CheckEmail, UpsertRead, GoesTo, Answers, WellCalled, tables
    <3> QED
      BY <1>1, <2>0, <2>1, <2>2, <3>1, TakesFromOwn
  <2>5. CASE InsertIdentity(r) \/ UpdateIdentity(r)
    <3>1. /\ \A x \in Subjects : linked'[x] = linked[x] \/ (x = s /\ linked'[x] = found[r])
          /\ found'[r] = found[r]
          /\ reply'[r].code = "logged_in" => reply'[r].user = found[r]
      BY <2>0, <2>5 DEF InsertIdentity, UpdateIdentity, LogsIn, Answers, TypeOK, WellCalled
    <3> QED
      BY <1>1, <2>0, <2>1, <2>2, <3>1, TakesFromOwn
  <2>6. CASE CreateGoogleUser(r) /\ found' = found
    <3>1. linked' = linked /\ (reply'[r] = reply[r] \/ reply'[r].code # "logged_in")
      BY <2>6 DEF CreateGoogleUser, GoesTo, Answers, WellCalled
    <3> QED
      BY <1>1, <2>0, <2>1, <2>2, <2>6, <3>1, TakesFromOwn
  <2>7. CASE CreateGoogleUser(r) /\ found' # found
    <3>1. /\ password[call[r].email] = None
          /\ password'[call[r].email] = "random"
          /\ linked' = linked
          /\ reply' = reply
          /\ found'[r] = call[r].email
      BY <2>0, <2>7 DEF CreateGoogleUser, InsertUser, GoesTo, TypeOK
    <3>2. ASSUME NEW x \in Subjects, NEW u \in Emails, Holds(x, u)'
          PROVE  Holds(x, u) \/ (x = s /\ u = call[r].email)
      <4>1. CASE linked[x] = u
        BY <4>1 DEF Holds
      <4>2. ASSUME NEW q \in Requests, call[q].kind = "callback", call[q].subject = x,
                   Uses(q, u)'
            PROVE  Holds(x, u) \/ (x = s /\ u = call[r].email)
        <5>1. CASE Uses(q, u)
          BY <4>2, <5>1 DEF Holds
        <5>2. CASE ~Uses(q, u)
          BY <1>1, <3>1, <4>2, <5>2 DEF Uses
        <5> QED
          BY <5>1, <5>2
      <4> QED
        BY <1>1, <3>1, <3>2, <4>1, <4>2 DEF Holds
    <3> QED
      BY <2>0, <3>1, <3>2
  <2> QED
    BY <1>4, <2>3, <2>4, <2>5, <2>6, <2>7
    DEF Step, RegisterLookup, RegisterCreate, Login, CallbackSteps
<1> QED
  BY <1>2, <1>3, <1>4

\* No other step gives a Google account a new user.
LEMMA OtherStepHolds ==
  ASSUME CallsInv, [Next]_vars, ~ \E r \in Requests : Step(r)
  PROVE  NoNewHolder
<1> USE NoneAssumption DEF CallsInv
<1>1. CASE UNCHANGED <<linked, call, found, reply>>
  BY <1>1 DEF NoNewHolder, Holds, Uses
<1>2. ASSUME NEW r \in Requests, Fails(r)
      PROVE  NoNewHolder
  <2>1. /\ call' = call /\ found' = found /\ linked' = linked
        /\ \A q \in Requests \ {r} : reply'[q] = reply[q]
        /\ reply'[r].code # "logged_in"
    BY <1>2 DEF Fails, WellCalled, tables
  <2> QED
    BY <2>1, TakesFromOwn
<1>3. ASSUME NEW r \in Requests, NEW step, NEW c, Begin(r, step, c)
      PROVE  NoNewHolder
  <2>1. /\ found' = found /\ reply' = reply /\ linked' = linked
        /\ found[r] = None /\ reply[r].code # "logged_in"
        /\ \A q \in Requests \ {r} : call'[q] = call[q]
    BY <1>3 DEF Begin, WellCalled, NoReply, tables
  <2>2. \A u \in Emails, q \in Requests : Uses(q, u)' => Uses(q, u) /\ call'[q] = call[q]
    BY <2>1 DEF Uses
  <2> QED
    BY <2>1, <2>2 DEF NoNewHolder, Holds
<1>4. Next => \/ \E r \in Requests : Step(r) \/ Fails(r)
              \/ \E r \in Requests : \E step, c : Begin(r, step, c)
              \/ UNCHANGED <<linked, call, found, reply>>
  BY DEF Next, BeginRegister, BeginLogin, BeginCallback, ChangeEmail, tables
<1> QED
  BY <1>1, <1>2, <1>3, <1>4 DEF vars, tables

LEMMA HoldersHold == Spec => []HoldersInv
<1>1. Init => HoldersInv
  BY NoneAssumption DEF Init, HoldersInv, Holds, NoCall
<1>2. CallsInv /\ HoldersInv /\ [Next]_vars => HoldersInv'
  <2> SUFFICES ASSUME CallsInv, HoldersInv, [Next]_vars,
                      NEW s \in Subjects, NEW u \in Emails, Holds(s, u)'
               PROVE  /\ password'[u] = "random"
                      /\ \A t \in Subjects : Holds(t, u)' => t = s
    BY DEF HoldersInv
  <2>1. CASE NoNewHolder
    <3>1. Holds(s, u) /\ \A t \in Subjects : Holds(t, u)' => Holds(t, u)
      BY <2>1 DEF NoNewHolder
    <3>2. password[u] = "random" /\ \A t \in Subjects : Holds(t, u)' => t = s
      BY <3>1 DEF HoldersInv
    <3> QED
      BY <3>2, PasswordStays, NoneAssumption
  <2>2. ASSUME NEW r \in Requests,
               password[call[r].email] = None,
               password'[call[r].email] = "random",
               \A t \in Subjects, v \in Emails :
                 Holds(t, v)' => Holds(t, v) \/ (t = call[r].subject /\ v = call[r].email)
        PROVE  /\ password'[u] = "random"
               /\ \A t \in Subjects : Holds(t, u)' => t = s
    <3>1. CASE u = call[r].email
      <4>1. \A t \in Subjects : ~Holds(t, u)
        BY <2>2, <3>1, NoneAssumption DEF HoldersInv
      <4> QED
        BY <2>2, <3>1, <4>1
    <3>2. CASE u # call[r].email
      <4>1. password[u] = "random" /\ \A t \in Subjects : Holds(t, u)' => t = s
        BY <2>2, <3>2 DEF HoldersInv
      <4> QED
        BY <4>1, PasswordStays, NoneAssumption
    <3> QED
      BY <3>1, <3>2
  <2> QED
    BY <2>1, <2>2, StepHolds, OtherStepHolds
<1> QED
  BY <1>1, <1>2, CallsHold, PTL DEF Spec

\* A Google sign-in never logs in as a user with a password or of another Google
\* account, for any number of requests, accounts, failures and changed emails.
THEOREM NoForeignAccountHolds == Spec => []NoForeignAccount
<1>1. CallsInv /\ HoldersInv => NoForeignAccount
  <2> SUFFICES ASSUME CallsInv, HoldersInv, NEW r \in Requests,
                      reply[r].code = "logged_in", call[r].kind = "callback"
               PROVE  /\ password[reply[r].user] = "random"
                      /\ \A s \in Subjects : linked[s] = reply[r].user => s = call[r].subject
    BY DEF NoForeignAccount
  <2>1. reply[r].user \in Emails /\ call[r].subject \in Subjects
    BY DEF CallsInv, WellCalled
  <2>2. Holds(call[r].subject, reply[r].user)
    <3>1. Uses(r, reply[r].user)
      BY DEF Uses
    <3> QED
      BY <3>1 DEF Holds
  <2>3. \A s \in Subjects : linked[s] = reply[r].user => Holds(s, reply[r].user)
    BY DEF Holds
  <2> QED
    BY <2>1, <2>2, <2>3 DEF HoldersInv
<1> QED
  BY <1>1, CallsHold, HoldersHold, PTL

-----------------------------------------------------------------------------
(* Links *)

Upsert == {"upsertRead", "insert", "update"}

\* The request r made the user it works for, and nobody else knows that user.
Own(r) ==
  /\ call[r].email = found[r]
  /\ \A s \in Subjects : linked[s] # found[r]
  /\ \A q \in Requests \ {r} : found[q] # found[r]

\* A sign-in of the Google account s carried the email u.
SignedUp(s, u) == \E q \in Requests : call[q].subject = s /\ call[q].email = u

\* What a request knows of its user: the user is linked to its Google account, or
\* it is the request's own.
KnowsItsUser(r) ==
  /\ pc[r] = "new" => call[r] = NoCall
  /\ pc[r] # "answered" => reply[r].code # "logged_in"
  /\ pc[r] \in {"identity", "email", "newUser"} => found[r] = None
  /\ found[r] # None => linked[call[r].subject] = found[r] \/ Own(r)
  /\ pc[r] \in Upsert => call[r].token # None \/ Own(r)
  /\ pc[r] = "update" => linked[call[r].subject] # None
  /\ reply[r].code = "logged_in" /\ call[r].kind = "callback" =>
       \/ linked[call[r].subject] = reply[r].user
       \/ found[r] = reply[r].user /\ TwoEmails(call[r].subject, reply[r].user)

LinksInv ==
  /\ \A r \in Requests : KnowsItsUser(r)
  /\ \A s \in Subjects : linked[s] # None => SignedUp(s, linked[s])

AccountsInv == CallsInv /\ HoldersInv /\ LinksInv

\* A link is never moved: only an insert writes one, for an account without.
LEMMA LinkStays ==
  ASSUME CallsInv, [Next]_vars, NEW s \in Subjects, linked[s] # None
  PROVE  linked'[s] = linked[s]
<1> USE DEF CallsInv, TypeOK
<1>1. CASE UNCHANGED linked
  BY <1>1
<1>2. ASSUME NEW r \in Requests, Step(r)
      PROVE  linked'[s] = linked[s]
  BY <1>2 DEF Step, RegisterLookup, RegisterCreate, Login, FindIdentity, CheckEmail,
              CreateGoogleUser, UpsertRead, InsertIdentity, UpdateIdentity, tables
<1>3. Next => (\E r \in Requests : Step(r)) \/ UNCHANGED linked
  BY DEF Next, Fails, BeginRegister, BeginLogin, BeginCallback, Begin, ChangeEmail, tables
<1> QED
  BY <1>1, <1>2, <1>3 DEF vars, tables

\* The call of a request is not changed once it has begun.
LEMMA CallStays ==
  ASSUME CallsInv, LinksInv, [Next]_vars, NEW r \in Requests, call[r] # NoCall
  PROVE  call'[r] = call[r]
<1>1. pc[r] # "new"
  BY DEF LinksInv, KnowsItsUser
<1>2. CASE UNCHANGED call
  BY <1>2
<1>3. ASSUME NEW q \in Requests, NEW step, NEW c, Begin(q, step, c)
      PROVE  call'[r] = call[r]
  BY <1>1, <1>3 DEF Begin, CallsInv, WellCalled
<1>4. Next => UNCHANGED call \/ \E q \in Requests : \E step, c : Begin(q, step, c)
  BY DEF Next, Step, RegisterLookup, RegisterCreate, Login, FindIdentity, CheckEmail,
         CreateGoogleUser, UpsertRead, InsertIdentity, UpdateIdentity, GoesTo, Answers, LogsIn,
         Fails, BeginRegister, BeginLogin, BeginCallback, ChangeEmail
<1> QED
  BY <1>2, <1>3, <1>4 DEF vars

\* So the emails that the sign-ins of a Google account carried stay known.
LEMMA SignInsStay ==
  ASSUME CallsInv, LinksInv, [Next]_vars, NEW s \in Subjects, NEW u
  PROVE  /\ SignedUp(s, u) => SignedUp(s, u)'
         /\ TwoEmails(s, u) => TwoEmails(s, u)'
<1>1. ASSUME NEW q \in Requests, call[q].subject = s
      PROVE  call'[q] = call[q]
  BY <1>1, CallStays, NoneAssumption DEF NoCall
<1> QED
  BY <1>1 DEF SignedUp, TwoEmails

\* A request's own user differs from the one its account is linked to, so the
\* account signed in under two emails.
LEMMA OwnMeansTwoEmails ==
  ASSUME CallsInv, LinksInv, NEW r \in Requests, call[r].kind = "callback",
         linked[call[r].subject] # None, Own(r)
  PROVE  TwoEmails(call[r].subject, found[r])
<1>1. call[r].subject \in Subjects
  BY DEF CallsInv, WellCalled
<1>2. PICK q \in Requests : call[q].subject = call[r].subject
                            /\ call[q].email = linked[call[r].subject]
  BY <1>1 DEF LinksInv, SignedUp
<1> QED
  BY <1>1, <1>2 DEF Own, TwoEmails

\* What a step of a request leaves alone.
LEMMA StepFrame ==
  ASSUME CallsInv, NEW r \in Requests, Step(r)
  PROVE  /\ call' = call
         /\ \A q \in Requests \ {r} : pc'[q] = pc[q] /\ found'[q] = found[q] /\ reply'[q] = reply[q]
         /\ \A s \in Subjects : linked'[s] = linked[s] \/ linked'[s] = found[r]
         /\ \/ found'[r] = found[r]
            \/ found'[r] = linked[call[r].subject] /\ call[r].subject \in Subjects
            \/ found'[r] = call[r].email /\ password[call[r].email] = None
  BY DEF Step, RegisterLookup, RegisterCreate, Login, FindIdentity, CheckEmail, CreateGoogleUser,
         UpsertRead, InsertIdentity, UpdateIdentity, InsertUser, GoesTo, Answers, LogsIn, CallsInv,
         TypeOK, WellCalled, CallbackSteps, tables

\* The user that one request made stays unknown to the others.
LEMMA OwnStays ==
  ASSUME AccountsInv, NEW r \in Requests, Step(r), NEW q \in Requests \ {r},
         found[q] # None, Own(q)
  PROVE  Own(q)'
<1> USE DEF AccountsInv
<1>1. found[q] \in Emails /\ call[q].kind = "callback" /\ call[q].subject \in Subjects
  BY DEF CallsInv, TypeOK, WellCalled
<1>2. password[found[q]] = "random"
  BY <1>1 DEF HoldersInv, Holds, Uses
<1>3. found'[r] # found[q]
  BY <1>2, StepFrame, NoneAssumption DEF Own
<1>4. \A s \in Subjects : linked'[s] # found[q]
  BY StepFrame DEF Own
<1> QED
  BY <1>3, <1>4, StepFrame DEF Own

\* A request knows its user after the step of another one.
LEMMA OthersKnow ==
  ASSUME AccountsInv, Next, NEW r \in Requests, Step(r), NEW q \in Requests \ {r}
  PROVE  KnowsItsUser(q)'
<1> USE DEF AccountsInv
<1>1. KnowsItsUser(q) /\ call'[q] = call[q] /\ pc'[q] = pc[q] /\ found'[q] = found[q]
      /\ reply'[q] = reply[q]
  BY StepFrame DEF LinksInv
<1>2. ASSUME call[q].kind = "callback", linked[call[q].subject] # None
      PROVE  linked'[call[q].subject] = linked[call[q].subject]
  BY <1>2, LinkStays DEF CallsInv, WellCalled
<1>3. found[q] # None /\ Own(q) => Own(q)'
  BY OwnStays
<1>4. found[q] # None \/ pc[q] \in Upsert => call[q].kind = "callback"
  BY DEF CallsInv, WellCalled, CallbackSteps, Upsert
<1>5. pc[q] \in Upsert => found[q] # None
  BY DEF CallsInv, TypeOK, Upsert
<1>6. /\ found'[q] # None => linked'[call'[q].subject] = found'[q] \/ Own(q)'
      /\ pc'[q] \in Upsert => call'[q].token # None \/ Own(q)'
      /\ pc'[q] = "update" => linked'[call'[q].subject] # None
  BY <1>1, <1>2, <1>3, <1>4, <1>5 DEF KnowsItsUser, Upsert
<1>7. ASSUME reply[q].code = "logged_in", call[q].kind = "callback"
      PROVE  \/ linked'[call[q].subject] = reply[q].user
             \/ found[q] = reply[q].user /\ TwoEmails(call[q].subject, reply[q].user)'
  <2>1. reply[q].user # None /\ call[q].subject \in Subjects
    BY <1>7, NoneAssumption DEF CallsInv, WellCalled
  <2>2. CASE linked[call[q].subject] = reply[q].user
    BY <1>2, <1>7, <2>1, <2>2
  <2>3. CASE found[q] = reply[q].user /\ TwoEmails(call[q].subject, reply[q].user)
    <3>1. TwoEmails(call[q].subject, reply[q].user)'
          \/ call'[q] # call[q] \/ reply'[q] # reply[q]
      BY <1>1, <2>1, <2>3, StepFrame DEF TwoEmails
    <3> QED
      BY <1>1, <2>3, <3>1
  <2> QED
    BY <1>1, <1>7, <2>2, <2>3 DEF KnowsItsUser
<1> QED
  BY <1>1, <1>6, <1>7 DEF KnowsItsUser, TwoEmails

\* A request still knows its user after its own step.
LEMMA StepKnows ==
  ASSUME AccountsInv, Next, NEW r \in Requests, Step(r)
  PROVE  KnowsItsUser(r)'
<1> USE NoneAssumption DEF AccountsInv
<1>0. /\ KnowsItsUser(r)
      /\ call' = call
      /\ pc[r] \in PasswordSteps \cup CallbackSteps
      /\ CallsInv'
  <2>1. CallsInv'
    BY PasswordStepCallsInv, CallbackStepCallsInv DEF Step
  <2>2. pc[r] \in PasswordSteps \cup CallbackSteps
    BY DEF Step, RegisterLookup, RegisterCreate, Login, FindIdentity, CheckEmail, CreateGoogleUser,
           UpsertRead, InsertIdentity, UpdateIdentity, PasswordSteps, CallbackSteps
  <2> QED
    BY <2>1, <2>2, StepFrame DEF LinksInv
<1>1. CASE pc[r] \in PasswordSteps
  <2>1. call[r].kind # "callback" /\ found[r] = None
    BY <1>1 DEF CallsInv, WellCalled
  <2>2. RegisterLookup(r) \/ RegisterCreate(r) \/ Login(r)
    BY <1>1 DEF Step, FindIdentity, CheckEmail, CreateGoogleUser, UpsertRead, InsertIdentity,
                UpdateIdentity, PasswordSteps
  <2>3. /\ found' = found
        /\ \/ pc'[r] = "create" /\ reply' = reply
           \/ pc'[r] = "answered"
    BY <2>2 DEF RegisterLookup, RegisterCreate, Login, GoesTo, LogsIn, Answers, CallsInv, TypeOK
  <2> QED
    BY <1>0, <1>1, <2>1, <2>3 DEF KnowsItsUser, Upsert, PasswordSteps
<1>2. CASE pc[r] \in CallbackSteps
  <2>0. /\ call[r].kind = "callback" /\ call[r].subject \in Subjects /\ call[r].email \in Emails
        /\ pc[r] \in {"identity", "email", "newUser"} => found[r] = None
        /\ pc[r] \notin {"new", "answered"} /\ reply[r].code # "logged_in"
    BY <1>0, <1>2 DEF KnowsItsUser, CallsInv, WellCalled, CallbackSteps
  <2>1. CASE FindIdentity(r)
    <3>1. linked' = linked /\ pc[r] = "identity" /\ found[r] = None
      BY <2>0, <2>1 DEF FindIdentity, tables
    <3>2. CASE GoesTo(r, "email") /\ UNCHANGED found
      BY <1>0, <2>0, <3>1, <3>2 DEF KnowsItsUser, GoesTo, Upsert, CallsInv, TypeOK
    <3>3. CASE LogsIn(r, linked[call[r].subject]) /\ UNCHANGED found
      BY <1>0, <2>0, <3>1, <3>3 DEF KnowsItsUser, LogsIn, Answers, Upsert, CallsInv, TypeOK, WellCalled
    <3>4. CASE /\ linked[call[r].subject] # None /\ call[r].token # None
               /\ GoesTo(r, "upsertRead")
               /\ found' = [found EXCEPT ![r] = linked[call[r].subject]]
      BY <1>0, <2>0, <3>1, <3>4 DEF KnowsItsUser, GoesTo, Upsert, CallsInv, TypeOK
    <3> QED
      BY <2>1, <3>2, <3>3, <3>4 DEF FindIdentity
  <2>2. CASE CheckEmail(r)
    <3>1. linked' = linked /\ found' = found /\ pc[r] = "email" /\ found[r] = None
      BY <2>0, <2>2 DEF CheckEmail, tables
    <3>2. \/ pc'[r] = "newUser" /\ reply' = reply
          \/ pc'[r] = "answered" /\ reply'[r].code # "logged_in"
      BY <2>2 DEF CheckEmail, GoesTo, Answers, CallsInv, TypeOK, WellCalled
    <3> QED
      BY <1>0, <2>0, <3>1, <3>2 DEF KnowsItsUser, Upsert
  <2>3. CASE CreateGoogleUser(r)
    <3>1. linked' = linked /\ pc[r] = "newUser" /\ found[r] = None
      BY <2>0, <2>3 DEF CreateGoogleUser
    <3>2. CASE /\ InsertUser(call[r].email, "random")
               /\ GoesTo(r, "upsertRead")
               /\ found' = [found EXCEPT ![r] = call[r].email]
      <4>1. \A s \in Subjects : ~Holds(s, call[r].email)
        BY <2>0, <3>2 DEF InsertUser, HoldersInv
      <4>2. \A q \in Requests : found[q] # call[r].email
        BY <2>0, <4>1 DEF Holds, Uses, CallsInv, WellCalled
      <4>3. \A s \in Subjects : linked[s] # call[r].email
        BY <4>1 DEF Holds
      <4>4. found'[r] = call[r].email /\ \A q \in Requests \ {r} : found'[q] = found[q]
        BY <3>2 DEF CallsInv, TypeOK
      <4>5. Own(r)'
        BY <1>0, <3>1, <4>2, <4>3, <4>4 DEF Own
      <4>6. pc'[r] = "upsertRead" /\ reply' = reply
        BY <3>2 DEF GoesTo, CallsInv, TypeOK
      <4> QED
        BY <1>0, <2>0, <4>4, <4>5, <4>6 DEF KnowsItsUser, Upsert
    <3>3. CASE Answers(r, "auth_failed", None) /\ UNCHANGED found
      <4>1. pc'[r] = "answered" /\ reply'[r].code = "auth_failed"
        BY <3>3 DEF Answers, CallsInv, TypeOK, WellCalled
      <4> QED
        BY <1>0, <2>0, <3>1, <3>3, <4>1 DEF KnowsItsUser, Upsert
    <3> QED
      BY <2>3, <3>2, <3>3 DEF CreateGoogleUser
  <2>4. ASSUME linked' = linked, found' = found
        PROVE  Own(r) => Own(r)'
    BY <1>0, <2>4 DEF Own
  <2>5. CASE UpsertRead(r)
    <3>1. /\ linked' = linked /\ found' = found /\ reply' = reply /\ pc[r] = "upsertRead"
          /\ \/ pc'[r] = "insert"
             \/ pc'[r] = "update" /\ linked[call[r].subject] # None
      BY <2>5 DEF UpsertRead, GoesTo, CallsInv, TypeOK, tables
    <3> QED
      BY <1>0, <2>0, <2>4, <3>1 DEF KnowsItsUser, Upsert
  <2>6. CASE InsertIdentity(r)
    <3>1. /\ found' = found /\ pc[r] = "insert" /\ found[r] \in Emails
          /\ pc'[r] = "answered"
      BY <2>6 DEF InsertIdentity, LogsIn, Answers, CallsInv, TypeOK
    <3>2. CASE LogsIn(r, found[r]) /\ linked' = [linked EXCEPT ![call[r].subject] = found[r]]
      <4>1. linked'[call[r].subject] = found[r] /\ reply'[r].user = found[r]
        BY <2>0, <3>2 DEF LogsIn, Answers, CallsInv, TypeOK, WellCalled
      <4> QED
        BY <1>0, <2>0, <3>1, <4>1 DEF KnowsItsUser, Upsert
    <3>3. CASE Answers(r, "auth_failed", None) /\ UNCHANGED linked
      <4>1. reply'[r].code = "auth_failed"
        BY <3>3 DEF Answers, CallsInv, WellCalled
      <4> QED
        BY <1>0, <2>0, <2>4, <3>1, <3>3, <4>1 DEF KnowsItsUser, Upsert
    <3> QED
      BY <2>6, <3>2, <3>3 DEF InsertIdentity
  <2>7. CASE UpdateIdentity(r)
    <3>1. /\ found' = found /\ linked' = linked /\ pc[r] = "update" /\ found[r] \in Emails
          /\ pc'[r] = "answered" /\ reply'[r].user = found[r]
      BY <2>7 DEF UpdateIdentity, LogsIn, Answers, CallsInv, TypeOK, WellCalled
    <3>2. linked[call[r].subject] # None /\ (linked[call[r].subject] = found[r] \/ Own(r))
      BY <1>0, <3>1 DEF KnowsItsUser
    <3>3. Own(r) => TwoEmails(call[r].subject, found[r])'
      <4>1. Own(r) => TwoEmails(call[r].subject, found[r])
        BY <2>0, <3>2, OwnMeansTwoEmails
      <4>2. call'[r] = call[r] /\ found'[r] = found[r]
        BY <1>0, <3>1
      <4> QED
        BY <1>0, <4>1, <4>2 DEF TwoEmails
    <3> QED
      BY <1>0, <2>0, <2>4, <3>1, <3>2, <3>3 DEF KnowsItsUser, Upsert, TwoEmails
  <2> QED
    BY <1>2, <2>1, <2>2, <2>3, <2>5, <2>6, <2>7
    DEF Step, RegisterLookup, RegisterCreate, Login, CallbackSteps
<1> QED
  BY <1>0, <1>1, <1>2

\* And after the begin or the failure of any request, and a change of an email.
LEMMA OtherStepKnows ==
  ASSUME AccountsInv, Next, ~ \E r \in Requests : Step(r), NEW q \in Requests
  PROVE  KnowsItsUser(q)'
<1> USE NoneAssumption DEF AccountsInv
<1>0. KnowsItsUser(q) /\ linked' = linked /\ found' = found
  BY DEF LinksInv, Next, Fails, BeginRegister, BeginLogin, BeginCallback, Begin, ChangeEmail, tables
<1>1. ASSUME call' = call
      PROVE  Own(q) => Own(q)'
  BY <1>0, <1>1 DEF Own
<1>2. CASE UNCHANGED <<call, pc, reply>>
  BY <1>0, <1>1, <1>2 DEF KnowsItsUser, TwoEmails
<1>3. ASSUME NEW r \in Requests, Fails(r)
      PROVE  KnowsItsUser(q)'
  <2>1. /\ call' = call /\ pc[r] # "new"
        /\ q # r => pc'[q] = pc[q] /\ reply'[q] = reply[q]
        /\ pc'[r] = "answered" /\ reply'[r].code = "auth_failed"
    BY <1>3 DEF Fails, InCall, CallsInv, TypeOK, WellCalled
  <2>2. CASE q = r
    BY <1>0, <1>1, <2>1, <2>2 DEF KnowsItsUser, Upsert
  <2>3. CASE q # r
    BY <1>0, <1>1, <2>1, <2>3 DEF KnowsItsUser, Upsert, TwoEmails
  <2> QED
    BY <2>2, <2>3
<1>4. ASSUME NEW r \in Requests, NEW step \in {"register", "login", "identity"}, NEW c,
             Begin(r, step, c)
      PROVE  KnowsItsUser(q)'
  <2>1. /\ reply' = reply /\ found[r] = None /\ reply[r].code # "logged_in"
        /\ q # r => pc'[q] = pc[q] /\ call'[q] = call[q]
        /\ pc'[r] = step
    BY <1>4 DEF Begin, CallsInv, TypeOK, WellCalled, NoReply
  <2>2. CASE q = r
    BY <1>0, <2>1, <2>2 DEF KnowsItsUser, Upsert
  <2>3. CASE q # r
    <3>1. Own(q) => Own(q)'
      BY <1>0, <2>1, <2>3 DEF Own
    <3>2. ASSUME call[q].kind = "callback", NEW u, TwoEmails(call[q].subject, u)
          PROVE  TwoEmails(call[q].subject, u)'  \/ call'[q] # call[q]
      <4>1. call[q].subject \in Subjects
        BY <3>2 DEF CallsInv, WellCalled
      <4>2. \A x \in Requests : call[x].subject = call[q].subject => call'[x] = call[x]
        BY <4>1, CallStays DEF NoCall
      <4> QED
        BY <3>2, <4>2 DEF TwoEmails
    <3> QED
      BY <1>0, <2>1, <2>3, <3>1, <3>2 DEF KnowsItsUser, Upsert, TwoEmails
  <2> QED
    BY <2>2, <2>3
<1>5. Next => \/ \E r \in Requests : Fails(r)
              \/ \E r \in Requests, step \in {"register", "login", "identity"} : \E c : Begin(r, step, c)
              \/ UNCHANGED <<call, pc, reply>>
  BY DEF Next, BeginRegister, BeginLogin, BeginCallback, ChangeEmail
<1> QED
  BY <1>2, <1>3, <1>4, <1>5

\* A user that gets linked to a Google account signed up with its email.
LEMMA LinkedSignedUp ==
  ASSUME AccountsInv, [Next]_vars, NEW s \in Subjects, linked'[s] # None
  PROVE  SignedUp(s, linked[s])'
<1> USE DEF AccountsInv
<1>1. CASE linked'[s] = linked[s]
  <2>1. SignedUp(s, linked[s])
    BY <1>1 DEF LinksInv
  <2>2. PICK q \in Requests : call[q].subject = s /\ call[q].email = linked[s]
    BY <2>1 DEF SignedUp
  <2>3. call'[q] = call[q]
    BY <2>2, CallStays, NoneAssumption DEF NoCall
  <2> QED
    BY <1>1, <2>2, <2>3 DEF SignedUp
<1>2. CASE linked'[s] # linked[s]
  <2>1. Next /\ ~ UNCHANGED linked
    BY <1>2 DEF vars, tables
  <2>2. PICK r \in Requests : Step(r)
    BY <2>1 DEF Next, Fails, BeginRegister, BeginLogin, BeginCallback, Begin, ChangeEmail, tables
  <2>3. InsertIdentity(r)
    BY <2>1, <2>2 DEF Step, RegisterLookup, RegisterCreate, Login, FindIdentity, CheckEmail,
                      CreateGoogleUser, UpsertRead, UpdateIdentity, tables
  <2>4. /\ s = call[r].subject /\ linked'[s] = found[r] /\ linked[s] = None
        /\ call' = call /\ found[r] \in Emails
    BY <1>2, <2>3 DEF InsertIdentity, LogsIn, Answers, CallsInv, TypeOK
  <2>5. Own(r)
    BY <2>4, NoneAssumption DEF LinksInv, KnowsItsUser
  <2> QED
    BY <2>4, <2>5 DEF Own, SignedUp
<1> QED
  BY <1>1, <1>2

\* The invariant that the theorems about links rest on holds in every reachable
\* state: a user is held by one Google account, which is linked to it or has a
\* request of its own that made it.
THEOREM AccountsInvHolds == Spec => []AccountsInv
<1>1. Init => LinksInv
  BY NoneAssumption DEF Init, LinksInv, KnowsItsUser, NoCall, NoReply, Upsert
<1>2. AccountsInv /\ [Next]_vars => LinksInv'
  <2> SUFFICES ASSUME AccountsInv, [Next]_vars
               PROVE  LinksInv'
    OBVIOUS
  <2>1. ASSUME NEW q \in Requests
        PROVE  KnowsItsUser(q)'
    <3>1. CASE UNCHANGED vars
      BY <3>1 DEF vars, tables, AccountsInv, LinksInv, KnowsItsUser, Own, TwoEmails
    <3>2. ASSUME NEW r \in Requests, Step(r), Next
          PROVE  KnowsItsUser(q)'
      BY <3>2, OthersKnow, StepKnows
    <3> QED
      BY <3>1, <3>2, OtherStepKnows
  <2>2. ASSUME NEW s \in Subjects, linked'[s] # None
        PROVE  SignedUp(s, linked[s])'
    BY <2>2, LinkedSignedUp
  <2> QED
    BY <2>1, <2>2 DEF LinksInv, SignedUp
<1> QED
  BY <1>1, <1>2, CallsHold, HoldersHold, PTL DEF Spec, AccountsInv

-----------------------------------------------------------------------------
(* One user for each Google account *)

LEMMA OneUserHolds ==
  ASSUME AccountsInv
  PROVE  OneUserPerSubject
<1> SUFFICES ASSUME NEW r \in Requests, reply[r].code = "logged_in", call[r].kind = "callback",
                    linked[call[r].subject] # reply[r].user
             PROVE  /\ TwoEmails(call[r].subject, reply[r].user)
                    /\ found[r] = reply[r].user
                    /\ \A s \in Subjects : linked[s] # reply[r].user
  BY DEF OneUserPerSubject
<1>1. KnowsItsUser(r) /\ reply[r].user \in Emails
  BY DEF AccountsInv, LinksInv, CallsInv, WellCalled
<1> QED
  BY <1>1, NoneAssumption DEF KnowsItsUser, Own

LEMMA LinksAreForGood ==
  ASSUME AccountsInv, [Next]_vars
  PROVE  LinkIsForGood
<1> USE NoneAssumption DEF AccountsInv
<1> SUFFICES ASSUME NEW s \in Subjects, linked[s] # None, token[s] # None, token'[s] = None
             PROVE  \E e \in Emails : TwoEmails(s, e)
  BY LinkStays DEF LinkIsForGood
<1>1. Next /\ ~ UNCHANGED token
  BY DEF vars, tables
<1>2. PICK r \in Requests : Step(r)
  BY <1>1 DEF Next, Fails, BeginRegister, BeginLogin, BeginCallback, Begin, ChangeEmail, tables
<1>3. InsertIdentity(r) \/ UpdateIdentity(r)
  BY <1>1, <1>2 DEF Step, RegisterLookup, RegisterCreate, Login, FindIdentity, CheckEmail,
                    CreateGoogleUser, UpsertRead, tables
<1>4. /\ call[r].kind = "callback" /\ s = call[r].subject /\ call[r].token = None
      /\ pc[r] = "update" /\ found[r] \in Emails
  BY <1>3 DEF InsertIdentity, UpdateIdentity, CallsInv, TypeOK, WellCalled, CallbackSteps
<1>5. Own(r)
  BY <1>4 DEF LinksInv, KnowsItsUser, Upsert
<1> QED
  BY <1>4, <1>5, OwnMeansTwoEmails

\* SubjectKeepsItsUser, for any requests, accounts, failures and changed emails: a
\* Google account leads to one user for good, and its token is not lost, but for
\* first sign-ins under two emails that overlap.
THEOREM SubjectKeepsItsUserHolds == Spec => SubjectKeepsItsUser
<1>1. AccountsInv /\ AccountsInv' /\ [Next]_vars => [LinkIsForGood /\ OneUserPerSubject']_vars
  <2>1. AccountsInv' => OneUserPerSubject'
    BY OneUserHolds, PTL
  <2> QED
    BY <2>1, LinksAreForGood
<1> QED
  BY <1>1, AccountsInvHolds, PTL DEF Spec, SubjectKeepsItsUser

-----------------------------------------------------------------------------
(* Stranded users *)

\* A callback that is answered leaves its user linked, or its Google account signed
\* in under another email too.
LEMMA AnsweredCallback ==
  ASSUME AccountsInv, Next, NEW r \in Requests, Step(r), NEW e \in Emails,
         found[r] = e, InCall(r), ~(InCall(r)' /\ found'[r] = e)
  PROVE  (\E s \in Subjects : linked'[s] = e) \/ (\E s \in Subjects : TwoEmails(s, e))
<1> USE NoneAssumption DEF AccountsInv
<1>1. /\ call[r].kind = "callback" /\ call[r].subject \in Subjects
      /\ KnowsItsUser(r) /\ pc[r] \notin {"identity", "email", "newUser"} \cup PasswordSteps
  BY DEF CallsInv, WellCalled, LinksInv, KnowsItsUser
<1>2. InsertIdentity(r) \/ UpdateIdentity(r)
  BY <1>1 DEF Step, RegisterLookup, RegisterCreate, Login, FindIdentity, CheckEmail,
              CreateGoogleUser, UpsertRead, GoesTo, InCall, CallsInv, TypeOK, PasswordSteps
<1>3. CASE \E s \in Subjects : linked[s] = e
  BY <1>3, LinkStays
<1>4. CASE \A s \in Subjects : linked[s] # e
  <2>1. Own(r)
    BY <1>1, <1>4 DEF KnowsItsUser
  <2>2. CASE linked[call[r].subject] # None
    BY <1>1, <2>1, <2>2, OwnMeansTwoEmails
  <2>3. CASE linked[call[r].subject] = None
    BY <1>1, <1>2, <1>4, <2>3 DEF KnowsItsUser, InsertIdentity, UpdateIdentity, CallsInv, TypeOK
  <2> QED
    BY <2>2, <2>3
<1> QED
  BY <1>3, <1>4

\* A user without a password appears only with the callback that works for it.
LEMMA NewUserHasCallback ==
  ASSUME CallsInv, NEW r \in Requests, Step(r), NEW e \in Emails,
         password[e] # "random", password'[e] = "random"
  PROVE  InCall(r)' /\ found'[r] = e
<1>1. CreateGoogleUser(r)
  BY NoneAssumption DEF Step, RegisterLookup, RegisterCreate, Login, FindIdentity, CheckEmail,
         UpsertRead, InsertIdentity, UpdateIdentity, InsertUser, tables, CallsInv, TypeOK
<1> QED
  BY <1>1 DEF CreateGoogleUser, InsertUser, GoesTo, InCall, CallsInv, TypeOK

\* StrandedOnlyByFailure, for any requests, accounts, failures and changed emails:
\* only a failed call, a process that died or a sign-in under two emails leaves a
\* user behind that nobody can log in as.
THEOREM StrandedOnlyByFailureHolds == Spec => []StrandedOnlyByFailure
<1>1. Init => StrandedOnlyByFailure
  BY NoneAssumption DEF Init, StrandedOnlyByFailure
<1>2. AccountsInv /\ StrandedOnlyByFailure /\ [Next]_vars => StrandedOnlyByFailure'
  <2> SUFFICES ASSUME AccountsInv, StrandedOnlyByFailure, [Next]_vars,
                      NEW e \in Emails, password'[e] = "random",
                      \A s \in Subjects : linked'[s] # e,
                      ~ \E r \in Requests : InCall(r)' /\ found'[r] = e,
                      faults' = 0,
                      \A s \in Subjects : ~TwoEmails(s, e)'
               PROVE  FALSE
    BY DEF StrandedOnlyByFailure, TwoEmails, InCall
  <2> USE NoneAssumption DEF AccountsInv
  <2>1. /\ faults = 0 /\ ~ \E r \in Requests : Fails(r)
        /\ \A s \in Subjects : linked[s] # e /\ ~TwoEmails(s, e)
    <3>1. \A s \in Subjects : linked[s] # e /\ ~TwoEmails(s, e)
      BY LinkStays, SignInsStay
    <3>2. faults \in Nat
      BY DEF CallsInv, TypeOK
    <3>3. \A r \in Requests : ~Fails(r)
      BY <3>2 DEF Fails
    <3>4. faults' = faults
      BY <3>3 DEF Next, Step, RegisterLookup, RegisterCreate, Login, FindIdentity, CheckEmail,
                  CreateGoogleUser, UpsertRead, InsertIdentity, UpdateIdentity, GoesTo, Answers,
                  LogsIn, BeginRegister, BeginLogin, BeginCallback, Begin, ChangeEmail, vars
    <3> QED
      BY <3>1, <3>3, <3>4
  <2>2. CASE password[e] = "random"
    <3>1. PICK r \in Requests : InCall(r) /\ found[r] = e
      BY <2>1, <2>2 DEF StrandedOnlyByFailure
    <3>2. ASSUME NEW q \in Requests, Step(q)
          PROVE  FALSE
      <4>1. CASE q = r
        <5>1. Next /\ ~(InCall(r)' /\ found'[r] = e)
          BY <3>1, <3>2, <4>1 DEF Next
        <5>2. (\E s \in Subjects : linked'[s] = e) \/ (\E s \in Subjects : TwoEmails(s, e))
          BY <3>1, <3>2, <4>1, <5>1, AnsweredCallback
        <5> QED
          BY <2>1, <5>2
      <4> QED
        BY <3>1, <3>2, <4>1, StepFrame DEF InCall
    <3>3. CASE ~ \E q \in Requests : Step(q)
      <4>1. found' = found /\ pc'[r] = pc[r]
        BY <2>1, <3>1, <3>3 DEF Next, vars, tables, BeginRegister, BeginLogin, BeginCallback, Begin,
                                ChangeEmail, InCall, CallsInv, TypeOK
      <4> QED
        BY <3>1, <4>1 DEF InCall
    <3> QED
      BY <3>2, <3>3
  <2>3. CASE password[e] # "random"
    <3>1. PICK r \in Requests : Step(r)
      BY <2>3 DEF Next, vars, tables, Fails, BeginRegister, BeginLogin, BeginCallback, Begin, ChangeEmail
    <3> QED
      BY <2>3, <3>1, NewUserHasCallback
  <2> QED
    BY <2>2, <2>3
<1> QED
  BY <1>1, <1>2, AccountsInvHolds, PTL DEF Spec
=============================================================================
