------------------------------- MODULE Wiring -------------------------------
(***************************************************************************)
(* A process from its start to its end: the providers of cmd/app choose a  *)
(* variant for every store, the server answers, and a signal stops it.     *)
(* Around it is what outlives a process: the databases, and the tokens of  *)
(* signed-in clients, which name an account only by its id.                *)
(*                                                                         *)
(* Abstraction: a database that a provider opens or pings answers or not;  *)
(* an invalid DSN or address is one that does not.  Uploading a document   *)
(* stands for all requests that store something for a user.  Time is       *)
(* counted in ticks.  Providers that choose nothing are left out.          *)
(***************************************************************************)
EXTENDS Naturals, Sequences, SequencesExt, FiniteSets

CONSTANTS
  Settings,     \* bound: the configurations a deployment may have
  Emails,       \* people, each with an account of their own
  AccessTTL, RefreshTTL,
  MaxStarts, MaxNow, MaxDocuments,  \* bounds
  None

ASSUME TokenAssumption == AccessTTL \in Nat \ {0} /\ RefreshTTL \in Nat \ {0}
ASSUME BoundAssumption == MaxStarts \in Nat /\ MaxNow \in Nat /\ MaxDocuments \in Nat

VARIABLES
  settings,     \* [sqlite, faqDsn, faqRedis, storage, embedding, uploadDsn, memory, uploadRedis, authDsn]
  phase,        \* "down", "wiring", "serving" or "draining"
  wired,        \* the variant of every store that has its provider behind it
  sqliteOnce,   \* "unused", "open" or "failed"
  poolOnce,     \* the same for the pool of the upload repositories
  starts,
  clock,
  accounts,     \* database -> the emails of its users, by id
  documents,    \* [in, owner, by, from]
  clients,      \* the tokens a person holds, or None
  request       \* the request being served, or None

process == <<phase, wired, sqliteOnce, poolOnce, starts>>
sessions == <<accounts, documents, clients, request>>
wiringVars == <<settings, process, clock, sessions>>

-----------------------------------------------------------------------------
(* The providers, in the order of initializeApp                            *)

Order == <<"questions", "answers", "storage", "embedder", "documents", "files", "chunks",
           "sessions", "logs", "messages", "memories", "queue", "users">>
UploadRepositories == {"documents", "files", "chunks", "sessions", "logs", "messages"}

(* A variant becomes that of a store when the turn is its.                 *)
Wire(store, variant) ==
  /\ phase = "wiring" /\ Cardinality(DOMAIN wired) < Len(Order)
  /\ store = Order[Cardinality(DOMAIN wired) + 1]
  /\ wired' = [s \in DOMAIN wired \cup {store} |-> IF s = store THEN variant ELSE wired[s]]
  /\ UNCHANGED <<settings, phase, starts, clock, sessions>>

\* Faulty variant: a database that could not be opened is opened again by the next provider.
SqliteRetried ==
  IF ~settings.sqlite THEN {sqliteOnce}
  ELSE IF sqliteOnce = "open" THEN {"open"} ELSE {"open", "failed"}

(* sqliteDB: the file is opened and migrated once; what came of it holds   *)
(* for every later provider.                                               *)
sqliteDB ==
  IF ~settings.sqlite THEN {sqliteOnce}
  ELSE IF sqliteOnce = "unused" THEN {"open", "failed"} ELSE {sqliteOnce}

(* The pools of the questions and of the users, each with a ping of its    *)
(* own, and the one pool of the upload repositories.                       *)
pings(dsn) == IF dsn THEN {"postgres", "memory"} ELSE {"memory"}
uploadPostgresPool ==
  IF poolOnce # "unused" THEN {poolOnce}
  ELSE IF settings.uploadDsn THEN {"open", "failed"} ELSE {"failed"}

provideFAQRepository ==
  \E db \in sqliteDB, variant \in pings(settings.faqDsn) :
    /\ Wire("questions", IF db = "open" THEN "sqlite" ELSE variant)
    /\ sqliteOnce' = db /\ UNCHANGED poolOnce

provideFAQStore ==
  \E db \in sqliteDB, variant \in IF settings.faqRedis THEN {"valkey", "memory"} ELSE {"memory"} :
    /\ Wire("answers", IF db = "open" THEN "sqlite" ELSE variant)
    /\ sqliteOnce' = db /\ UNCHANGED poolOnce

provideUploadStorage ==
  \E variant \in IF settings.storage THEN {"r2", "memory"} ELSE {"memory"} :
    Wire("storage", variant) /\ UNCHANGED <<sqliteOnce, poolOnce>>
provideUploadEmbedder ==
  /\ Wire("embedder", IF settings.embedding THEN "chatgpt" ELSE "deterministic")
  /\ UNCHANGED <<sqliteOnce, poolOnce>>

(* The six repositories; the pool is asked for only without SQLite.        *)
provideUploadRepository(store) ==
  \E db \in sqliteDB :
    /\ sqliteOnce' = db
    /\ IF db = "open" THEN Wire(store, "sqlite") /\ UNCHANGED poolOnce
       ELSE \E pool \in uploadPostgresPool :
              /\ Wire(store, IF pool = "open" THEN "postgres" ELSE "memory")
              /\ poolOnce' = pool
provideUploadMemoryStore ==
  IF settings.memory THEN provideUploadRepository("memories")
  ELSE Wire("memories", "none") /\ UNCHANGED <<sqliteOnce, poolOnce>>

provideUploadQueue ==
  \E variant \in IF settings.uploadRedis THEN {"valkey", "immediate"} ELSE {"immediate"} :
    Wire("queue", variant) /\ UNCHANGED <<sqliteOnce, poolOnce>>

provideAuthRepository ==
  \E db \in sqliteDB, variant \in pings(settings.authDsn) :
    /\ Wire("users", IF db = "open" THEN "sqlite" ELSE variant)
    /\ sqliteOnce' = db /\ UNCHANGED poolOnce

-----------------------------------------------------------------------------
(* The life of the process *)

WiringInit ==
  /\ settings \in Settings
  /\ phase = "down" /\ wired = << >> /\ sqliteOnce = "unused" /\ poolOnce = "unused"
  /\ starts = 0 /\ clock = 0
  /\ accounts = [db \in {"sqlite", "postgres", "memory"} |-> << >>]
  /\ documents = {}
  /\ clients = [e \in Emails |-> None]
  /\ request = None

StartProcess ==
  /\ phase = "down" /\ starts < MaxStarts
  /\ phase' = "wiring" /\ starts' = starts + 1
  /\ UNCHANGED <<settings, wired, sqliteOnce, poolOnce, clock, sessions>>

Run ==
  /\ phase = "wiring" /\ Cardinality(DOMAIN wired) = Len(Order)
  /\ phase' = "serving"
  /\ UNCHANGED <<settings, wired, sqliteOnce, poolOnce, starts, clock, sessions>>

(* The signal ends ListenAndServe; the request being served goes on.       *)
Signal ==
  /\ phase = "serving"
  /\ phase' = "draining"
  /\ UNCHANGED <<settings, wired, sqliteOnce, poolOnce, starts, clock, sessions>>

(* The end of a process takes its maps, its pools and its request away.    *)
Ends ==
  /\ phase' = "down" /\ wired' = << >> /\ sqliteOnce' = "unused" /\ poolOnce' = "unused"
  /\ accounts' = [accounts EXCEPT !["memory"] = << >>]
  /\ documents' = {d \in documents : d.in # "memory"}
  /\ request' = None
  /\ UNCHANGED <<settings, starts, clock, clients>>

\* Faulty variant: the shutdown waits for the request as long as it takes.
ShutdownWaits == phase = "draining" /\ request = None /\ Ends

(* Shutdown returns when the server is idle, or after its ten seconds.     *)
Shutdown == phase = "draining" /\ Ends
Crash == phase # "down" /\ Ends

(* Nothing reads the clock during a start, so time passes while serving.   *)
Tick ==
  /\ phase = "serving"
  /\ clock < MaxNow /\ clock' = clock + 1
  /\ UNCHANGED <<settings, process, sessions>>

-----------------------------------------------------------------------------
(* Accounts and tokens *)

(* The table that numbers the accounts; in memory it begins anew with each *)
(* process.                                                                *)
Table == IF wired["users"] = "memory" THEN <<"memory", starts>> ELSE <<wired["users"], 0>>
Users == accounts[wired["users"]]

(* The pair of tokens of buildLoginResponse, signed now.                   *)
buildLoginResponse(id, table) ==
  [id |-> id, from |-> table, signed |-> clock,
   access |-> [type |-> "access", expires |-> clock + AccessTTL],
   refresh |-> [type |-> "refresh", expires |-> clock + RefreshTTL]]

parseToken(token) == clock < token.expires

\* Faulty variant: any token that was signed here gets in.
ValidateAnyToken(token) == parseToken(token)

ValidateToken(token) == parseToken(token) /\ token.type = "access"

Register(e) ==
  /\ phase = "serving" /\ ~Contains(Users, e)
  /\ accounts' = [accounts EXCEPT ![wired["users"]] = Append(@, e)]
  /\ UNCHANGED <<settings, process, clock, documents, clients, request>>

Login(e) ==
  /\ phase = "serving"
  /\ \E id \in DOMAIN Users :
       /\ Users[id] = e
       /\ clients' = [clients EXCEPT ![e] = buildLoginResponse(id, Table)]
  /\ UNCHANGED <<settings, process, clock, accounts, documents, request>>

(* Refresh signs for the account that has the id now, whoever's it is; the *)
(* person, and the table that gave the id, stay what they were.            *)
Refresh(e) ==
  /\ phase = "serving" /\ clients[e] # None
  /\ \E token \in {clients[e].access, clients[e].refresh} :
       parseToken(token) /\ token.type = "refresh"
  /\ clients[e].id \in DOMAIN Users
  /\ clients' = [clients EXCEPT ![e] = buildLoginResponse(@.id, @.from)]
  /\ UNCHANGED <<settings, process, clock, accounts, documents, request>>

(* authMiddleware lets a request of a client in, with either of the tokens *)
(* the client has; the user is the id in it, and is not looked up.         *)
Admit(e) ==
  /\ phase = "serving" /\ request = None /\ clients[e] # None
  /\ \E token \in {clients[e].access, clients[e].refresh} : ValidateToken(token)
  /\ request' = [by |-> e, id |-> clients[e].id, from |-> clients[e].from]
  /\ UNCHANGED <<settings, process, clock, accounts, documents, clients>>

Upload ==
  /\ phase \in {"serving", "draining"} /\ request # None
  /\ Cardinality(documents) < MaxDocuments
  /\ documents' = documents \cup {[in |-> wired["documents"], owner |-> request.id,
                                   by |-> request.by, from |-> request.from]}
  /\ request' = None
  /\ UNCHANGED <<settings, process, clock, accounts, clients>>

\* Faulty variant: the user is not part of the query.
ListAll(client) == {d \in documents : d.in = wired["documents"]}

(* What a client is shown.                                                 *)
ListDocuments(client) ==
  {d \in documents : d.in = wired["documents"] /\ d.owner = client.id}

-----------------------------------------------------------------------------
WiringNext ==
  \/ StartProcess \/ Run \/ Signal \/ Shutdown \/ Crash \/ Tick
  \/ provideFAQRepository \/ provideFAQStore \/ provideUploadStorage \/ provideUploadEmbedder
  \/ \E store \in UploadRepositories : provideUploadRepository(store)
  \/ provideUploadMemoryStore \/ provideUploadQueue \/ provideAuthRepository
  \/ \E e \in Emails : Register(e) \/ Login(e) \/ Refresh(e) \/ Admit(e)
  \/ Upload

(* The context of Shutdown has a deadline; nothing else must happen, a     *)
(* request may hang for good.                                              *)
Fairness == WF_wiringVars(Shutdown)

WiringSpec == WiringInit /\ [][WiringNext]_wiringVars /\ Fairness

-----------------------------------------------------------------------------
(* The tables that refer to one another are in one database: SQLite serves *)
(* all of a process's stores or none of them, and the upload repositories, *)
(* whose rows name each other's ids, are all of one variant, however the   *)
(* databases come and go during the start.                                 *)
OneDatabase ==
  LET variants == {wired[s] : s \in DOMAIN wired \cap (UploadRepositories \cup {"memories"})}
      stores == DOMAIN wired \cap (UploadRepositories \cup {"questions", "answers", "users"})
  IN  /\ Cardinality(variants \ {"none"}) <= 1
      /\ (\E s \in stores : wired[s] = "sqlite") => \A s \in stores : wired[s] = "sqlite"

(* A signed-in person is shown only documents of their own, over restarts, *)
(* refreshed tokens and a failing database.  The one exception is the code *)
(* letting each store fall back to memory for itself: two tables of users  *)
(* give out the same ids, so a document may be shown to a person whose id  *)
(* is from another table than that of the one who stored it.               *)
OwnDocuments ==
  phase \in {"serving", "draining"} =>
    \A e \in Emails :
      clients[e] # None =>
        \A d \in ListDocuments(clients[e]) : d.by = e \/ d.from # clients[e].from

(* A request is let in only within the lifetime of an access token since   *)
(* its sender signed in or refreshed; the refresh token does not open the  *)
(* API in its longer life.                                                 *)
RequestsAreFresh ==
  [][request = None /\ request' # None =>
       clock < clients[request'.by].signed + AccessTTL]_wiringVars

(* A process that got its signal ends, whatever its requests do.           *)
SignalStops == phase = "draining" ~> phase = "down"
=============================================================================
