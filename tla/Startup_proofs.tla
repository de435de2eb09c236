--------------------------- MODULE Startup_proofs ---------------------------
(***************************************************************************)
(* Proofs about the start of the program: the configuration, for any file  *)
(* and any environment; the migrations of the SQLite file, for any files   *)
(* that an older version left and any number of starts, interruptions,     *)
(* questions and answers; and the wiring, for any deployment, any people,  *)
(* lives of the tokens and number of processes and documents.              *)
(***************************************************************************)
EXTENDS Wiring, Configuration, SqliteMigrations, FiniteSetTheorems, WellFoundedInduction, TLAPS

-----------------------------------------------------------------------------
(* The steps of a start, of the process and of its clients *)

\* The providers choose a variant of one store; nothing else of a process changes.
Provides ==
  \/ provideFAQRepository \/ provideFAQStore \/ provideUploadStorage \/ provideUploadEmbedder
  \/ \E store \in UploadRepositories : provideUploadRepository(store)
  \/ provideUploadMemoryStore \/ provideUploadQueue \/ provideAuthRepository
Lives == StartProcess \/ Run \/ Signal \/ Shutdown \/ Crash \/ Tick
Serves(e) == Register(e) \/ Login(e) \/ Refresh(e) \/ Admit(e)

\* Every step is one of these.
LEMMA NextSteps ==
  ASSUME WiringNext
  PROVE  Provides \/ Lives \/ (\E e \in Emails : Serves(e)) \/ Upload
  BY DEF WiringNext, Provides, Lives, Serves

\* A provider leaves the clients and the databases alone.
LEMMA ProvidesWires ==
  ASSUME Provides
  PROVE  /\ UNCHANGED <<settings, phase, starts, clock, sessions>>
         /\ phase = "wiring"
         /\ \E s : /\ s = Order[Cardinality(DOMAIN wired) + 1]
                   /\ DOMAIN wired' = DOMAIN wired \cup {s}
                   /\ Cardinality(DOMAIN wired) < Len(Order)
  BY DEF Provides, provideFAQRepository, provideFAQStore, provideUploadStorage, provideUploadEmbedder,
         provideUploadRepository, provideUploadMemoryStore, provideUploadQueue, provideAuthRepository, Wire

-----------------------------------------------------------------------------
(* Tokens *)

\* A client holds a pair of tokens as buildLoginResponse signed it.
TokensInv ==
  /\ DOMAIN clients = Emails
  /\ \A e \in Emails :
       clients[e] # None =>
         /\ clients[e].access = [type |-> "access", expires |-> clients[e].signed + AccessTTL]
         /\ clients[e].refresh.type = "refresh"

LEMMA TokensInitially == WiringInit => TokensInv
  BY DEF WiringInit, TokensInv

\* Only a sign-in and a refresh give out tokens.
LEMMA TokensKept ==
  ASSUME TokensInv, [WiringNext]_wiringVars
  PROVE  TokensInv'
<1>1. CASE UNCHANGED clients
  BY <1>1 DEF TokensInv
<1>2. CASE \E e \in Emails : Login(e) \/ Refresh(e)
  <2>1. PICK e \in Emails : Login(e) \/ Refresh(e)
    BY <1>2
  <2>2. PICK id, table : clients' = [clients EXCEPT ![e] = buildLoginResponse(id, table)]
    BY <2>1 DEF Login, Refresh
  <2> QED
    BY <2>2 DEF TokensInv, buildLoginResponse
<1>3. UNCHANGED clients \/ \E e \in Emails : Login(e) \/ Refresh(e)
  BY DEF WiringNext, wiringVars, sessions, process, provideFAQRepository, provideFAQStore,
         provideUploadStorage, provideUploadEmbedder, provideUploadRepository,
         provideUploadMemoryStore, provideUploadQueue, provideAuthRepository, Wire, StartProcess, Run,
         Signal, Ends, Shutdown, Crash, Tick, Register, Admit, Upload
<1> QED
  BY <1>1, <1>2, <1>3

\* The step that lets a request in checks the token that gets it in.
LEMMA AdmitIsFresh ==
  ASSUME TokensInv, NEW e \in Emails, Admit(e)
  PROVE  request'.by = e /\ clock < clients[e].signed + AccessTTL
<1>1. PICK token \in {clients[e].access, clients[e].refresh} : ValidateToken(token)
  BY DEF Admit
<1>2. clients[e] # None
  BY DEF Admit
<1>3. token = clients[e].access
  BY <1>1, <1>2 DEF TokensInv, ValidateToken
<1>4. clock < clients[e].access.expires
  BY <1>1, <1>3 DEF ValidateToken, parseToken
<1>5. clients[e].access = [type |-> "access", expires |-> clients[e].signed + AccessTTL]
  BY <1>2 DEF TokensInv
<1>6. clients[e].access.expires = clients[e].signed + AccessTTL
  BY <1>5
<1>7. request'.by = e
  BY DEF Admit
<1> QED
  BY <1>4, <1>6, <1>7

\* A request is let in only within the life of an access token, whatever is
\* refreshed, stopped and started between (service.ValidateToken, authMiddleware).
THEOREM RequestsAreFreshHolds == WiringSpec => RequestsAreFresh
<1>1. ASSUME TokensInv, [WiringNext]_wiringVars, request = None, request' # None
      PROVE  clock < clients[request'.by].signed + AccessTTL
  <2>1. PICK e \in Emails : Admit(e)
    BY <1>1 DEF WiringNext, wiringVars, sessions, process, provideFAQRepository, provideFAQStore,
         provideUploadStorage, provideUploadEmbedder, provideUploadRepository,
         provideUploadMemoryStore, provideUploadQueue, provideAuthRepository, Wire, StartProcess, Run,
         Signal, Ends, Shutdown, Crash, Tick, Register, Login, Refresh, Upload
  <2> QED
    BY <1>1, <2>1, AdmitIsFresh
<1>2. TokensInv /\ [WiringNext]_wiringVars =>
        [request = None /\ request' # None =>
           clock < clients[request'.by].signed + AccessTTL]_wiringVars
  BY <1>1
<1> QED
  BY <1>2, TokensInitially, TokensKept, PTL DEF WiringSpec, RequestsAreFresh

-----------------------------------------------------------------------------
(* Stores *)

Databases == {"sqlite", "postgres", "memory"}

\* The providers have had their turns in order, and the users are in a database.
WiredInv ==
  /\ starts \in Nat /\ accounts \in [Databases -> Seq(Emails)]
  /\ IsFiniteSet(DOMAIN wired)
  /\ DOMAIN wired = {Order[i] : i \in 1..Cardinality(DOMAIN wired)}
  /\ "users" \in DOMAIN wired => wired["users"] \in Databases
  /\ phase \in {"serving", "draining"} => "users" \in DOMAIN wired

LEMMA WiredInitially == WiringInit => WiredInv
<1> SUFFICES ASSUME WiringInit PROVE WiredInv
  OBVIOUS
<1>1. DOMAIN wired = {} /\ IsFiniteSet({}) /\ Cardinality({}) = 0
  BY FS_EmptySet DEF WiringInit
<1>2. accounts \in [Databases -> Seq(Emails)]
  BY DEF WiringInit, Databases
<1> QED
  BY <1>1, <1>2 DEF WiringInit, WiredInv

\* A turn of a provider extends the order by one store.
LEMMA ProvidesInOrder ==
  ASSUME WiredInv, Provides
  PROVE  WiredInv'
<1> DEFINE S == DOMAIN wired
           n == Cardinality(S)
<1>1. IsFiniteSet(S) /\ n \in Nat
  BY FS_CardinalityType DEF WiredInv
<1>2. UNCHANGED <<settings, phase, starts, clock, sessions>> /\ phase = "wiring"
  BY ProvidesWires
<1>3. PICK s : s = Order[n + 1] /\ DOMAIN wired' = S \cup {s}
  BY ProvidesWires
<1>4. /\ IsFiniteSet(S \cup {s})
      /\ Cardinality(S \cup {s}) = IF s \in S THEN n ELSE n + 1
  BY <1>1, FS_AddElement
<1>5. DOMAIN wired' = {Order[i] : i \in 1..Cardinality(DOMAIN wired')}
  <2>0. S = {Order[i] : i \in 1..n}
    BY DEF WiredInv
  <2>1. CASE s \in S
    <3>1. DOMAIN wired' = S /\ Cardinality(DOMAIN wired') = n
      BY <1>3, <2>1
    <3> QED
      BY <2>0, <3>1
  <2>2. CASE s \notin S
    <3>1. 1..(n + 1) = 1..n \cup {n + 1}
      BY <1>1
    <3>2. {Order[i] : i \in 1..(n + 1)} = {Order[i] : i \in 1..n} \cup {Order[n + 1]}
      BY <3>1
    <3>3. Cardinality(DOMAIN wired') = n + 1
      BY <1>3, <1>4, <2>2
    <3> QED
      BY <1>3, <2>0, <3>2, <3>3
  <2> QED
    BY <2>1, <2>2
<1>6. "users" \in DOMAIN wired' => wired'["users"] \in Databases
  BY DEF WiredInv, Databases, Provides, provideFAQRepository, provideFAQStore, provideUploadStorage,
         provideUploadEmbedder, provideUploadRepository, provideUploadMemoryStore, provideUploadQueue,
         provideAuthRepository, Wire, UploadRepositories, pings
<1> QED
  BY <1>2, <1>3, <1>4, <1>5, <1>6 DEF WiredInv, sessions

LEMMA LivesKeepsWired ==
  ASSUME WiredInv, Lives
  PROVE  WiredInv'
<1>1. CASE StartProcess
  BY <1>1 DEF StartProcess, WiredInv, sessions
<1>2. CASE Run
  <2>1. "users" \in DOMAIN wired
    BY <1>2 DEF Run, WiredInv, Order
  <2> QED
    BY <1>2, <2>1 DEF Run, WiredInv, sessions
<1>3. CASE Signal \/ Tick
  BY <1>3 DEF Signal, Tick, WiredInv, sessions, process
<1>4. CASE Shutdown \/ Crash
  <2>1. Ends
    BY <1>4 DEF Shutdown, Crash
  <2>2. DOMAIN wired' = {} /\ IsFiniteSet({}) /\ Cardinality({}) = 0
    BY <2>1, FS_EmptySet DEF Ends
  <2>3. accounts' \in [Databases -> Seq(Emails)]
    BY <2>1 DEF Ends, WiredInv, Databases
  <2>4. phase' = "down" /\ starts' = starts
    BY <2>1 DEF Ends
  <2> QED
    BY <2>2, <2>3, <2>4 DEF WiredInv
<1> QED
  BY <1>1, <1>2, <1>3, <1>4 DEF Lives

LEMMA ServesKeepsWired ==
  ASSUME WiredInv, NEW e \in Emails, Serves(e)
  PROVE  WiredInv'
<1>1. CASE Register(e)
  <2>1. wired["users"] \in Databases
    BY <1>1 DEF Register, WiredInv
  <2>2. accounts[wired["users"]] \in Seq(Emails)
    BY <2>1 DEF WiredInv
  <2>3. accounts' \in [Databases -> Seq(Emails)]
    BY <1>1, <2>1, <2>2 DEF Register, WiredInv
  <2> QED
    BY <1>1, <2>3 DEF Register, WiredInv, process
<1>2. CASE Login(e) \/ Refresh(e) \/ Admit(e)
  BY <1>2 DEF Login, Refresh, Admit, WiredInv, process
<1> QED
  BY <1>1, <1>2 DEF Serves

LEMMA WiredKept ==
  ASSUME WiredInv, [WiringNext]_wiringVars
  PROVE  WiredInv'
<1>1. CASE WiringNext
  <2>1. CASE Upload
    BY <2>1 DEF Upload, WiredInv, process
  <2> QED
    BY <1>1, <2>1, NextSteps, ProvidesInOrder, LivesKeepsWired, ServesKeepsWired
<1>2. CASE UNCHANGED wiringVars
  BY <1>2 DEF wiringVars, process, sessions, WiredInv
<1> QED
  BY <1>1, <1>2

-----------------------------------------------------------------------------
(* Ids *)

\* Person p goes by id of table t: in their tokens, in a request that was let
\* in, or in a document it stored.
Names(p, id, t) ==
  \/ p \in Emails /\ clients[p] # None /\ clients[p].id = id /\ clients[p].from = t
  \/ request # None /\ request.by = p /\ request.id = id /\ request.from = t
  \/ \E d \in documents : d.by = p /\ d.owner = id /\ d.from = t

\* The table t, if it is still there, has p under id.
Rooted(p, id, t) ==
  \/ \E db \in {"sqlite", "postgres"} :
       t = <<db, 0>> /\ id \in DOMAIN accounts[db] /\ accounts[db][id] = p
  \/ \E n \in Nat :
       /\ t = <<"memory", n>> /\ n <= starts
       /\ n = starts /\ phase # "down" =>
            id \in DOMAIN accounts["memory"] /\ accounts["memory"][id] = p

RootedInv == \A p, id, t : Names(p, id, t) => Rooted(p, id, t)
\* An id of a table is that of one person, also when the table is gone.
NamesInv == \A p, q, id, t : Names(p, id, t) /\ Names(q, id, t) => p = q

\* What a table says is never changed while it is there.
LEMMA RootsStay ==
  ASSUME WiredInv, [WiringNext]_wiringVars, NEW p, NEW id, NEW t, Rooted(p, id, t)
  PROVE  Rooted(p, id, t)'
<1>1. CASE UNCHANGED <<accounts, starts, phase>>
  BY <1>1 DEF Rooted
<1>2. CASE Provides
  <2>1. UNCHANGED <<accounts, starts, phase>>
    BY <1>2, ProvidesWires DEF sessions
  <2> QED
    BY <1>1, <2>1
<1>3. CASE Lives
  <2>1. CASE StartProcess
    <3>1. UNCHANGED accounts /\ starts' = starts + 1 /\ starts \in Nat
      BY <2>1 DEF StartProcess, sessions, WiredInv
    <3> QED
      BY <3>1 DEF Rooted
  <2>2. CASE Run \/ Signal
    <3>1. UNCHANGED <<accounts, starts>> /\ phase # "down"
      BY <2>2 DEF Run, Signal, sessions
    <3> QED
      BY <3>1 DEF Rooted
  <2>3. CASE Shutdown \/ Crash
    <3>1. Ends
      BY <2>3 DEF Shutdown, Crash
    <3>2. /\ UNCHANGED starts /\ phase' = "down"
          /\ \A db \in {"sqlite", "postgres"} : accounts'[db] = accounts[db]
      BY <3>1 DEF Ends, WiredInv, Databases
    <3> QED
      BY <3>2 DEF Rooted
  <2>4. CASE Tick
    BY <1>1, <2>4 DEF Tick, sessions, process
  <2> QED
    BY <1>3, <2>1, <2>2, <2>3, <2>4 DEF Lives
<1>4. ASSUME NEW e \in Emails, Serves(e)
      PROVE  Rooted(p, id, t)'
  <2>1. CASE Register(e)
    <3>1. wired["users"] \in Databases /\ UNCHANGED <<starts, phase>>
      BY <2>1 DEF Register, WiredInv, process
    <3>2. accounts' = [accounts EXCEPT ![wired["users"]] = Append(@, e)]
      BY <2>1 DEF Register
    <3>3. \A db \in Databases :
            id \in DOMAIN accounts[db] =>
              id \in DOMAIN accounts'[db] /\ accounts'[db][id] = accounts[db][id]
      <4> SUFFICES ASSUME NEW db \in Databases, id \in DOMAIN accounts[db]
                   PROVE  id \in DOMAIN accounts'[db] /\ accounts'[db][id] = accounts[db][id]
        OBVIOUS
      <4>1. accounts[db] \in Seq(Emails)
        BY DEF WiredInv
      <4>2. accounts'[db] = accounts[db] \/ accounts'[db] = Append(accounts[db], e)
        BY <3>1, <3>2 DEF WiredInv
      <4> QED
        BY <4>1, <4>2
    <3> QED
      BY <3>1, <3>3 DEF Rooted, Databases
  <2>2. CASE Login(e) \/ Refresh(e) \/ Admit(e)
    BY <1>1, <2>2 DEF Login, Refresh, Admit, process
  <2> QED
    BY <1>4, <2>1, <2>2 DEF Serves
<1>5. CASE Upload
  BY <1>1, <1>5 DEF Upload, process
<1>6. CASE UNCHANGED wiringVars
  BY <1>1, <1>6 DEF wiringVars, process, sessions
<1> QED
  BY <1>2, <1>3, <1>4, <1>5, <1>6, NextSteps

\* The table in use, as it is while a process serves.
LEMMA TableIsRooted ==
  ASSUME WiredInv, phase = "serving", NEW p, NEW id
  PROVE  Rooted(p, id, Table) <=> id \in DOMAIN Users /\ Users[id] = p
<1>1. wired["users"] \in Databases /\ starts \in Nat
  BY DEF WiredInv
<1>2. CASE wired["users"] = "memory"
  <2>1. Table = <<"memory", starts>> /\ Users = accounts["memory"]
    BY <1>2 DEF Table, Users
  <2> QED
    BY <1>1, <2>1 DEF Rooted
<1>3. CASE wired["users"] # "memory"
  <2>1. Table = <<wired["users"], 0>> /\ Users = accounts[wired["users"]]
    BY <1>3 DEF Table, Users
  <2>2. wired["users"] \in {"sqlite", "postgres"}
    BY <1>1, <1>3 DEF Databases
  <2> QED
    BY <2>1, <2>2 DEF Rooted
<1> QED
  BY <1>2, <1>3

\* Only a sign-in gives a person an id they did not have, from the table in use.
LEMMA NamesStep ==
  ASSUME TokensInv, [WiringNext]_wiringVars, NEW p, NEW id, NEW t, Names(p, id, t)'
  PROVE  \/ Names(p, id, t)
         \/ phase = "serving" /\ t = Table /\ id \in DOMAIN Users /\ Users[id] = p
<1>1. CASE UNCHANGED <<clients, request, documents>>
  BY <1>1 DEF Names
<1>2. CASE Lives
  <2>1. CASE Shutdown \/ Crash
    <3>1. UNCHANGED clients /\ request' = None /\ documents' \subseteq documents
      BY <2>1 DEF Shutdown, Crash, Ends
    <3> QED
      BY <3>1 DEF Names
  <2> QED
    BY <1>1, <1>2, <2>1 DEF Lives, StartProcess, Run, Signal, Tick, sessions
<1>3. ASSUME NEW e \in Emails, Serves(e)
      PROVE  \/ Names(p, id, t)
             \/ phase = "serving" /\ t = Table /\ id \in DOMAIN Users /\ Users[id] = p
  <2>1. CASE Login(e)
    <3>1. PICK i \in DOMAIN Users :
            Users[i] = e /\ clients' = [clients EXCEPT ![e] = buildLoginResponse(i, Table)]
      BY <2>1 DEF Login
    <3>2. phase = "serving" /\ UNCHANGED <<documents, request>>
      BY <2>1 DEF Login
    <3>3. \A q \in Emails \ {e} : clients'[q] = clients[q]
      BY <3>1 DEF TokensInv
    <3>4. clients'[e].id = i /\ clients'[e].from = Table
      BY <3>1 DEF TokensInv, buildLoginResponse
    <3> QED
      BY <3>1, <3>2, <3>3, <3>4 DEF Names
  <2>2. CASE Refresh(e)
    <3>1. /\ clients[e] # None /\ UNCHANGED <<documents, request>>
          /\ clients' = [clients EXCEPT ![e] = buildLoginResponse(clients[e].id, clients[e].from)]
      BY <2>2 DEF Refresh
    <3>2. \A q \in Emails \ {e} : clients'[q] = clients[q]
      BY <3>1 DEF TokensInv
    <3>3. clients'[e].id = clients[e].id /\ clients'[e].from = clients[e].from
      BY <3>1 DEF TokensInv, buildLoginResponse
    <3> QED
      BY <3>1, <3>2, <3>3 DEF Names
  <2>3. CASE Admit(e)
    <3>1. /\ clients[e] # None /\ UNCHANGED <<documents, clients>>
          /\ request' = [by |-> e, id |-> clients[e].id, from |-> clients[e].from]
      BY <2>3 DEF Admit
    <3> QED
      BY <3>1 DEF Names
  <2>4. CASE Register(e)
    BY <1>1, <2>4 DEF Register
  <2> QED
    BY <1>3, <2>1, <2>2, <2>3, <2>4 DEF Serves
<1>4. CASE Upload
  <2>1. /\ request # None /\ UNCHANGED clients /\ request' = None
        /\ documents' = documents \cup {[in |-> wired["documents"], owner |-> request.id,
                                          by |-> request.by, from |-> request.from]}
    BY <1>4 DEF Upload
  <2> QED
    BY <2>1 DEF Names
<1>5. CASE Provides
  <2>1. UNCHANGED sessions
    BY <1>5, ProvidesWires
  <2> QED
    BY <1>1, <2>1 DEF sessions
<1>6. CASE UNCHANGED wiringVars
  BY <1>1, <1>6 DEF wiringVars, sessions
<1> QED
  BY <1>2, <1>3, <1>4, <1>5, <1>6, NextSteps

LEMMA NamesInitially == WiringInit => RootedInv /\ NamesInv
  BY DEF WiringInit, RootedInv, NamesInv, Names

LEMMA NamesKept ==
  ASSUME TokensInv, WiredInv, RootedInv, NamesInv, [WiringNext]_wiringVars
  PROVE  RootedInv' /\ NamesInv'
<1> DEFINE FromTable(p, id, t) ==
             phase = "serving" /\ t = Table /\ id \in DOMAIN Users /\ Users[id] = p
<1>1. \A p, id, t : Names(p, id, t)' => Names(p, id, t) \/ FromTable(p, id, t)
  BY NamesStep
<1>2. \A p, id, t : Names(p, id, t) \/ FromTable(p, id, t) => Rooted(p, id, t)
  BY TableIsRooted DEF RootedInv
<1>3. RootedInv'
  <2> SUFFICES ASSUME NEW p, NEW id, NEW t, Names(p, id, t)'
               PROVE  Rooted(p, id, t)'
    BY DEF RootedInv
  <2> QED
    BY <1>1, <1>2, RootsStay
<1>4. NamesInv'
  <2> SUFFICES ASSUME NEW p, NEW q, NEW id, NEW t, Names(p, id, t)', Names(q, id, t)'
               PROVE  p = q
    BY DEF NamesInv
  <2>1. CASE Names(p, id, t) /\ Names(q, id, t)
    BY <2>1 DEF NamesInv
  <2>2. CASE FromTable(p, id, t) \/ FromTable(q, id, t)
    <3>1. phase = "serving" /\ t = Table
      BY <2>2
    <3>2. Rooted(p, id, Table) /\ Rooted(q, id, Table)
      BY <1>1, <1>2, <3>1
    <3> QED
      BY <3>1, <3>2, TableIsRooted
  <2> QED
    BY <1>1, <2>1, <2>2
<1> QED
  BY <1>3, <1>4

\* Whatever restarts, refreshed tokens and falls back to memory, a person is shown
\* a document of another only across two tables of users (List, authMiddleware).
THEOREM OwnDocumentsHolds == WiringSpec => []OwnDocuments
<1>1. NamesInv => OwnDocuments
  <2> SUFFICES ASSUME NamesInv, NEW e \in Emails, clients[e] # None,
                      NEW d \in ListDocuments(clients[e]), d.from = clients[e].from
               PROVE  d.by = e
    BY DEF OwnDocuments
  <2>1. d \in documents /\ d.owner = clients[e].id
    BY DEF ListDocuments
  <2>2. Names(e, clients[e].id, clients[e].from) /\ Names(d.by, clients[e].id, clients[e].from)
    BY <2>1 DEF Names
  <2> QED
    BY <2>2 DEF NamesInv
<1> QED
  BY <1>1, TokensInitially, TokensKept, WiredInitially, WiredKept, NamesInitially, NamesKept,
     PTL DEF WiringSpec

-----------------------------------------------------------------------------
(* Variants *)

RelatedStores == UploadRepositories \cup {"questions", "answers", "users", "memories"}
\* The variant of the upload repositories, once one of them has its provider behind it.
RepositoryVariant ==
  IF sqliteOnce = "open" THEN "sqlite" ELSE IF poolOnce = "open" THEN "postgres" ELSE "memory"

\* What came of the file and of the pool decides every store that asked for them.
WiredAs(s) ==
  \/ s = "memories" /\ wired[s] = "none"
  \/ /\ wired[s] = "sqlite" <=> sqliteOnce = "open"
     /\ settings.sqlite => sqliteOnce # "unused"
     /\ s \in UploadRepositories \cup {"memories"} =>
          wired[s] = RepositoryVariant /\ (sqliteOnce = "open" \/ poolOnce # "unused")
VariantsInv ==
  /\ sqliteOnce \in {"unused", "open", "failed"} /\ poolOnce \in {"unused", "open", "failed"}
  /\ \A s \in DOMAIN wired \cap RelatedStores : WiredAs(s)

LEMMA VariantsInitially == WiringInit => VariantsInv
  BY DEF WiringInit, VariantsInv

\* A provider that asks for neither of the two, and one that does.
Unrelated(store, variant) ==
  /\ UNCHANGED <<sqliteOnce, poolOnce>>
  /\ store \in RelatedStores => store = "memories" /\ variant = "none"
Related(store, variant) ==
  /\ sqliteOnce' \in sqliteDB
  /\ variant = "sqlite" <=> sqliteOnce' = "open"
  /\ \/ /\ store \notin UploadRepositories \cup {"memories"}
        /\ poolOnce' = poolOnce
     \/ /\ sqliteOnce' = "open"
        /\ poolOnce' = poolOnce
     \/ /\ sqliteOnce' # "open"
        /\ poolOnce' \in uploadPostgresPool
        /\ variant = IF poolOnce' = "open" THEN "postgres" ELSE "memory"
Chooses(store, variant) ==
  /\ wired' = [s \in DOMAIN wired \cup {store} |-> IF s = store THEN variant ELSE wired[s]]
  /\ Unrelated(store, variant) \/ Related(store, variant)

LEMMA RepositoryChooses ==
  ASSUME NEW store, provideUploadRepository(store)
  PROVE  \E variant : Chooses(store, variant)
<1>1. PICK db \in sqliteDB :
        /\ sqliteOnce' = db
        /\ IF db = "open" THEN Wire(store, "sqlite") /\ UNCHANGED poolOnce
           ELSE \E pool \in uploadPostgresPool :
                  /\ Wire(store, IF pool = "open" THEN "postgres" ELSE "memory")
                  /\ poolOnce' = pool
  BY DEF provideUploadRepository
<1>2. CASE db = "open"
  <2>1. Chooses(store, "sqlite")
    BY <1>1, <1>2 DEF Chooses, Related, Wire
  <2> QED
    BY <2>1
<1>3. CASE db # "open"
  <2>1. PICK pool \in uploadPostgresPool :
          /\ Wire(store, IF pool = "open" THEN "postgres" ELSE "memory")
          /\ poolOnce' = pool
    BY <1>1, <1>3
  <2>2. Chooses(store, IF pool = "open" THEN "postgres" ELSE "memory")
    BY <1>1, <1>3, <2>1 DEF Chooses, Related, Wire
  <2> QED
    BY <2>2
<1> QED
  BY <1>2, <1>3

\* The questions, the answers and the users fall back for themselves.
LEMMA StandaloneChooses ==
  ASSUME NEW store \in {"questions", "answers", "users"}, NEW db \in sqliteDB,
         NEW fallback \in {"postgres", "valkey", "memory"},
         Wire(store, IF db = "open" THEN "sqlite" ELSE fallback),
         sqliteOnce' = db, poolOnce' = poolOnce
  PROVE  Chooses(store, IF db = "open" THEN "sqlite" ELSE fallback)
<1>1. store \notin UploadRepositories \cup {"memories"}
  BY DEF UploadRepositories
<1>2. wired' = [s \in DOMAIN wired \cup {store} |->
                  IF s = store THEN IF db = "open" THEN "sqlite" ELSE fallback ELSE wired[s]]
  BY DEF Wire
<1>3. (IF db = "open" THEN "sqlite" ELSE fallback) = "sqlite" <=> sqliteOnce' = "open"
  OBVIOUS
<1>4. Related(store, IF db = "open" THEN "sqlite" ELSE fallback)
  BY <1>1, <1>3 DEF Related
<1> QED
  BY <1>2, <1>4 DEF Chooses

LEMMA ProvidesChooses ==
  ASSUME Provides
  PROVE  \E store, variant : Chooses(store, variant)
<1>1. CASE provideFAQRepository
  <2>1. PICK db \in sqliteDB, fallback \in {"postgres", "memory"} :
          /\ Wire("questions", IF db = "open" THEN "sqlite" ELSE fallback)
          /\ sqliteOnce' = db /\ poolOnce' = poolOnce
    BY <1>1 DEF provideFAQRepository, pings
  <2> QED
    BY <2>1, StandaloneChooses
<1>2. CASE provideFAQStore
  <2>1. PICK db \in sqliteDB, fallback \in {"valkey", "memory"} :
          /\ Wire("answers", IF db = "open" THEN "sqlite" ELSE fallback)
          /\ sqliteOnce' = db /\ poolOnce' = poolOnce
    BY <1>2 DEF provideFAQStore
  <2> QED
    BY <2>1, StandaloneChooses
<1>3. CASE provideAuthRepository
  <2>1. PICK db \in sqliteDB, fallback \in {"postgres", "memory"} :
          /\ Wire("users", IF db = "open" THEN "sqlite" ELSE fallback)
          /\ sqliteOnce' = db /\ poolOnce' = poolOnce
    BY <1>3 DEF provideAuthRepository, pings
  <2> QED
    BY <2>1, StandaloneChooses
<1>4. CASE provideUploadStorage \/ provideUploadEmbedder \/ provideUploadQueue
  <2>1. PICK store, variant :
          /\ store \in {"storage", "embedder", "queue"}
          /\ Wire(store, variant) /\ UNCHANGED <<sqliteOnce, poolOnce>>
    BY <1>4 DEF provideUploadStorage, provideUploadEmbedder, provideUploadQueue
  <2>2. Unrelated(store, variant)
    BY <2>1 DEF Unrelated, RelatedStores, UploadRepositories
  <2> QED
    BY <2>1, <2>2 DEF Chooses, Wire
<1>5. CASE provideUploadMemoryStore
  <2>1. CASE provideUploadRepository("memories")
    BY <2>1, RepositoryChooses
  <2>2. CASE Wire("memories", "none") /\ UNCHANGED <<sqliteOnce, poolOnce>>
    <3>1. Chooses("memories", "none")
      BY <2>2 DEF Chooses, Unrelated, Wire
    <3> QED
      BY <3>1
  <2> QED
    BY <1>5, <2>1, <2>2 DEF provideUploadMemoryStore
<1>6. CASE \E store \in UploadRepositories : provideUploadRepository(store)
  BY <1>6, RepositoryChooses
<1> QED
  BY <1>1, <1>2, <1>3, <1>4, <1>5, <1>6 DEF Provides

LEMMA VariantsProvided ==
  ASSUME VariantsInv, Provides
  PROVE  VariantsInv'
<1>1. PICK store, variant : Chooses(store, variant)
  BY ProvidesChooses
<1>2. UNCHANGED settings
  BY ProvidesWires
<1>3. /\ DOMAIN wired' = DOMAIN wired \cup {store}
      /\ wired'[store] = variant
      /\ \A s \in DOMAIN wired \ {store} : wired'[s] = wired[s]
  BY <1>1 DEF Chooses
<1>4. CASE Unrelated(store, variant)
  BY <1>2, <1>3, <1>4 DEF Unrelated, VariantsInv, WiredAs, RepositoryVariant
<1>5. CASE Related(store, variant)
  <2>1. /\ sqliteOnce' \in {"unused", "open", "failed"}
        /\ sqliteOnce # "unused" \/ ~settings.sqlite => sqliteOnce' = sqliteOnce
        /\ settings.sqlite => sqliteOnce' # "unused"
    BY <1>5 DEF Related, sqliteDB, VariantsInv
  <2>2. /\ poolOnce' \in {"unused", "open", "failed"}
        /\ poolOnce # "unused" => poolOnce' = poolOnce
    BY <1>5 DEF Related, uploadPostgresPool, VariantsInv
  <2>3. WiredAs(store)'
    <3>1. poolOnce' \in uploadPostgresPool => poolOnce' # "unused"
      BY DEF uploadPostgresPool
    <3> QED
      BY <1>2, <1>3, <1>5, <2>1, <3>1 DEF Related, WiredAs, RepositoryVariant
  <2>4. ASSUME NEW s \in DOMAIN wired \cap RelatedStores, s # store
        PROVE  WiredAs(s)'
    <3>1. WiredAs(s) /\ wired'[s] = wired[s]
      BY <1>3, <2>4 DEF VariantsInv
    <3>2. CASE s = "memories" /\ wired[s] = "none"
      BY <3>1, <3>2 DEF WiredAs
    <3>3. CASE ~(s = "memories" /\ wired[s] = "none")
      <4>1. sqliteOnce' = sqliteOnce
        BY <2>1, <3>1, <3>3 DEF WiredAs
      <4>2. s \in UploadRepositories \cup {"memories"} => poolOnce' = poolOnce
        BY <1>5, <2>2, <3>1, <3>3, <4>1 DEF WiredAs, Related
      <4> QED
        BY <1>2, <3>1, <3>3, <4>1, <4>2 DEF WiredAs, RepositoryVariant
    <3> QED
      BY <3>2, <3>3
  <2>5. \A s \in DOMAIN wired' \cap RelatedStores : WiredAs(s)'
    BY <1>3, <2>3, <2>4
  <2> QED
    BY <2>1, <2>2, <2>5 DEF VariantsInv
<1> QED
  BY <1>1, <1>4, <1>5 DEF Chooses

LEMMA VariantsKept ==
  ASSUME VariantsInv, [WiringNext]_wiringVars
  PROVE  VariantsInv'
<1>1. CASE UNCHANGED <<settings, wired, sqliteOnce, poolOnce>>
  BY <1>1 DEF VariantsInv, WiredAs, RepositoryVariant
<1>2. CASE Lives
  <2>1. CASE Shutdown \/ Crash
    BY <2>1 DEF Shutdown, Crash, Ends, VariantsInv
  <2> QED
    BY <1>1, <1>2, <2>1 DEF Lives, StartProcess, Run, Signal, Tick, process
<1>3. CASE (\E e \in Emails : Serves(e)) \/ Upload \/ UNCHANGED wiringVars
  BY <1>1, <1>3 DEF Serves, Register, Login, Refresh, Admit, Upload, wiringVars, process
<1> QED
  BY <1>2, <1>3, NextSteps, VariantsProvided

\* Tables whose rows name each other's ids are in one database, whichever of the
\* databases fail at whichever provider (sqliteDB, uploadPostgresPool).
THEOREM OneDatabaseHolds == WiringSpec => []OneDatabase
<1>1. ASSUME VariantsInv
      PROVE  OneDatabase
  <2> DEFINE variants == {wired[s] : s \in DOMAIN wired \cap (UploadRepositories \cup {"memories"})}
             stores == DOMAIN wired \cap (UploadRepositories \cup {"questions", "answers", "users"})
  <2>1. \A s \in DOMAIN wired \cap (UploadRepositories \cup {"memories"}) :
          wired[s] = "none" \/ wired[s] = RepositoryVariant
    BY <1>1 DEF VariantsInv, WiredAs, RelatedStores
  <2>2. variants \ {"none"} \subseteq {RepositoryVariant}
    BY <2>1
  <2>3. Cardinality(variants \ {"none"}) <= 1
    <3>1. IsFiniteSet({RepositoryVariant}) /\ Cardinality({RepositoryVariant}) = 1
      BY FS_Singleton
    <3> QED
      BY <2>2, <3>1, FS_Subset
  <2>4. \A s \in stores : wired[s] = "sqlite" <=> sqliteOnce = "open"
    BY <1>1 DEF VariantsInv, WiredAs, RelatedStores, UploadRepositories
  <2> QED
    BY <2>3, <2>4 DEF OneDatabase
<1> QED
  BY <1>1, VariantsInitially, VariantsKept, PTL DEF WiringSpec

-----------------------------------------------------------------------------
(* The configuration *)

\* Of the positions in a list the last one exists.
LEMMA LastPosition ==
  ASSUME NEW n \in Nat, NEW S \in SUBSET (1..n), S # {}
  PROVE  Max(S) \in S
<1> DEFINE R == {ss \in Nat \X Nat : ss[1] < ss[2]}
           Behind == {n - x : x \in S}
<1>1. IsWellFoundedOn(R, Nat)
  BY NatLessThanWellFounded DEF OpToRel
<1>2. Behind \subseteq Nat /\ Behind # {}
  <2>1. \A x \in S : n - x \in Nat
    OBVIOUS
  <2>2. PICK x \in S : TRUE
    OBVIOUS
  <2>3. n - x \in Behind
    BY <2>2
  <2> QED
    BY <2>1, <2>3
<1>3. PICK m \in Behind : \A y \in Behind : <<y, m>> \notin R
  <2> HIDE DEF R, Behind
  <2> QED
    BY <1>1, <1>2, WFMin
<1>4. PICK x \in S : m = n - x
  BY <1>3
<1>5. \A y \in S : x >= y
  <2> TAKE y \in S
  <2>1. n - y \in Behind /\ n - y \in Nat /\ m \in Nat
    BY <1>2, <1>3
  <2>2. ~(n - y < m)
    BY <1>3, <2>1
  <2> QED
    BY <1>4, <2>1, <2>2
<1> QED
  BY <1>5 DEF Max

\* The settings of the file and of the environment are over those before.
LEMMA SettingsStay ==
  ASSUME NEW cfg, NEW list
  PROVE  /\ DOMAIN hydrateFromFile(cfg, list) = DOMAIN cfg
         /\ DOMAIN applyEnvOverrides(cfg, list) = DOMAIN cfg
         /\ \A s \in DOMAIN cfg :
              /\ DOMAIN hydrateFromFile(cfg, list)[s] = DOMAIN cfg[s]
              /\ DOMAIN applyEnvOverrides(cfg, list)[s] = DOMAIN cfg[s]
  BY DEF hydrateFromFile, applyEnvOverrides

\* A number of the file is a number.
LEMMA FileNumber ==
  ASSUME NEW given \in Files, NEW cfg, NEW s \in DOMAIN cfg, NEW f \in DOMAIN cfg[s],
         Config[s][f] = "number", cfg[s][f] \in Int
  PROVE  hydrateFromFile(cfg, given)[s][f] \in Int
<1> DEFINE named == Naming(given, s, f)
<1>1. hydrateFromFile(cfg, given)[s][f] =
        IF named = {} THEN cfg[s][f] ELSE given[Max(named)].value
  BY DEF hydrateFromFile
<1>2. CASE named # {}
  <2>1. Len(given) \in Nat /\ DOMAIN given = 1..Len(given)
    BY DEF Files
  <2>2. Max(named) \in named
    BY <1>2, <2>1, LastPosition DEF Naming
  <2>3. Max(named) \in DOMAIN given /\ given[Max(named)].section = s /\ given[Max(named)].field = f
    BY <2>2 DEF Naming
  <2> HIDE DEF named
  <2>4. PICK k \in Fields :
          given[Max(named)] \in [section : {k[1]}, field : {k[2]}, value : FileValues(Config[k[1]][k[2]])]
    BY <2>3 DEF Files
  <2>5. k[1] = s /\ k[2] = f
    BY <2>3, <2>4
  <2>6. given[Max(named)].value \in FileValues("number")
    BY <2>4, <2>5
  <2> QED
    BY <1>1, <1>2, <2>6 DEF FileValues
<1> QED
  BY <1>1, <1>2

\* A number of the environment is a number.
LEMMA EnvironmentNumber ==
  ASSUME NEW env \in Environments, NEW cfg, NEW s \in DOMAIN cfg, NEW f \in DOMAIN cfg[s],
         Config[s][f] = "number", cfg[s][f] \in Int
  PROVE  applyEnvOverrides(cfg, env)[s][f] \in Int
<1> DEFINE named == {i \in Naming(env, s, f) : Readable("number", env[i].text)}
<1>1. applyEnvOverrides(cfg, env)[s][f] =
        IF named = {} THEN cfg[s][f] ELSE Parsed("number", env[Max(named)].text)
  BY DEF applyEnvOverrides
<1>2. CASE named # {}
  <2>1. Len(env) \in Nat /\ DOMAIN env = 1..Len(env)
    BY DEF Environments
  <2>2. Max(named) \in named
    BY <1>2, <2>1, LastPosition DEF Naming
  <2>3. /\ Max(named) \in DOMAIN env /\ env[Max(named)].section = s /\ env[Max(named)].field = f
        /\ env[Max(named)].text[1] = "number"
    BY <2>2 DEF Naming, Readable
  <2> HIDE DEF named
  <2>4. PICK k \in Fields :
          env[Max(named)] \in [section : {k[1]}, field : {k[2]}, text : VariableTexts(Config[k[1]][k[2]])]
    BY <2>3 DEF Environments
  <2>5. k[1] = s /\ k[2] = f
    BY <2>3, <2>4
  <2>6. env[Max(named)].text \in VariableTexts("number")
    BY <2>4, <2>5
  <2>7. env[Max(named)].text[2] \in Int
    BY <2>3, <2>6 DEF VariableTexts
  <2> QED
    BY <1>1, <1>2, <2>7 DEF Parsed
<1> QED
  BY <1>1, <1>2

\* The budgets of Upload & Ask are numbers, and what was loaded passed the checks.
Budgets(c) ==
  /\ c.upload.maxFileMb \in Int
  /\ c.memory.topKMems \in Int /\ c.memory.maxHistoryTokens \in Int
  /\ c.memory.memoryVectorDim \in Int /\ c.memory.pruneLimit \in Int
ConfigInv == config \in {<< >>, Refused} \/ (Validate(config) /\ Budgets(config))

\* Load returns numbers for the budgets, and nothing that fails the checks.
LEMMA LoadChecks ==
  ASSUME NEW given \in Files, NEW env \in Environments, Load(given, env) # Refused
  PROVE  Validate(Load(given, env)) /\ Budgets(Load(given, env))
<1>0. /\ "upload" \in DOMAIN defaultConfig /\ "maxFileMb" \in DOMAIN defaultConfig["upload"]
      /\ defaultConfig["upload"]["maxFileMb"] \in Int
  <2>1. "upload" \in DOMAIN defaultConfig
    BY DEF defaultConfig
  <2>2. "maxFileMb" \in DOMAIN defaultConfig.upload
    BY DEF defaultConfig
  <2>3. defaultConfig.upload.maxFileMb = 2
    BY DEF defaultConfig
  <2> QED
    BY <2>1, <2>2, <2>3
<1>8. Config["upload"]["maxFileMb"] = "number"
  BY DEF Config
<1> DEFINE Given == hydrateFromFile(defaultConfig, given)
           Loaded == applyEnvOverrides(Given, env)
           Budgeted == {"topKMems", "maxHistoryTokens", "memoryVectorDim", "pruneLimit"}
<1>1. Load(given, env) = Loaded /\ Validate(Loaded)
  BY DEF Load
<1>2. /\ "memory" \in DOMAIN defaultConfig
      /\ \A f \in Budgeted : /\ f \in DOMAIN defaultConfig["memory"]
                             /\ defaultConfig["memory"][f] \in Int
  BY DEF defaultConfig
<1>3. \A f \in Budgeted : Config["memory"][f] = "number"
  BY DEF Config
<1>4. "memory" \in DOMAIN Given /\ DOMAIN Given["memory"] = DOMAIN defaultConfig["memory"]
  BY <1>2, SettingsStay
<1> HIDE DEF Budgeted
<1>5. ASSUME NEW f \in Budgeted
      PROVE  Loaded["memory"][f] \in Int
  <2>1. Given["memory"][f] \in Int
    BY <1>2, <1>3, FileNumber
  <2> HIDE DEF Given
  <2> QED
    BY <1>2, <1>3, <1>4, <2>1, EnvironmentNumber
<1>7. Loaded["upload"]["maxFileMb"] \in Int
  <2>1. Given["upload"]["maxFileMb"] \in Int
    BY <1>0, <1>8, FileNumber
  <2>2. "upload" \in DOMAIN Given /\ "maxFileMb" \in DOMAIN Given["upload"]
    BY <1>0, SettingsStay
  <2> HIDE DEF Given
  <2> QED
    BY <1>0, <1>8, <2>1, <2>2, EnvironmentNumber
<1> HIDE DEF Given, Loaded
<1>6. Budgets(Loaded)
  BY <1>5, <1>7 DEF Budgeted, Budgets
<1> QED
  BY <1>1, <1>6

\* A number of the width is kept.
LEMMA WrappedKeeps ==
  ASSUME NEW width \in Nat \ {0}, NEW n \in Ints(width)
  PROVE  Wrapped(width, n) = n
<1> DEFINE half == width \div 2
           x == n + half
<1>1. half \in Int /\ 0 <= half
  OBVIOUS
<1>2. -half <= n /\ n <= width - half - 1 /\ n \in Int
  BY <1>1 DEF Ints
<1> HIDE DEF half
<1>3. x \in Int /\ 0 <= x /\ x < width /\ x - half = n
  BY <1>1, <1>2
<1>4. x % width = x
  <2> HIDE DEF x
  <2> QED
    BY <1>3
<1> QED
  BY <1>3, <1>4 DEF Wrapped, half

\* What a server starts with has passed the checks, so it is usable: no
\* default, no file and no environment gives it a budget of zero, a service
\* without an address or connections, or a cipher that cannot be made.
LEMMA CheckedIsUsable ==
  ASSUME ConfigInv
  PROVE  AcceptedConfigIsUsable
<1> SUFFICES ASSUME config \notin {<< >>, Refused}
             PROVE  AcceptedConfigIsUsable
  BY DEF AcceptedConfigIsUsable
<1>1. Validate(config) /\ Budgets(config)
  BY DEF ConfigInv
<1>2. /\ config.limit.enabled => config.limit.requestsPerMinute > 0 /\ config.limit.burst > 0
      /\ config.retry.enabled => config.retry.maxAttempts > 0 /\ config.retry.baseBackoff > 0
      /\ config.auth.jwtSecret # "" /\ config.auth.accessTokenTtl > 0
      /\ config.auth.refreshTokenTtl > 0
      /\ config.sqlite.enabled => ~Blank(config.sqlite.path)
      /\ config.faq.redisEnabled => ~Blank(config.faq.redisAddr)
      /\ config.upload.redisEnabled => ~Blank(config.upload.redisAddr)
      /\ ~Blank(config.llm.embeddingModel)
  BY <1>1 DEF Validate
<1>3. ~Blank(config.llm.embeddingModel) => ProviderSettings(config).embedding
  BY DEF ProviderSettings
<1>4. googleOAuthConfig(config.google) => newCipher(config.google.tokenEncryptionKey)
  BY <1>1 DEF Validate, googleOAuthConfig, googleConfigEnabled, newCipher
<1>5. googleConfigEnabled(config.google) =>
        googleOAuthConfig(config.google) \/ config.google.tokenEncryptionKey.blank
  <2> DEFINE google == config.google
             texts == \A f \in {"clientId", "clientSecret", "redirectUrl"} : ~Blank(google[f])
  <2>1. googleConfigEnabled(google) => texts
    BY <1>1 DEF Validate
  <2>2. texts /\ ~google.tokenEncryptionKey.blank => googleOAuthConfig(google)
    BY DEF googleOAuthConfig
  <2> QED
    BY <2>1, <2>2
<1> DEFINE ask == provideUploadAskConfig(config)
           bytes == config.upload.maxFileMb * MegaByte
<1>6. \A budget \in DOMAIN ask \ {"maxFileBytes"} : ask[budget] > 0
  <2>1. config.upload.vectorDim > 0
    BY <1>1 DEF Validate
  <2> QED
    BY <1>1, <2>1 DEF Budgets, provideUploadAskConfig
<1>7. bytes \in Ints(Int64) => ask.maxFileBytes = bytes /\ bytes > 0
  <2>1. config.upload.maxFileMb \in Int /\ config.upload.maxFileMb > 0
    BY <1>1 DEF Validate, Budgets
  <2>2. bytes > 0
    BY <2>1, WidthAssumption
  <2>3. ask.maxFileBytes = Wrapped(Int64, bytes)
    BY DEF provideUploadAskConfig
  <2> HIDE DEF bytes
  <2> QED
    BY <2>2, <2>3, WidthAssumption, WrappedKeeps
<1>8. \A database \in {config.faq, config.auth, config.upload} : poolMaxConns(database) > 0
  BY PoolAssumption DEF poolMaxConns
<1> QED
  BY <1>2, <1>3, <1>4, <1>5, <1>6, <1>7, <1>8 DEF AcceptedConfigIsUsable

\* A configuration that Load (config.go) accepts, from any file and any
\* environment, is one the providers and the parts they build can serve
\* with, but for the two values that the property names: a key of blanks,
\* and a size of documents beyond the width of its bytes.
THEOREM AcceptedConfigIsUsableHolds == ConfigSpec => []AcceptedConfigIsUsable
<1>1. ConfigInit => ConfigInv
  BY DEF ConfigInit, ConfigInv
<1>2. ASSUME ConfigInv, [Configure]_config
      PROVE  ConfigInv'
  <2>1. CASE UNCHANGED config
    BY <1>2, <2>1 DEF ConfigInv, Validate, Budgets
  <2>2. CASE Configure
    <3>1. PICK given \in Files, env \in Environments : config' = Load(given, env)
      BY <2>2 DEF Configure, ConfigLoad
    <3>2. config' = Refused \/ (Validate(config') /\ Budgets(config'))
      BY <3>1, LoadChecks
    <3> QED
      BY <3>2 DEF ConfigInv
  <2> QED
    BY <1>2, <2>1, <2>2
<1> QED
  BY <1>1, <1>2, CheckedIsUsable, PTL DEF ConfigSpec

-----------------------------------------------------------------------------
(* The largest id *)

\* The numbers of S are at most n for some n.
Bounded(S) == \E n \in Nat : \A x \in S : x <= n

\* A bounded set of numbers has a largest one, which Max chooses.
LEMMA MaxOfBounded ==
  ASSUME NEW S \in SUBSET Nat, S # {}, Bounded(S)
  PROVE  Max(S) \in S /\ \A y \in S : Max(S) >= y
<1> DEFINE R == {ss \in Nat \X Nat : ss[1] < ss[2]}
           Above == {n \in Nat : \A x \in S : x <= n}
<1>1. IsWellFoundedOn(R, Nat)
  BY NatLessThanWellFounded DEF OpToRel
<1>2. \E m \in Above : \A y \in Above : <<y, m>> \notin R
  <2>1. Above \subseteq Nat /\ Above # {}
    BY DEF Bounded
  <2> HIDE DEF R, Above
  <2> QED
    BY <1>1, <2>1, WFMin
<1>3. PICK m \in Above : \A y \in Above : <<y, m>> \notin R
  BY <1>2
<1>0. \A y \in Above : ~(y < m)
  BY <1>3
<1>4. m \in S
  <2> SUFFICES ASSUME m \notin S PROVE FALSE
    OBVIOUS
  <2>1. m \in Nat /\ m # 0
    <3>1. CASE m = 0
      <4>1. PICK x \in S : TRUE
        OBVIOUS
      <4>2. x <= 0 /\ x \in Nat
        BY <1>3, <3>1, <4>1
      <4> QED
        BY <3>1, <4>1, <4>2
    <3> QED
      BY <3>1
  <2>2. m - 1 \in Above
    <3>1. \A x \in S : x <= m - 1
      BY <2>1
    <3> QED
      BY <2>1, <3>1
  <2> QED
    BY <1>0, <2>1, <2>2
<1>5. \A y \in S : m >= y
  BY <1>3
<1> QED
  BY <1>4, <1>5 DEF Max

\* A finite set of numbers is bounded.
LEMMA FiniteIsBounded ==
  ASSUME NEW S \in SUBSET Nat, IsFiniteSet(S)
  PROVE  Bounded(S)
<1> DEFINE R == {ss \in Nat \X Nat : ss[1] < ss[2]}
           Sizes == {n \in Nat : \E T \in SUBSET Nat :
                       IsFiniteSet(T) /\ Cardinality(T) = n /\ ~Bounded(T)}
<1> SUFFICES ASSUME Sizes # {}
             PROVE  FALSE
  BY FS_CardinalityType
<1>1. IsWellFoundedOn(R, Nat)
  BY NatLessThanWellFounded DEF OpToRel
<1>2. \E m \in Sizes : \A y \in Sizes : <<y, m>> \notin R
  <2>1. Sizes \subseteq Nat /\ Sizes # {}
    OBVIOUS
  <2> HIDE DEF R, Sizes
  <2> QED
    BY <1>1, <2>1, WFMin
<1>3. PICK m \in Sizes : \A y \in Sizes : <<y, m>> \notin R
  BY <1>2
<1>0. \A y \in Sizes : ~(y < m)
  BY <1>3
<1>4. PICK T \in SUBSET Nat : IsFiniteSet(T) /\ Cardinality(T) = m /\ ~Bounded(T)
  BY <1>3
<1>5. PICK x \in T : TRUE
  BY <1>4 DEF Bounded
<1>6. /\ IsFiniteSet(T \ {x})
      /\ Cardinality(T \ {x}) = m - 1
      /\ Cardinality(T \ {x}) \in Nat
  BY <1>4, <1>5, FS_RemoveElement, FS_CardinalityType
<1>7. Bounded(T \ {x})
  <2>1. m - 1 \notin Sizes
    BY <1>0, <1>6
  <2> QED
    BY <1>6, <2>1
<1>8. PICK n \in Nat : \A y \in T \ {x} : y <= n
  BY <1>7 DEF Bounded
<1>9. \A y \in T : y <= n + x
  BY <1>5, <1>8
<1> QED
  BY <1>4, <1>5, <1>9 DEF Bounded

-----------------------------------------------------------------------------
(* The invariant *)

\* The tables of the file.
Identities == rows["user_identities"]
IdentitiesNew == rows["user_identities_new"]
IdentitiesOld == rows["auth_identities"]
Questions == rows["questions"]
QuestionsOld == rows["faq_questions"]
Cache == rows["faq_answer_cache"]
CacheNew == rows["faq_answer_cache_new"]

IdentityStatements ==
  {"identityTable", "dropStaleIdentities", "createIdentities", "copyIdentities",
   "dropIdentities", "renameIdentities", "moveIdentities", "renumberIdentities",
   "dropLegacyIdentities"}
OldTable == {"down", "fallback"} \cup IdentityStatements
Unindexed == OldTable \cup {"questionTable", "questionIndex"}
Unmoved == Unindexed \cup {"moveQuestions"}

OwedTypes ==
  /\ DOMAIN owed = {"identities", "texts", "answers"}
  /\ legacy \in LegacyDatabases

\* S has a row for the account of r.
Linked(r, S) == \E s \in S : SameAccount(r, s)

\* An identity the file was given is linked or waits in the legacy table, and the
\* statements that drop a table know where its rows went.
IdentitiesInv ==
  /\ pc = "dropIdentities" => Identities \subseteq IdentitiesNew
  /\ pc = "renameIdentities" => Identities = {}
  /\ "user_identities" \notin cut =>
       \A r \in owed.identities :
         \/ Linked(r, Identities)
         \/ r \in IdentitiesOld
         \/ pc = "renameIdentities" /\ Linked(r, IdentitiesNew)
  /\ pc = "renumberIdentities" =>
       \A r \in IdentitiesOld : Linked(r, Identities) \/ \E s \in Identities : s.id = r.id
  /\ pc = "dropLegacyIdentities" => \A r \in IdentitiesOld : Linked(r, Identities)
  /\ pc \notin OldTable => IdentitiesOld = {}

\* The rows of questions and answers, by their ids.
IsTable(S) ==
  /\ \A r \in S : r.id \in Nat /\ r = [id |-> r.id, text |-> r.text]
  /\ Bounded({r.id : r \in S})

\* A question the file was given is stored, waits in the legacy table or has an id
\* that was taken, and the ids tell which.
QuestionsInv ==
  /\ IsTable(Questions) /\ UniqueIds(Questions)
  /\ IsTable(QuestionsOld)
  /\ QuestionsOld \subseteq legacy.rows["faq_questions"]
  /\ legacy.rows["questions"] \subseteq Questions
  /\ QuestionsOld # {} =>
       Questions \subseteq legacy.rows["questions"] \cup legacy.rows["faq_questions"]
  /\ TextsOf(Questions) \cup TextsOf(QuestionsOld) \subseteq owed.texts
  /\ owed.texts \subseteq TextsOf(Questions) \cup TextsOf(QuestionsOld) \cup Taken
  /\ pc \notin Unmoved => owed.texts \subseteq TextsOf(Questions) \cup Taken
  /\ pc \notin Unindexed => OneRowPerText(Questions)
  /\ OneRowPerText(legacy.rows["questions"]) => OneRowPerText(Questions)
  /\ pc = "serving" => QuestionsOld = {}
  /\ FallbackOnlyOnDuplicates

\* Every answer in S stands under its question, or its question was not migrated.
Matches(S) == \A c \in S : c \in Questions \/ c.text \in Taken

\* S has all the answers, in the cases where they are kept.
HasAnswers(S) ==
  "faq_answer_cache" \notin cut /\ Taken = {} => owed.answers \subseteq TextsOf(S)

AnswersInv ==
  /\ IsTable(Cache) /\ IsTable(CacheNew)
  /\ TextsOf(Cache) \cup TextsOf(CacheNew) \subseteq owed.texts
  /\ pc = "copyCache" => CacheNew = {}
  /\ pc \in {"dropCache", "renameCache"} => Matches(CacheNew) /\ HasAnswers(CacheNew)
  /\ pc # "renameCache" => HasAnswers(Cache)
  /\ pc \in {"dropLegacyQuestions", "serving"} => Matches(Cache)

\* The table that a statement inserts into or renames exists.
TablesExist ==
  /\ pc \in {"moveIdentities", "renumberIdentities"} => "user_identities" \in exists
  /\ pc \in {"copyIdentities", "dropIdentities", "renameIdentities"} =>
       "user_identities_new" \in exists
  /\ pc \notin OldTable \cup {"questionTable"} => "questions" \in exists
  /\ pc \in {"copyCache", "dropCache", "renameCache"} => "faq_answer_cache_new" \in exists
  /\ pc \in {"dropLegacyQuestions", "serving"} => "faq_answer_cache" \in exists

FileInv == TypeOK /\ OwedTypes /\ TablesExist

IInv == FileInv /\ IdentitiesInv /\ QuestionsInv /\ AnswersInv

-----------------------------------------------------------------------------
(* The file *)

\* The tables and the history keep their types.
LEMMA FileInvKept ==
  ASSUME FileInv, [Next]_vars
  PROVE  FileInv'
<1> USE FaultsAssumption DEF FileInv, TypeOK, OwedTypes, TableNames, Statements, TablesExist,
        OldTable, IdentityStatements, Step, Statement
<1>1. CASE UNCHANGED vars \/ Start \/ Stop
  BY <1>1 DEF vars, Start, Stop, file
<1>2. CASE EnsureIdentities \/ MoveIdentities
  <2>1. CASE EnsureIdentities
    BY <2>1 DEF EnsureIdentities, CreateTable
  <2>2. CASE MoveIdentities
    <3>1. /\ pc = "moveIdentities" /\ pc' \in {"renumberIdentities", "dropLegacyIdentities"}
          /\ UNCHANGED <<exists, legacyShape, faults, cut, owed, legacy>>
          /\ \A t \in TableNames \ {"user_identities"} : rows'[t] = rows[t]
          /\ DOMAIN rows' = TableNames
      BY <2>2 DEF MoveIdentities, InsertRows
    <3> QED
      BY <3>1
  <2> QED
    BY <1>2, <2>1, <2>2
<1>3. CASE DropStaleIdentities \/ CreateIdentities \/ CopyIdentities
  BY <1>3 DEF DropStaleIdentities, CreateIdentities, CopyIdentities, DropTable, CreateTable,
              InsertRows
<1>4. CASE DropIdentities \/ RenameIdentities \/ RenumberIdentities \/ DropLegacyIdentities
  <2>1. CASE DropIdentities \/ RenameIdentities
    BY <2>1 DEF DropIdentities, RenameIdentities, DropTable, RenameTable
  <2>2. CASE RenumberIdentities \/ DropLegacyIdentities
    BY <2>2 DEF RenumberIdentities, DropLegacyIdentities, DropTable, InsertRows
  <2> QED
    BY <1>4, <2>1, <2>2
<1>5. CASE EnsureQuestions \/ IndexQuestions \/ MoveQuestions \/ EnsureCache
  <2>1. CASE EnsureQuestions
    BY <2>1 DEF EnsureQuestions, CreateTable
  <2>2. CASE IndexQuestions
    BY <2>2 DEF IndexQuestions
  <2>3. CASE MoveQuestions
    BY <2>3 DEF MoveQuestions, InsertRows
  <2>4. CASE EnsureCache
    BY <2>4 DEF EnsureCache, CreateTable
  <2> QED
    BY <1>5, <2>1, <2>2, <2>3, <2>4
<1>6. CASE DropStaleCache \/ CreateCache \/ CopyCache
  BY <1>6 DEF DropStaleCache, CreateCache, CopyCache, DropTable, CreateTable, InsertRows
<1>7. CASE DropCache \/ RenameCache \/ DropLegacyQuestions
  BY <1>7 DEF DropCache, RenameCache, DropLegacyQuestions, DropTable, RenameTable
<1>8. CASE Interrupt
  BY <1>8 DEF Interrupt
<1>9. ASSUME NEW t \in Texts, AskQuestion(t)
      PROVE  FileInv'
  BY <1>9 DEF AskQuestion, InsertRows
<1>10. ASSUME NEW q \in Questions, SaveAnswer(q)
       PROVE  FileInv'
  BY <1>10 DEF SaveAnswer, Questions
<1> QED
  BY <1>1, <1>2, <1>3, <1>4, <1>5, <1>6, <1>7, <1>8, <1>9, <1>10
  DEF Next, Questions, MigrateAuthIdentities, MigrateFAQQuestions

-----------------------------------------------------------------------------
(* Identities *)

\* A statement of migrateAuthIdentities loses no identity.
LEMMA MigrationKeepsIdentities ==
  ASSUME FileInv, IdentitiesInv, MigrateAuthIdentities
  PROVE  IdentitiesInv'
<1> USE DEF FileInv, TypeOK, OwedTypes, TableNames, IdentitiesInv, Identities, IdentitiesNew,
        IdentitiesOld, OldTable, IdentityStatements, Statement, Step, Linked
<1>1. CASE EnsureIdentities
  BY <1>1 DEF EnsureIdentities, CreateTable
<1>2. CASE DropStaleIdentities
  BY <1>2 DEF DropStaleIdentities, DropTable
<1>3. CASE CreateIdentities
  BY <1>3 DEF CreateIdentities, CreateTable
<1>4. CASE CopyIdentities
  BY <1>4 DEF CopyIdentities, InsertRows
<1>5. CASE DropIdentities
  BY <1>5 DEF DropIdentities, DropTable
<1>6. CASE RenameIdentities
  <2>1. /\ Identities' = IdentitiesNew /\ IdentitiesOld' = IdentitiesOld
        /\ pc = "renameIdentities" /\ pc' = "moveIdentities"
        /\ UNCHANGED <<owed, cut>>
    BY <1>6 DEF RenameIdentities, RenameTable
  <2> QED
    BY <2>1
<1>7. CASE MoveIdentities
  <2>1. \A r, s : SameAccount(r, s) => SameAccount(s, r)
    BY DEF SameAccount
  <2>2. \A r : SameAccount(r, r)
    BY DEF SameAccount
  <2> QED
    BY <1>7, <2>1, <2>2 DEF MoveIdentities, InsertRows
<1>8. CASE RenumberIdentities
  <2>1. /\ pc = "renumberIdentities" /\ pc' = "dropLegacyIdentities"
        /\ Identities \subseteq Identities' /\ IdentitiesOld' = IdentitiesOld
        /\ UNCHANGED <<owed, cut>>
    BY <1>8 DEF RenumberIdentities, InsertRows
  <2>2. ASSUME NEW r \in IdentitiesOld, ~Linked(r, Identities)
        PROVE  \E s \in Identities' : SameAccount(r, s)
    <3>1. /\ \E s \in Identities : s.id = r.id
          /\ ~ \E s \in Identities : SameAccount(s, r)
      BY <2>1, <2>2 DEF SameAccount
    <3>2. [r EXCEPT !.id = @ + LastId(Identities)] \in Identities'
      BY <1>8, <2>2, <3>1 DEF RenumberIdentities, InsertRows
    <3>3. [r EXCEPT !.id = @ + LastId(Identities)].subject = r.subject
      BY <2>2
    <3> QED
      BY <3>2, <3>3 DEF SameAccount
  <2>3. \A r \in IdentitiesOld : Linked(r, Identities)'
    BY <2>1, <2>2
  <2> QED
    BY <2>1, <2>3
<1>9. CASE DropLegacyIdentities
  BY <1>9 DEF DropLegacyIdentities, DropTable
<1> QED
  BY <1>1, <1>2, <1>3, <1>4, <1>5, <1>6, <1>7, <1>8, <1>9 DEF MigrateAuthIdentities

\* So does every other step.
LEMMA OthersKeepIdentities ==
  ASSUME FileInv, IdentitiesInv, [Next]_vars, ~MigrateAuthIdentities
  PROVE  IdentitiesInv'
<1> USE DEF FileInv, TypeOK, OwedTypes, TableNames, IdentitiesInv, Identities, IdentitiesNew,
        IdentitiesOld, OldTable, IdentityStatements, Linked
<1>1. CASE UNCHANGED vars
  BY <1>1 DEF vars
<1>3. CASE MigrateFAQQuestions
  <2>1. /\ pc \notin OldTable /\ pc' \notin IdentityStatements
        /\ Identities' = Identities /\ IdentitiesOld' = IdentitiesOld
        /\ UNCHANGED <<cut, owed>>
    BY <1>3 DEF MigrateFAQQuestions, EnsureQuestions, IndexQuestions, MoveQuestions, EnsureCache,
     DropStaleCache, CreateCache, CopyCache, DropCache, RenameCache, DropLegacyQuestions,
     CreateTable, DropTable, RenameTable, InsertRows, Step, Statement
  <2> QED
    BY <2>1
<1>4. CASE Start \/ Stop
  BY <1>4 DEF Start, Stop, Step, file
<1>5. CASE Interrupt
  BY <1>5 DEF Interrupt
<1>6. ASSUME NEW t \in Texts, AskQuestion(t)
      PROVE  IdentitiesInv'
  BY <1>6 DEF AskQuestion, InsertRows
<1>7. ASSUME NEW q \in Questions, SaveAnswer(q)
      PROVE  IdentitiesInv'
  BY <1>7 DEF SaveAnswer, Questions
<1> QED
  BY <1>1, <1>3, <1>4, <1>5, <1>6, <1>7 DEF Next, Questions

-----------------------------------------------------------------------------
(* Questions *)

\* A subset of a table is a table, and so is the union of two tables.
LEMMA TablesCombine ==
  ASSUME NEW S, NEW T, IsTable(S), IsTable(T)
  PROVE  IsTable(S \cup T) /\ \A U \in SUBSET S : IsTable(U)
<1>1. \A U \in SUBSET S : Bounded({r.id : r \in U})
  BY DEF IsTable, Bounded
<1>2. Bounded({r.id : r \in S \cup T})
  <2>1. PICK m \in Nat : \A r \in S : r.id <= m
    BY DEF IsTable, Bounded
  <2>2. PICK n \in Nat : \A r \in T : r.id <= n
    BY DEF IsTable, Bounded
  <2>3. m + n \in Nat /\ \A r \in S \cup T : r.id <= m + n
    BY <2>1, <2>2 DEF IsTable
  <2> QED
    BY <2>3 DEF Bounded
<1> QED
  BY <1>1, <1>2 DEF IsTable

\* The id of a new question is free.
LEMMA NewId ==
  ASSUME NEW S, IsTable(S)
  PROVE  LastId(S) \in Nat /\ \A r \in S : r.id <= LastId(S)
<1> DEFINE Ids == {0} \cup {r.id : r \in S}
<1>1. Ids \in SUBSET Nat /\ Ids # {}
  BY DEF IsTable
<1>2. Bounded(Ids)
  BY DEF IsTable, Bounded
<1>3. Max(Ids) \in Ids /\ \A y \in Ids : Max(Ids) >= y
  <2> HIDE DEF Ids
  <2> QED
    BY <1>1, <1>2, MaxOfBounded
<1>4. Max(Ids) \in Nat /\ \A r \in S : r.id <= Max(Ids)
  BY <1>1, <1>3 DEF IsTable
<1> QED
  BY <1>4 DEF LastId

\* A text of the legacy questions is stored, new to the table or taken.
LEMMA OldTextsAreAccounted ==
  ASSUME FileInv, QuestionsInv
  PROVE  TextsOf(QuestionsOld) \subseteq TextsOf(Questions) \cup TextsOf(NewQuestions) \cup Taken
<1> SUFFICES ASSUME NEW f \in QuestionsOld,
                    f.text \notin TextsOf(Questions), f.text \notin TextsOf(NewQuestions)
             PROVE  f.text \in Taken
  BY DEF TextsOf
<1>1. f \in legacy.rows["faq_questions"] /\ f.text \notin TextsOf(legacy.rows["questions"])
  BY DEF QuestionsInv, TextsOf
<1>2. PICK q \in Questions : q.id = f.id
  BY DEF NewQuestions, Questions, QuestionsOld, TextsOf
<1>3. q \in legacy.rows["questions"]
  <2>1. q # f
    BY <1>2 DEF TextsOf
  <2>2. UniqueIds(legacy.rows["faq_questions"])
    BY LegacyAssumption DEF FileInv, OwedTypes
  <2>3. q \notin legacy.rows["faq_questions"]
    BY <1>1, <1>2, <2>1, <2>2 DEF UniqueIds
  <2> QED
    BY <2>3 DEF QuestionsInv
<1> QED
  BY <1>1, <1>2, <1>3 DEF Taken

\* The copy of the legacy questions keeps the invariant.
LEMMA MoveKeepsQuestions ==
  ASSUME FileInv, QuestionsInv, MoveQuestions
  PROVE  QuestionsInv'
<1> USE DEF QuestionsInv, Questions, QuestionsOld, OldTable, Unindexed, Unmoved, IdentityStatements
<1>1. UNCHANGED <<faults, cut, owed, legacy>> /\ Taken' = Taken /\ pc = "moveQuestions"
  BY DEF MoveQuestions, Statement, Step, Taken
<1>2. /\ OneRowPerText(legacy.rows["faq_questions"]) => OneRowPerText(NewQuestions)
      /\ NewQuestions \subseteq QuestionsOld
  BY DEF OneRowPerText, NewQuestions
<1>3. CASE rows' = rows /\ pc' = "fallback" /\ ~OneRowPerText(NewQuestions)
  BY <1>1, <1>2, <1>3 DEF FallbackOnlyOnDuplicates
<1>4. CASE OneRowPerText(NewQuestions) /\ Statement("moveQuestions", "cacheTable")
           /\ InsertRows("questions", NewQuestions)
  <2>1. /\ Questions' = Questions \cup NewQuestions /\ QuestionsOld' = QuestionsOld
        /\ pc' = "cacheTable"
    BY <1>4 DEF InsertRows, Statement, Step, FileInv, TypeOK, TableNames
  <2>2. UniqueIds(Questions') /\ OneRowPerText(Questions')
    <3>1. \A f \in NewQuestions, q \in Questions : q.id # f.id /\ q.text # f.text
      BY DEF NewQuestions
    <3>2. UniqueIds(NewQuestions)
      BY <1>2, LegacyAssumption DEF UniqueIds, FileInv, OwedTypes
    <3>3. OneRowPerText(Questions) /\ OneRowPerText(NewQuestions)
      BY <1>1, <1>4
    <3> QED
      BY <2>1, <3>1, <3>2, <3>3 DEF UniqueIds, OneRowPerText
  <2>3. IsTable(Questions')
    BY <1>2, <2>1, TablesCombine
  <2>4. /\ TextsOf(Questions') = TextsOf(Questions) \cup TextsOf(NewQuestions)
        /\ TextsOf(NewQuestions) \subseteq TextsOf(QuestionsOld)
    BY <1>2, <2>1 DEF TextsOf
  <2>5. owed.texts \subseteq TextsOf(Questions') \cup Taken
    BY <2>4, OldTextsAreAccounted
  <2> QED
    BY <1>1, <1>2, <2>1, <2>2, <2>3, <2>4, <2>5 DEF FallbackOnlyOnDuplicates
<1> QED
  BY <1>3, <1>4 DEF MoveQuestions, Statement, Step

\* So do the other statements of migrateFAQQuestions.
LEMMA MigrationKeepsQuestions ==
  ASSUME FileInv, QuestionsInv, MigrateFAQQuestions
  PROVE  QuestionsInv'
<1> USE DEF QuestionsInv, Questions, QuestionsOld, OldTable, Unindexed, Unmoved, IdentityStatements,
            FileInv, TypeOK, TableNames
<1>1. CASE MoveQuestions
  BY <1>1, MoveKeepsQuestions
<1>2. CASE EnsureQuestions \/ IndexQuestions
  <2>1. /\ Questions' = Questions /\ QuestionsOld' = QuestionsOld
        /\ UNCHANGED <<faults, cut, owed, legacy>> /\ Taken' = Taken
    BY <1>2 DEF EnsureQuestions, IndexQuestions, CreateTable, Statement, Step, Taken
  <2>2. \/ pc' = "questionIndex"
        \/ pc' = "moveQuestions" /\ OneRowPerText(Questions)
        \/ pc' = "fallback" /\ ~OneRowPerText(Questions)
    BY <1>2 DEF EnsureQuestions, IndexQuestions, Statement, Step
  <2> QED
    BY <2>1, <2>2 DEF FallbackOnlyOnDuplicates
<1>3. CASE DropLegacyQuestions
  <2>1. /\ Questions' = Questions /\ QuestionsOld' = {}
        /\ pc = "dropLegacyQuestions" /\ pc' = "serving"
        /\ UNCHANGED <<faults, cut, owed, legacy>> /\ Taken' = Taken
    BY <1>3 DEF DropLegacyQuestions, DropTable, Statement, Step, Taken
  <2>2. IsTable({})
    BY DEF IsTable, Bounded
  <2> QED
    BY <2>1, <2>2 DEF FallbackOnlyOnDuplicates, TextsOf
<1>4. CASE EnsureCache \/ DropStaleCache \/ CreateCache \/ CopyCache \/ DropCache \/ RenameCache
  <2>1. /\ Questions' = Questions /\ QuestionsOld' = QuestionsOld
        /\ UNCHANGED <<faults, cut, owed, legacy>> /\ Taken' = Taken
        /\ pc \notin Unmoved /\ pc' \notin Unmoved \cup {"serving"}
    BY <1>4 DEF EnsureCache, DropStaleCache, CreateCache, CopyCache, DropCache, RenameCache,
                CreateTable, DropTable, RenameTable, InsertRows, Statement, Step, Taken
  <2> QED
    BY <2>1 DEF FallbackOnlyOnDuplicates
<1> QED
  BY <1>1, <1>2, <1>3, <1>4 DEF MigrateFAQQuestions

\* And so does every other step.
LEMMA OthersKeepQuestions ==
  ASSUME FileInv, QuestionsInv, [Next]_vars, ~MigrateFAQQuestions
  PROVE  QuestionsInv'
<1> USE DEF QuestionsInv, Questions, QuestionsOld, OldTable, Unindexed, Unmoved, IdentityStatements,
            FileInv, TypeOK, TableNames
<1>1. CASE UNCHANGED vars
  BY <1>1 DEF vars, FallbackOnlyOnDuplicates, Taken
<1>2. CASE MigrateAuthIdentities
  <2>1. /\ Questions' = Questions /\ QuestionsOld' = QuestionsOld
        /\ UNCHANGED <<faults, owed, legacy>> /\ Taken' = Taken
        /\ pc' \in IdentityStatements \cup {"questionTable"}
    BY <1>2 DEF MigrateAuthIdentities, EnsureIdentities, DropStaleIdentities, CreateIdentities,
     CopyIdentities, DropIdentities, RenameIdentities, MoveIdentities, RenumberIdentities,
     DropLegacyIdentities, CreateTable, DropTable, RenameTable, InsertRows, Step, Statement, Taken
  <2> QED
    BY <2>1 DEF FallbackOnlyOnDuplicates
<1>3. CASE Start \/ Stop
  BY <1>3 DEF Start, Stop, Step, file, FallbackOnlyOnDuplicates, Taken
<1>4. CASE Interrupt
  <2>1. /\ rows' = rows /\ faults' # 0 /\ pc' \in {"down", "fallback"}
        /\ UNCHANGED <<owed, legacy>> /\ Taken' = Taken
    BY <1>4 DEF Interrupt, Taken
  <2> QED
    BY <2>1 DEF FallbackOnlyOnDuplicates
<1>5. ASSUME NEW t \in Texts, AskQuestion(t)
      PROVE  QuestionsInv'
  <2> DEFINE q == [id |-> LastId(Questions) + 1, text |-> t]
  <2>1. /\ Questions' = Questions \cup {q} /\ QuestionsOld' = QuestionsOld /\ QuestionsOld = {}
        /\ UNCHANGED <<faults, legacy>> /\ Taken' = Taken /\ pc' = pc /\ pc = "serving"
        /\ owed'.texts = owed.texts \cup {t} /\ t \notin TextsOf(Questions)
    BY <1>5 DEF AskQuestion, InsertRows, Taken, OwedTypes
  <2>2. q.id \in Nat /\ \A r \in Questions : r.id \in Nat /\ r.id < q.id
    BY NewId DEF IsTable
  <2>3. IsTable({q})
    BY <2>2 DEF IsTable, Bounded
  <2>4. IsTable(Questions') /\ UniqueIds(Questions')
    BY <2>1, <2>2, <2>3, TablesCombine DEF UniqueIds
  <2>5. TextsOf(Questions') = TextsOf(Questions) \cup {t} /\ OneRowPerText(Questions')
    <3>1. q.text = t /\ \A r \in Questions : r.text # t
      BY <2>1 DEF TextsOf
    <3>2. OneRowPerText(Questions)
      BY <2>1
    <3> HIDE DEF q
    <3>3. TextsOf(Questions \cup {q}) = TextsOf(Questions) \cup {t}
      BY <3>1 DEF TextsOf
    <3> QED
      BY <2>1, <3>1, <3>2, <3>3 DEF OneRowPerText
  <2> HIDE DEF q
  <2> QED
    BY <2>1, <2>4, <2>5 DEF FallbackOnlyOnDuplicates
<1>6. ASSUME NEW q \in Questions, SaveAnswer(q)
      PROVE  QuestionsInv'
  <2>1. /\ Questions' = Questions /\ QuestionsOld' = QuestionsOld /\ owed'.texts = owed.texts
        /\ UNCHANGED <<faults, legacy, pc>> /\ Taken' = Taken
    BY <1>6 DEF SaveAnswer, Taken, OwedTypes
  <2> QED
    BY <2>1 DEF FallbackOnlyOnDuplicates
<1> QED
  BY <1>1, <1>2, <1>3, <1>4, <1>5, <1>6 DEF Next

-----------------------------------------------------------------------------
(* Answers *)

\* An answer is copied to the one question with its text, or stays under its id
\* when that question was not migrated.
LEMMA TargetOf ==
  ASSUME FileInv, QuestionsInv, AnswersInv, pc = "copyCache", NEW c \in Cache
  PROVE  \/ \E q \in Questions : q.text = c.text /\ Target(c) = {q.id}
         \/ c.text \in Taken /\ Target(c) \subseteq {q.id : q \in Questions}
<1> USE DEF OldTable, Unindexed, Unmoved, IdentityStatements
<1>1. c.text \in TextsOf(Questions) \/ c.text \in Taken
  BY DEF AnswersInv, QuestionsInv, TextsOf
<1>2. CASE c.text \in TextsOf(Questions)
  <2>1. PICK q \in Questions : q.text = c.text
    BY <1>2 DEF TextsOf
  <2>2. {r \in Questions : r.text = c.text} = {q}
    BY <2>1 DEF QuestionsInv, OneRowPerText
  <2> QED
    BY <2>1, <2>2 DEF Target, Questions
<1>3. CASE c.text \notin TextsOf(Questions)
  BY <1>1, <1>3 DEF Target, Questions, TextsOf
<1> QED
  BY <1>2, <1>3

\* Of the answers that are copied to one question, the one with the largest id is.
LEMMA SomeAnswerIsKept ==
  ASSUME FileInv, QuestionsInv, AnswersInv, NEW c \in Cache
  PROVE  \E d \in Cache : /\ Target(d) = Target(c)
                          /\ ~ \E e \in Cache : e.id > d.id /\ Target(e) = Target(d)
<1> DEFINE Rivals == {d \in Cache : Target(d) = Target(c)}
           Ids == {d.id : d \in Rivals}
<1>1. Ids \in SUBSET Nat /\ Ids # {} /\ Bounded(Ids)
  BY DEF AnswersInv, IsTable, Bounded
<1>2. Max(Ids) \in Ids /\ \A y \in Ids : Max(Ids) >= y
  <2> HIDE DEF Ids
  <2> QED
    BY <1>1, MaxOfBounded
<1>3. PICK d \in Rivals : d.id = Max(Ids)
  BY <1>2
<1>4. \A e \in Rivals : ~(e.id > d.id)
  <2> SUFFICES ASSUME NEW e \in Rivals PROVE ~(e.id > d.id)
    OBVIOUS
  <2>1. e.id \in Ids /\ d.id \in Ids
    OBVIOUS
  <2>2. d.id >= e.id /\ d.id \in Nat /\ e.id \in Nat
    BY <1>1, <1>2, <1>3, <2>1
  <2> QED
    BY <2>2
<1> QED
  BY <1>3, <1>4

\* The copy of the cache moves no answer and loses none.
LEMMA CopyKeepsAnswers ==
  ASSUME FileInv, QuestionsInv, AnswersInv, CopyCache
  PROVE  AnswersInv'
<1> USE DEF Questions, Cache, CacheNew
<1> DEFINE Kept(c) == ~ \E d \in Cache : d.id > c.id /\ Target(d) = Target(c)
           Copies == UNION {{[id |-> i, text |-> c.text] : i \in Target(c)} :
                              c \in {k \in Cache : Kept(k)}}
<1>1. /\ Questions' = Questions /\ Cache' = Cache /\ CacheNew' = Copies
      /\ UNCHANGED <<cut, owed, legacy>> /\ Taken' = Taken
      /\ pc = "copyCache" /\ pc' = "dropCache"
  <2> HIDE DEF Copies
  <2>1. InsertRows("faq_answer_cache_new", Copies) /\ Statement("copyCache", "dropCache")
    BY DEF CopyCache, Copies
  <2> QED
    BY <2>1 DEF InsertRows, Statement, Step, Taken, AnswersInv, FileInv, TypeOK, TableNames
<1>2. \A x \in Copies : \E c \in Cache : \E i \in Target(c) : x = [id |-> i, text |-> c.text]
  OBVIOUS
<1>3. ASSUME NEW x \in Copies
      PROVE  /\ x \in Questions \/ x.text \in Taken
             /\ x.text \in TextsOf(Cache)
             /\ \E q \in Questions : q.id = x.id
             /\ x = [id |-> x.id, text |-> x.text]
  <2>1. PICK c \in Cache : \E i \in Target(c) : x = [id |-> i, text |-> c.text]
    BY <1>2, <1>3
  <2>2. PICK i \in Target(c) : x = [id |-> i, text |-> c.text]
    BY <2>1
  <2>3. x.id = i /\ x.text = c.text /\ c.text \in TextsOf(Cache)
    BY <2>2 DEF TextsOf
  <2>4. CASE \E q \in Questions : q.text = c.text /\ Target(c) = {q.id}
    <3>1. PICK q \in Questions : q.text = c.text /\ q.id = i
      BY <2>4
    <3>2. q = [id |-> q.id, text |-> q.text]
      BY DEF QuestionsInv, IsTable
    <3> QED
      BY <2>2, <2>3, <3>1, <3>2
  <2>5. CASE c.text \in Taken /\ Target(c) \subseteq {q.id : q \in Questions}
    BY <2>2, <2>3, <2>5
  <2> QED
    BY <1>1, <2>4, <2>5, TargetOf
<1>4. IsTable(Copies)
  <2>1. \A x \in Copies : x.id \in {q.id : q \in Questions}
    BY <1>3
  <2>2. \A i \in {q.id : q \in Questions} : i \in Nat
    BY DEF QuestionsInv, IsTable
  <2>3. Bounded({x.id : x \in Copies})
    BY <2>1 DEF QuestionsInv, IsTable, Bounded
  <2> HIDE DEF Copies
  <2> QED
    BY <1>3, <2>1, <2>2, <2>3 DEF IsTable
<1>5. ASSUME Taken = {}
      PROVE  TextsOf(Cache) \subseteq TextsOf(Copies)
  <2> SUFFICES ASSUME NEW c \in Cache
               PROVE  c.text \in TextsOf(Copies)
    BY DEF TextsOf
  <2>1. PICK q \in Questions : q.text = c.text /\ Target(c) = {q.id}
    BY <1>1, <1>5, TargetOf
  <2>2. PICK d \in Cache : Target(d) = Target(c) /\ Kept(d)
    BY SomeAnswerIsKept
  <2>3. PICK r \in Questions : r.text = d.text /\ Target(d) = {r.id}
    BY <1>1, <1>5, TargetOf
  <2>4. r = q
    BY <2>1, <2>2, <2>3 DEF QuestionsInv, UniqueIds
  <2>5. [id |-> q.id, text |-> d.text] \in Copies
    BY <2>1, <2>2
  <2>6. [id |-> q.id, text |-> d.text].text = c.text
    BY <2>1, <2>3, <2>4
  <2> HIDE DEF Copies
  <2> QED
    BY <2>5, <2>6 DEF TextsOf
<1> HIDE DEF Copies
<1>6. TextsOf(Copies) \subseteq TextsOf(Cache)
  BY <1>3 DEF TextsOf
<1>7. Matches(Copies)
  BY <1>3 DEF Matches
<1>8. HasAnswers(Copies)
  BY <1>1, <1>5 DEF HasAnswers, AnswersInv
<1>9. Matches(CacheNew)' /\ HasAnswers(CacheNew)' /\ HasAnswers(Cache)'
  BY <1>1, <1>7, <1>8 DEF Matches, HasAnswers, AnswersInv
<1> QED
  BY <1>1, <1>4, <1>6, <1>9 DEF AnswersInv

\* So do the other statements of migrateFAQQuestions.
LEMMA MigrationKeepsAnswers ==
  ASSUME FileInv, QuestionsInv, AnswersInv, MigrateFAQQuestions
  PROVE  AnswersInv'
<1> USE DEF Questions, Cache, CacheNew
<1>0. IsTable({}) /\ TextsOf({}) = {}
  BY DEF IsTable, Bounded, TextsOf
<1>1. CASE CopyCache
  BY <1>1, CopyKeepsAnswers
<1>2. CASE EnsureQuestions \/ IndexQuestions \/ MoveQuestions \/ EnsureCache
  <2>1. /\ Cache' = Cache /\ CacheNew' = CacheNew
        /\ UNCHANGED <<cut, owed, legacy>> /\ Taken' = Taken
        /\ pc # "renameCache"
        /\ pc' \in {"questionIndex", "moveQuestions", "cacheTable", "dropStaleCache", "fallback"}
    <3>1. CASE MoveQuestions
      BY <3>1 DEF MoveQuestions, InsertRows, Statement, Step, Taken, FileInv, TypeOK, TableNames
    <3>2. CASE EnsureQuestions \/ IndexQuestions \/ EnsureCache
      BY <3>2 DEF EnsureQuestions, IndexQuestions, EnsureCache, CreateTable, Statement, Step, Taken,
                  FileInv, TypeOK, TableNames
    <3> QED
      BY <1>2, <3>1, <3>2
  <2>2. HasAnswers(Cache) => HasAnswers(Cache)'
    BY <2>1 DEF HasAnswers
  <2> QED
    BY <2>1, <2>2 DEF AnswersInv
<1>3. CASE DropStaleCache \/ CreateCache
  <2>1. /\ Cache' = Cache /\ CacheNew' = {}
        /\ UNCHANGED <<cut, owed, legacy>> /\ Taken' = Taken
        /\ pc # "renameCache" /\ pc' \in {"createCache", "copyCache"}
    BY <1>3 DEF DropStaleCache, CreateCache, DropTable, CreateTable, Statement, Step, Taken,
                FileInv, TypeOK, TableNames
  <2>2. HasAnswers(Cache) => HasAnswers(Cache)'
    BY <2>1 DEF HasAnswers
  <2> QED
    BY <1>0, <2>1, <2>2 DEF AnswersInv
<1>4. CASE DropCache
  <2>1. /\ Cache' = {} /\ CacheNew' = CacheNew /\ Questions' = Questions
        /\ UNCHANGED <<cut, owed, legacy>> /\ Taken' = Taken
        /\ pc = "dropCache" /\ pc' = "renameCache"
    BY <1>4 DEF DropCache, DropTable, Statement, Step, Taken, FileInv, TypeOK, TableNames
  <2>2. /\ HasAnswers(CacheNew) => HasAnswers(CacheNew)'
        /\ Matches(CacheNew) => Matches(CacheNew)'
    BY <2>1 DEF HasAnswers, Matches
  <2> QED
    BY <1>0, <2>1, <2>2 DEF AnswersInv
<1>5. CASE RenameCache
  <2>1. /\ Cache' = CacheNew /\ CacheNew' = {} /\ Questions' = Questions
        /\ UNCHANGED <<cut, owed, legacy>> /\ Taken' = Taken
        /\ pc = "renameCache" /\ pc' = "dropLegacyQuestions"
    BY <1>5 DEF RenameCache, RenameTable, Statement, Step, Taken, FileInv, TypeOK, TableNames
  <2>2. /\ HasAnswers(CacheNew) => HasAnswers(Cache)'
        /\ Matches(CacheNew) => Matches(Cache)'
    BY <2>1 DEF HasAnswers, Matches
  <2> QED
    BY <1>0, <2>1, <2>2 DEF AnswersInv
<1>6. CASE DropLegacyQuestions
  <2>1. /\ Cache' = Cache /\ CacheNew' = CacheNew /\ Questions' = Questions
        /\ UNCHANGED <<cut, owed, legacy>> /\ Taken' = Taken
        /\ pc = "dropLegacyQuestions" /\ pc' = "serving"
    BY <1>6 DEF DropLegacyQuestions, DropTable, Statement, Step, Taken, FileInv, TypeOK, TableNames
  <2>2. /\ HasAnswers(Cache) => HasAnswers(Cache)'
        /\ Matches(Cache) => Matches(Cache)'
    BY <2>1 DEF HasAnswers, Matches
  <2> QED
    BY <2>1, <2>2 DEF AnswersInv
<1> QED
  BY <1>1, <1>2, <1>3, <1>4, <1>5, <1>6 DEF MigrateFAQQuestions

\* And so does every other step.
LEMMA OthersKeepAnswers ==
  ASSUME FileInv, QuestionsInv, AnswersInv, [Next]_vars, ~MigrateFAQQuestions
  PROVE  AnswersInv'
<1> USE DEF Questions, Cache, CacheNew
<1>1. CASE UNCHANGED vars
  BY <1>1 DEF vars, AnswersInv, Matches, HasAnswers, Taken
<1>2. CASE MigrateAuthIdentities \/ Start \/ Stop
  <2>1. /\ Cache' = Cache /\ CacheNew' = CacheNew
        /\ UNCHANGED <<cut, owed, legacy>> /\ Taken' = Taken
        /\ pc # "renameCache" /\ pc' \in IdentityStatements \cup {"questionTable", "down"}
    <3>1. CASE MigrateAuthIdentities
      BY <3>1 DEF MigrateAuthIdentities, EnsureIdentities, DropStaleIdentities, CreateIdentities,
        CopyIdentities, DropIdentities, RenameIdentities, MoveIdentities, RenumberIdentities,
        DropLegacyIdentities, CreateTable, DropTable, RenameTable, InsertRows, Step, Statement,
        Taken, IdentityStatements, FileInv, TypeOK, TableNames
    <3>2. CASE Start \/ Stop
      BY <3>2 DEF Start, Stop, Step, file, Taken, IdentityStatements
    <3> QED
      BY <1>2, <3>1, <3>2
  <2>2. HasAnswers(Cache) => HasAnswers(Cache)'
    BY <2>1 DEF HasAnswers
  <2> QED
    BY <2>1, <2>2 DEF AnswersInv, IdentityStatements
<1>3. CASE Interrupt
  <2>1. /\ Cache' = Cache /\ CacheNew' = CacheNew
        /\ UNCHANGED <<owed, legacy>> /\ Taken' = Taken
        /\ pc' \in {"down", "fallback"}
        /\ cut \subseteq cut' /\ (pc = "renameCache" => "faq_answer_cache" \in cut')
    BY <1>3 DEF Interrupt, Taken
  <2>2. HasAnswers(Cache)'
    BY <2>1 DEF HasAnswers, AnswersInv
  <2> QED
    BY <2>1, <2>2 DEF AnswersInv
<1>4. ASSUME NEW t \in Texts, AskQuestion(t)
      PROVE  AnswersInv'
  <2>1. /\ Cache' = Cache /\ CacheNew' = CacheNew /\ Questions \subseteq Questions'
        /\ owed'.texts = owed.texts \cup {t} /\ owed'.answers = owed.answers
        /\ UNCHANGED <<cut, legacy, pc>> /\ Taken' = Taken
        /\ pc = "serving"
    BY <1>4 DEF AskQuestion, InsertRows, Taken, FileInv, TypeOK, OwedTypes, TableNames
  <2>2. /\ HasAnswers(Cache) => HasAnswers(Cache)'
        /\ Matches(Cache) => Matches(Cache)'
    BY <2>1 DEF HasAnswers, Matches
  <2> QED
    BY <2>1, <2>2 DEF AnswersInv
<1>5. ASSUME NEW q \in Questions, SaveAnswer(q)
      PROVE  AnswersInv'
  <2> DEFINE Others == {c \in Cache : c.id # q.id}
  <2>1. /\ Cache' = Others \cup {q} /\ CacheNew' = CacheNew /\ Questions' = Questions
        /\ owed'.texts = owed.texts /\ owed'.answers = owed.answers \cup {q.text}
        /\ UNCHANGED <<cut, legacy, pc>> /\ Taken' = Taken
        /\ pc = "serving"
    BY <1>5 DEF SaveAnswer, Taken, FileInv, TypeOK, OwedTypes, TableNames
  <2>2. IsTable(Others \cup {q})
    <3>1. IsTable({q})
      <4>1. q.id \in Nat /\ q = [id |-> q.id, text |-> q.text]
        BY DEF QuestionsInv, IsTable
      <4>2. Bounded({r.id : r \in {q}})
        BY <4>1 DEF Bounded
      <4> QED
        BY <4>1, <4>2 DEF IsTable
    <3>2. IsTable(Others)
      BY TablesCombine DEF AnswersInv
    <3> QED
      BY <3>1, <3>2, TablesCombine
  <2>3. TextsOf(Cache') \subseteq TextsOf(Cache) \cup TextsOf(Questions)
    BY <2>1 DEF TextsOf
  <2>4. Matches(Cache)'
    BY <2>1 DEF Matches, AnswersInv
  <2>5. HasAnswers(Cache)'
    <3> SUFFICES ASSUME "faq_answer_cache" \notin cut, Taken = {},
                        NEW a \in owed.answers \cup {q.text}
                 PROVE  a \in TextsOf(Cache')
      BY <2>1 DEF HasAnswers
    <3>1. CASE a = q.text
      BY <2>1, <3>1 DEF TextsOf
    <3>2. CASE a \in owed.answers
      <4>1. PICK c \in Cache : c.text = a
        BY <2>1, <3>2 DEF AnswersInv, HasAnswers, TextsOf
      <4>2. c \in Questions
        BY <2>1, <4>1 DEF AnswersInv, Matches
      <4>3. c = q \/ c \in Others
        BY <4>1, <4>2 DEF QuestionsInv, UniqueIds
      <4> QED
        BY <2>1, <4>1, <4>3 DEF TextsOf
    <3> QED
      BY <3>1, <3>2
  <2> QED
    BY <2>1, <2>2, <2>3, <2>4, <2>5 DEF AnswersInv, QuestionsInv
<1> QED
  BY <1>1, <1>2, <1>3, <1>4, <1>5 DEF Next

-----------------------------------------------------------------------------
(* The results *)

LEMMA InitIInv == Init => IInv
<1> SUFFICES ASSUME Init PROVE IInv
  OBVIOUS
<1> USE DEF Init
<1>1. FileInv
  BY LegacyAssumption, FaultsAssumption
  DEF FileInv, TypeOK, OwedTypes, TablesExist, TableNames, Statements, OldTable
<1>2. IdentitiesInv
  BY DEF IdentitiesInv, Identities, IdentitiesOld, OldTable, Linked, SameAccount
<1>3. ASSUME NEW t \in {"questions", "faq_questions", "faq_answer_cache"}
      PROVE  IsTable(rows[t]) /\ UniqueIds(rows[t])
  <2>1. IsTextTable(rows[t]) /\ UniqueIds(rows[t])
    BY LegacyAssumption
  <2>2. IsFiniteSet({r.id : r \in rows[t]}) /\ {r.id : r \in rows[t]} \in SUBSET Nat
    <3> DEFINE f == [r \in rows[t] |-> r.id]
    <3>1. f \in Surjection(rows[t], {r.id : r \in rows[t]})
      BY DEF Surjection
    <3>2. IsFiniteSet(rows[t])
      BY <2>1 DEF IsTextTable
    <3> HIDE DEF f
    <3>3. IsFiniteSet({r.id : r \in rows[t]})
      BY <3>1, <3>2, FS_Surjection
    <3> QED
      BY <2>1, <3>3 DEF IsTextTable
  <2> QED
    BY <2>1, <2>2, FiniteIsBounded DEF IsTable, IsTextTable
<1>4. QuestionsInv
  BY <1>3, LegacyAssumption
  DEF QuestionsInv, Questions, QuestionsOld, OldTable, Unindexed, Unmoved, TextsOf,
      FallbackOnlyOnDuplicates
<1>5. AnswersInv
  <2>1. CacheNew = {} /\ IsTable({})
    BY LegacyAssumption DEF CacheNew, TableNames, IsTable, Bounded
  <2>2. HasAnswers(Cache) /\ TextsOf(Cache) \cup TextsOf(CacheNew) \subseteq owed.texts
    BY <2>1, LegacyAssumption DEF HasAnswers, TextsOf, Cache
  <2> QED
    BY <1>3, <2>1, <2>2 DEF AnswersInv, Cache
<1> QED
  BY <1>1, <1>2, <1>4, <1>5 DEF IInv

\* The invariant that the theorem rests on holds in every reachable state: each
\* identity, question and answer that the file was given is in one of the tables
\* where the statement that comes next looks for it.
THEOREM IInvHolds == Spec => []IInv
<1>1. IInv /\ [Next]_vars => IInv'
  BY FileInvKept, MigrationKeepsIdentities, OthersKeepIdentities, MigrationKeepsQuestions,
     OthersKeepQuestions, MigrationKeepsAnswers, OthersKeepAnswers DEF IInv
<1> QED
  BY InitIInv, <1>1, PTL DEF Spec

\* StartKeepsData, for any legacy file, any number of starts and of interruptions
\* between any two statements: migrateAuthIdentities and migrateFAQQuestions lose
\* no row and move no answer, but in the cases the parts name.
THEOREM StartKeepsDataHolds == Spec => []StartKeepsData
<1>1. IInv => StartKeepsData
  <2> SUFFICES ASSUME IInv PROVE StartKeepsData
    OBVIOUS
  <2> USE DEF IInv, OldTable, Unmoved, Unindexed, IdentityStatements
  <2>1. IdentitiesKept
    BY DEF IdentitiesInv, IdentitiesKept, Linked, Identities
  <2>2. QuestionsKept
    BY DEF QuestionsInv, QuestionsKept, Questions
  <2>3. AnswersMatch
    BY DEF AnswersInv, AnswersMatch, Matches, Cache, Questions
  <2>4. AnswersKept
    BY DEF AnswersInv, AnswersKept, HasAnswers, Cache
  <2> QED
    BY <2>1, <2>2, <2>3, <2>4 DEF StartKeepsData, FileInv, QuestionsInv
<1> QED
  BY <1>1, IInvHolds, PTL
=============================================================================
