------------------------------ MODULE MCWiring ------------------------------
(* The start of a server for TLC.  A behaviour either loads a configura-   *)
(* tion, with one setting more in the file and one more in the environment *)
(* than a base has; or migrates the SQLite file of an older version, over  *)
(* several starts; or lives through the processes of a deployment: SQLite  *)
(* alone, as it is by default, or backed by Postgres, or beside the other  *)
(* services; and Postgres for the documents, with and without one for the  *)
(* users.                                                                  *)
EXTENDS Wiring, Configuration, MCSqliteMigrations

VARIABLE part
startVars == <<wiringVars, config, vars, part>>

InFile(section, field, value) == [section |-> section, field |-> field, value |-> value]
InEnv(section, field, text) == [section |-> section, field |-> field, text |-> text]

Key(length, blank) == [length |-> length, blank |-> blank]

Secret == <<InEnv("auth", "jwtSecret", <<"word", "set">>)>>
Google ==
  <<InFile("google", "clientId", "set"), InFile("google", "clientSecret", "set"),
    InFile("google", "redirectUrl", "set"), InFile("google", "tokenEncryptionKey", Key(16, FALSE))>>
Off ==
  <<InFile("sqlite", "enabled", FALSE), InFile("limit", "enabled", FALSE),
    InFile("retry", "enabled", FALSE)>>
On ==
  <<InFile("memory", "enabled", TRUE), InFile("faq", "redisEnabled", TRUE),
    InFile("faq", "redisAddr", "set"), InFile("upload", "redisEnabled", TRUE),
    InFile("upload", "redisAddr", "set")>>

Values(kind) ==
  CASE kind = "text" -> {"", " ", "set"}
    [] kind = "number" -> {-1, 0, 1, 9, 17, 32}
    [] kind = "int32" -> {-1, 0, 1, 8}
    [] kind = "bool" -> BOOLEAN
    [] kind = "list" -> {<< >>, <<"set">>}
    [] kind = "key" -> {NoKey, Key(15, FALSE), Key(32, FALSE), Key(16, TRUE)}
EnvTexts(kind) ==
  CASE kind = "text" -> {<<"word", w>> : w \in {" ", "set"}}
    [] kind = "number" -> {<<"number", n>> : n \in {-1, 0, 1, 9, 32}} \cup {<<"word", "bad">>}
    [] kind = "int32" -> {<<"number", n>> : n \in {1, Int32 \div 2, Int32, Int32 + 3, Int64}}
    [] kind = "bool" -> {<<"word", "true">>, <<"word", "no">>, <<"number", 1>>}
    [] kind = "list" -> {<<"word", ",">>, <<"word", "set">>}
    [] kind = "key" -> {<<"key", k>> : k \in {Key(15, FALSE), Key(24, FALSE), Key(24, TRUE)}}

FileSettings(section) ==
  UNION {{<<InFile(section, f, v)>> : v \in Values(Config[section][f])} : f \in DOMAIN Config[section]}
EnvSettings(section) ==
  UNION {{<<InEnv(section, f, t)>> : t \in EnvTexts(Config[section][f])} :
           f \in DOMAIN Config[section] \ {"exclude"}}

ConfigNext ==
  \E section \in DOMAIN Config, base \in {<< >>, Google, Off, On}, secret \in {<< >>, Secret} :
    \E more \in FileSettings(section) \cup {<< >>}, env \in EnvSettings(section) \cup {<< >>} :
      ConfigLoad(base \o more, secret \o env)

MCSettings ==
  {ProviderSettings(Load(doc, Secret)) : doc \in
     {<< >>,
      <<InFile("upload", "dsn", "set"), InFile("faq", "dsn", "set"),
        InFile("memory", "enabled", TRUE)>>,
      <<InFile("faq", "redisEnabled", TRUE), InFile("faq", "redisAddr", "set"),
        InFile("upload", "redisEnabled", TRUE), InFile("upload", "redisAddr", "set"),
        InFile("storage", "endpoint", "set"), InFile("storage", "accessKey", "set"),
        InFile("storage", "secretKey", "set"), InFile("storage", "bucket", "set")>>,
      <<InFile("sqlite", "enabled", FALSE), InFile("upload", "dsn", "set")>>,
      <<InFile("sqlite", "enabled", FALSE), InFile("upload", "dsn", "set"),
        InFile("auth", "dsn", "set")>>}}

\* A part that is not looked at starts with a fixed value.
MCInit ==
  /\ WiringInit /\ ConfigInit /\ Init
  /\ part \in {"processes", "configuration", "migrations"}
  /\ part # "processes" => settings = ProviderSettings(Load(<< >>, Secret))
  /\ part # "migrations" => legacy = File(<< >>, FALSE)
MCNext ==
  /\ UNCHANGED part
  /\ \/ part = "processes" /\ WiringNext /\ UNCHANGED <<config, vars>>
     \/ part = "configuration" /\ ConfigNext /\ UNCHANGED <<wiringVars, vars>>
     \/ part = "migrations" /\ Next /\ UNCHANGED <<wiringVars, config>>

StartSpec == MCInit /\ [][MCNext]_startVars /\ Fairness
=============================================================================
