---------------------------- MODULE Configuration ----------------------------
(***************************************************************************)
(* internal/infra/config: the defaults, the file over them, the            *)
(* environment over both, and the checks; and what the providers and the   *)
(* parts they build rely on.                                               *)
(*                                                                         *)
(* Abstraction: a text is empty, blank or "set"; a number, whether an int, *)
(* a float or a duration, is an integer; a key is its length and whether   *)
(* it is only blanks.  Whether an environment variable can be parsed is    *)
(* all that is left of its spelling.  An int32 has Int32 values in place   *)
(* of 2^32, an int or int64 has Int64 in place of 2^64, and a megabyte has *)
(* MegaByte bytes.                                                         *)
(***************************************************************************)
EXTENDS Integers, SequencesExt, FiniteSets

CONSTANTS Int32, Int64, MegaByte, PoolConns, Refused

(* PoolConns is the size of a pool whose settings give none: the default   *)
(* of pgx, or what the address of the database asks for.                   *)
ASSUME WidthAssumption == Int32 \in Nat \ {0} /\ Int64 \in Nat \ {0} /\ MegaByte \in Nat \ {0}
ASSUME PoolAssumption == PoolConns \in Nat \ {0}

VARIABLE config   \* what Load returned, or << >> before

-----------------------------------------------------------------------------
(* Numbers of a width, and the keys *)

Ints(width) == -(width \div 2) .. width - (width \div 2) - 1
Wrapped(width, n) == ((n + width \div 2) % width) - width \div 2

Keys == [length : Nat, blank : BOOLEAN]
NoKey == [length |-> 0, blank |-> TRUE]

-----------------------------------------------------------------------------
(* The settings and their types *)

Config ==
  [http |-> [address |-> "text", readTimeout |-> "number", writeTimeout |-> "number",
             allowedOrigins |-> "list"],
   limit |-> [enabled |-> "bool", requestsPerMinute |-> "number", burst |-> "number"],
   retry |-> [enabled |-> "bool", maxAttempts |-> "number", baseBackoff |-> "number",
              exclude |-> "list"],
   sqlite |-> [enabled |-> "bool", path |-> "text"],
   summary |-> [maxSummaryLen |-> "number", maxKeywords |-> "number", defaultPrompt |-> "text"],
   llm |-> [apiKey |-> "text", baseUrl |-> "text", model |-> "text", embeddingModel |-> "text",
            temperature |-> "number"],
   uvAdvisor |-> [apiBaseUrl |-> "text", prompt |-> "text"],
   faq |-> [prompt |-> "text", cacheTtl |-> "number", topRecommendations |-> "number",
            similarityThreshold |-> "number", redisEnabled |-> "bool", redisAddr |-> "text",
            dsn |-> "text", maxConns |-> "int32", minConns |-> "int32"],
   auth |-> [jwtSecret |-> "text", accessTokenTtl |-> "number", refreshTokenTtl |-> "number",
             dsn |-> "text", maxConns |-> "int32", minConns |-> "int32"],
   google |-> [clientId |-> "text", clientSecret |-> "text", redirectUrl |-> "text",
               tokenEncryptionKey |-> "key", postLoginRedirectUrl |-> "text"],
   upload |-> [vectorDim |-> "number", maxFileMb |-> "number", maxPreviewChars |-> "number",
               redisEnabled |-> "bool", redisAddr |-> "text", dsn |-> "text",
               maxConns |-> "int32", minConns |-> "int32", workerEnabled |-> "bool"],
   memory |-> [enabled |-> "bool", topKMems |-> "number", maxHistoryTokens |-> "number",
               memoryVectorDim |-> "number", summaryEveryNTurns |-> "number",
               pruneLimit |-> "number"],
   storage |-> [endpoint |-> "text", accessKey |-> "text", secretKey |-> "text",
                bucket |-> "text", region |-> "text"]]

Fields == UNION {{s} \X DOMAIN Config[s] : s \in DOMAIN Config}

(* Positive numbers that no check tells apart are 2.                       *)
defaultConfig ==
  [http |-> [address |-> "set", readTimeout |-> 2, writeTimeout |-> 2, allowedOrigins |-> <<"*">>],
   limit |-> [enabled |-> TRUE, requestsPerMinute |-> 2, burst |-> 2],
   retry |-> [enabled |-> TRUE, maxAttempts |-> 3, baseBackoff |-> 2, exclude |-> <<"stream">>],
   sqlite |-> [enabled |-> TRUE, path |-> "set"],
   summary |-> [maxSummaryLen |-> 2, maxKeywords |-> 2, defaultPrompt |-> "set"],
   llm |-> [apiKey |-> "", baseUrl |-> "", model |-> "set", embeddingModel |-> "set",
            temperature |-> 2],
   uvAdvisor |-> [apiBaseUrl |-> "set", prompt |-> "set"],
   faq |-> [prompt |-> "set", cacheTtl |-> 2, topRecommendations |-> 2, similarityThreshold |-> 2,
            redisEnabled |-> FALSE, redisAddr |-> "", dsn |-> "", maxConns |-> 2, minConns |-> 2],
   auth |-> [jwtSecret |-> "", accessTokenTtl |-> 2, refreshTokenTtl |-> 3, dsn |-> "",
             maxConns |-> 2, minConns |-> 1],
   google |-> [clientId |-> "", clientSecret |-> "", redirectUrl |-> "", tokenEncryptionKey |-> NoKey,
               postLoginRedirectUrl |-> ""],
   upload |-> [vectorDim |-> 2, maxFileMb |-> 2, maxPreviewChars |-> 2, redisEnabled |-> FALSE,
               redisAddr |-> "", dsn |-> "", maxConns |-> 2, minConns |-> 1,
               workerEnabled |-> TRUE],
   memory |-> [enabled |-> FALSE, topKMems |-> 3, maxHistoryTokens |-> 2, memoryVectorDim |-> 2,
               summaryEveryNTurns |-> 0, pruneLimit |-> 2],
   storage |-> [endpoint |-> "", accessKey |-> "", secretKey |-> "", bucket |-> "", region |-> ""]]

Blank(text) == text \in {"", " "}

-----------------------------------------------------------------------------
(* The file and the environment *)

(* What the file and a variable may give for a setting of a kind; a        *)
(* variable that is empty counts as not set.                               *)
FileValues(kind) ==
  CASE kind = "text" -> STRING
    [] kind \in {"number", "int32"} -> Int
    [] kind = "key" -> Keys
    [] kind = "bool" -> BOOLEAN
    [] kind = "list" -> Seq(STRING)
VariableTexts(kind) ==
  IF kind = "key" THEN {"key"} \X (Keys \ {NoKey})
  ELSE ({"number"} \X Int) \cup ({"word"} \X (STRING \ {""}))

Files ==
  Seq(UNION {[section : {s[1]}, field : {s[2]}, value : FileValues(Config[s[1]][s[2]])] :
               s \in Fields})
Environments ==
  Seq(UNION {[section : {s[1]}, field : {s[2]}, text : VariableTexts(Config[s[1]][s[2]])] :
               s \in Fields})

(* The settings of a list that name a field; the last of them counts.      *)
Naming(settings, section, field) ==
  {i \in DOMAIN settings : settings[i].section = section /\ settings[i].field = field}

(* A number fits its setting.                                              *)
Fits(kind, n) ==
  /\ kind = "number" => n \in Ints(Int64)
  /\ kind = "int32" => n \in Ints(Int32)

(* The file gives some settings, [section, field, value]; those it does    *)
(* not name keep their defaults.  A number that does not fit is an error   *)
(* in a file.                                                              *)
Parses(file) ==
  \A i \in DOMAIN file : Fits(Config[file[i].section][file[i].field], file[i].value)
hydrateFromFile(cfg, file) ==
  [section \in DOMAIN cfg |-> [field \in DOMAIN cfg[section] |->
     LET named == Naming(file, section, field)
     IN  IF named = {} THEN cfg[section][field] ELSE file[Max(named)].value]]

(* An environment text is <<"number", n>>, <<"word", w>> or <<"key", k>>.  *)
(* A number is read as an int, and int32(n) keeps its low bits; a list is  *)
(* split at its commas and loses its blanks.                               *)
Readable(kind, text) ==
  kind \in {"number", "int32"} => text[1] = "number" /\ Fits("number", text[2])
Parsed(kind, text) ==
  LET number == text[1] = "number"
  IN  CASE kind = "text" -> IF number THEN "set" ELSE text[2]
        [] kind \in {"number", "key"} -> text[2]
        [] kind = "int32" -> Wrapped(Int32, text[2])
        [] kind = "bool" -> IF number THEN text[2] = 1 ELSE text[2] = "true"
        [] kind = "list" -> IF ~number /\ text[2] = "," THEN << >> ELSE <<"set">>

(* The variables that are set, [section, field, text], in the order the    *)
(* code reads them: JWT_SECRET and then AUTH_JWT_SECRET for one setting.   *)
(* What cannot be read is ignored.                                         *)
applyEnvOverrides(cfg, env) ==
  [section \in DOMAIN cfg |-> [field \in DOMAIN cfg[section] |->
     LET kind == Config[section][field]
         named == {i \in Naming(env, section, field) : Readable(kind, env[i].text)}
     IN  IF named = {} THEN cfg[section][field] ELSE Parsed(kind, env[Max(named)].text)]]

-----------------------------------------------------------------------------
(* The checks *)

googleConfigEnabled(google) ==
  \/ \E f \in {"clientId", "clientSecret", "redirectUrl", "postLoginRedirectUrl"} : ~Blank(google[f])
  \/ ~google.tokenEncryptionKey.blank

Validate(c) ==
  /\ c.http.address # ""
  /\ c.sqlite.enabled => ~Blank(c.sqlite.path)
  /\ c.summary.maxSummaryLen > 0 /\ c.summary.maxKeywords > 0 /\ c.summary.defaultPrompt # ""
  /\ c.uvAdvisor.apiBaseUrl # "" /\ c.uvAdvisor.prompt # ""
  /\ c.faq.prompt # "" /\ c.faq.cacheTtl >= 0 /\ c.faq.topRecommendations >= 0
  /\ c.faq.similarityThreshold >= 0
  /\ c.faq.redisEnabled => ~Blank(c.faq.redisAddr)
  /\ ~Blank(c.llm.embeddingModel)
  /\ c.limit.enabled => c.limit.requestsPerMinute > 0 /\ c.limit.burst > 0
  /\ c.retry.enabled => c.retry.maxAttempts > 0 /\ c.retry.baseBackoff > 0
  /\ c.auth.jwtSecret # "" /\ c.auth.accessTokenTtl > 0 /\ c.auth.refreshTokenTtl > 0
  /\ googleConfigEnabled(c.google) =>
       /\ \A f \in {"clientId", "clientSecret", "redirectUrl"} : ~Blank(c.google[f])
       /\ c.google.tokenEncryptionKey.length \in {16, 24, 32}
  /\ c.upload.vectorDim > 0 /\ c.upload.maxFileMb > 0 /\ c.upload.maxPreviewChars >= 0
  /\ c.memory.maxHistoryTokens >= 0 /\ c.memory.pruneLimit >= 0
  /\ c.memory.enabled => c.memory.topKMems > 0 /\ c.memory.memoryVectorDim > 0
  /\ c.upload.redisEnabled => ~Blank(c.upload.redisAddr)

\* Faulty variant: the environment is read after the checks.
LoadUnchecked(file, env) ==
  LET c == hydrateFromFile(defaultConfig, file)
  IN  IF Parses(file) /\ Validate([c EXCEPT !.auth.jwtSecret = "set"]) THEN applyEnvOverrides(c, env) ELSE Refused

Load(file, env) ==
  LET c == applyEnvOverrides(hydrateFromFile(defaultConfig, file), env)
  IN  IF Parses(file) /\ Validate(c) THEN c ELSE Refused

-----------------------------------------------------------------------------
(* What is made of the configuration *)

(* The budgets of Upload & Ask, with defaults for those left at zero.      *)
provideUploadAskConfig(c) ==
  LET positive(n, default) == IF n <= 0 THEN default ELSE n
  IN  [vectorDim |-> c.upload.vectorDim, maxFileBytes |-> Wrapped(Int64, c.upload.maxFileMb * MegaByte),
       topKMems |-> positive(c.memory.topKMems, 3),
       maxHistoryTokens |-> positive(c.memory.maxHistoryTokens, 2),
       memoryVectorDim |-> positive(c.memory.memoryVectorDim, c.upload.vectorDim),
       pruneLimit |-> positive(c.memory.pruneLimit, 2)]

(* The size of the pool of a Postgres database.                            *)
poolMaxConns(database) == IF database.maxConns > 0 THEN database.maxConns ELSE PoolConns

(* What the providers of the stores look at.                               *)
ProviderSettings(c) ==
  [sqlite |-> c.sqlite.enabled, faqDsn |-> ~Blank(c.faq.dsn), faqRedis |-> c.faq.redisEnabled,
   storage |-> \A f \in {"endpoint", "accessKey", "secretKey", "bucket"} : ~Blank(c.storage[f]),
   embedding |-> ~Blank(c.llm.embeddingModel), uploadDsn |-> ~Blank(c.upload.dsn),
   memory |-> c.memory.enabled, uploadRedis |-> c.upload.redisEnabled,
   authDsn |-> ~Blank(c.auth.dsn)]

(* The Google sign-in is offered, and its token cipher can be made.        *)
googleOAuthConfig(google) ==
  /\ \A f \in {"clientId", "clientSecret", "redirectUrl"} : ~Blank(google[f])
  /\ ~google.tokenEncryptionKey.blank
newCipher(key) == key.length \in {16, 24, 32}

-----------------------------------------------------------------------------
ConfigInit == config = << >>
ConfigLoad(file, env) == config = << >> /\ config' = Load(file, env)

Configure == \E file \in Files, env \in Environments : ConfigLoad(file, env)

ConfigSpec == ConfigInit /\ [][Configure]_config

(* A server that starts can serve: the limiter has a rate and a burst, a   *)
(* request has an attempt, tokens are signed and live, every enabled       *)
(* service has an address, a database its connections, documents have a    *)
(* dimension, and a history, a prune and a search for memories have a      *)
(* budget, whatever the file and the environment say, together or against  *)
(* each other.  Two values are accepted and do not do what they say, and   *)
(* are named here.  A key of blanks has a good length, but is no key: the  *)
(* Google sign-in is then not offered.  A size of documents whose bytes    *)
(* are more than an int64 becomes another one, or none.                    *)
AcceptedConfigIsUsable ==
  config \notin {<< >>, Refused} =>
    LET c == config
        ask == provideUploadAskConfig(c)
        bytes == c.upload.maxFileMb * MegaByte
    IN  /\ c.limit.enabled => c.limit.requestsPerMinute > 0 /\ c.limit.burst > 0
        /\ c.retry.enabled => c.retry.maxAttempts > 0 /\ c.retry.baseBackoff > 0
        /\ c.auth.jwtSecret # "" /\ c.auth.accessTokenTtl > 0 /\ c.auth.refreshTokenTtl > 0
        /\ googleOAuthConfig(c.google) => newCipher(c.google.tokenEncryptionKey)
        /\ googleConfigEnabled(c.google) =>
             googleOAuthConfig(c.google) \/ c.google.tokenEncryptionKey.blank
        /\ c.sqlite.enabled => ~Blank(c.sqlite.path)
        /\ c.faq.redisEnabled => ~Blank(c.faq.redisAddr)
        /\ c.upload.redisEnabled => ~Blank(c.upload.redisAddr)
        /\ \A budget \in DOMAIN ask \ {"maxFileBytes"} : ask[budget] > 0
        /\ bytes \in Ints(Int64) => ask.maxFileBytes = bytes /\ bytes > 0
        /\ \A database \in {c.faq, c.auth, c.upload} : poolMaxConns(database) > 0
        /\ ProviderSettings(c).embedding
=============================================================================
