--------------------------- MODULE MCSummaryStream ---------------------------
(***************************************************************************)
(* SummaryStream for TLC: every answer of up to four symbols, the halves   *)
(* of the two markers and a word, and longer ones that begin right.  The   *)
(* UV advisor and the chunker of documents, which share the client of the  *)
(* model with it and nothing else, run after the empty answer only.        *)
(***************************************************************************)
EXTENDS SummaryStream, UvAdvice, Chunker, TLC

Halves == {"SUM", "MARY:", "KEY", "WORDS:", "sun"}
ShortAnswers == SeqOf(Halves, 4) \cup {<<"SUM", "MARY:">> \o rest : rest \in SeqOf(Halves, 3)}
LongAnswer == {<<"SUM", "MARY:", "sun", "rain", "wind", "KEY", "WORDS:", "sun", "rain">>}
HourTexts == {"nine", "nine, elsewhere", "ten", "unreadable"}
Clock == "nine" :> 9 @@ "nine, elsewhere" :> 9 @@ "ten" :> 10 @@ "unreadable" :> 0
SomeValues == {-150, 296, 300}
Advices == {"hat", " hat", "", " "}
Trimmed == "hat" :> "hat" @@ " hat" :> "hat" @@ "" :> "" @@ " " :> ""

\* Up to three records of one entry or one of two with a good message, any message
\* about one reading, and the calls that fail.
SomeRecords == SeqOf(SeqOf(Entries, 1), 3) \cup {<<r>> : r \in SeqOf(Entries, 2)}
SomeLists ==
  [kind : {"absent", "other"}] \cup [kind : {"text"}, text : Items] \cup [kind : {"list"}, items : SeqOf(Items, 2)]
Written(message) == [ok |-> TRUE, toolCalls |-> FALSE, message |-> message]
Message(summary, clothing, protection, tips) ==
  [summary |-> summary, lists |-> [clothing |-> clothing, protection |-> protection, tips |-> tips]]
Absent == [kind |-> "absent"]
SomeMessages ==
  {Message(s, c, p, Absent) : s \in {"", " ", "sunny"}, c \in SomeLists, p \in SomeLists}
  \cup {Message("sunny", c, Absent, t) : c \in {Absent, [kind |-> "text", text |-> "hat"]}, t \in SomeLists}
GoodMessage == Message("sunny", [kind |-> "list", items |-> <<"hat">>], Absent, Absent)
Fetched(records) == [ok |-> TRUE, records |-> records]
OneReading == <<<<[hour |-> "nine", value |-> 300]>>>>
Asked(fetched, completion) == [date |-> TRUE, fetched |-> fetched, completion |-> completion]
Requests ==
  {Asked(Fetched(r), Written(GoodMessage)) : r \in SomeRecords}
  \cup {Asked(Fetched(OneReading), Written(m)) : m \in SomeMessages}
  \cup [date : BOOLEAN, fetched : {[ok |-> FALSE, records |-> <<>>], Fetched(OneReading)},
        completion : [ok : BOOLEAN, toolCalls : BOOLEAN, message : {GoodMessage}]]

Answers == ShortAnswers \cup LongAnswer

SomeWords == [runes : {1, 3, 5, 9}, breaks : {0, 1}]
Documents == SeqOf(SomeWords, 4)
Sizes == {<<2, 0>>, <<3, 1>>, <<4, 2>>}

MCInit == Init /\ UvInit /\ ChunkInit
Over == script = <<>> /\ pc = "closed" /\ handler = "done" /\ ended = "done" /\ ~gone
MCNext ==
  \/ Next /\ UNCHANGED <<uvVars, processed>>
  \/ Over /\ processed = <<>> /\ UvNext /\ UNCHANGED <<vars, processed>>
  \/ Over /\ query = None /\ ProcessText /\ UNCHANGED <<vars, uvVars>>
MCSpec == MCInit /\ [][MCNext]_<<vars, uvVars, processed>> /\ Fairness
===============================================================================
