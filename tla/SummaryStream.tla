---------------------------- MODULE SummaryStream ----------------------------
(***************************************************************************)
(* A streamed summary: the chat model writes its answer piece by piece, a  *)
(* goroutine reads it and hands partial summaries over an unbuffered       *)
(* channel to the HTTP handler, which writes them to a client that may     *)
(* leave.                                                                  *)
(*                                                                         *)
(* A text is a sequence of symbols.  The two markers are made of two       *)
(* symbols each, so that a piece may end within one.                       *)
(***************************************************************************)
EXTENDS Integers, Sequences, SequencesExt, FiniteSetsExt

CONSTANTS
  Scripts,       \* what the model may be about to write
  MaxPiece,      \* bound on the symbols that come at once
  MaxSummaryLen, \* summary.maxSummaryLen, in symbols
  MaxKeywords,   \* summary.maxKeywords
  Malformed

ASSUME ScriptAssumption == \A s \in Scripts : s \in Seq(STRING)
ASSUME LengthAssumption == MaxSummaryLen \in Nat /\ MaxKeywords \in Nat /\ MaxPiece \in Nat \ {0}

-----------------------------------------------------------------------------
(* Reading an answer *)

\* Where a marker begins, 0 when it is not there.
FindMarker(text, a, b) ==
  LET At == {i \in 1..Len(text) - 1 : text[i] = a /\ text[i + 1] = b}
  IN IF At = {} THEN 0 ELSE Min(At)
After(text, i) == SubSeq(text, i + 2, Len(text))
Before(text, i) == IF i = 0 THEN text ELSE SubSeq(text, 1, i - 1)

\* Faulty variant: the keywords are shown with the summary.
ExtractAll(text) ==
  LET s == FindMarker(text, "SUM", "MARY:")
  IN IF s = 0 THEN text ELSE After(text, s)

\* What is shown of an answer that is still coming: all of it before the marker is seen.
ExtractSummary(text) ==
  LET s == FindMarker(text, "SUM", "MARY:")
      body == After(text, s)
  IN IF s = 0 THEN text ELSE Before(body, FindMarker(body, "KEY", "WORDS:"))

\* The dots that end a text which was cut count as one symbol.
Truncate(text) ==
  IF MaxSummaryLen = 0 \/ Len(text) <= MaxSummaryLen THEN text
  ELSE IF MaxSummaryLen = 1 THEN SubSeq(text, 1, 1)
  ELSE SubSeq(text, 1, MaxSummaryLen - 1) \o <<"...">>

SplitKeywords(raw) ==
  IF MaxKeywords = 0 THEN raw ELSE SubSeq(raw, 1, Min({MaxKeywords, Len(raw)}))

\* The summary and the keywords of a whole answer, or Malformed.
ParseStructuredResponse(text) ==
  LET s == FindMarker(text, "SUM", "MARY:")
      body == After(text, s)
      k == FindMarker(body, "KEY", "WORDS:")
  IN IF s = 0 \/ Before(body, k) = <<>> THEN Malformed
     ELSE [summary |-> Before(body, k),
           keywords |-> SplitKeywords(IF k = 0 THEN <<>> ELSE After(body, k))]

\* What the request without a stream answers.
Summarize(text) ==
  LET parsed == ParseStructuredResponse(text)
  IN IF parsed = Malformed THEN Malformed
     ELSE [text |-> Truncate(parsed.summary), completed |-> TRUE, keywords |-> parsed.keywords]

Partial(text) == [text |-> Truncate(ExtractSummary(text)), completed |-> FALSE, keywords |-> <<>>]

-----------------------------------------------------------------------------

VARIABLES
  script,   \* what the model writes
  received, \* how much of it the goroutine has read
  ended,    \* how its answer ended: "open", "done", "eof" or "error"
  pc,       \* the goroutine: "recv", "send", "last" or "closed"
  pending,  \* the chunk it offers on the channel
  shown,    \* the last partial summary it offered
  handler,  \* "draining" or "done"
  gone,     \* the client has left
  got       \* what the client was sent

vars == <<script, received, ended, pc, pending, shown, handler, gone, got>>

content == SubSeq(script, 1, received)
Nothing == [text |-> <<>>, completed |-> FALSE, keywords |-> <<>>]

Init ==
  /\ script \in Scripts
  /\ received = 0
  /\ ended = "open"
  /\ pc = "recv"
  /\ pending = Nothing /\ shown = <<>>
  /\ handler = "draining"
  /\ gone = FALSE
  /\ got = <<>>

\* Faulty variant: the piece is shown in place of all that has come.
RecvPiece(k) ==
  /\ pc = "recv" /\ ended = "open" /\ received + k <= Len(script)
  /\ received' = received + k
  /\ pc' = "send"
  /\ pending' = Partial(SubSeq(script, received + 1, received + k))
  /\ shown' = pending'.text
  /\ UNCHANGED <<script, ended, handler, gone, got>>

\* The next piece: offered when it changes what is to be seen.
Recv(k) ==
  LET partial == Partial(SubSeq(script, 1, received + k))
  IN /\ pc = "recv" /\ ended = "open" /\ received + k <= Len(script)
     /\ received' = received + k
     /\ IF partial.text \in {<<>>, shown}
        THEN UNCHANGED <<pc, pending, shown>>
        ELSE pc' = "send" /\ pending' = partial /\ shown' = partial.text
     /\ UNCHANGED <<script, ended, handler, gone, got>>

\* The loop is over: what has come is parsed as a whole answer, however it ended.
Finish ==
  /\ IF content = <<>> \/ Summarize(content) = Malformed
     THEN pc' = "closed" /\ UNCHANGED pending
     ELSE pc' = "last" /\ pending' = Summarize(content)
  /\ UNCHANGED <<script, received, shown, handler, gone, got>>

\* The model says that it is done.
Done ==
  /\ pc = "recv" /\ received = Len(script)
  /\ ended' = "done"
  /\ Finish

\* The connection is closed early, a line cannot be read, the client's context is
\* cancelled, or the three minutes of the HTTP client are over.
BreaksOff ==
  /\ pc = "recv"
  /\ ended' \in {"eof", "error"}
  /\ Finish

\* Faulty variant: the handler stops reading when its client has left.
TakeForClient ==
  /\ handler = "draining" /\ pc \in {"send", "last"} /\ ~gone
  /\ pc' = IF pc = "send" THEN "recv" ELSE "closed"
  /\ got' = Append(got, pending)
  /\ UNCHANGED <<script, received, ended, pending, shown, handler, gone>>

\* The handler takes a chunk from the channel; what it writes to a client that has left is lost.
Take ==
  /\ handler = "draining" /\ pc \in {"send", "last"}
  /\ pc' = IF pc = "send" THEN "recv" ELSE "closed"
  /\ got' = IF gone THEN got ELSE Append(got, pending)
  /\ UNCHANGED <<script, received, ended, pending, shown, handler, gone>>

\* The closed channel ends the handler.
HandlerEnds ==
  /\ handler = "draining" /\ pc = "closed"
  /\ handler' = "done"
  /\ UNCHANGED <<script, received, ended, pc, pending, shown, gone, got>>

ClientLeaves ==
  /\ ~gone /\ handler = "draining"
  /\ gone' = TRUE
  /\ UNCHANGED <<script, received, ended, pc, pending, shown, handler, got>>

Next ==
  \/ \E k \in 1..MaxPiece : Recv(k)
  \/ Done \/ BreaksOff
  \/ Take \/ HandlerEnds
  \/ ClientLeaves

\* The goroutine's reads end, the HTTP client's timeout sees to that, and both
\* goroutines run.
Fairness ==
  /\ WF_vars((\E k \in 1..MaxPiece : Recv(k)) \/ Done \/ BreaksOff)
  /\ WF_vars(Take)
  /\ WF_vars(HandlerEnds)

Spec == Init /\ [][Next]_vars /\ Fairness

-----------------------------------------------------------------------------
(* Properties *)

\* Whenever the goroutine waits for the model, a client that is there has seen all
\* that can be shown of what has come: no partial summary is skipped, held back
\* or made of a piece alone, wherever the pieces end.
ClientIsUpToDate ==
  (pc = "recv" /\ ~gone /\ Partial(content).text # <<>>) =>
    /\ got # <<>>
    /\ Last(got) = Partial(content)

\* The completed chunk comes once, last, and repeats the partial summary before it,
\* though the two are found by different functions.  When the model had finished
\* it is the answer to the same request without a stream, and then a client that
\* stayed does get it.  An answer that broke off may be taken for a whole one:
\* only then does the completed chunk hold less than the model would have written.
CompletedIsWhole ==
  /\ \A i \in DOMAIN got : got[i].completed =>
       /\ i = Len(got) /\ i > 1 /\ pc = "closed"
       /\ got[i].text = got[i - 1].text
       /\ got[i] # Summarize(script) => ended \in {"eof", "error"} /\ received < Len(script)
  /\ (handler = "done" /\ ~gone /\ ended = "done" /\ Summarize(script) # Malformed) =>
       got # <<>> /\ Last(got).completed

\* The handler ends, and with it the goroutine that feeds it, whoever leaves first.
StreamEnds == <>(handler = "done" /\ pc = "closed")
===============================================================================
