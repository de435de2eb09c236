--------------------------- MODULE TextModels_proofs ---------------------------
(***************************************************************************)
(* Proofs about texts of any length and the loops over them: the stream of *)
(* SummaryStream, for any answers, wherever their pieces end, and any      *)
(* limits on the summary and the keywords; the advice of UvAdvice, for any *)
(* records and any message; and the chunks and vectors of Chunker, for any *)
(* document and any budgets.                                               *)
(***************************************************************************)
EXTENDS SummaryStream, UvAdvice, Chunker, SequenceTheorems, FiniteSetTheorems, WellFoundedInduction, TLAPS

-----------------------------------------------------------------------------
(* The texts *)

LEMMA MinOfNats ==
  ASSUME NEW S \in SUBSET Nat, S # {}
  PROVE  Min(S) \in S /\ \A y \in S : Min(S) <= y
<1> DEFINE R == {ss \in Nat \X Nat : ss[1] < ss[2]}
<1>1. IsWellFoundedOn(R, Nat)
  BY NatLessThanWellFounded DEF OpToRel
<1>2. \E m \in S : \A y \in S : <<y, m>> \notin R
  <2> HIDE DEF R
  <2> QED
    BY <1>1, WFMin
<1>3. PICK m \in S : \A y \in S : <<y, m>> \notin R
  BY <1>2
<1>4. \A y \in S : m <= y
  <2>1. ASSUME NEW y \in S, y < m
        PROVE  FALSE
    <3>1. <<y, m>> \in Nat \X Nat /\ <<y, m>>[1] = y /\ <<y, m>>[2] = m
      OBVIOUS
    <3> QED
      BY <1>3, <2>1, <3>1
  <2> QED
    BY <2>1
<1> QED
  BY <1>4 DEF Min

Symbols == STRING \cup {"..."}

\* A part of a text is a text.
LEMMA PartOfText ==
  ASSUME NEW text \in Seq(Symbols), NEW i \in Nat \ {0}, NEW j \in Int, j <= Len(text)
  PROVE  /\ SubSeq(text, i, j) \in Seq(Symbols)
         /\ Len(SubSeq(text, i, j)) = IF i <= j THEN j - i + 1 ELSE 0
<1>1. \A n \in i..j : text[n] \in Symbols
  BY ElementOfSeq
<1> QED
  BY <1>1, SubSeqProperties

LEMMA MarkerIsNat ==
  ASSUME NEW text \in Seq(Symbols), NEW a, NEW b
  PROVE  FindMarker(text, a, b) \in Nat /\ FindMarker(text, a, b) < Len(text) + 1
<1> DEFINE At == {i \in 1..Len(text) - 1 : text[i] = a /\ text[i + 1] = b}
<1>0. Len(text) \in Nat
  BY LenProperties
<1>1. CASE At = {}
  BY <1>0, <1>1 DEF FindMarker
<1>2. CASE At # {}
  <2>1. At \in SUBSET Nat /\ \A i \in At : i < Len(text)
    BY <1>0
  <2>2. FindMarker(text, a, b) = Min(At)
    BY <1>2 DEF FindMarker
  <2> HIDE DEF At
  <2>3. Min(At) \in At
    BY <1>2, <2>1, MinOfNats
  <2>4. Min(At) \in Nat /\ Min(At) < Len(text)
    BY <2>1, <2>3
  <2> QED
    BY <1>0, <2>2, <2>4
<1> QED
  BY <1>1, <1>2

LEMMA PartsOfAnswer ==
  ASSUME NEW text \in Seq(Symbols), NEW a, NEW b
  PROVE  /\ Before(text, FindMarker(text, a, b)) \in Seq(Symbols)
         /\ After(text, FindMarker(text, a, b)) \in Seq(Symbols)
<1> DEFINE i == FindMarker(text, a, b)
<1>0. i \in Nat /\ i < Len(text) + 1 /\ Len(text) \in Nat
  BY MarkerIsNat, LenProperties
<1> HIDE DEF i
<1>1. Before(text, i) \in Seq(Symbols)
  BY <1>0, PartOfText DEF Before
<1>2. After(text, i) \in Seq(Symbols)
  BY <1>0, PartOfText DEF After
<1> QED
  BY <1>1, <1>2 DEF i

\* Cutting a text to its length leaves something of it, and nothing of nothing.
LEMMA TruncateKeepsSome ==
  ASSUME NEW text \in Seq(Symbols)
  PROVE  Truncate(text) = <<>> <=> text = <<>>
<1>0. Len(text) \in Nat /\ (text = <<>> <=> Len(text) = 0)
  BY LenProperties, EmptySeq
<1>1. CASE MaxSummaryLen = 0 \/ Len(text) <= MaxSummaryLen
  BY <1>1 DEF Truncate
<1>2. CASE ~(MaxSummaryLen = 0 \/ Len(text) <= MaxSummaryLen) /\ MaxSummaryLen = 1
  <2>1. Len(text) > 1
    BY <1>0, <1>2
  <2>2. Len(SubSeq(text, 1, 1)) = 1
    BY <1>0, <2>1, PartOfText
  <2> QED
    BY <1>0, <1>2, <2>1, <2>2 DEF Truncate
<1>3. CASE ~(MaxSummaryLen = 0 \/ Len(text) <= MaxSummaryLen) /\ MaxSummaryLen # 1
  <2>1. MaxSummaryLen \in Nat /\ Len(text) > MaxSummaryLen
    BY <1>0, <1>3, LengthAssumption
  <2>2. SubSeq(text, 1, MaxSummaryLen - 1) \in Seq(Symbols)
    BY <1>0, <2>1, PartOfText
  <2>3. <<"...">> \in Seq(Symbols) /\ Len(<<"...">>) = 1
    BY DEF Symbols
  <2>4. Len(SubSeq(text, 1, MaxSummaryLen - 1) \o <<"...">>) # 0
    BY <2>2, <2>3, ConcatProperties, LenProperties
  <2>5. Truncate(text) = SubSeq(text, 1, MaxSummaryLen - 1) \o <<"...">>
    BY <1>3 DEF Truncate
  <2> QED
    BY <1>0, <2>1, <2>4, <2>5
<1> QED
  BY <1>1, <1>2, <1>3

\* The last partial summary of an answer that is parsed is its summary, though the
\* two are found by different functions.
LEMMA SummaryIsLastPartial ==
  ASSUME NEW text \in Seq(Symbols), Summarize(text) # Malformed
  PROVE  /\ Summarize(text).text = Partial(text).text
         /\ Summarize(text).completed
         /\ Partial(text).text # <<>>
<1> DEFINE s == FindMarker(text, "SUM", "MARY:")
           body == After(text, s)
           k == FindMarker(body, "KEY", "WORDS:")
<1>1. /\ s # 0 /\ Before(body, k) # <<>>
      /\ ParseStructuredResponse(text).summary = Before(body, k)
      /\ Summarize(text).text = Truncate(ParseStructuredResponse(text).summary)
      /\ Summarize(text).completed
  BY DEF Summarize, ParseStructuredResponse
<1>2. Partial(text).text = Truncate(Before(body, k))
  BY <1>1 DEF Partial, ExtractSummary
<1>3. Before(body, k) \in Seq(Symbols)
  BY PartsOfAnswer
<1> QED
  BY <1>1, <1>2, <1>3, TruncateKeepsSome

LEMMA NothingShows ==
  Partial(<<>>).text = <<>> /\ Summarize(<<>>) = Malformed
<1>1. FindMarker(<<>>, "SUM", "MARY:") = 0
  BY DEF FindMarker
<1>2. Truncate(<<>>) = <<>>
  BY EmptySeq, TruncateKeepsSome
<1> QED
  BY <1>1, <1>2 DEF Partial, ExtractSummary, Summarize, ParseStructuredResponse

-----------------------------------------------------------------------------
(* The inductive invariant *)

\* All that may be offered to the client.
Chunks ==
  {Nothing} \cup {Partial(SubSeq(script, 1, n)) : n \in 0..Len(script)}
            \cup {Summarize(SubSeq(script, 1, n)) : n \in 0..Len(script)}

TypeInv ==
  /\ script \in Seq(Symbols)
  /\ received \in 0..Len(script)
  /\ ended \in {"open", "done", "eof", "error"}
  /\ pc \in {"recv", "send", "last", "closed"}
  /\ pending \in Chunks
  /\ gone \in BOOLEAN
  /\ got \in Seq(Chunks)
  /\ handler \in {"draining", "done"}

\* A client that is there has seen the last partial summary that was offered, when
\* it is not offered just now.
Shows(text) == [text |-> text, completed |-> FALSE, keywords |-> <<>>]
Seen == shown # <<>> => got # <<>> /\ Last(got) = Shows(shown)

\* What is offered is what can be shown of what has come.
Offering ==
  /\ pc = "recv" => Partial(content).text \in {<<>>, shown} /\ (~gone => Seen)
  /\ pc = "send" => pending = Partial(content) /\ shown = pending.text
  /\ pc = "last" =>
       /\ pending = Summarize(content) /\ pending # Malformed
       /\ ~gone => got # <<>> /\ Last(got) = Partial(content)
       /\ ended \in {"eof", "error"} \/ received = Len(script)

\* A chunk is completed only when it is the last of all.
Whole(i) ==
  /\ i = Len(got) /\ i > 1 /\ pc = "closed"
  /\ got[i].text = got[i - 1].text
  /\ got[i] # Summarize(script) => ended \in {"eof", "error"} /\ received < Len(script)

\* Who stayed with a finished answer gets it whole.
Ending ==
  /\ \A i \in DOMAIN got : got[i].completed => Whole(i)
  /\ (pc = "closed" /\ ~gone /\ ended = "done" /\ Summarize(script) # Malformed) =>
       got # <<>> /\ Last(got).completed
  /\ handler = "done" => pc = "closed"
  /\ pc = "last" => ended # "open"

IInv == TypeInv /\ Offering /\ Ending

LEMMA WholeIsScript ==
  ASSUME TypeInv, received = Len(script)
  PROVE  content = script
  BY SubSeqFull DEF TypeInv, content

LEMMA ContentIsText ==
  ASSUME TypeInv
  PROVE  content \in Seq(Symbols)
  BY PartOfText DEF TypeInv, content

LEMMA PartialIsPartial ==
  ASSUME NEW text
  PROVE  Partial(text) = Shows(Partial(text).text) /\ ~Partial(text).completed
  BY DEF Partial, Shows

LEMMA InitiallyIInv == Init => IInv
<1> SUFFICES ASSUME Init PROVE IInv
  OBVIOUS
<1>1. script \in Seq(Symbols)
  <2>1. script \in Seq(STRING) /\ STRING \subseteq Symbols
    BY ScriptAssumption DEF Init, Symbols
  <2> QED
    BY <2>1, SeqMonotonic
<1>2. Len(script) \in Nat /\ <<>> \in Seq(Chunks) /\ Len(<<>>) = 0
  BY <1>1, LenProperties, EmptySeq
<1>3. TypeInv
  <2>1. pending \in Chunks
    BY DEF Init, Chunks
  <2>2. received \in 0..Len(script)
    BY <1>2 DEF Init
  <2> QED
    BY <1>1, <1>2, <2>1, <2>2 DEF Init, TypeInv
<1>4. content = <<>>
  BY SubSeqEmpty DEF Init, content
<1>5. Offering
  BY <1>4, NothingShows DEF Init, Offering, Seen
<1>6. Ending
  BY DEF Init, Ending
<1> QED
  BY <1>3, <1>5, <1>6 DEF IInv

-----------------------------------------------------------------------------
(* The steps *)

LEMMA RecvKept ==
  ASSUME IInv, NEW k \in 1..MaxPiece, Recv(k)
  PROVE  IInv'
<1> DEFINE partial == Partial(SubSeq(script, 1, received + k))
<1>0. /\ TypeInv /\ Offering /\ Ending /\ pc = "recv" /\ received + k \in 0..Len(script)
      /\ received' = received + k /\ UNCHANGED <<script, ended, handler, gone, got>>
  <2>1. Len(script) \in Nat /\ received \in Nat /\ k \in Nat
    BY LenProperties, LengthAssumption DEF IInv, TypeInv
  <2> QED
    BY <2>1 DEF IInv, Recv
<1>1. Partial(content)' = partial /\ partial \in Chunks /\ Chunks' = Chunks
  <2>1. Partial(content)' = partial BY <1>0 DEF content, Partial, Truncate, ExtractSummary
  <2>2. partial \in Chunks BY <1>0 DEF Chunks
  <2>3. Chunks' = Chunks BY <1>0 DEF Chunks, Summarize, Partial, Truncate, ExtractSummary, Nothing
  <2> QED BY <2>1, <2>2, <2>3
<1>2. CASE partial.text \in {<<>>, shown} /\ UNCHANGED <<pc, pending, shown>>
  <2>1. TypeInv'
    BY <1>0, <1>1, <1>2 DEF TypeInv
  <2>2. Offering'
    BY <1>0, <1>1, <1>2 DEF Offering, Seen, Shows
  <2>3. Ending'
    BY <1>0, <1>2 DEF Ending, Whole
  <2> QED
    BY <2>1, <2>2, <2>3 DEF IInv
<1>3. CASE pc' = "send" /\ pending' = partial /\ shown' = partial.text
  <2>1. TypeInv'
    BY <1>0, <1>1, <1>3 DEF TypeInv
  <2>2. Offering'
    BY <1>0, <1>1, <1>3 DEF Offering
  <2>3. Ending'
    BY <1>0, <1>3 DEF Ending, Whole
  <2> QED
    BY <2>1, <2>2, <2>3 DEF IInv
<1> QED
  BY <1>2, <1>3 DEF Recv

LEMMA FinishKept ==
  ASSUME IInv, pc = "recv", Finish, ended' \in {"done", "eof", "error"},
         ended' = "done" => received = Len(script)
  PROVE  IInv'
<1>0. /\ TypeInv /\ Offering /\ Ending
      /\ UNCHANGED <<script, received, shown, handler, gone, got>>
      /\ Chunks' = Chunks /\ content' = content /\ content \in Seq(Symbols)
  BY ContentIsText DEF IInv, Finish, Chunks, content
<1>1. \A i \in DOMAIN got : ~got[i].completed
  BY <1>0 DEF Ending, Whole
<1>2. CASE /\ content = <<>> \/ Summarize(content) = Malformed
           /\ pc' = "closed" /\ UNCHANGED pending
  <2>1. TypeInv' /\ Offering'
    BY <1>0, <1>2 DEF TypeInv, Offering
  <2>2. ended' = "done" => Summarize(script) = Malformed
    BY <1>0, <1>2, NothingShows, WholeIsScript
  <2> QED
    BY <1>0, <1>1, <1>2, <2>1, <2>2 DEF IInv, Ending
<1>3. CASE /\ ~(content = <<>> \/ Summarize(content) = Malformed)
           /\ pc' = "last" /\ pending' = Summarize(content)
  <2>1. Summarize(content) \in Chunks
    BY <1>0 DEF Chunks, content, TypeInv
  <2>2. ~gone => got # <<>> /\ Last(got) = Partial(content)
    <3>1. Partial(content).text # <<>>
      BY <1>0, <1>3, SummaryIsLastPartial
    <3> QED
      BY <1>0, <3>1, PartialIsPartial DEF Offering, Seen
  <2>3. TypeInv' /\ Offering'
    BY <1>0, <1>3, <2>1, <2>2 DEF TypeInv, Offering
  <2> QED
    BY <1>0, <1>1, <1>3, <2>3 DEF IInv, Ending
<1> QED
  BY <1>2, <1>3 DEF Finish

LEMMA TakeKept ==
  ASSUME IInv, Take
  PROVE  IInv'
<1>0. /\ TypeInv /\ Offering /\ Ending /\ pc \in {"send", "last"} /\ handler = "draining"
      /\ UNCHANGED <<script, received, ended, pending, shown, handler, gone>>
      /\ Chunks' = Chunks /\ content' = content /\ content \in Seq(Symbols)
      /\ got \in Seq(Chunks) /\ pending \in Chunks /\ Len(got) \in Nat /\ DOMAIN got = 1..Len(got)
  BY ContentIsText, LenProperties DEF IInv, Take, Chunks, content, TypeInv
<1>1. \A i \in DOMAIN got : ~got[i].completed
  BY <1>0 DEF Ending, Whole
<1>2. ~gone => /\ got' \in Seq(Chunks) /\ got' # <<>> /\ Len(got') = Len(got) + 1
               /\ DOMAIN got' = 1..(Len(got) + 1)
               /\ \A i \in 1..Len(got) : got'[i] = got[i]
               /\ got'[Len(got) + 1] = pending /\ Last(got') = pending
  BY <1>0, AppendProperties, LenProperties DEF Take, Last
<1>3. CASE pc = "send"
  <2>1. pc' = "recv" /\ pending = Partial(content) /\ shown = pending.text /\ ~pending.completed
    BY <1>0, <1>3, PartialIsPartial DEF Take, Offering
  <2>2. TypeInv'
    BY <1>0, <1>2, <2>1 DEF TypeInv, Take
  <2>3. Offering'
    BY <1>0, <1>2, <2>1, PartialIsPartial DEF Offering, Seen, Shows
  <2>4. \A i \in DOMAIN got' : ~got'[i].completed
    BY <1>0, <1>1, <1>2, <2>1 DEF Take
  <2> QED
    BY <1>0, <2>1, <2>2, <2>3, <2>4 DEF IInv, Ending
<1>4. CASE pc = "last"
  <2>1. /\ pc' = "closed" /\ pending = Summarize(content) /\ pending # Malformed
        /\ ~gone => got # <<>> /\ Last(got) = Partial(content)
        /\ ended \in {"eof", "error"} \/ received = Len(script)
    BY <1>0, <1>4 DEF Take, Offering
  <2>2. pending.completed /\ pending.text = Partial(content).text
    BY <1>0, <2>1, SummaryIsLastPartial
  <2>3. TypeInv' /\ Offering'
    BY <1>0, <1>2, <2>1 DEF TypeInv, Take, Offering
  <2>4. pending # Summarize(script) => ended \in {"eof", "error"} /\ received < Len(script)
    BY <1>0, <2>1, WholeIsScript, LenProperties DEF TypeInv
  <2>5. CASE gone
    BY <1>0, <1>1, <2>1, <2>3, <2>5 DEF IInv, Ending, Take
  <2>6. CASE ~gone
    <3>1. Len(got) > 0 /\ got[Len(got)] = Partial(content)
      BY <1>0, <2>1, <2>6, EmptySeq DEF Last
    <3>2. ASSUME NEW i \in DOMAIN got', got'[i].completed
          PROVE  Whole(i)'
      <4>1. i = Len(got) + 1
        BY <1>0, <1>1, <1>2, <2>6, <3>2
      <4>2. got'[i] = pending /\ got'[i - 1] = Partial(content) /\ i > 1 /\ i = Len(got')
        BY <1>0, <1>2, <2>6, <3>1, <4>1
      <4> QED
        BY <1>0, <2>1, <2>2, <2>4, <4>2 DEF Whole
    <3> QED
      BY <1>0, <1>2, <2>1, <2>2, <2>3, <2>6, <3>2 DEF IInv, Ending
  <2> QED
    BY <2>5, <2>6
<1> QED
  BY <1>0, <1>3, <1>4

LEMMA StepIInv == IInv /\ [Next]_vars => IInv'
<1> SUFFICES ASSUME IInv, [Next]_vars PROVE IInv'
  OBVIOUS
<1>1. CASE Done
  BY <1>1, FinishKept DEF Done
<1>2. CASE BreaksOff
  BY <1>2, FinishKept DEF BreaksOff
<1>3. CASE HandlerEnds \/ ClientLeaves \/ UNCHANGED vars
  <2>1. /\ UNCHANGED <<script, received, ended, pc, pending, shown, got>>
        /\ gone' \in BOOLEAN /\ (gone => gone') /\ handler' \in {"draining", "done"}
        /\ handler' = "done" => handler = "done" \/ pc = "closed"
        /\ Chunks' = Chunks /\ content' = content
    BY <1>3 DEF HandlerEnds, ClientLeaves, vars, IInv, TypeInv, Chunks, content
  <2>2. TypeInv'
    BY <2>1 DEF IInv, TypeInv
  <2>3. Offering'
    BY <2>1 DEF IInv, Offering, Seen
  <2>4. Ending'
    BY <2>1 DEF IInv, Ending, Whole
  <2> QED
    BY <2>2, <2>3, <2>4 DEF IInv
<1> QED
  BY <1>1, <1>2, <1>3, RecvKept, TakeKept DEF Next

\* The invariant that the theorems rest on holds in every reachable state.
THEOREM IInvHolds == Spec => []IInv
  BY InitiallyIInv, StepIInv, PTL DEF Spec

-----------------------------------------------------------------------------
(* The results *)

\* ClientIsUpToDate, for any answer and any division of it into pieces: the loop of
\* StreamSummary skips and holds back nothing that can be shown.
THEOREM ClientIsUpToDateHolds == Spec => []ClientIsUpToDate
<1>1. IInv => ClientIsUpToDate
  BY PartialIsPartial DEF IInv, Offering, Seen, ClientIsUpToDate
<1> QED
  BY <1>1, IInvHolds, PTL

\* CompletedIsWhole, for any answer, any limits and whoever leaves: the completed
\* chunk ends the stream, agrees with the partial one before it, and is the answer
\* without a stream unless the answer broke off.
THEOREM CompletedIsWholeHolds == Spec => []CompletedIsWhole
<1>1. IInv => CompletedIsWhole
  BY DEF IInv, Ending, Whole, CompletedIsWhole
<1> QED
  BY <1>1, IInvHolds, PTL

-----------------------------------------------------------------------------
(* The advice: lists and loops *)

Loops(g, n, S, base, step) ==
  g \in [0..n -> S] /\ g[0] = base /\ \A i \in 1..n : g[i] = step[<<g[i - 1], i>>]

\* A loop over n items has a result after each of them.
LEMMA LoopExists ==
  ASSUME NEW n \in Nat, NEW S, NEW base \in S, NEW step \in [S \X (1..n) -> S]
  PROVE  \E g : Loops(g, n, S, base, step)
<1> DEFINE Loop(g, m) == g \in [0..m -> S] /\ g[0] = base /\ \A i \in 1..m : g[i] = step[<<g[i - 1], i>>]
           Missing == {m \in 0..n : ~\E g : Loop(g, m)}
<1>1. Missing = {}
  <2> SUFFICES ASSUME Missing # {} PROVE FALSE OBVIOUS
  <2>1. Missing \in SUBSET Nat OBVIOUS
  <2>2. PICK m \in Missing : \A k \in Missing : m <= k
    <3> HIDE DEF Missing
    <3> QED BY <2>1, MinOfNats
  <2>3. m # 0
    <3>1. Loop([i \in 0..0 |-> base], 0) OBVIOUS
    <3> HIDE DEF Loop
    <3> QED BY <3>1
  <2>4. m \in 1..n /\ m - 1 \in 0..n /\ ~(m <= m - 1) BY <2>2, <2>3
  <2>5. m - 1 \notin Missing
    <3> HIDE DEF Missing
    <3> QED BY <2>2, <2>4
  <2>6. PICK g : Loop(g, m - 1) BY <2>4, <2>5
  <2>7. PICK next : next = step[<<g[m - 1], m>>] OBVIOUS
  <2>8. g[m - 1] \in S /\ next \in S BY <2>4, <2>6, <2>7
  <2> DEFINE h == [i \in 0..m |-> IF i < m THEN g[i] ELSE next]
  <2>9. h[m] = next /\ (\A i \in 0..(m - 1) : h[i] = g[i]) /\ h \in [0..m -> S] BY <2>4, <2>6, <2>8
  <2>10. \A i \in 1..m : h[i] = step[<<h[i - 1], i>>]
    <3> SUFFICES ASSUME NEW i \in 1..m PROVE h[i] = step[<<h[i - 1], i>>] OBVIOUS
    <3>1. i - 1 \in 0..(m - 1) BY <2>4
    <3>2. CASE i = m BY <2>7, <2>9, <3>1, <3>2
    <3>3. CASE i # m
      <4>1. i \in 1..(m - 1) /\ i \in 0..(m - 1) BY <2>4, <3>3
      <4> QED BY <2>6, <2>9, <3>1, <4>1
    <3> QED BY <3>2, <3>3
  <2>11. h[0] = base BY <2>4, <2>6, <2>9
  <2>12. Loop(h, m) BY <2>9, <2>10, <2>11
  <2> HIDE DEF h, Loop
  <2> QED BY <2>2, <2>12
<1>2. n \in 0..n OBVIOUS
<1>3. PICK g : Loop(g, n) BY <1>1, <1>2
<1> QED BY <1>3 DEF Loops

(* The cleaned texts of the first n items. *)
CleanedOf(items, n) == {Clean[items[i]] : i \in 1..n} \ {""}
Cleaned(out, items, n) ==
  /\ out \in Seq(Items) /\ ToSet(out) = CleanedOf(items, n)
  /\ \A i, j \in DOMAIN out : out[i] = out[j] => i = j

\* What NormalizeList makes of a list, item by item.
LEMMA NormalizeListStep ==
  ASSUME NEW items \in Seq(Items)
  PROVE  \E g : /\ g[0] = <<>> /\ NormalizeList(items) = g[Len(items)]
                /\ \A n \in 1..Len(items) :
                     g[n] = IF Clean[items[n]] = "" \/ Clean[items[n]] \in ToSet(g[n - 1]) THEN g[n - 1]
                            ELSE Append(g[n - 1], Clean[items[n]])
<1> DEFINE n == Len(items)
           Next1(o, i) == IF Clean[items[i]] = "" \/ Clean[items[i]] \in ToSet(o) THEN o
                          ELSE Append(o, Clean[items[i]])
           step == [x \in Seq(Items) \X (1..n) |-> Next1(x[1], x[2])]
           F(out) == [i \in 0..n |-> IF i = 0 THEN <<>> ELSE Next1(out[i - 1], i)]
<1>1. n \in Nat /\ \A i \in 1..n : Clean[items[i]] \in Items
  <2>1. n \in Nat /\ items \in [1..n -> Items] OBVIOUS
  <2> QED BY <2>1, CleanAssumption
<1>2. \A o \in Seq(Items), i \in 1..n : Next1(o, i) \in Seq(Items)
  <2>1. \A o \in Seq(Items), c \in Items : Append(o, c) \in Seq(Items) OBVIOUS
  <2> QED BY <1>1, <2>1
<1>3. NormalizeList(items) = (CHOOSE out : out = F(out))[n] BY Zenon DEF NormalizeList
<1> HIDE DEF Next1, n
<1>4. step \in [Seq(Items) \X (1..n) -> Seq(Items)] BY <1>2
<1>5. \A o \in Seq(Items), i \in 1..n : step[<<o, i>>] = Next1(o, i) OBVIOUS
<1> HIDE DEF step
<1>6. <<>> \in Seq(Items) OBVIOUS
<1>7. PICK g \in [0..n -> Seq(Items)] : g[0] = <<>> /\ \A i \in 1..n : g[i] = step[<<g[i - 1], i>>]
  <2>1. PICK S, base, m, t : S = Seq(Items) /\ base = <<>> /\ m = n /\ t = step OBVIOUS
  <2>2. m \in Nat /\ base \in S /\ t \in [S \X (1..m) -> S] BY <1>1, <1>4, <1>6, <2>1
  <2>3. \E g : Loops(g, m, S, base, t) BY <2>2, LoopExists
  <2> QED BY <2>1, <2>3 DEF Loops
<1>8. \A i \in 1..n : g[i - 1] \in Seq(Items) BY <1>1, <1>7
<1>9. g = F(g)
  <2>1. g = [i \in 0..n |-> g[i]] BY <1>7
  <2>2. \A i \in 0..n : g[i] = IF i = 0 THEN <<>> ELSE Next1(g[i - 1], i)
    <3> SUFFICES ASSUME NEW i \in 0..n, i # 0 PROVE g[i] = Next1(g[i - 1], i) BY <1>7
    <3>1. i \in 1..n BY <1>1
    <3> QED BY <1>5, <1>7, <1>8, <3>1
  <2> QED BY <2>1, <2>2
<1> HIDE DEF F
<1>10. PICK f : f = CHOOSE out : out = F(out) OBVIOUS
<1>11. f = F(f) BY <1>9, <1>10
<1>12. f[0] = <<>> /\ \A i \in 1..n : f[i] = Next1(f[i - 1], i)
  <2>1. \A i \in 0..n : f[i] = IF i = 0 THEN <<>> ELSE Next1(f[i - 1], i) BY <1>11 DEF F
  <2>2. 0 \in 0..n /\ \A i \in 1..n : i \in 0..n /\ i # 0 BY <1>1
  <2> QED BY <2>1, <2>2
<1>13. NormalizeList(items) = f[n] BY <1>3, <1>10
<1>14. \E h : /\ h[0] = <<>> /\ NormalizeList(items) = h[n]
              /\ \A i \in 1..n : h[i] = Next1(h[i - 1], i)
  BY <1>12, <1>13
<1> QED BY <1>14 DEF Next1, n

\* A cleaned list has every cleaned text of the list once, and no blank.
LEMMA ListIsCleaned ==
  ASSUME NEW items \in Seq(Items)
  PROVE  Cleaned(NormalizeList(items), items, Len(items))
<1> DEFINE n == Len(items)
<1>1. n \in Nat /\ \A i \in 1..n : Clean[items[i]] \in Items
  <2>1. n \in Nat /\ items \in [1..n -> Items] OBVIOUS
  <2> QED BY <2>1, CleanAssumption
<1>2. PICK g : /\ g[0] = <<>> /\ NormalizeList(items) = g[n]
               /\ \A i \in 1..n : g[i] = IF Clean[items[i]] = "" \/ Clean[items[i]] \in ToSet(g[i - 1]) THEN g[i - 1]
                                         ELSE Append(g[i - 1], Clean[items[i]])
  BY NormalizeListStep
<1> HIDE DEF n
<1> DEFINE Bad == {i \in 0..n : ~Cleaned(g[i], items, i)}
<1>3. Cleaned(g[0], items, 0)
  <2>1. ToSet(<<>>) = {} /\ CleanedOf(items, 0) = {} BY DEF ToSet, CleanedOf
  <2>2. <<>> \in Seq(Items) /\ DOMAIN <<>> = {} OBVIOUS
  <2>3. Cleaned(<<>>, items, 0) BY <2>1, <2>2 DEF Cleaned
  <2> QED BY <1>2, <2>3
<1>4. ASSUME NEW i \in 1..n, Cleaned(g[i - 1], items, i - 1)
      PROVE  Cleaned(g[i], items, i)
  <2>1. PICK o, c : o = g[i - 1] /\ c = Clean[items[i]] OBVIOUS
  <2>2. /\ c \in Items /\ o \in Seq(Items) /\ ToSet(o) = CleanedOf(items, i - 1)
        /\ \A a, b \in DOMAIN o : o[a] = o[b] => a = b
    BY <1>1, <1>4, <2>1 DEF Cleaned
  <2>3. CleanedOf(items, i) = (CleanedOf(items, i - 1) \cup {c}) \ {""}
    <3>1. \A k : k \in 1..i <=> k \in 1..(i - 1) \/ k = i BY <1>1
    <3> QED BY <2>1, <3>1 DEF CleanedOf
  <2>4. "" \notin ToSet(o) BY <2>2 DEF CleanedOf
  <2>5. g[i] = IF c = "" \/ c \in ToSet(o) THEN o ELSE Append(o, c) BY <1>2, <2>1
  <2>6. CASE c = "" \/ c \in ToSet(o)
    <3>1. CleanedOf(items, i) = ToSet(o) BY <2>2, <2>3, <2>4, <2>6
    <3> QED BY <2>2, <2>5, <2>6, <3>1 DEF Cleaned
  <2>7. CASE ~(c = "" \/ c \in ToSet(o))
    <3>1. PICK t : t = Append(o, c) OBVIOUS
    <3>2. /\ t \in Seq(Items) /\ DOMAIN t = 1..(Len(o) + 1) /\ Len(o) \in Nat /\ DOMAIN o = 1..Len(o)
          /\ (\A k \in 1..Len(o) : t[k] = o[k]) /\ t[Len(o) + 1] = c
      BY <2>2, <3>1
    <3>3. \A k \in 1..(Len(o) + 1) : k \in 1..Len(o) \/ k = Len(o) + 1 BY <3>2
    <3>4. Len(o) + 1 \in 1..(Len(o) + 1) /\ \A k \in 1..Len(o) : k \in 1..(Len(o) + 1) BY <3>2
    <3>5. \A k \in 1..Len(o) : o[k] # c BY <2>7, <3>2 DEF ToSet
    <3>6. ToSet(t) = ToSet(o) \cup {c} BY <3>2, <3>3, <3>4 DEF ToSet
    <3>7. CleanedOf(items, i) = ToSet(t) BY <2>2, <2>3, <2>4, <2>7, <3>6
    <3>8. ASSUME NEW a \in DOMAIN t, NEW b \in DOMAIN t, t[a] = t[b] PROVE a = b
      <4>1. a = Len(o) + 1 <=> b = Len(o) + 1 BY <3>2, <3>3, <3>5, <3>8
      <4> QED BY <2>2, <3>2, <3>3, <3>8, <4>1
    <3> QED BY <2>5, <2>7, <3>1, <3>2, <3>7, <3>8 DEF Cleaned
  <2> QED BY <2>6, <2>7
<1>5. Bad = {}
  <2> SUFFICES ASSUME Bad # {} PROVE FALSE OBVIOUS
  <2>1. Bad \in SUBSET Nat OBVIOUS
  <2>2. PICK i \in Bad : \A k \in Bad : i <= k
    <3> HIDE DEF Bad
    <3> QED BY <2>1, MinOfNats
  <2>3. i \in 1..n /\ i - 1 \in 0..n /\ ~(i <= i - 1) BY <1>1, <1>3, <2>2
  <2>4. i - 1 \notin Bad
    <3> HIDE DEF Bad
    <3> QED BY <2>2, <2>3
  <2>5. Cleaned(g[i - 1], items, i - 1) BY <2>3, <2>4
  <2> QED BY <1>4, <2>2, <2>3, <2>5
<1>6. n \in 0..n BY <1>1
<1> QED BY <1>2, <1>5, <1>6 DEF n

\* Cleaning a list a second time leaves its texts.
LEMMA CleanedTwice ==
  ASSUME NEW items \in Seq(Items)
  PROVE  LET list == NormalizeList(NormalizeList(items))
             texts == {Clean[items[i]] : i \in DOMAIN items} \ {""}
         IN  /\ ToSet(NormalizeList(items)) = texts
             /\ ToSet(list) = texts /\ IsInjective(list)
             /\ list = <<>> => texts = {}
             /\ NormalizeList(items) = <<>> <=> texts = {}
<1>1. PICK once, twice : once = NormalizeList(items) /\ twice = NormalizeList(once) OBVIOUS
<1>2. Cleaned(once, items, Len(items)) BY <1>1, ListIsCleaned
<1>3. once \in Seq(Items) BY <1>2 DEF Cleaned
<1>4. Cleaned(twice, once, Len(once)) BY <1>1, <1>3, ListIsCleaned
<1>5. PICK texts : texts = {Clean[items[i]] : i \in DOMAIN items} \ {""} OBVIOUS
<1>6. ToSet(once) = texts
  <2>1. DOMAIN items = 1..Len(items) OBVIOUS
  <2> QED BY <1>2, <1>5, <2>1 DEF Cleaned, CleanedOf
<1>7. \A i \in DOMAIN once : Clean[once[i]] = once[i] /\ once[i] # ""
  <2> SUFFICES ASSUME NEW i \in DOMAIN once PROVE Clean[once[i]] = once[i] /\ once[i] # "" OBVIOUS
  <2>1. once[i] \in texts BY <1>6 DEF ToSet
  <2>2. PICK k \in DOMAIN items : once[i] = Clean[items[k]] /\ once[i] # "" BY <1>5, <2>1
  <2>3. items[k] \in Items OBVIOUS
  <2> QED BY <2>2, <2>3, CleanAssumption
<1>8. ToSet(twice) = texts
  <2>1. ToSet(twice) = {Clean[once[i]] : i \in DOMAIN once} \ {""}
    <3>1. DOMAIN once = 1..Len(once) BY <1>3
    <3> QED BY <1>4, <3>1 DEF Cleaned, CleanedOf
  <2>2. {Clean[once[i]] : i \in DOMAIN once} \ {""} = {once[i] : i \in DOMAIN once} BY <1>7
  <2> QED BY <1>6, <2>1, <2>2 DEF ToSet
<1>9. IsInjective(twice) BY <1>4 DEF Cleaned, IsInjective
<1>10. \A list \in Seq(Items) : list = <<>> <=> ToSet(list) = {}
  <2> SUFFICES ASSUME NEW list \in Seq(Items) PROVE list = <<>> <=> ToSet(list) = {} OBVIOUS
  <2>1. CASE list = <<>> BY <2>1 DEF ToSet
  <2>2. CASE list # <<>>
    <3>1. 1 \in DOMAIN list BY <2>2
    <3> QED BY <2>2, <3>1 DEF ToSet
  <2> QED BY <2>1, <2>2
<1>11. twice \in Seq(Items) BY <1>4 DEF Cleaned
<1> QED BY <1>1, <1>3, <1>5, <1>6, <1>8, <1>9, <1>10, <1>11

(* Of the first n points, the peak is one above -1.0 that none of them is higher *)
(* than, or none is above it.                                                    *)
Reading == [time : Nat, value : Int]
IsPeak(peak, points, n) ==
  /\ peak = NoPeak \/ \E i \in 1..n : peak = points[i] /\ points[i].value > -100
  /\ \A i \in 1..n : ~Higher(points[i], peak)

\* The loop that looks for the peak, point by point.
LEMMA PeakStep ==
  ASSUME NEW points \in Seq(Reading)
  PROVE  \E g : /\ g[0] = NoPeak /\ Peak(points) = g[Len(points)]
                /\ \A n \in 1..Len(points) : g[n] = IF Higher(points[n], g[n - 1]) THEN points[n] ELSE g[n - 1]
<1> DEFINE n == Len(points)
           start == NoPeak
           All == {start} \cup {points[i] : i \in 1..n}
           Next1(p, i) == IF Higher(points[i], p) THEN points[i] ELSE p
           step == [x \in All \X (1..n) |-> Next1(x[1], x[2])]
           F(peak) == [i \in 0..n |-> IF i = 0 THEN start ELSE Next1(peak[i - 1], i)]
<1>1. n \in Nat OBVIOUS
<1>2. start \in All /\ \A p \in All, i \in 1..n : Next1(p, i) \in All OBVIOUS
<1>3. Peak(points) = (CHOOSE peak : peak = F(peak))[n] BY Zenon DEF Peak
<1> HIDE DEF Next1, n, start
<1>4. step \in [All \X (1..n) -> All] BY <1>2
<1>5. \A p \in All, i \in 1..n : step[<<p, i>>] = Next1(p, i) OBVIOUS
<1> HIDE DEF step, All
<1>6. PICK g : /\ g \in [0..n -> All] /\ g[0] = start
               /\ \A i \in 1..n : g[i] = step[<<g[i - 1], i>>]
  <2>1. PICK S, base, m, t : S = All /\ base = start /\ m = n /\ t = step OBVIOUS
  <2>2. m \in Nat /\ base \in S /\ t \in [S \X (1..m) -> S] BY <1>1, <1>2, <1>4, <2>1
  <2>3. \E g : Loops(g, m, S, base, t) BY <2>2, LoopExists
  <2> QED BY <2>1, <2>3 DEF Loops
<1>7. \A i \in 1..n : g[i - 1] \in All BY <1>1, <1>6
<1>8. g = F(g)
  <2>1. g = [i \in 0..n |-> g[i]] BY <1>6
  <2>2. \A i \in 0..n : g[i] = IF i = 0 THEN start ELSE Next1(g[i - 1], i)
    <3> SUFFICES ASSUME NEW i \in 0..n, i # 0 PROVE g[i] = Next1(g[i - 1], i) BY <1>6
    <3>1. i \in 1..n BY <1>1
    <3> QED BY <1>5, <1>6, <1>7, <3>1
  <2> QED BY <2>1, <2>2
<1> HIDE DEF F
<1>9. PICK f : f = CHOOSE peak : peak = F(peak) OBVIOUS
<1>10. f = F(f) BY <1>8, <1>9
<1>11. f[0] = start /\ \A i \in 1..n : f[i] = Next1(f[i - 1], i)
  <2>1. \A i \in 0..n : f[i] = IF i = 0 THEN start ELSE Next1(f[i - 1], i) BY <1>10 DEF F
  <2>2. 0 \in 0..n /\ \A i \in 1..n : i \in 0..n /\ i # 0 BY <1>1
  <2> QED BY <2>1, <2>2
<1>12. Peak(points) = f[n] BY <1>3, <1>9
<1>13. \E h : h[0] = start /\ Peak(points) = h[n] /\ \A i \in 1..n : h[i] = Next1(h[i - 1], i)
  BY <1>11, <1>12
<1> QED BY <1>13 DEF Next1, n, start

\* No reading is higher than the peak, or as high and earlier.
LEMMA PeakIsHighest ==
  ASSUME NEW points \in Seq(Reading)
  PROVE  IsPeak(Peak(points), points, Len(points))
<1> DEFINE n == Len(points)
<1>1. n \in Nat /\ \A i \in 1..n : points[i] \in Reading
  <2>1. n \in Nat /\ points \in [1..n -> Reading] OBVIOUS
  <2> QED BY <2>1
<1>2. PICK g : /\ g[0] = NoPeak /\ Peak(points) = g[n]
               /\ \A i \in 1..n : g[i] = IF Higher(points[i], g[i - 1]) THEN points[i] ELSE g[i - 1]
  BY PeakStep
<1> HIDE DEF n
<1> DEFINE Bad == {i \in 0..n : ~IsPeak(g[i], points, i)}
<1>3. NoPeak \in Reading BY DEF NoPeak, Reading
<1>4. \A p, q, r \in Reading : /\ ~Higher(p, p)
                               /\ ~Higher(p, q) /\ Higher(r, q) => ~Higher(p, r)
                               /\ Higher(r, q) => r.value >= q.value
                               /\ Higher(r, NoPeak) => r.value > -100
  BY DEF Reading, Higher, NoPeak
<1>5. IsPeak(g[0], points, 0) BY <1>2 DEF IsPeak
<1>6. ASSUME NEW i \in 1..n, IsPeak(g[i - 1], points, i - 1)
      PROVE  IsPeak(g[i], points, i)
  <2>1. \A k : k \in 1..i <=> k \in 1..(i - 1) \/ k = i BY <1>1
  <2>2. PICK p, q : p = g[i - 1] /\ q = points[i] OBVIOUS
  <2>3. p = NoPeak \/ \E k \in 1..(i - 1) : p = points[k] /\ points[k].value > -100 BY <1>6, <2>2 DEF IsPeak
  <2>4. \A j \in 1..i : points[j] \in Reading BY <1>1
  <2>5. p \in Reading /\ q \in Reading BY <1>3, <2>1, <2>2, <2>3, <2>4
  <2>6. \A j \in 1..(i - 1) : ~Higher(points[j], p) BY <1>6, <2>2 DEF IsPeak
  <2>7. g[i] = IF Higher(q, p) THEN q ELSE p BY <1>2, <2>2
  <2>8. CASE Higher(q, p)
    <3>1. \A j \in 1..i : ~Higher(points[j], q) BY <1>4, <2>1, <2>2, <2>4, <2>5, <2>6, <2>8
    <3>2. q.value > -100
      <4>1. PICK a, b : a = q.value /\ b = p.value OBVIOUS
      <4>2. a \in Int /\ b \in Int BY <2>5, <4>1 DEF Reading
      <4>3. a >= b BY <1>4, <2>5, <2>8, <4>1
      <4>4. p = NoPeak => a > -100 BY <1>4, <2>5, <2>8, <4>1
      <4>5. p # NoPeak => b > -100 BY <2>3, <4>1
      <4>6. a > -100 BY <4>2, <4>3, <4>4, <4>5
      <4> QED BY <4>1, <4>6
    <3>3. i \in 1..i BY <2>1
    <3> QED BY <2>2, <2>7, <2>8, <3>1, <3>2, <3>3 DEF IsPeak
  <2>9. CASE ~Higher(q, p)
    <3>1. \A j \in 1..i : ~Higher(points[j], p) BY <2>1, <2>2, <2>6, <2>9
    <3>2. p = NoPeak \/ \E k \in 1..i : p = points[k] /\ points[k].value > -100 BY <2>1, <2>3
    <3> QED BY <2>7, <2>9, <3>1, <3>2 DEF IsPeak
  <2> QED BY <2>8, <2>9
<1>7. Bad = {}
  <2> SUFFICES ASSUME Bad # {} PROVE FALSE OBVIOUS
  <2>1. Bad \in SUBSET Nat OBVIOUS
  <2>2. PICK i \in Bad : \A k \in Bad : i <= k
    <3> HIDE DEF Bad
    <3> QED BY <2>1, MinOfNats
  <2>3. i \in 1..n /\ i - 1 \in 0..n /\ ~(i <= i - 1) BY <1>1, <1>5, <2>2
  <2>4. i - 1 \notin Bad
    <3> HIDE DEF Bad
    <3> QED BY <2>2, <2>3
  <2>5. IsPeak(g[i - 1], points, i - 1) BY <2>3, <2>4
  <2> QED BY <1>6, <2>2, <2>3, <2>5
<1>8. n \in 0..n BY <1>1
<1> QED BY <1>2, <1>7, <1>8 DEF n

(* The order of the readings. *)
TotalOrder(S, R) ==
  /\ \A p \in S : <<p, p>> \notin R
  /\ \A p, q, r \in S : <<p, q>> \in R /\ <<q, r>> \in R => <<p, r>> \in R
  /\ \A p, q \in S : p = q \/ <<p, q>> \in R \/ <<q, p>> \in R
ListsInOrder(o, S, R) ==
  /\ o \in [1..Cardinality(S) -> S]
  /\ \A m, n \in DOMAIN o : m < n => o[m] # o[n] /\ <<o[m], o[n]>> \in R

\* A finite set is listed in its order: the place of a member is the number before it.
LEMMA OrderLists ==
  ASSUME NEW S, IsFiniteSet(S), NEW R, TotalOrder(S, R)
  PROVE  \E o : ListsInOrder(o, S, R)
<1> DEFINE n == Cardinality(S)
           Ahead(p) == {q \in S : <<q, p>> \in R}
           rank == [p \in S |-> Cardinality(Ahead(p)) + 1]
<1>1. n \in Nat BY FS_CardinalityType
<1>2. ASSUME NEW p \in S
      PROVE  /\ IsFiniteSet(Ahead(p)) /\ Cardinality(Ahead(p)) \in Nat
             /\ Cardinality(Ahead(p)) + 1 \in 1..n
  <2>1. Ahead(p) \subseteq S /\ Ahead(p) # S BY DEF TotalOrder
  <2> HIDE DEF Ahead
  <2>2. IsFiniteSet(Ahead(p)) /\ Cardinality(Ahead(p)) \in Nat BY <2>1, FS_Subset, FS_CardinalityType
  <2>3. Cardinality(Ahead(p)) <= n /\ Cardinality(Ahead(p)) # n BY <2>1, FS_Subset
  <2> QED BY <1>1, <2>2, <2>3
<1>3. ASSUME NEW p \in S, NEW q \in S, <<p, q>> \in R PROVE rank[p] < rank[q]
  <2>1. Ahead(p) \subseteq Ahead(q) /\ p \in Ahead(q) /\ p \notin Ahead(p) BY <1>3 DEF TotalOrder
  <2> HIDE DEF Ahead
  <2>2. Cardinality(Ahead(p)) <= Cardinality(Ahead(q)) /\ Cardinality(Ahead(p)) # Cardinality(Ahead(q))
    BY <1>2, <2>1, FS_Subset
  <2> QED BY <1>2, <2>2
<1>4. rank \in [S -> 1..n] BY <1>2
<1> HIDE DEF rank, n
<1>5. \A p, q \in S : rank[p] = rank[q] => p = q
  <2> SUFFICES ASSUME NEW p \in S, NEW q \in S, p # q PROVE rank[p] # rank[q] OBVIOUS
  <2>1. <<p, q>> \in R \/ <<q, p>> \in R BY DEF TotalOrder
  <2>2. rank[p] \in Int /\ rank[q] \in Int BY <1>1, <1>4
  <2>3. rank[p] < rank[q] \/ rank[q] < rank[p] BY <1>3, <2>1
  <2> QED BY <2>2, <2>3
<1>6. \A i \in 1..n : \E p \in S : rank[p] = i
  <2>1. rank \in Injection(S, 1..n) BY <1>4, <1>5 DEF Injection, IsInjective
  <2>2. IsFiniteSet(1..n) /\ Cardinality(1..n) = n
    <3>1. 1 \in Int /\ n \in Int BY <1>1
    <3>2. IsFiniteSet(1..n) /\ Cardinality(1..n) = IF 1 > n THEN 0 ELSE n - 1 + 1 BY <3>1, FS_Interval
    <3> QED BY <1>1, <3>2
  <2>3. rank \in Surjection(S, 1..n) BY <1>1, <2>1, <2>2, FS_Injection DEF n
  <2> QED BY <2>3 DEF Surjection
<1> DEFINE o == [i \in 1..n |-> CHOOSE p \in S : rank[p] = i]
<1>7. \A i \in 1..n : o[i] \in S /\ rank[o[i]] = i BY <1>6
<1>8. o \in [1..n -> S] BY <1>6
<1> HIDE DEF o
<1>9. ASSUME NEW i \in 1..n, NEW k \in 1..n, i < k PROVE o[i] # o[k] /\ <<o[i], o[k]>> \in R
  <2>1. o[i] \in S /\ o[k] \in S /\ rank[o[i]] = i /\ rank[o[k]] = k BY <1>7
  <2>2. ~(k < i) /\ i # k BY <1>1, <1>9
  <2>3. o[i] # o[k] BY <2>1, <2>2
  <2>4. <<o[k], o[i]>> \notin R BY <1>3, <2>1, <2>2
  <2> QED BY <2>1, <2>3, <2>4 DEF TotalOrder
<1>10. DOMAIN o = 1..n BY <1>8
<1>11. ListsInOrder(o, S, R) BY <1>8, <1>9, <1>10 DEF ListsInOrder, n
<1> QED BY <1>11

(* Different members of a set, as many as it has. *)
ListsApart(o, S) ==
  /\ o \in [1..Cardinality(S) -> S]
  /\ \A m, n \in DOMAIN o : m < n => o[m] # o[n]

\* Such a list has every member.
LEMMA ListsAll ==
  ASSUME NEW S, IsFiniteSet(S), NEW o, ListsApart(o, S)
  PROVE  \A p \in S : \E i \in 1..Cardinality(S) : o[i] = p
<1>0. o \in [1..Cardinality(S) -> S] /\ \A m, n \in DOMAIN o : m < n => o[m] # o[n] BY DEF ListsApart
<1> DEFINE n == Cardinality(S)
<1>1. n \in Nat BY FS_CardinalityType
<1>2. DOMAIN o = 1..n BY <1>0
<1> HIDE DEF n
<1>3. \A i, k \in 1..n : o[i] = o[k] => i = k
  <2> SUFFICES ASSUME NEW i \in 1..n, NEW k \in 1..n, i # k PROVE o[i] # o[k] OBVIOUS
  <2>1. i < k \/ k < i BY <1>1
  <2> QED BY <1>0, <1>2, <2>1
<1>4. o \in [1..n -> S] BY <1>0 DEF n
<1>5. o \in Injection(1..n, S) BY <1>3, <1>4 DEF Injection, IsInjective
<1>6. IsFiniteSet(1..n) /\ Cardinality(1..n) = n
  <2>1. 1 \in Int /\ n \in Int BY <1>1
  <2>2. IsFiniteSet(1..n) /\ Cardinality(1..n) = IF 1 > n THEN 0 ELSE n - 1 + 1 BY <2>1, FS_Interval
  <2> QED BY <1>1, <2>2
<1>7. o \in Surjection(1..n, S) BY <1>5, <1>6, FS_Injection DEF n
<1> QED BY <1>7 DEF Surjection, n

\* A place is a record and one of its entries.
LEMMA PlacesOfRecords ==
  ASSUME NEW records \in Seq(Seq(Entries))
  PROVE  /\ IsFiniteSet(Places(records))
         /\ \A p : p \in Places(records) <=> \E r \in DOMAIN records : \E i \in DOMAIN records[r] : p = <<r, i>>
         /\ \A p \in Places(records) : /\ p = <<p[1], p[2]>> /\ p[1] \in Nat /\ p[2] \in Nat
                                       /\ Entry(records, p) \in Entries
<1> DEFINE of == [r \in DOMAIN records |-> {r} \X DOMAIN records[r]]
           all == {of[r] : r \in DOMAIN records}
<1>1. Places(records) = UNION all BY DEF Places
<1>2. \A r \in DOMAIN records : of[r] = {r} \X DOMAIN records[r] OBVIOUS
<1>3. of \in Surjection(DOMAIN records, all) BY DEF Surjection
<1>4. DOMAIN records = 1..Len(records) /\ Len(records) \in Int /\ 1 \in Int OBVIOUS
<1>5. \A r \in DOMAIN records : r \in Nat /\ records[r] \in Seq(Entries) BY <1>4
<1>6. \A t \in Seq(Entries) : /\ DOMAIN t = 1..Len(t) /\ Len(t) \in Int
                              /\ \A i \in DOMAIN t : i \in Nat /\ t[i] \in Entries
  OBVIOUS
<1>7. \A T \in all : IsFiniteSet(T)
  <2> SUFFICES ASSUME NEW r \in DOMAIN records PROVE IsFiniteSet(of[r]) OBVIOUS
  <2>1. PICK t : t = records[r] OBVIOUS
  <2>2. DOMAIN t = 1..Len(t) /\ Len(t) \in Int BY <1>5, <1>6, <2>1
  <2>3. IsFiniteSet(DOMAIN t) BY <1>4, <2>2, FS_Interval
  <2>4. IsFiniteSet({r}) BY FS_Singleton
  <2>5. IsFiniteSet({r} \X DOMAIN t) BY <2>3, <2>4, FS_Product
  <2> QED BY <1>2, <2>1, <2>5
<1> HIDE DEF of
<1>8. \A p : p \in Places(records) <=> \E r \in DOMAIN records : p \in of[r] BY <1>1
<1> HIDE DEF all
<1>9. IsFiniteSet(DOMAIN records) BY <1>4, FS_Interval
<1>10. IsFiniteSet(all) BY <1>3, <1>9, FS_Surjection
<1>11. IsFiniteSet(Places(records)) BY <1>1, <1>7, <1>10, FS_UNION
<1>12. \A p : p \in Places(records) <=> \E r \in DOMAIN records : \E i \in DOMAIN records[r] : p = <<r, i>>
  BY <1>2, <1>8
<1>13. ASSUME NEW p \in Places(records)
       PROVE  p = <<p[1], p[2]>> /\ p[1] \in Nat /\ p[2] \in Nat /\ Entry(records, p) \in Entries
  <2>1. PICK r \in DOMAIN records : \E i \in DOMAIN records[r] : p = <<r, i>> BY <1>12
  <2>2. PICK i \in DOMAIN records[r] : p = <<r, i>> BY <2>1
  <2>3. i \in Nat /\ records[r][i] \in Entries BY <1>5, <1>6
  <2> QED BY <1>5, <2>2, <2>3 DEF Entry
<1> QED BY <1>11, <1>12, <1>13

\* Of two places one is earlier.
LEMMA EarlierOrders ==
  ASSUME NEW S, \A p \in S : p = <<p[1], p[2]>> /\ p[1] \in Nat /\ p[2] \in Nat
  PROVE  /\ \A p \in S : ~Earlier(p, p)
         /\ \A p, q, r \in S : Earlier(p, q) /\ Earlier(q, r) => Earlier(p, r)
         /\ \A p, q \in S : p = q \/ Earlier(p, q) \/ Earlier(q, p)
<1>1. ASSUME NEW p \in S, NEW q \in S, NEW r \in S
      PROVE  /\ ~Earlier(p, p)
             /\ Earlier(p, q) /\ Earlier(q, r) => Earlier(p, r)
             /\ p = q \/ Earlier(p, q) \/ Earlier(q, p)
  <2>1. PICK a, b, c, d, e, f : a = p[1] /\ b = p[2] /\ c = q[1] /\ d = q[2] /\ e = r[1] /\ f = r[2] OBVIOUS
  <2>2. /\ a \in Nat /\ b \in Nat /\ c \in Nat /\ d \in Nat /\ e \in Nat /\ f \in Nat
        /\ p = <<a, b>> /\ q = <<c, d>>
    BY <2>1
  <2>3. /\ ~(a < a \/ (a = a /\ b < b))
        /\ (a < c \/ (a = c /\ b < d)) /\ (c < e \/ (c = e /\ d < f)) => a < e \/ (a = e /\ b < f)
        /\ (a = c /\ b = d) \/ (a < c \/ (a = c /\ b < d)) \/ (c < a \/ (c = a /\ d < b))
    BY <2>2
  <2> QED BY <2>1, <2>2, <2>3 DEF Earlier
<1> QED BY <1>1

\* Some entry of an hour is the first.
LEMMA SomeKeeps ==
  ASSUME NEW records \in Seq(Seq(Entries)), NEW p \in Places(records)
  PROVE  \E q \in Places(records) : Entry(records, q).hour = Entry(records, p).hour /\ Keeps(records, q)
<1> DEFINE same == {q \in Places(records) : Entry(records, q).hour = Entry(records, p).hour}
           R == {x \in same \X same : Earlier(x[1], x[2])}
<1>1. /\ IsFiniteSet(Places(records))
      /\ \A q \in Places(records) : q = <<q[1], q[2]>> /\ q[1] \in Nat /\ q[2] \in Nat
  BY PlacesOfRecords
<1>2. IsFiniteSet(same) /\ same # {} BY <1>1, FS_Subset
<1>3. TotalOrder(same, R)
  <2>1. \A q, r \in same : <<q, r>> \in R <=> Earlier(q, r) OBVIOUS
  <2>2. \A q \in same : q = <<q[1], q[2]>> /\ q[1] \in Nat /\ q[2] \in Nat BY <1>1
  <2> HIDE DEF R, same
  <2>3. /\ \A q \in same : ~Earlier(q, q)
        /\ \A q, r, t \in same : Earlier(q, r) /\ Earlier(r, t) => Earlier(q, t)
        /\ \A q, r \in same : q = r \/ Earlier(q, r) \/ Earlier(r, q)
    BY <2>2, EarlierOrders
  <2> QED BY <2>1, <2>3 DEF TotalOrder
<1>4. \A q, r \in same : Earlier(q, r) => <<q, r>> \in R OBVIOUS
<1> HIDE DEF R
<1>5. PICK q \in same : \A r \in same : ~Earlier(r, q)
  <2>1. PICK o : ListsInOrder(o, same, R)
    <3> HIDE DEF same
    <3> QED BY <1>2, <1>3, OrderLists
  <2>2. Cardinality(same) \in Nat /\ Cardinality(same) # 0 BY <1>2, FS_CardinalityType, FS_EmptySet
  <2> DEFINE n == Cardinality(same)
  <2> HIDE DEF same
  <2>3. o \in [1..n -> same] /\ \A i, k \in 1..n : i < k => o[i] # o[k] /\ <<o[i], o[k]>> \in R
    BY <2>1 DEF ListsInOrder
  <2>4. o[1] \in same /\ 1 \in 1..n BY <2>2, <2>3
  <2>5. \A r \in same : \E i \in 1..n : o[i] = r 
    <3>1. IsFiniteSet(same) BY <1>2
    <3>2. ListsApart(o, same) BY <2>1 DEF ListsInOrder, ListsApart
    <3>3. \A r \in same : \E i \in 1..Cardinality(same) : o[i] = r BY <3>1, <3>2, ListsAll
    <3> QED BY <3>3 DEF n
  <2>6. ASSUME NEW r \in same, Earlier(r, o[1]) PROVE FALSE
    <3>1. PICK i \in 1..n : o[i] = r BY <2>5
    <3>2. <<r, o[1]>> \in R BY <1>4, <2>4, <2>6
    <3>3. i = 1 \/ 1 < i BY <2>2
    <3>4. i = 1 \/ <<o[1], r>> \in R BY <2>3, <2>4, <3>1, <3>3
    <3> QED BY <1>3, <2>4, <3>1, <3>2, <3>4 DEF TotalOrder
  <2> QED BY <2>4, <2>6
<1>6. Keeps(records, q) BY <1>5 DEF Keeps
<1> QED BY <1>5, <1>6

(* The places whose hour can be read, and the readings of a list of places. *)
Timed(records) == {p \in Places(records) : TimeOf[Entry(records, p).hour] # 0}
ReadingAt(records, p) == [time |-> TimeOf[Entry(records, p).hour], value |-> Entry(records, p).value]

\* The readings are those of the entries that are kept, listed by time.
LEMMA NormalizeRecordsLists ==
  ASSUME NEW records \in Seq(Seq(Entries))
  PROVE  LET kept == {p \in Timed(records) : Keeps(records, p)}
         IN  \E n \in Nat, o \in [1..Cardinality(kept) -> kept] :
               /\ n = Cardinality(kept)
               /\ NormalizeRecords(records) = [i \in 1..n |-> ReadingAt(records, o[i])]
               /\ \A i, k \in 1..n : i < k => TimeOf[Entry(records, o[i]).hour] <= TimeOf[Entry(records, o[k]).hour]
               /\ \A p \in kept : \E i \in 1..n : o[i] = p
<1> DEFINE time(p) == TimeOf[Entry(records, p).hour]
           kept == {p \in Places(records) : Keeps(records, p) /\ time(p) # 0}
           n == Cardinality(kept)
           Sorted(o) == \A i, k \in DOMAIN o : i < k => o[i] # o[k] /\ time(o[i]) <= time(o[k])
           order == CHOOSE o \in [1..n -> kept] : Sorted(o)
           R == {x \in kept \X kept : time(x[1]) < time(x[2]) \/ (time(x[1]) = time(x[2]) /\ Earlier(x[1], x[2]))}
<1>1. kept = {p \in Timed(records) : Keeps(records, p)} BY DEF Timed
<1>2. /\ IsFiniteSet(Places(records))
      /\ \A p \in Places(records) : /\ p = <<p[1], p[2]>> /\ p[1] \in Nat /\ p[2] \in Nat
                                    /\ Entry(records, p) \in Entries
  BY PlacesOfRecords
<1>3. IsFiniteSet(kept) /\ n \in Nat BY <1>2, FS_Subset, FS_CardinalityType
<1>4. \A p \in kept : /\ p = <<p[1], p[2]>> /\ p[1] \in Nat /\ p[2] \in Nat /\ time(p) \in Nat
  BY <1>2, HourAssumption DEF Entries
<1>5. NormalizeRecords(records)
        = [i \in DOMAIN order |-> [time |-> time(order[i]), value |-> Entry(records, order[i]).value]]
  BY Zenon DEF NormalizeRecords
<1>6. \A p, q \in kept : <<p, q>> \in R <=> time(p) < time(q) \/ (time(p) = time(q) /\ Earlier(p, q))
  OBVIOUS
<1> HIDE DEF R, kept, n
<1>7. /\ \A p \in kept : ~Earlier(p, p)
      /\ \A p, q, r \in kept : Earlier(p, q) /\ Earlier(q, r) => Earlier(p, r)
      /\ \A p, q \in kept : p = q \/ Earlier(p, q) \/ Earlier(q, p)
  BY <1>4, EarlierOrders
<1>8. TotalOrder(kept, R)
  <2> HIDE DEF time
  <2>1. \A p \in kept : <<p, p>> \notin R BY <1>4, <1>6, <1>7
  <2>2. \A p, q, r \in kept : <<p, q>> \in R /\ <<q, r>> \in R => <<p, r>> \in R
    <3> SUFFICES ASSUME NEW p \in kept, NEW q \in kept, NEW r \in kept, <<p, q>> \in R, <<q, r>> \in R
                 PROVE  <<p, r>> \in R
      OBVIOUS
    <3>1. PICK a, b, c : a = time(p) /\ b = time(q) /\ c = time(r) OBVIOUS
    <3>2. a \in Nat /\ b \in Nat /\ c \in Nat BY <1>4, <3>1
    <3>3. (a < b \/ (a = b /\ Earlier(p, q))) /\ (b < c \/ (b = c /\ Earlier(q, r))) BY <1>6, <3>1
    <3>4. a < c \/ (a = c /\ Earlier(p, q) /\ Earlier(q, r)) BY <3>2, <3>3
    <3> QED BY <1>6, <1>7, <3>1, <3>4
  <2>3. \A p, q \in kept : p = q \/ <<p, q>> \in R \/ <<q, p>> \in R
    <3> SUFFICES ASSUME NEW p \in kept, NEW q \in kept, p # q
                 PROVE  <<p, q>> \in R \/ <<q, p>> \in R
      OBVIOUS
    <3>1. PICK a, b : a = time(p) /\ b = time(q) OBVIOUS
    <3>2. a < b \/ b < a \/ a = b BY <1>4, <3>1
    <3> QED BY <1>6, <1>7, <3>1, <3>2
  <2> QED BY <2>1, <2>2, <2>3 DEF TotalOrder
<1>9. PICK o : ListsInOrder(o, kept, R) BY <1>3, <1>8, OrderLists
<1>10. o \in [1..n -> kept] /\ Sorted(o)
  <2>1. o \in [1..n -> kept] /\ \A i, k \in DOMAIN o : i < k => o[i] # o[k] /\ <<o[i], o[k]>> \in R
    BY <1>9 DEF ListsInOrder, n
  <2>2. \A i \in DOMAIN o : o[i] \in kept BY <2>1
  <2>3. \A p, q \in kept : <<p, q>> \in R => time(p) <= time(q)
    <3> SUFFICES ASSUME NEW p \in kept, NEW q \in kept, <<p, q>> \in R PROVE time(p) <= time(q) OBVIOUS
    <3>1. PICK a, b : a = time(p) /\ b = time(q) OBVIOUS
    <3>2. a \in Nat /\ b \in Nat /\ (a < b \/ a = b) BY <1>4, <1>6, <3>1
    <3>3. a <= b BY <3>2
    <3> QED BY <3>1, <3>3
  <2> HIDE DEF time
  <2> QED BY <2>1, <2>2, <2>3
<1> HIDE DEF Sorted
<1>11. order \in [1..n -> kept] /\ Sorted(order) BY <1>10
<1> HIDE DEF order
<1>12. PICK l : l = order OBVIOUS
<1>13. DOMAIN l = 1..n BY <1>11, <1>12
<1>14. \A i, k \in 1..n : i < k => l[i] # l[k] /\ time(l[i]) <= time(l[k]) BY <1>11, <1>12, <1>13 DEF Sorted
<1>15. \A p \in kept : \E i \in 1..n : l[i] = p
  <2>1. ListsApart(l, kept) BY <1>11, <1>12, <1>13, <1>14 DEF ListsApart, n
  <2>2. \A p \in kept : \E i \in 1..Cardinality(kept) : l[i] = p BY <1>3, <2>1, ListsAll
  <2> QED BY <2>2 DEF n
<1>16. NormalizeRecords(records) = [i \in 1..n |-> ReadingAt(records, l[i])]
  BY <1>5, <1>12, <1>13 DEF ReadingAt
<1>17. l \in [1..Cardinality(kept) -> kept] BY <1>11, <1>12 DEF n
<1>18. \E m \in Nat, h \in [1..Cardinality(kept) -> kept] :
          /\ m = Cardinality(kept)
          /\ NormalizeRecords(records) = [i \in 1..m |-> ReadingAt(records, h[i])]
          /\ \A i, k \in 1..m : i < k => TimeOf[Entry(records, h[i]).hour] <= TimeOf[Entry(records, h[k]).hour]
          /\ \A p \in kept : \E i \in 1..m : h[i] = p
  BY <1>3, <1>14, <1>15, <1>16, <1>17 DEF n
<1> QED BY <1>1, <1>18

(* The entries that first name an hour that can be read. *)
First(records) == {p \in Timed(records) : Keeps(records, p)}

\* The readings are those of the first entries of the hours, in the order of time.
LEMMA ReadingsAreTrue ==
  ASSUME NEW records \in Seq(Seq(Entries))
  PROVE  LET points == NormalizeRecords(records)
         IN  /\ points \in Seq(Reading)
             /\ ToSet(points) = {ReadingAt(records, i) : i \in First(records)}
             /\ \A m, n \in DOMAIN points : m < n => points[m].time <= points[n].time
             /\ points = <<>> => Timed(records) = {}
<1>1. PICK n \in Nat, o \in [1..Cardinality(First(records)) -> First(records)] :
         /\ n = Cardinality(First(records))
         /\ NormalizeRecords(records) = [i \in 1..n |-> ReadingAt(records, o[i])]
         /\ \A i, k \in 1..n : i < k => TimeOf[Entry(records, o[i]).hour] <= TimeOf[Entry(records, o[k]).hour]
         /\ \A p \in First(records) : \E i \in 1..n : o[i] = p
  BY NormalizeRecordsLists DEF First
<1>2. \A p \in Timed(records) : Entry(records, p) \in Entries BY PlacesOfRecords DEF Timed
<1>3. ASSUME NEW p \in First(records) PROVE ReadingAt(records, p) \in Reading
  <2>1. PICK e : e = Entry(records, p) OBVIOUS
  <2>2. e \in Entries BY <1>2, <2>1 DEF First
  <2>3. TimeOf[e.hour] \in Nat /\ e.value \in Int BY <2>2, HourAssumption DEF Entries
  <2> QED BY <2>1, <2>3 DEF ReadingAt, Reading
<1>4. o \in [1..n -> First(records)] BY <1>1
<1>5. PICK points : points = NormalizeRecords(records) OBVIOUS
<1>6. points = [i \in 1..n |-> ReadingAt(records, o[i])] BY <1>1, <1>5
<1>7. \A i \in 1..n : o[i] \in First(records) /\ points[i] = ReadingAt(records, o[i]) BY <1>4, <1>6
<1>8. points \in Seq(Reading) /\ DOMAIN points = 1..n
  <2>1. points \in [1..n -> Reading] BY <1>3, <1>6, <1>7
  <2>2. n \in Nat BY <1>1
  <2> QED BY <2>1, <2>2
<1>9. ToSet(points) = {points[i] : i \in 1..n} BY <1>8 DEF ToSet
<1>10. \A p \in First(records) : \E i \in 1..n : ReadingAt(records, p) = points[i]
  <2> SUFFICES ASSUME NEW p \in First(records) PROVE \E i \in 1..n : ReadingAt(records, p) = points[i] OBVIOUS
  <2>1. PICK i \in 1..n : o[i] = p BY <1>1
  <2> QED BY <1>7, <2>1
<1>11. ToSet(points) = {ReadingAt(records, i) : i \in First(records)} BY <1>7, <1>9, <1>10
<1>12. ASSUME NEW i \in 1..n, NEW k \in 1..n, i < k PROVE points[i].time <= points[k].time
  <2>1. points[i].time = TimeOf[Entry(records, o[i]).hour] /\ points[k].time = TimeOf[Entry(records, o[k]).hour]
    <3>1. \A p : ReadingAt(records, p).time = TimeOf[Entry(records, p).hour] BY DEF ReadingAt
    <3> QED BY <1>7, <3>1
  <2> QED BY <1>1, <1>12, <2>1
<1>13. points = <<>> => Timed(records) = {}
  <2> SUFFICES ASSUME points = <<>>, NEW p \in Timed(records) PROVE FALSE OBVIOUS
  <2>1. PICK q \in Places(records) : Entry(records, q).hour = Entry(records, p).hour /\ Keeps(records, q)
    BY SomeKeeps DEF Timed
  <2>2. q \in First(records) BY <2>1 DEF Timed, First
  <2>3. PICK i \in 1..n : o[i] = q BY <1>1, <2>2
  <2>4. DOMAIN points = {} OBVIOUS
  <2> QED BY <1>8, <2>3, <2>4
<1> QED BY <1>5, <1>8, <1>11, <1>12, <1>13

CoercedTexts(v) == {Clean[i] : i \in CASE v.kind = "text" -> {v.text} [] v.kind = "list" -> ToSet(v.items)
                                       [] OTHER -> {}} \ {""}

\* A list as the model may write it keeps its texts when it is read and cleaned.
LEMMA CoercedIsCleaned ==
  ASSUME NEW v \in Lists, v.kind # "other"
  PROVE  LET once == NormalizeList(CoerceStringArray(v))
             twice == NormalizeList(once)
         IN  /\ ToSet(twice) = CoercedTexts(v) /\ IsInjective(twice)
             /\ twice = <<>> => CoercedTexts(v) = {}
             /\ once = <<>> <=> CoercedTexts(v) = {}
<1>1. PICK items : items = CoerceStringArray(v) OBVIOUS
<1>2. /\ items \in Seq(Items)
      /\ CoercedTexts(v) = {Clean[items[i]] : i \in DOMAIN items} \ {""}
  <2>1. CASE v.kind = "absent"
    <3>1. items = <<>> BY <1>1, <2>1 DEF CoerceStringArray
    <3>2. CoercedTexts(v) = {} BY <2>1 DEF CoercedTexts
    <3> QED BY <3>1, <3>2
  <2>2. CASE v.kind = "text"
    <3>1. v.text \in Items /\ Clean[v.text] \in Items BY <2>2, CleanAssumption DEF Lists
    <3>2. CoercedTexts(v) = {Clean[v.text]} \ {""} BY <2>2 DEF CoercedTexts
    <3>3. items = IF Clean[v.text] = "" THEN <<>> ELSE <<v.text>> BY <1>1, <2>2 DEF CoerceStringArray
    <3>4. CASE Clean[v.text] = ""
      <4>1. items = <<>> /\ CoercedTexts(v) = {} BY <3>2, <3>3, <3>4
      <4> QED BY <4>1
    <3>5. CASE Clean[v.text] # ""
      <4>1. items = <<v.text>> BY <3>3, <3>5
      <4>2. \A t \in Items : <<t>> \in Seq(Items) /\ DOMAIN <<t>> = {1} /\ <<t>>[1] = t OBVIOUS
      <4>3. items \in Seq(Items) /\ DOMAIN items = {1} /\ items[1] = v.text BY <3>1, <4>1, <4>2
      <4>4. {Clean[items[i]] : i \in DOMAIN items} = {Clean[v.text]} BY <4>3
      <4> QED BY <3>2, <4>3, <4>4
    <3> QED BY <3>4, <3>5
  <2>3. CASE v.kind = "list"
    <3>1. v.items \in Seq(Items) BY <2>3 DEF Lists
    <3>2. items = v.items BY <1>1, <2>3 DEF CoerceStringArray
    <3>3. CoercedTexts(v) = {Clean[i] : i \in ToSet(items)} \ {""} BY <2>3, <3>2 DEF CoercedTexts
    <3>4. {Clean[i] : i \in ToSet(items)} = {Clean[items[i]] : i \in DOMAIN items} BY DEF ToSet
    <3> QED BY <3>1, <3>2, <3>3, <3>4
  <2>4. v.kind \in {"absent", "text", "list"} BY DEF Lists
  <2> QED BY <2>1, <2>2, <2>3, <2>4
<1> QED BY <1>1, <1>2, CleanedTwice

(* What was asked, and the advice about it. *)
AdviceInv == advice = None \/ (query \in Queries /\ advice = Recommend(query))

\* What a decoded message says.
LEMMA MessageIsRead ==
  ASSUME NEW c \in Messages
  PROVE  LET parsed == ParseAIAdvice(c)
             once(f) == NormalizeList(CoerceStringArray(c.lists[f]))
         IN  /\ parsed.error = "none" =>
                  /\ \A f \in Fields : c.lists[f].kind # "other" /\ parsed.lists[f] = once(f)
                  /\ once("clothing") # <<>> \/ once("protection") # <<>>
             /\ parsed.error # "none" =>
                  \/ c.summary = "" \/ \E f \in Fields : c.lists[f].kind = "other"
                  \/ /\ once("clothing") = <<>> /\ once("protection") = <<>>
                     /\ \A f \in Fields : c.lists[f].kind # "other"
<1> DEFINE once(f) == NormalizeList(CoerceStringArray(c.lists[f]))
<1>1. PICK lists, parsed : lists = [f \in Fields |-> once(f)] /\ parsed = ParseAIAdvice(c)
  OBVIOUS
<1>2. parsed = IF \E f \in Fields : c.lists[f].kind = "other" THEN [error |-> "malformed"]
               ELSE IF c.summary = "" THEN [error |-> "summary missing"]
               ELSE IF lists["clothing"] = <<>> /\ lists["protection"] = <<>>
               THEN [error |-> "recommendations missing"]
               ELSE [error |-> "none", summary |-> c.summary, lists |-> lists]
  BY <1>1, Zenon DEF ParseAIAdvice
<1> HIDE DEF once
<1>3. /\ \A f \in Fields : lists[f] = once(f)
      /\ lists["clothing"] = once("clothing") /\ lists["protection"] = once("protection")
  BY <1>1 DEF Fields
<1>4. CASE \E f \in Fields : c.lists[f].kind = "other"
  <2>1. parsed.error = "malformed" BY <1>2, <1>4
  <2> QED BY <1>1, <1>4, <2>1 DEF once
<1>5. CASE ~(\E f \in Fields : c.lists[f].kind = "other") /\ c.summary = ""
  <2>1. parsed.error = "summary missing" BY <1>2, <1>5
  <2> QED BY <1>1, <1>5, <2>1 DEF once
<1>6. CASE /\ ~(\E f \in Fields : c.lists[f].kind = "other") /\ c.summary # ""
           /\ lists["clothing"] = <<>> /\ lists["protection"] = <<>>
  <2>1. parsed.error = "recommendations missing" BY <1>2, <1>6
  <2> QED BY <1>1, <1>3, <1>6, <2>1 DEF once
<1>7. CASE /\ ~(\E f \in Fields : c.lists[f].kind = "other") /\ c.summary # ""
           /\ ~(lists["clothing"] = <<>> /\ lists["protection"] = <<>>)
  <2>1. parsed.error = "none" /\ parsed.lists = lists BY <1>2, <1>7
  <2> QED BY <1>1, <1>3, <1>7, <2>1 DEF once
<1> QED BY <1>4, <1>5, <1>6, <1>7

\* What Recommend answers, by its error.
LEMMA RecommendCases ==
  ASSUME NEW q
  PROVE  LET points == NormalizeRecords(q.fetched.records)
             parsed == ParseAIAdvice(q.completion.message)
             r == Recommend(q)
         IN  \/ r.error = "invalid_input" /\ ~q.date
             \/ r.error = "uv_data_error" /\ (~q.fetched.ok \/ points = <<>>)
             \/ /\ r.error = "llm_error"
                /\ ~q.completion.ok \/ q.completion.toolCalls \/ parsed.error # "none"
             \/ /\ r.error = "none" /\ points # <<>> /\ parsed.error = "none"
                /\ r.readings = ToResponseReadings(points)
                /\ r.max = Peak(points).value /\ r.peakHour = Peak(points).time
                /\ r.category = CategoryFor(Peak(points).value)
                /\ \A f \in Fields : r.lists[f] = NormalizeList(parsed.lists[f])
<1> DEFINE points == NormalizeRecords(q.fetched.records)
           parsed == ParseAIAdvice(q.completion.message)
<1>1. PICK r, view, max, hour, category, lists :
         /\ r = Recommend(q) /\ view = ToResponseReadings(points)
         /\ max = Peak(points).value /\ hour = Peak(points).time /\ category = CategoryFor(Peak(points).value)
         /\ lists = [f \in Fields |-> NormalizeList(parsed.lists[f])]
  OBVIOUS
<1>2. r = IF ~q.date THEN [error |-> "invalid_input"]
          ELSE IF ~q.fetched.ok \/ points = <<>> THEN [error |-> "uv_data_error"]
          ELSE IF ~q.completion.ok \/ q.completion.toolCalls \/ parsed.error # "none" THEN [error |-> "llm_error"]
          ELSE [error |-> "none", readings |-> view, max |-> max, peakHour |-> hour,
                category |-> category, summary |-> parsed.summary, lists |-> lists]
  BY <1>1, Zenon DEF Recommend
<1>3. \A f \in Fields : lists[f] = NormalizeList(parsed.lists[f]) BY <1>1
<1> HIDE DEF points, parsed
<1>4. CASE ~q.date
  <2>1. r.error = "invalid_input" BY <1>2, <1>4
  <2> QED BY <1>1, <1>4, <2>1 DEF points, parsed
<1>5. CASE q.date /\ (~q.fetched.ok \/ points = <<>>)
  <2>1. r.error = "uv_data_error" BY <1>2, <1>5
  <2> QED BY <1>1, <1>5, <2>1 DEF points, parsed
<1>6. CASE /\ q.date /\ ~(~q.fetched.ok \/ points = <<>>)
           /\ ~q.completion.ok \/ q.completion.toolCalls \/ parsed.error # "none"
  <2>1. r.error = "llm_error" BY <1>2, <1>6
  <2> QED BY <1>1, <1>6, <2>1 DEF points, parsed
<1>7. CASE /\ q.date /\ ~(~q.fetched.ok \/ points = <<>>)
           /\ ~(~q.completion.ok \/ q.completion.toolCalls \/ parsed.error # "none")
  <2>1. /\ r.error = "none" /\ r.readings = view /\ r.max = max /\ r.peakHour = hour
        /\ r.category = category /\ r.lists = lists
    BY <1>2, <1>7
  <2> QED BY <1>1, <1>3, <1>7, <2>1, Zenon DEF points, parsed
<1> QED BY <1>4, <1>5, <1>6, <1>7

\* What the services answer has the types of its parts.
LEMMA QueryTypes ==
  ASSUME NEW q \in Queries
  PROVE  q.fetched.records \in Seq(Seq(Entries)) /\ q.completion.message \in Messages
  BY QueryAssumption

\* The readings of an answer are true, and so is its peak.
LEMMA PeakOfAdvice ==
  ASSUME AdviceInv
  PROVE  PeakIsTrue
<1> SUFFICES ASSUME advice # None, advice.error = "none" PROVE PeakIsTrue BY DEF PeakIsTrue
<1>1. query \in Queries /\ advice = Recommend(query) BY DEF AdviceInv
<1>2. PICK records, points, first :
         records = query.fetched.records /\ points = NormalizeRecords(records) /\ first = First(records)
  OBVIOUS
<1>3. records \in Seq(Seq(Entries)) BY <1>1, <1>2, QueryTypes
<1>4. /\ advice.readings = ToResponseReadings(points) /\ advice.max = Peak(points).value
      /\ advice.peakHour = Peak(points).time /\ advice.category = CategoryFor(Peak(points).value)
  BY <1>1, <1>2, RecommendCases
<1>5. /\ points \in Seq(Reading)
      /\ ToSet(points) = {ReadingAt(records, i) : i \in first}
      /\ \A m, n \in DOMAIN points : m < n => points[m].time <= points[n].time
  BY <1>2, <1>3, ReadingsAreTrue
<1>6. PICK peak : peak = Peak(points) OBVIOUS
<1>7. IsPeak(peak, points, Len(points)) BY <1>5, <1>6, PeakIsHighest
<1>8. DOMAIN points = 1..Len(points) /\ ToSet(points) = {points[i] : i \in DOMAIN points} BY <1>5 DEF ToSet
<1>9. /\ peak = NoPeak \/ \E p \in ToSet(points) : peak = p /\ p.value > -100
      /\ \A p \in ToSet(points) : ~Higher(p, peak)
  BY <1>7, <1>8 DEF IsPeak
<1> DEFINE time(i) == TimeOf[Entry(records, i).hour]
           value(i) == Entry(records, i).value
<1>10. \A i : ReadingAt(records, i).time = time(i) /\ ReadingAt(records, i).value = value(i) BY DEF ReadingAt
<1>11. \A i \in first : time(i) \in Nat /\ value(i) \in Int
  <2> SUFFICES ASSUME NEW i \in first PROVE time(i) \in Nat /\ value(i) \in Int OBVIOUS
  <2>1. PICK p : p = ReadingAt(records, i) OBVIOUS
  <2>2. p \in ToSet(points) BY <1>5, <2>1
  <2>3. p \in Reading BY <1>5, <1>8, <2>2
  <2> QED BY <1>10, <2>1, <2>3 DEF Reading
<1>12. \A i \in first : ~Higher(ReadingAt(records, i), peak) BY <1>5, <1>9
<1>13. peak = NoPeak \/ \E i \in first : peak = ReadingAt(records, i) /\ value(i) > -100 BY <1>5, <1>9, <1>10
<1>14. NoPeak.time = 0 /\ NoPeak.value = -100 BY DEF NoPeak
<1>15. peak.time \in Nat /\ peak.value \in Int BY <1>10, <1>11, <1>13, <1>14
<1>16. ASSUME NEW i \in first
       PROVE  value(i) < peak.value \/ (value(i) = peak.value /\ peak.time <= time(i))
  <2>1. PICK a, b, c, d : a = value(i) /\ b = peak.value /\ c = time(i) /\ d = peak.time OBVIOUS
  <2>2. a \in Int /\ b \in Int /\ c \in Nat /\ d \in Nat BY <1>11, <1>15, <2>1
  <2>3. ~(a > b \/ (a = b /\ c < d)) BY <1>10, <1>12, <2>1 DEF Higher
  <2>4. a < b \/ (a = b /\ d <= c) BY <2>2, <2>3
  <2> QED BY <2>1, <2>4
<1>17. IF \E i \in first : value(i) > -100
       THEN /\ \E i \in first : value(i) = advice.max /\ time(i) = advice.peakHour
            /\ \A i \in first :
                 value(i) < advice.max \/ (value(i) = advice.max /\ advice.peakHour <= time(i))
       ELSE advice.max = -100 /\ advice.peakHour = 0
  <2>1. advice.max = peak.value /\ advice.peakHour = peak.time BY <1>4, <1>6
  <2>2. CASE \E i \in first : value(i) > -100
    <3>1. PICK i \in first : value(i) > -100 BY <2>2
    <3>2. PICK a, b : a = value(i) /\ b = peak.value OBVIOUS
    <3>3. a \in Int /\ b \in Int /\ a > -100 /\ a <= b BY <1>11, <1>15, <1>16, <3>1, <3>2
    <3>4. b # -100 BY <3>3
    <3>5. \E k \in first : peak = ReadingAt(records, k) BY <1>13, <1>14, <3>2, <3>4
    <3>6. \E k \in first : value(k) = peak.value /\ time(k) = peak.time BY <1>10, <3>5
    <3> QED BY <1>16, <2>1, <2>2, <3>6
  <2>3. CASE ~ \E i \in first : value(i) > -100
    <3>1. peak = NoPeak BY <1>13, <2>3
    <3> QED BY <1>14, <2>1, <2>3, <3>1
  <2> QED BY <2>2, <2>3
<1> DEFINE view(p) == [time |-> p.time, value |-> Rounded(p.value)]
<1>18. /\ DOMAIN advice.readings = DOMAIN points
       /\ \A n \in DOMAIN points : advice.readings[n] = view(points[n])
       /\ \A p : view(p).time = p.time
       /\ \A i : view(ReadingAt(records, i)) = [time |-> time(i), value |-> Rounded(value(i))]
  <2>1. advice.readings = [n \in DOMAIN points |-> view(points[n])] BY <1>4 DEF ToResponseReadings
  <2>2. \A p : view(p).time = p.time OBVIOUS
  <2>3. \A i : view(ReadingAt(records, i)) = [time |-> time(i), value |-> Rounded(value(i))] BY <1>10
  <2> HIDE DEF view
  <2> QED BY <2>1, <2>2, <2>3
<1> HIDE DEF view
<1>19. \A m, n \in DOMAIN advice.readings : m < n => advice.readings[m].time <= advice.readings[n].time
  <2>1. \A n \in DOMAIN points : advice.readings[n].time = points[n].time BY <1>18
  <2> QED BY <1>5, <1>18, <2>1
<1>20. ToSet(advice.readings) = {[time |-> time(i), value |-> Rounded(value(i))] : i \in first}
  <2>1. ToSet(advice.readings) = {advice.readings[n] : n \in DOMAIN points} BY <1>18 DEF ToSet
  <2>2. ToSet(advice.readings) = {view(p) : p \in ToSet(points)} BY <1>8, <1>18, <2>1
  <2>3. ToSet(advice.readings) = {view(ReadingAt(records, i)) : i \in first} BY <1>5, <2>2
  <2> QED BY <1>18, <2>3
<1>21. first = {i \in Places(records) :
                  /\ time(i) # 0
                  /\ ~ \E j \in Places(records) : Earlier(j, i) /\ Entry(records, j).hour = Entry(records, i).hour}
  BY <1>2 DEF First, Timed, Keeps
<1>22. advice.category = CategoryFor(advice.max) BY <1>4
<1> QED BY Zenon, <1>2, <1>17, <1>19, <1>20, <1>21, <1>22 DEF PeakIsTrue

\* The lists of an answer are the model's, and an error has its reason.
LEMMA ListsOfAdvice ==
  ASSUME AdviceInv
  PROVE  AdviceIsClean
<1> SUFFICES ASSUME advice # None PROVE AdviceIsClean BY DEF AdviceIsClean
<1>1. query \in Queries /\ advice = Recommend(query) BY DEF AdviceInv
<1>2. PICK records, points, message, parsed :
         /\ records = query.fetched.records /\ points = NormalizeRecords(records)
         /\ message = query.completion.message /\ parsed = ParseAIAdvice(message)
  OBVIOUS
<1>3. records \in Seq(Seq(Entries)) /\ message \in Messages BY <1>1, <1>2, QueryTypes
<1>4. \A f \in Fields : message.lists[f] \in Lists BY <1>3 DEF Messages
<1>5. "clothing" \in Fields /\ "protection" \in Fields BY DEF Fields
<1> DEFINE Faithful(list, v) == ToSet(list) = CoercedTexts(v) /\ IsInjective(list)
           once(f) == NormalizeList(CoerceStringArray(message.lists[f]))
<1>6. \A f \in Fields : message.lists[f].kind # "other" =>
         /\ Faithful(NormalizeList(once(f)), message.lists[f])
         /\ NormalizeList(once(f)) = <<>> => CoercedTexts(message.lists[f]) = {}
         /\ once(f) = <<>> <=> CoercedTexts(message.lists[f]) = {}
  BY <1>4, CoercedIsCleaned
<1>7. CASE advice.error = "uv_data_error"
  <2>1. ~query.fetched.ok \/ points = <<>> BY <1>1, <1>2, <1>7, RecommendCases
  <2>2. points = <<>> => Timed(records) = {} BY <1>2, <1>3, ReadingsAreTrue
  <2>3. ~query.fetched.ok \/ \A i \in Places(records) : TimeOf[Entry(records, i).hour] = 0
    BY <2>1, <2>2 DEF Timed
  <2> QED BY <1>2, <1>7, <2>3 DEF AdviceIsClean
<1>8. CASE advice.error = "llm_error"
  <2>1. ~query.completion.ok \/ query.completion.toolCalls \/ parsed.error # "none"
    BY <1>1, <1>2, <1>8, RecommendCases
  <2>2. parsed.error # "none" =>
          \/ message.summary = "" \/ \E f \in Fields : message.lists[f].kind = "other"
          \/ /\ once("clothing") = <<>> /\ once("protection") = <<>>
             /\ \A f \in Fields : message.lists[f].kind # "other"
    BY <1>2, <1>3, MessageIsRead
  <2> HIDE DEF once
  <2>3. \/ ~query.completion.ok \/ query.completion.toolCalls
        \/ message.summary = ""
        \/ \E f \in Fields : message.lists[f].kind = "other"
        \/ CoercedTexts(message.lists["clothing"]) \cup CoercedTexts(message.lists["protection"]) = {}
    BY <1>5, <1>6, <2>1, <2>2
  <2> QED BY <1>2, <1>8, <2>3 DEF AdviceIsClean, CoercedTexts
<1>9. CASE advice.error = "none"
  <2>1. parsed.error = "none" /\ \A f \in Fields : advice.lists[f] = NormalizeList(parsed.lists[f])
    BY <1>1, <1>2, <1>9, RecommendCases
  <2>2. /\ \A f \in Fields : message.lists[f].kind # "other" /\ parsed.lists[f] = once(f)
        /\ once("clothing") # <<>> \/ once("protection") # <<>>
    BY <1>2, <1>3, <2>1, MessageIsRead
  <2> HIDE DEF once
  <2>3. \A f \in Fields : advice.lists[f] = NormalizeList(once(f)) BY <2>1, <2>2
  <2>4. \A f \in Fields : Faithful(advice.lists[f], message.lists[f]) BY <1>6, <2>2, <2>3
  <2>5. advice.lists["clothing"] # <<>> \/ advice.lists["protection"] # <<>> BY <1>5, <1>6, <2>2, <2>3
  <2> QED BY <1>2, <1>9, <2>4, <2>5 DEF AdviceIsClean, CoercedTexts
<1>10. CASE advice.error = "invalid_input"
  <2>1. ~query.date BY <1>1, <1>10, RecommendCases
  <2> QED BY <1>10, <2>1 DEF AdviceIsClean
<1>11. advice.error \in {"none", "invalid_input", "uv_data_error", "llm_error"} BY <1>1, RecommendCases
<1> QED BY <1>7, <1>8, <1>9, <1>10, <1>11

\* What the user is told is true of the records of data.gov.sg and of the message of
\* the chat model: the readings are those of the first entries of their hours, rounded
\* and in the order of time, the peak is the earliest of the highest before rounding,
\* if one is above -1.0, and the lists hold what the model wrote, no blank and nothing
\* twice; an error has its reason.
THEOREM AdviceIsTrueHolds == UvSpec => []AdviceIsTrue
<1>1. UvInit => AdviceInv BY DEF UvInit, AdviceInv
<1>2. AdviceInv /\ [UvNext]_uvVars => AdviceInv'
  BY Zenon DEF AdviceInv, UvNext, uvVars, AskAdvice
<1>3. AdviceInv => AdviceIsTrue BY PeakOfAdvice, ListsOfAdvice DEF AdviceIsTrue
<1> QED BY <1>1, <1>2, <1>3, PTL DEF UvSpec

-----------------------------------------------------------------------------
(* Chunks: sums *)

Sums(g, numbers, n) == g[0] = 0 /\ \A i \in 1..n : g[i] = g[i - 1] + numbers[i]

\* The sums of the first numbers of a list exist, and the last of them is its total.
LEMMA TotalSums ==
  ASSUME NEW numbers \in Seq(Nat)
  PROVE  \E g \in [0..Len(numbers) -> Nat] : Sums(g, numbers, Len(numbers)) /\ Total(numbers) = g[Len(numbers)]
<1> DEFINE n == Len(numbers)
           step == [x \in Nat \X (1..n) |-> x[1] + numbers[x[2]]]
           F(sum) == [i \in 0..n |-> IF i = 0 THEN 0 ELSE sum[i - 1] + numbers[i]]
<1>1. n \in Nat /\ \A i \in 1..n : numbers[i] \in Nat
  <2>1. n \in Nat /\ numbers \in [1..n -> Nat] OBVIOUS
  <2> QED BY <2>1
<1>2. Total(numbers) = (CHOOSE sum : sum = F(sum))[n] BY Zenon DEF Total
<1> HIDE DEF n
<1>3. step \in [Nat \X (1..n) -> Nat] BY <1>1
<1>4. \A x \in Nat, i \in 1..n : step[<<x, i>>] = x + numbers[i] OBVIOUS
<1> HIDE DEF step
<1>5. PICK g \in [0..n -> Nat] : g[0] = 0 /\ \A i \in 1..n : g[i] = step[<<g[i - 1], i>>]
  <2>1. PICK S, base, m, t : S = Nat /\ base = 0 /\ m = n /\ t = step OBVIOUS
  <2>2. m \in Nat /\ base \in S /\ t \in [S \X (1..m) -> S] BY <1>1, <1>3, <2>1
  <2>3. \E g : Loops(g, m, S, base, t) BY <2>2, LoopExists
  <2> QED BY <2>1, <2>3 DEF Loops
<1>6. \A i \in 1..n : i \in 0..n /\ i # 0 /\ i - 1 \in 0..n /\ g[i - 1] \in Nat BY <1>1, <1>5
<1>7. g = F(g)
  <2>1. \A i \in 1..n : g[i] = g[i - 1] + numbers[i] BY <1>4, <1>5, <1>6
  <2>2. \A i \in 0..n : i = 0 \/ i \in 1..n BY <1>1
  <2>3. g = [i \in 0..n |-> g[i]] BY <1>5
  <2>4. \A i \in 0..n : g[i] = IF i = 0 THEN 0 ELSE g[i - 1] + numbers[i] BY <1>5, <2>1, <2>2
  <2> QED BY <2>3, <2>4
<1> HIDE DEF F
<1>8. PICK f : f = CHOOSE sum : sum = F(sum) OBVIOUS
<1>9. f = F(f) BY <1>7, <1>8
<1>10. f[0] = 0 /\ \A i \in 1..n : f[i] = f[i - 1] + numbers[i]
  <2>1. 0 \in 0..n BY <1>1
  <2>2. \A i \in 0..n : f[i] = IF i = 0 THEN 0 ELSE f[i - 1] + numbers[i] BY <1>9 DEF F
  <2> QED BY <1>6, <2>1, <2>2
<1> DEFINE Bad == {i \in 0..n : f[i] # g[i]}
<1>11. Bad = {}
  <2> SUFFICES ASSUME Bad # {} PROVE FALSE OBVIOUS
  <2>1. Bad \in SUBSET Nat OBVIOUS
  <2>2. PICK i \in Bad : \A k \in Bad : i <= k
    <3> HIDE DEF Bad
    <3> QED BY <2>1, MinOfNats
  <2>3. i \in 1..n /\ i - 1 \in 0..n /\ ~(i <= i - 1) BY <1>1, <1>5, <1>10, <2>2
  <2>4. i - 1 \notin Bad
    <3> HIDE DEF Bad
    <3> QED BY <2>2, <2>3
  <2>5. f[i - 1] = g[i - 1] BY <2>3, <2>4
  <2>6. g[i] = g[i - 1] + numbers[i] BY <1>4, <1>5, <1>6, <2>3
  <2> QED BY <1>10, <2>2, <2>3, <2>5, <2>6
<1>12. n \in 0..n BY <1>1
<1>13. Total(numbers) = g[n] BY <1>2, <1>8, <1>11, <1>12
<1>14. Sums(g, numbers, n) BY <1>4, <1>5, <1>6 DEF Sums
<1> QED BY <1>5, <1>13, <1>14 DEF n

\* There are no other sums, so any of them gives the total.
LEMMA TotalIs ==
  ASSUME NEW numbers \in Seq(Nat), NEW h, Sums(h, numbers, Len(numbers))
  PROVE  Total(numbers) = h[Len(numbers)]
<1> DEFINE n == Len(numbers)
<1>1. PICK g \in [0..n -> Nat] : Sums(g, numbers, n) /\ Total(numbers) = g[n] BY TotalSums
<1>2. n \in Nat OBVIOUS
<1>3. Sums(h, numbers, n) OBVIOUS
<1> HIDE DEF n
<1> DEFINE Bad == {i \in 0..n : h[i] # g[i]}
<1>4. Bad = {}
  <2> SUFFICES ASSUME Bad # {} PROVE FALSE OBVIOUS
  <2>1. Bad \in SUBSET Nat OBVIOUS
  <2>2. PICK i \in Bad : \A k \in Bad : i <= k
    <3> HIDE DEF Bad
    <3> QED BY <2>1, MinOfNats
  <2>3. i \in 1..n /\ i - 1 \in 0..n /\ ~(i <= i - 1) BY <1>1, <1>2, <1>3, <2>2 DEF Sums
  <2>4. i - 1 \notin Bad
    <3> HIDE DEF Bad
    <3> QED BY <2>2, <2>3
  <2>5. h[i - 1] = g[i - 1] BY <2>3, <2>4
  <2> QED BY <1>1, <1>3, <2>2, <2>3, <2>5 DEF Sums
<1>5. n \in 0..n BY <1>2
<1> QED BY <1>1, <1>4, <1>5 DEF n

\* The total of natural numbers is one.
LEMMA TotalType ==
  ASSUME NEW numbers \in Seq(Nat)
  PROVE  Total(numbers) \in Nat
<1>1. PICK g \in [0..Len(numbers) -> Nat] : Total(numbers) = g[Len(numbers)] BY TotalSums
<1>2. Len(numbers) \in 0..Len(numbers) OBVIOUS
<1> QED BY <1>1, <1>2

LEMMA TotalEmpty == Total(<< >>) = 0
<1>1. << >> \in Seq(Nat) /\ Len(<< >>) = 0 OBVIOUS
<1>2. PICK h : h = [i \in {0} |-> 0] OBVIOUS
<1>3. Sums(h, << >>, 0) BY <1>2 DEF Sums
<1> QED BY <1>1, <1>2, <1>3, TotalIs

\* One number more.
LEMMA TotalAppend ==
  ASSUME NEW numbers \in Seq(Nat), NEW x \in Nat
  PROVE  Total(Append(numbers, x)) = Total(numbers) + x
<1>1. PICK n, more : n = Len(numbers) /\ more = Append(numbers, x) OBVIOUS
<1>2. n \in Nat /\ more \in Seq(Nat) /\ Len(more) = n + 1 /\ more[n + 1] = x /\ \A i \in 1..n : more[i] = numbers[i]
  BY <1>1
<1>3. PICK g \in [0..n -> Nat] : Sums(g, numbers, n) /\ Total(numbers) = g[n] BY <1>1, TotalSums
<1>4. n \in 0..n BY <1>2
<1>5. PICK h : h = [i \in 0..(n + 1) |-> IF i = n + 1 THEN g[n] + x ELSE g[i]] OBVIOUS
<1>6. h[n + 1] = g[n] + x /\ \A i \in 0..n : h[i] = g[i] BY <1>2, <1>5
<1>7. Sums(h, more, n + 1)
  <2>1. h[0] = 0
    <3>1. 0 \in 0..n BY <1>2
    <3> QED BY <1>3, <1>6, <3>1 DEF Sums
  <2>2. ASSUME NEW i \in 1..(n + 1) PROVE h[i] = h[i - 1] + more[i]
    <3>1. CASE i = n + 1
      <4>1. i - 1 = n BY <1>2, <3>1
      <4> QED BY <1>2, <1>4, <1>6, <3>1, <4>1
    <3>2. CASE i # n + 1
      <4>1. i \in 1..n /\ i \in 0..n /\ i - 1 \in 0..n BY <1>2, <3>2
      <4> QED BY <1>2, <1>3, <1>6, <4>1 DEF Sums
    <3> QED BY <3>1, <3>2
  <2> QED BY <2>1, <2>2 DEF Sums
<1>8. Total(more) = h[n + 1] BY <1>2, <1>7, TotalIs
<1> QED BY <1>1, <1>3, <1>6, <1>8

\* The total of an end of a list, and of its beginning.
LEMMA TotalSplits ==
  ASSUME NEW numbers \in Seq(Nat), NEW g \in [0..Len(numbers) -> Nat], Sums(g, numbers, Len(numbers)),
         NEW k \in 0..Len(numbers)
  PROVE  Total([i \in 1..(Len(numbers) - k) |-> numbers[k + i]]) = g[Len(numbers)] - g[k]
<1>1. PICK n, m, f : n = Len(numbers) /\ m = n - k /\ f = [i \in 1..m |-> numbers[k + i]] OBVIOUS
<1>2. n \in Nat /\ m \in Nat /\ k \in Nat /\ k + m = n BY <1>1
<1>3. \A i \in 1..n : numbers[i] \in Nat BY <1>1
<1>4. \A i \in 1..m : k + i \in 1..n /\ f[i] = numbers[k + i] /\ f[i] \in Nat BY <1>1, <1>2, <1>3
<1>5. f \in Seq(Nat) /\ Len(f) = m
  <2>1. f \in [1..m -> Nat] BY <1>1, <1>4
  <2> QED BY <1>2, <2>1
<1>6. PICK h : h = [i \in 0..m |-> g[k + i] - g[k]] OBVIOUS
<1>7. Sums(h, f, m)
  <2>1. h[0] = 0
    <3>1. 0 \in 0..m /\ k + 0 = k /\ k \in 0..n BY <1>1, <1>2
    <3>2. g[k] \in Nat BY <1>1, <3>1
    <3> QED BY <1>6, <3>1, <3>2
  <2>2. ASSUME NEW i \in 1..m PROVE h[i] = h[i - 1] + f[i]
    <3>1. PICK j : j = k + i OBVIOUS
    <3>2. /\ j \in 1..n /\ j - 1 = k + (i - 1) /\ i - 1 \in 0..m /\ i \in 0..m
          /\ j - 1 \in 0..n /\ j \in 0..n /\ k \in 0..n
      BY <1>1, <1>2, <3>1
    <3>3. g[j] = g[j - 1] + numbers[j] BY <1>1, <3>2 DEF Sums
    <3>4. f[i] = numbers[j] BY <1>4, <3>1
    <3>5. h[i] = g[j] - g[k] /\ h[i - 1] = g[j - 1] - g[k] BY <1>6, <3>1, <3>2
    <3>6. PICK a, b, d, e : a = g[k] /\ b = g[j - 1] /\ d = g[j] /\ e = numbers[j] OBVIOUS
    <3>7. a \in Nat /\ b \in Nat /\ d \in Nat /\ e \in Nat BY <1>1, <1>3, <3>2, <3>6
    <3>8. d = b + e /\ h[i] = d - a /\ h[i - 1] = b - a /\ f[i] = e BY <3>3, <3>4, <3>5, <3>6
    <3>9. d - a = (b - a) + e BY <3>7, <3>8
    <3> QED BY <3>8, <3>9
  <2> QED BY <2>1, <2>2 DEF Sums
<1>8. Total(f) = h[m] BY <1>5, <1>7, TotalIs
<1>9. h[m] = g[n] - g[k]
  <2>1. m \in 0..m BY <1>2
  <2> QED BY <1>2, <1>6, <2>1
<1> QED BY <1>1, <1>8, <1>9

(* Pieces of a text, in a chunker. *)
Pieces == {p \in [word : Nat, from : Nat, to : Nat, gap : Nat, again : BOOLEAN] : p.from < p.to}
Chunkers == [maxTokens : Nat \ {0}, overlap : Nat, encoder : BOOLEAN]

\* As many tokens as are needed for the runes.
LEMMA UpRounds ==
  ASSUME NEW n \in Nat \ {0}, NEW k \in Nat \ {0}
  PROVE  /\ Up(n, k) \in Nat \ {0} /\ n <= Up(n, k) * k /\ (Up(n, k) - 1) * k < n
         /\ \A u \in Nat : n <= u * k => Up(n, k) <= u
<1>1. PICK d, q, r : d = n + k - 1 /\ q = d \div k /\ r = d % k OBVIOUS
<1>2. d \in Nat /\ d >= k BY <1>1
<1>3. q \in Int /\ r \in 0..(k - 1) /\ d = q * k + r BY <1>1, <1>2
<1>4. q >= 1
  <2> SUFFICES ASSUME q <= 0 PROVE FALSE BY <1>3
  <2>1. q * k <= 0 BY <1>3
  <2> QED BY <1>2, <1>3, <2>1
<1>5. n <= q * k BY <1>1, <1>3
<1>6. (q - 1) * k = q * k - k BY <1>3
<1>7. (q - 1) * k < n BY <1>1, <1>3, <1>6
<1>8. ASSUME NEW u \in Nat, n <= u * k PROVE q <= u
  <2> SUFFICES ASSUME u <= q - 1 PROVE FALSE BY <1>3
  <2>1. u * k <= (q - 1) * k BY <1>3
  <2>2. u * k \in Int /\ (q - 1) * k \in Int BY <1>3
  <2> QED BY <1>7, <1>8, <2>1, <2>2
<1> QED BY <1>1, <1>3, <1>4, <1>5, <1>7, <1>8 DEF Up

\* A piece has runes and tokens.
LEMMA PieceMeasures ==
  ASSUME NEW c \in Chunkers, NEW p \in Pieces
  PROVE  RunesOf(p) \in Nat \ {0} /\ TokensOf(c, p) \in Nat \ {0} /\ p.gap \in Nat
<1>1. RunesOf(p) \in Nat \ {0} /\ p.gap \in Nat BY DEF RunesOf, Pieces
<1>2. Up(RunesOf(p), TokenRunes) \in Nat \ {0} BY <1>1, UpRounds, TokenAssumption
<1> QED BY <1>1, <1>2 DEF TokensOf

\* What is measured piece by piece.
LEMMA MeasuredAppend ==
  ASSUME NEW f \in [Pieces -> Nat], NEW pieces \in Seq(Pieces), NEW p \in Pieces
  PROVE  LET more == Append(pieces, p)
             numbers == [i \in DOMAIN pieces |-> f[pieces[i]]]
         IN  /\ numbers \in Seq(Nat) /\ Len(numbers) = Len(pieces)
             /\ Total([i \in DOMAIN more |-> f[more[i]]]) = Total(numbers) + f[p]
<1>1. PICK n, more, numbers, all :
         /\ n = Len(pieces) /\ more = Append(pieces, p)
         /\ numbers = [i \in DOMAIN pieces |-> f[pieces[i]]] /\ all = [i \in DOMAIN more |-> f[more[i]]]
  OBVIOUS
<1>2. /\ n \in Nat /\ DOMAIN pieces = 1..n /\ DOMAIN more = 1..(n + 1) /\ more[n + 1] = p
      /\ \A i \in 1..n : pieces[i] \in Pieces /\ more[i] = pieces[i]
  BY <1>1
<1>3. numbers \in Seq(Nat) /\ Len(numbers) = n
  <2>1. numbers \in [1..n -> Nat] BY <1>1, <1>2
  <2>2. n \in Nat BY <1>2
  <2> QED BY <2>1, <2>2
<1>4. f[p] \in Nat OBVIOUS
<1>5. all = Append(numbers, f[p])
  <2>1. PICK longer : longer = Append(numbers, f[p]) OBVIOUS
  <2>2. /\ longer \in Seq(Nat) /\ DOMAIN longer = 1..(n + 1) /\ longer[n + 1] = f[p]
        /\ \A i \in 1..n : longer[i] = numbers[i]
    BY <1>2, <1>3, <1>4, <2>1
  <2>3. longer = [i \in 1..(n + 1) |-> longer[i]] BY <2>2
  <2>4. all = [i \in 1..(n + 1) |-> f[more[i]]] BY <1>1, <1>2
  <2>5. \A i \in 1..n : longer[i] = f[more[i]] BY <1>1, <1>2, <2>2
  <2>6. \A i \in 1..(n + 1) : i \in 1..n \/ i = n + 1 BY <1>2
  <2>7. \A i \in 1..(n + 1) : longer[i] = f[more[i]] BY <1>2, <2>2, <2>5, <2>6
  <2> QED BY <2>1, <2>3, <2>4, <2>7
<1>6. Total(all) = Total(numbers) + f[p] BY <1>3, <1>4, <1>5, TotalAppend
<1> QED BY <1>1, <1>3, <1>6

\* Its runes, and its tokens, are a function of the piece.
LEMMA Measures ==
  ASSUME NEW c \in Chunkers
  PROVE  \E runes \in [Pieces -> Nat], tokens \in [Pieces -> Nat] :
           /\ \A p \in Pieces : runes[p] = RunesOf(p) + p.gap /\ tokens[p] = TokensOf(c, p)
           /\ \A pieces \in Seq(Pieces) :
                /\ WrittenRunes(pieces) = Total([i \in DOMAIN pieces |-> runes[pieces[i]]])
                /\ countTokens(c, pieces) = Total([i \in DOMAIN pieces |-> tokens[pieces[i]]])
<1>1. PICK runes, tokens : /\ runes = [p \in Pieces |-> RunesOf(p) + p.gap]
                           /\ tokens = [p \in Pieces |-> TokensOf(c, p)]
  OBVIOUS
<1>2. \A p \in Pieces : RunesOf(p) + p.gap \in Nat /\ TokensOf(c, p) \in Nat BY PieceMeasures
<1>3. runes \in [Pieces -> Nat] /\ tokens \in [Pieces -> Nat] BY <1>1, <1>2
<1>4. \A p \in Pieces : runes[p] = RunesOf(p) + p.gap /\ tokens[p] = TokensOf(c, p) BY <1>1
<1>5. ASSUME NEW pieces \in Seq(Pieces)
      PROVE  /\ WrittenRunes(pieces) = Total([i \in DOMAIN pieces |-> runes[pieces[i]]])
             /\ countTokens(c, pieces) = Total([i \in DOMAIN pieces |-> tokens[pieces[i]]])
  <2>1. \A i \in DOMAIN pieces : pieces[i] \in Pieces OBVIOUS
  <2>2. [i \in DOMAIN pieces |-> RunesOf(pieces[i]) + pieces[i].gap] = [i \in DOMAIN pieces |-> runes[pieces[i]]]
    BY <1>4, <2>1
  <2>3. [i \in DOMAIN pieces |-> TokensOf(c, pieces[i])] = [i \in DOMAIN pieces |-> tokens[pieces[i]]]
    BY <1>4, <2>1
  <2> QED BY <2>2, <2>3 DEF WrittenRunes, countTokens
<1> QED BY <1>3, <1>4, <1>5

\* The runes and the tokens of one piece more.
LEMMA WrittenAppend ==
  ASSUME NEW c \in Chunkers, NEW pieces \in Seq(Pieces), NEW p \in Pieces
  PROVE  /\ WrittenRunes(pieces) \in Nat /\ countTokens(c, pieces) \in Nat
         /\ WrittenRunes(Append(pieces, p)) = WrittenRunes(pieces) + RunesOf(p) + p.gap
         /\ countTokens(c, Append(pieces, p)) = countTokens(c, pieces) + TokensOf(c, p)
<1>1. PICK runes \in [Pieces -> Nat], tokens \in [Pieces -> Nat] :
           /\ \A q \in Pieces : runes[q] = RunesOf(q) + q.gap /\ tokens[q] = TokensOf(c, q)
           /\ \A s \in Seq(Pieces) : /\ WrittenRunes(s) = Total([i \in DOMAIN s |-> runes[s[i]]])
                                     /\ countTokens(c, s) = Total([i \in DOMAIN s |-> tokens[s[i]]])
  BY Measures
<1>2. PICK more, r, t : /\ more = Append(pieces, p) /\ r = [i \in DOMAIN pieces |-> runes[pieces[i]]]
                        /\ t = [i \in DOMAIN pieces |-> tokens[pieces[i]]]
  OBVIOUS
<1>3. more \in Seq(Pieces) BY <1>2
<1>4. r \in Seq(Nat) /\ Total([i \in DOMAIN more |-> runes[more[i]]]) = Total(r) + runes[p]
  BY <1>2, MeasuredAppend
<1>5. t \in Seq(Nat) /\ Total([i \in DOMAIN more |-> tokens[more[i]]]) = Total(t) + tokens[p]
  BY <1>2, MeasuredAppend
<1>6. Total(r) \in Nat /\ Total(t) \in Nat BY <1>4, <1>5, TotalType
<1>7. WrittenRunes(pieces) = Total(r) /\ countTokens(c, pieces) = Total(t) BY <1>1, <1>2
<1>8. WrittenRunes(more) = Total(r) + runes[p] /\ countTokens(c, more) = Total(t) + tokens[p]
  BY <1>1, <1>3, <1>4, <1>5
<1>9. RunesOf(p) \in Nat /\ p.gap \in Nat BY PieceMeasures
<1> QED BY <1>1, <1>2, <1>6, <1>7, <1>8, <1>9

\* Nothing has no runes and no tokens.
LEMMA NothingMeasures ==
  ASSUME NEW c
  PROVE  WrittenRunes(<< >>) = 0 /\ countTokens(c, << >>) = 0
<1>1. PICK e : e = << >> OBVIOUS
<1>2. DOMAIN e = {} BY <1>1
<1>3. [i \in DOMAIN e |-> RunesOf(e[i]) + e[i].gap] = << >> /\ [i \in DOMAIN e |-> TokensOf(c, e[i])] = << >>
  BY <1>2
<1> QED BY <1>1, <1>3, TotalEmpty DEF WrittenRunes, countTokens

(* The tail of a chunk. *)
Repeats(old, body) ==
  /\ old \in Seq(Pieces) /\ Len(old) <= Len(body)
  /\ \A i \in DOMAIN old : /\ old[i].again
                           /\ old[i].word = body[Len(body) - Len(old) + i].word
                           /\ old[i].to = body[Len(body) - Len(old) + i].to

\* The tokens behind a place, and a place where they get less than the overlap.
LEMMA TokensBehind ==
  ASSUME NEW c \in Chunkers, NEW body \in Seq(Pieces)
  PROVE  \E g \in [0..Len(body) -> Nat] :
           /\ g[0] = 0 /\ g[Len(body)] = countTokens(c, body)
           /\ \A i \in 1..Len(body) : g[i] = g[i - 1] + TokensOf(c, body[i])
           /\ \A k \in 0..Len(body) :
                /\ countTokens(c, SubSeq(body, k + 1, Len(body))) = g[Len(body)] - g[k]
                /\ Total([i \in 1..(Len(body) - k) |-> TokensOf(c, body[k + i])]) = g[Len(body)] - g[k]
<1>1. PICK n, t : n = Len(body) /\ t = [i \in DOMAIN body |-> TokensOf(c, body[i])] OBVIOUS
<1>2. n \in Nat /\ DOMAIN body = 1..n /\ \A i \in 1..n : body[i] \in Pieces BY <1>1
<1>3. \A i \in 1..n : t[i] = TokensOf(c, body[i]) /\ t[i] \in Nat BY <1>1, <1>2, PieceMeasures
<1>4. t \in Seq(Nat) /\ Len(t) = n
  <2>1. t \in [1..n -> Nat] BY <1>1, <1>2, <1>3
  <2> QED BY <1>2, <2>1
<1>5. PICK g \in [0..n -> Nat] : Sums(g, t, n) /\ Total(t) = g[n] BY <1>4, TotalSums
<1>6. g[n] = countTokens(c, body) BY <1>1, <1>5 DEF countTokens
<1>7. ASSUME NEW k \in 0..n
      PROVE  /\ countTokens(c, SubSeq(body, k + 1, n)) = g[n] - g[k]
             /\ Total([i \in 1..(n - k) |-> TokensOf(c, body[k + i])]) = g[n] - g[k]
  <2>1. PICK m, e : m = n - k /\ e = SubSeq(body, k + 1, n) OBVIOUS
  <2>2. m \in Nat /\ k \in Nat /\ k + m = n BY <1>2, <2>1
  <2>3. DOMAIN e = 1..m /\ \A i \in 1..m : e[i] = body[k + i]
    <3>1. e = [i \in 1..(n - (k + 1) + 1) |-> body[(k + 1) + i - 1]] BY <1>1, <2>1, <2>2
    <3>2. n - (k + 1) + 1 = m /\ \A i \in 1..m : (k + 1) + i - 1 = k + i BY <2>2
    <3> QED BY <3>1, <3>2
  <2>4. \A i \in 1..m : k + i \in 1..n BY <2>2
  <2>5. [i \in DOMAIN e |-> TokensOf(c, e[i])] = [i \in 1..m |-> t[k + i]] BY <1>3, <2>3, <2>4
  <2>6. [i \in 1..m |-> TokensOf(c, body[k + i])] = [i \in 1..m |-> t[k + i]] BY <1>3, <2>4
  <2>7. Total([i \in 1..m |-> t[k + i]]) = g[n] - g[k] BY <1>4, <1>5, <2>1, TotalSplits
  <2>8. countTokens(c, e) = Total([i \in DOMAIN e |-> TokensOf(c, e[i])]) BY DEF countTokens
  <2> QED BY <2>1, <2>5, <2>6, <2>7, <2>8
<1>8. g[0] = 0 /\ \A i \in 1..n : g[i] = g[i - 1] + TokensOf(c, body[i]) BY <1>3, <1>5 DEF Sums
<1> QED BY <1>1, <1>6, <1>7, <1>8

\* What is left of the first piece of a tail.
LEMMA CutPiece ==
  ASSUME NEW c \in Chunkers, NEW p \in Pieces, NEW kept \in Nat \ {0}, kept <= TokensOf(c, p)
  PROVE  LET cut == IF ~c.encoder THEN 0 ELSE (TokensOf(c, p) - kept) * TokenRunes
         IN  /\ cut \in Nat /\ p.from + cut < p.to
             /\ \A q \in Pieces : q.from = p.from + cut /\ q.to = p.to => TokensOf(c, q) <= kept
<1>1. PICK from, to, k : from = p.from /\ to = p.to /\ k = TokenRunes OBVIOUS
<1>2. from \in Nat /\ to \in Nat /\ from < to /\ k \in Nat \ {0} BY <1>1, TokenAssumption DEF Pieces
<1>3. CASE ~c.encoder BY <1>1, <1>2, <1>3 DEF TokensOf
<1>4. CASE c.encoder
  <2>1. PICK n, t : n = to - from /\ t = Up(n, k) OBVIOUS
  <2>2. n \in Nat \ {0} BY <1>2, <2>1
  <2>3. t \in Nat \ {0} /\ n <= t * k /\ (t - 1) * k < n BY <1>2, <2>1, <2>2, UpRounds
  <2>4. TokensOf(c, p) = t BY <1>1, <1>4, <2>1 DEF TokensOf, RunesOf
  <2>5. PICK cut : cut = (t - kept) * k OBVIOUS
  <2>6. kept <= t BY <2>4
  <2>7. cut \in Nat
    <3>1. t - kept \in Nat BY <2>3, <2>6
    <3> QED BY <1>2, <2>5, <3>1
  <2>8. cut <= (t - 1) * k
    <3>1. t - kept <= t - 1 /\ t - kept \in Nat /\ t - 1 \in Nat BY <2>3, <2>6
    <3> QED BY <1>2, <2>5, <3>1
  <2>9. cut < n
    <3>1. (t - 1) * k \in Int BY <1>2, <2>3
    <3> QED BY <2>2, <2>3, <2>7, <2>8, <3>1
  <2>10. from + cut < to BY <1>2, <2>1, <2>7, <2>9
  <2>11. n - cut <= kept * k
    <3>1. cut = t * k - kept * k BY <1>2, <2>3, <2>5
    <3>2. t * k \in Int /\ kept * k \in Int BY <1>2, <2>3
    <3> QED BY <2>2, <2>3, <2>7, <3>1, <3>2
  <2>12. ASSUME NEW q \in Pieces, q.from = p.from + cut, q.to = p.to PROVE TokensOf(c, q) <= kept
    <3>1. PICK r : r = n - cut OBVIOUS
    <3>2. r \in Nat \ {0} /\ r <= kept * k BY <2>2, <2>7, <2>9, <2>11, <3>1
    <3>3. Up(r, k) <= kept BY <1>2, <3>2, UpRounds
    <3>4. RunesOf(q) = r BY <1>1, <1>2, <2>1, <2>7, <2>12, <3>1 DEF RunesOf
    <3> QED BY <1>1, <1>4, <3>3, <3>4 DEF TokensOf
  <2> QED BY <1>1, <1>4, <2>4, <2>5, <2>7, <2>10, <2>12
<1> QED BY <1>3, <1>4

\* What a tail is made of: the pieces of the content behind a place, the first of them cut.
TailPiece(c, body, left, cut, i) ==
  LET p == body[left + i]
  IN  [word |-> p.word, from |-> IF i = 1 THEN p.from + cut ELSE p.from, to |-> p.to,
       gap |-> IF left + i # Len(body) /\ (countTokens(c, body) <= c.overlap \/ c.encoder) THEN p.gap ELSE 1,
       again |-> TRUE]

\* The place where a tail starts: all of a short content, or what has less than the
\* overlap behind it.
LEMMA TailStarts ==
  ASSUME NEW c \in Chunkers, c.overlap # 0, NEW body \in Seq(Pieces), body # << >>
  PROVE  \E left \in 0..(Len(body) - 1), cut \in Nat :
           /\ tailTokens(c, body) = [i \in 1..(Len(body) - left) |-> TailPiece(c, body, left, cut, i)]
           /\ body[left + 1].from + cut < body[left + 1].to
           /\ \/ left = 0 /\ cut = 0 /\ countTokens(c, body) <= c.overlap
              \/ \E behind \in Nat : /\ behind < c.overlap
                   /\ Total([i \in 1..(Len(body) - (left + 1)) |-> TokensOf(c, body[left + 1 + i])]) = behind
                   /\ \A q \in Pieces : /\ q.from = body[left + 1].from + cut
                                        /\ q.to = body[left + 1].to
                                        => TokensOf(c, q) <= c.overlap - behind
<1> DEFINE n == Len(body)
           after(i) == countTokens(c, SubSeq(body, i + 1, Len(body)))
           first == CHOOSE i \in DOMAIN body : after(i) < c.overlap /\ after(i - 1) >= c.overlap
           all == countTokens(c, body) <= c.overlap
           Left == IF all THEN 0 ELSE first - 1
           Cut == IF all \/ ~c.encoder THEN 0
                  ELSE (TokensOf(c, body[first]) - (c.overlap - after(first))) * TokenRunes
<1>1. n \in Nat \ {0} /\ DOMAIN body = 1..n /\ \A i \in 1..n : body[i] \in Pieces OBVIOUS
<1>2. c.overlap \in Nat \ {0} BY DEF Chunkers
<1>3. tailTokens(c, body) = [i \in 1..(Len(body) - Left) |-> TailPiece(c, body, Left, Cut, i)]
  BY Zenon DEF tailTokens, TailPiece
<1>4. CASE all
  <2>1. Left = 0 /\ Cut = 0 BY <1>4
  <2>2. body[1].from < body[1].to /\ body[1].from \in Nat
    <3>1. body[1] \in Pieces BY <1>1
    <3> QED BY <3>1 DEF Pieces
  <2>3. body[0 + 1].from + 0 < body[0 + 1].to BY <2>2
  <2>4. 0 \in 0..(n - 1) BY <1>1
  <2> HIDE DEF Left, Cut
  <2> QED BY <1>3, <1>4, <2>1, <2>3, <2>4
<1>5. CASE ~all
  <2>1. PICK g \in [0..n -> Nat] :
           /\ g[0] = 0 /\ g[n] = countTokens(c, body)
           /\ \A i \in 1..n : g[i] = g[i - 1] + TokensOf(c, body[i])
           /\ \A k \in 0..n : /\ after(k) = g[n] - g[k]
                              /\ Total([i \in 1..(n - k) |-> TokensOf(c, body[k + i])]) = g[n] - g[k]
    BY TokensBehind
  <2>2. \A i \in 0..n : g[i] \in Nat BY <2>1
  <2>3. n \in 0..n /\ 0 \in 0..n BY <1>1
  <2>4. g[n] > c.overlap
    <3>1. g[n] \in Nat BY <2>2, <2>3
    <3> QED BY <1>2, <1>5, <2>1, <3>1
  <2> DEFINE Behind == {i \in 1..n : g[n] - g[i] < c.overlap}
  <2>5. n \in Behind
    <3>1. g[n] - g[n] = 0 BY <2>2, <2>3
    <3> QED BY <1>1, <1>2, <3>1
  <2>6. PICK m \in Behind : \A i \in Behind : m <= i
    <3>1. Behind \in SUBSET Nat BY <1>1
    <3> HIDE DEF Behind
    <3> QED BY <2>5, <3>1, MinOfNats
  <2>7. m \in 1..n /\ m - 1 \in 0..n /\ m \in 0..n /\ ~(m <= m - 1) BY <1>1, <2>6
  <2>8. g[n] - g[m - 1] >= c.overlap
    <3>1. CASE m = 1
      <4>1. m - 1 = 0 BY <3>1
      <4>2. g[n] - g[m - 1] = g[n] BY <2>1, <2>2, <2>3, <4>1
      <4>3. PICK a, b : a = g[n] /\ b = c.overlap OBVIOUS
      <4>4. a \in Nat /\ b \in Nat /\ a > b BY <1>2, <2>2, <2>3, <2>4, <4>3
      <4> QED BY <4>2, <4>3, <4>4
    <3>2. CASE m # 1
      <4>1. m - 1 \in 1..n BY <1>1, <2>7, <3>2
      <4>2. m - 1 \notin Behind
        <5> HIDE DEF Behind
        <5> QED BY <2>6, <2>7
      <4>3. ~(g[n] - g[m - 1] < c.overlap) BY <4>1, <4>2
      <4>4. PICK a, b : a = g[n] /\ b = g[m - 1] OBVIOUS
      <4>5. a \in Nat /\ b \in Nat /\ c.overlap \in Nat BY <1>2, <2>2, <2>3, <2>7, <4>4
      <4>6. a - b >= c.overlap BY <4>3, <4>4, <4>5
      <4> QED BY <4>4, <4>6
    <3> QED BY <3>1, <3>2
  <2> HIDE DEF after
  <2>9. after(m) < c.overlap /\ after(m - 1) >= c.overlap BY <2>1, <2>6, <2>7, <2>8
  <2>10. first \in DOMAIN body /\ after(first) < c.overlap /\ after(first - 1) >= c.overlap
    <3>1. m \in DOMAIN body BY <1>1, <2>7
    <3> QED BY <2>9, <3>1
  <2> HIDE DEF first
  <2>11. PICK f, behind, p : f = first /\ behind = after(f) /\ p = body[f] OBVIOUS
  <2>12. f \in 1..n /\ f \in 0..n /\ f - 1 \in 0..n /\ p \in Pieces BY <1>1, <2>10, <2>11
  <2>13. behind = g[n] - g[f] /\ after(f - 1) = g[n] - g[f - 1] /\ g[f] = g[f - 1] + TokensOf(c, p)
    BY <2>1, <2>11, <2>12
  <2>14. TokensOf(c, p) \in Nat \ {0} BY <2>12, PieceMeasures
  <2>15. behind \in Nat /\ behind < c.overlap /\ c.overlap - behind <= TokensOf(c, p)
    <3>1. PICK a, b, d, t, o : a = g[f - 1] /\ b = g[f] /\ d = g[n] /\ t = TokensOf(c, p) /\ o = c.overlap OBVIOUS
    <3>2. a \in Nat /\ b \in Nat /\ d \in Nat /\ t \in Nat /\ o \in Nat BY <1>2, <2>2, <2>3, <2>12, <2>14, <3>1
    <3>3. behind = d - b /\ b = a + t /\ d - b < o /\ d - a >= o BY <2>10, <2>11, <2>13, <3>1
    <3>4. o - (d - b) <= t BY <3>2, <3>3
    <3>5. behind \in Nat
      <4>1. behind = Total([i \in 1..(n - f) |-> TokensOf(c, body[f + i])]) BY <2>1, <2>12, <2>13
      <4>2. [i \in 1..(n - f) |-> TokensOf(c, body[f + i])] \in Seq(Nat)
        <5>1. \A i \in 1..(n - f) : f + i \in 1..n BY <1>1, <2>12
        <5>2. \A i \in 1..(n - f) : TokensOf(c, body[f + i]) \in Nat BY <1>1, <5>1, PieceMeasures
        <5>3. n - f \in Nat BY <1>1, <2>12
        <5> QED BY <5>2, <5>3
      <4> QED BY <4>1, <4>2, TotalType
    <3> QED BY <3>1, <3>3, <3>4, <3>5
  <2>16. PICK kept : kept = c.overlap - behind OBVIOUS
  <2>17. kept \in Nat \ {0} /\ kept <= TokensOf(c, p) BY <1>2, <2>15, <2>16
  <2>18. Left = f - 1 /\ Cut = IF ~c.encoder THEN 0 ELSE (TokensOf(c, p) - kept) * TokenRunes
    BY <1>5, <2>11, <2>16
  <2> HIDE DEF Left, Cut, all
  <2>19. /\ Cut \in Nat /\ p.from + Cut < p.to
         /\ \A q \in Pieces : q.from = p.from + Cut /\ q.to = p.to => TokensOf(c, q) <= kept
    BY <2>12, <2>17, <2>18, CutPiece
  <2>20. Left + 1 = f /\ Left \in 0..(n - 1) BY <1>1, <2>12, <2>18
  <2>21. Total([i \in 1..(n - (Left + 1)) |-> TokensOf(c, body[Left + 1 + i])]) = behind
    BY <2>1, <2>12, <2>13, <2>20
  <2>22. body[Left + 1] = p BY <2>11, <2>20
  <2> QED BY <1>3, <2>15, <2>16, <2>19, <2>20, <2>21, <2>22
<1> QED BY <1>4, <1>5

\* A tail repeats the end of the content, within the overlap.
LEMMA TailRepeats ==
  ASSUME NEW c \in Chunkers, c.overlap # 0, NEW body \in Seq(Pieces), body # << >>
  PROVE  LET tail == tailTokens(c, body)
         IN  tail # << >> /\ Repeats(tail, body) /\ countTokens(c, tail) <= c.overlap
<1> DEFINE n == Len(body)
           tokens == [i \in DOMAIN body |-> TokensOf(c, body[i])]
<1>1. n \in Nat \ {0} /\ DOMAIN body = 1..n /\ \A i \in 1..n : body[i] \in Pieces OBVIOUS
<1>2. c.overlap \in Nat \ {0} BY DEF Chunkers
<1>3. PICK left \in 0..(n - 1), cut \in Nat :
           /\ tailTokens(c, body) = [i \in 1..(n - left) |-> TailPiece(c, body, left, cut, i)]
           /\ body[left + 1].from + cut < body[left + 1].to
           /\ \/ left = 0 /\ cut = 0 /\ countTokens(c, body) <= c.overlap
              \/ \E behind \in Nat : /\ behind < c.overlap
                   /\ Total([i \in 1..(n - (left + 1)) |-> TokensOf(c, body[left + 1 + i])]) = behind
                   /\ \A q \in Pieces : /\ q.from = body[left + 1].from + cut
                                        /\ q.to = body[left + 1].to
                                        => TokensOf(c, q) <= c.overlap - behind
  BY TailStarts
<1>4. PICK m, tail : m = n - left /\ tail = tailTokens(c, body) OBVIOUS
<1>5. m \in Nat \ {0} /\ left \in Nat /\ left + m = n /\ \A i \in 1..m : left + i \in 1..n
  <2>1. PICK k : k = n OBVIOUS
  <2>2. k \in Nat \ {0} /\ m = k - left /\ left \in 0..(k - 1) BY <1>1, <1>4, <2>1
  <2>3. m \in Nat \ {0} /\ left \in Nat /\ left + m = k /\ \A i \in 1..m : left + i \in 1..k BY <2>2
  <2> QED BY <2>1, <2>3
<1>6. DOMAIN tail = 1..m /\ \A i \in 1..m : tail[i] = TailPiece(c, body, left, cut, i) BY <1>3, <1>4
<1>7. ASSUME NEW i \in 1..m
      PROVE  /\ tail[i] \in Pieces /\ tail[i].again
             /\ tail[i].word = body[left + i].word /\ tail[i].to = body[left + i].to
             /\ tail[i].from = IF i = 1 THEN body[left + i].from + cut ELSE body[left + i].from
  <2>1. PICK p, gap, from : /\ p = body[left + i]
                            /\ gap = (IF left + i # Len(body) /\ (countTokens(c, body) <= c.overlap \/ c.encoder)
                                      THEN p.gap ELSE 1)
                            /\ from = IF i = 1 THEN p.from + cut ELSE p.from
    OBVIOUS
  <2>2. tail[i] = [word |-> p.word, from |-> from, to |-> p.to, gap |-> gap, again |-> TRUE]
    BY <1>6, <2>1 DEF TailPiece
  <2>3. p \in Pieces BY <1>1, <1>5, <2>1
  <2>4. p.word \in Nat /\ p.from \in Nat /\ p.to \in Nat /\ p.gap \in Nat /\ p.from < p.to BY <2>3 DEF Pieces
  <2>5. gap \in Nat BY <2>1, <2>4
  <2>6. from \in Nat /\ from < p.to
    <3>1. CASE i = 1
      <4>1. p.from + cut < p.to BY <1>3, <2>1, <3>1
      <4> QED BY <2>1, <2>4, <3>1, <4>1
    <3>2. CASE i # 1 BY <2>1, <2>4, <3>2
    <3> QED BY <3>1, <3>2
  <2>7. tail[i] \in Pieces
    <3>1. PICK w, u : w = p.word /\ u = p.to OBVIOUS
    <3>2. w \in Nat /\ u \in Nat /\ from \in Nat /\ gap \in Nat /\ from < u BY <2>4, <2>5, <2>6, <3>1
    <3>3. [word |-> w, from |-> from, to |-> u, gap |-> gap, again |-> TRUE] \in Pieces BY <3>2 DEF Pieces
    <3> QED BY <2>2, <3>1, <3>3
  <2> QED BY <2>1, <2>2, <2>7
<1>8. tail \in Seq(Pieces) /\ Len(tail) = m
  <2>1. tail = [i \in 1..m |-> tail[i]] BY <1>3, <1>4, <1>6
  <2>2. tail \in [1..m -> Pieces] BY <1>7, <2>1
  <2> QED BY <1>5, <2>2
<1>9. Repeats(tail, body)
  <2>1. n - m = left BY <1>4
  <2> QED BY <1>1, <1>5, <1>6, <1>7, <1>8, <2>1 DEF Repeats
<1>10. PICK u : u = [i \in DOMAIN tail |-> TokensOf(c, tail[i])] OBVIOUS
<1>11. u \in Seq(Nat) /\ Len(u) = m /\ \A i \in 1..m : u[i] = TokensOf(c, tail[i]) /\ u[i] \in Nat
  <2>1. \A i \in 1..m : TokensOf(c, tail[i]) \in Nat BY <1>7, PieceMeasures
  <2>2. u \in [1..m -> Nat] BY <1>6, <1>10, <2>1
  <2> QED BY <1>5, <1>6, <1>10, <2>2
<1>12. ASSUME NEW i \in 1..m, i # 1 \/ cut = 0 PROVE u[i] = TokensOf(c, body[left + i])
  <2>1. tail[i].from = body[left + i].from /\ tail[i].to = body[left + i].to
    <3>1. body[left + i].from \in Nat
      <4>1. body[left + i] \in Pieces BY <1>1, <1>5
      <4> QED BY <4>1 DEF Pieces
    <3> QED BY <1>7, <1>12, <3>1
  <2> QED BY <1>11, <2>1 DEF TokensOf, RunesOf
<1>13. Total(u) <= c.overlap
  <2>1. CASE left = 0 /\ cut = 0 /\ countTokens(c, body) <= c.overlap
    <3>1. m = n /\ \A i \in 1..m : left + i = i BY <1>1, <1>4, <2>1
    <3>2. \A i \in 1..n : u[i] = TokensOf(c, body[i]) BY <1>12, <2>1, <3>1
    <3>3. u = [i \in DOMAIN body |-> TokensOf(c, body[i])]
      <4>1. u = [i \in 1..m |-> u[i]] BY <1>6, <1>10
      <4> QED BY <1>1, <3>1, <3>2, <4>1
    <3> QED BY <2>1, <3>3 DEF countTokens
  <2>2. CASE ~(left = 0 /\ cut = 0 /\ countTokens(c, body) <= c.overlap)
    <3>1. PICK behind \in Nat :
            /\ behind < c.overlap
            /\ Total([i \in 1..(n - (left + 1)) |-> TokensOf(c, body[left + 1 + i])]) = behind
            /\ \A q \in Pieces : q.from = body[left + 1].from + cut /\ q.to = body[left + 1].to
                                 => TokensOf(c, q) <= c.overlap - behind
      BY <1>3, <2>2
    <3>2. PICK g \in [0..m -> Nat] : Sums(g, u, m) /\ Total(u) = g[m] BY <1>11, TotalSums
    <3>3. 1 \in 1..m /\ 1 \in 0..m /\ 0 \in 0..m /\ m \in 0..m BY <1>5
    <3>4. Total([i \in 1..(m - 1) |-> u[1 + i]]) = g[m] - g[1] BY <1>11, <3>2, <3>3, TotalSplits
    <3>5. [i \in 1..(m - 1) |-> u[1 + i]] = [i \in 1..(n - (left + 1)) |-> TokensOf(c, body[left + 1 + i])]
      <4>1. m - 1 = n - (left + 1) BY <1>1, <1>4
      <4>2. \A i \in 1..(m - 1) : 1 + i \in 1..m /\ 1 + i # 1 /\ left + (1 + i) = left + 1 + i BY <1>5
      <4>3. \A i \in 1..(m - 1) : u[1 + i] = TokensOf(c, body[left + 1 + i]) BY <1>12, <4>2
      <4> QED BY <4>1, <4>3
    <3>6. g[1] = u[1]
      <4>1. g[1] = g[1 - 1] + u[1] /\ g[0] = 0 BY <3>2, <3>3 DEF Sums
      <4> QED BY <1>11, <3>3, <4>1
    <3>7. u[1] <= c.overlap - behind
      <4>1. tail[1] \in Pieces /\ tail[1].from = body[left + 1].from + cut /\ tail[1].to = body[left + 1].to
        BY <1>7, <3>3
      <4> QED BY <1>11, <3>1, <3>3, <4>1
    <3>8. PICK a, b : a = g[m] /\ b = u[1] OBVIOUS
    <3>9. a \in Nat /\ b \in Nat /\ a - b = behind /\ b <= c.overlap - behind
      BY <1>11, <3>1, <3>2, <3>3, <3>4, <3>5, <3>6, <3>7, <3>8
    <3>10. a <= c.overlap BY <1>2, <3>9
    <3> QED BY <3>2, <3>8, <3>10
  <2> QED BY <2>1, <2>2
<1>14. countTokens(c, tail) = Total(u) BY <1>10 DEF countTokens
<1>15. tail # << >> BY <1>5, <1>8
<1> QED BY <1>4, <1>9, <1>13, <1>14, <1>15

(* Chunks that follow on each other. *)
MaxRunes(c) == c.maxTokens * Inflation

\* The pieces that are repeated are the first of a chunk.
LEMMA RepeatedIs ==
  ASSUME NEW chunk \in Seq(Pieces), NEW n \in 0..Len(chunk), \A i \in DOMAIN chunk : chunk[i].again <=> i <= n
  PROVE  Repeated(chunk) = n
<1>1. DOMAIN chunk = 1..Len(chunk) /\ Len(chunk) \in Nat OBVIOUS
<1>2. {i \in DOMAIN chunk : chunk[i].again} = 1..n BY <1>1
<1>3. Cardinality(1..n) = n
  <2>1. 1 \in Int /\ n \in Int BY <1>1
  <2>2. Cardinality(1..n) = IF 1 > n THEN 0 ELSE n - 1 + 1 BY <2>1, FS_Interval
  <2> QED BY <1>1, <2>2
<1> QED BY <1>2, <1>3 DEF Repeated

\* All but the last piece.
LEMMA FrontOf ==
  ASSUME NEW S, NEW s \in Seq(S), s # << >>
  PROVE  \E front \in Seq(S) : /\ Len(front) = Len(s) - 1 /\ s = Append(front, s[Len(s)])
                               /\ \A i \in 1..(Len(s) - 1) : front[i] = s[i]
<1>1. PICK n : n = Len(s) OBVIOUS
<1>2. n \in Nat \ {0} /\ DOMAIN s = 1..n /\ \A i \in 1..n : s[i] \in S BY <1>1
<1>3. PICK front : front = [i \in 1..(n - 1) |-> s[i]] OBVIOUS
<1>4. n - 1 \in Nat /\ \A i \in 1..(n - 1) : i \in 1..n BY <1>2
<1>5. front \in Seq(S) /\ Len(front) = n - 1
  <2>1. front \in [1..(n - 1) -> S] BY <1>2, <1>3, <1>4
  <2> QED BY <1>4, <2>1
<1>6. PICK t : t = Append(front, s[n]) OBVIOUS
<1>7. t = s
  <2>1. n \in 1..n BY <1>2
  <2>2. /\ t \in Seq(S) /\ DOMAIN t = 1..((n - 1) + 1) /\ t[(n - 1) + 1] = s[n]
        /\ \A i \in 1..(n - 1) : t[i] = front[i]
    BY <1>2, <1>5, <1>6, <2>1
  <2>3. (n - 1) + 1 = n BY <1>2
  <2>4. \A i \in 1..n : i \in 1..(n - 1) \/ i = n BY <1>2
  <2>5. \A i \in 1..n : t[i] = s[i] BY <1>3, <2>2, <2>3, <2>4
  <2>6. t = [i \in 1..n |-> t[i]] /\ s = [i \in 1..n |-> s[i]] BY <1>2, <2>2, <2>3
  <2> QED BY <2>5, <2>6
<1> QED BY <1>1, <1>3, <1>5, <1>6, <1>7

\* One piece more on a list of pieces.
LEMMA MorePieces ==
  ASSUME NEW pieces \in Seq(Pieces), NEW p \in Pieces
  PROVE  LET more == Append(pieces, p)
             n == Len(pieces)
         IN  /\ more \in Seq(Pieces) /\ more # << >> /\ Len(more) = n + 1 /\ n \in Nat /\ DOMAIN pieces = 1..n
             /\ DOMAIN more = 1..(n + 1) /\ more[n + 1] = p /\ Last(more) = p
             /\ \A i \in 1..n : more[i] = pieces[i] /\ pieces[i] \in Pieces
             /\ \A k \in 0..n : SubSeq(more, 1, k) = SubSeq(pieces, 1, k)
             /\ SubSeq(pieces, 1, n) = pieces
<1>1. PICK more, n : more = Append(pieces, p) /\ n = Len(pieces) OBVIOUS
<1>2. /\ more \in Seq(Pieces) /\ Len(more) = n + 1 /\ n \in Nat /\ DOMAIN pieces = 1..n
      /\ DOMAIN more = 1..(n + 1) /\ more[n + 1] = p /\ more # << >>
      /\ \A i \in 1..n : more[i] = pieces[i] /\ pieces[i] \in Pieces
  BY <1>1
<1>3. ASSUME NEW k \in 0..n PROVE SubSeq(more, 1, k) = SubSeq(pieces, 1, k)
  <2>1. SubSeq(more, 1, k) = [i \in 1..(k - 1 + 1) |-> more[1 + i - 1]] BY <1>2
  <2>2. SubSeq(pieces, 1, k) = [i \in 1..(k - 1 + 1) |-> pieces[1 + i - 1]] BY <1>1, <1>2
  <2>3. \A i \in 1..(k - 1 + 1) : more[1 + i - 1] = pieces[1 + i - 1]
    <3>1. \A i \in 1..(k - 1 + 1) : 1 + i - 1 = i /\ i \in 1..n BY <1>2
    <3> QED BY <1>2, <3>1
  <2> QED BY <2>1, <2>2, <2>3
<1>4. SubSeq(pieces, 1, n) = pieces
  <2>1. SubSeq(pieces, 1, n) = [i \in 1..(n - 1 + 1) |-> pieces[1 + i - 1]] BY <1>1, <1>2
  <2>2. n - 1 + 1 = n /\ \A i \in 1..n : 1 + i - 1 = i BY <1>2
  <2>3. pieces = [i \in 1..n |-> pieces[i]] BY <1>2
  <2> QED BY <2>1, <2>2, <2>3
<1>5. Last(more) = p BY <1>2 DEF Last
<1> QED BY <1>1, <1>2, <1>3, <1>4, <1>5

\* A chunk may start with one piece behind what it repeats.
LEMMA StartChunk ==
  ASSUME NEW c \in Chunkers, NEW text, NEW before \in Seq(Pieces), NEW tail \in Seq(Pieces),
         tail # << >> => before # << >> /\ Repeats(tail, before), countTokens(c, tail) <= c.overlap,
         NEW p \in Pieces, ~p.again, RunesOf(p) <= MaxRunes(c),
         IF before = << >> THEN p.word = 1 /\ p.from = 0 ELSE Continues(text, Last(before), p)
  PROVE  FollowsOn(c, text, before, Append(tail, p))
<1>1. PICK n, chunk : n = Len(tail) /\ chunk = Append(tail, p) OBVIOUS
<1>2. /\ chunk \in Seq(Pieces) /\ Len(chunk) = n + 1 /\ n \in Nat /\ DOMAIN tail = 1..n
      /\ DOMAIN chunk = 1..(n + 1) /\ chunk[n + 1] = p /\ Last(chunk) = p
      /\ \A i \in 1..n : chunk[i] = tail[i]
      /\ SubSeq(chunk, 1, n) = tail
  <2>1. n \in 0..n BY <1>1
  <2> QED BY <1>1, <2>1, MorePieces
<1>3. n # 0 => before # << >> /\ Repeats(tail, before)
  <2>1. n # 0 => tail # << >> BY <1>1
  <2> QED BY <2>1
<1>4. \A i \in 1..n : tail[i].again
  <2> SUFFICES ASSUME NEW i \in 1..n PROVE tail[i].again OBVIOUS
  <2>1. n # 0 BY <1>2
  <2> QED BY <1>2, <1>3, <2>1 DEF Repeats
<1>5. \A i \in DOMAIN chunk : chunk[i].again <=> i <= n
  <2>1. \A i \in 1..(n + 1) : (i <= n <=> i \in 1..n) /\ (i \in 1..n \/ i = n + 1) BY <1>2
  <2> QED BY <1>2, <1>4, <2>1
<1>6. Repeated(chunk) = n
  <2>1. n \in 0..Len(chunk) BY <1>2
  <2> QED BY <1>2, <1>5, <2>1, RepeatedIs
<1>7. n < Len(chunk) /\ n + 1 = Len(chunk) /\ (n + 1)..(Len(chunk) - 1) = {} BY <1>2
<1>8. IF before = << >> THEN n = 0 /\ chunk[1].word = 1 /\ chunk[1].from = 0
      ELSE n <= Len(before) /\ Continues(text, Last(before), chunk[n + 1])
  <2>1. CASE before = << >>
    <3>1. n = 0 /\ n + 1 = 1 BY <1>3, <2>1
    <3>2. chunk[1] = p BY <1>2, <3>1
    <3> QED BY <2>1, <3>1, <3>2
  <2>2. CASE before # << >>
    <3>1. n <= Len(before)
      <4>1. Len(before) \in Nat OBVIOUS
      <4> QED BY <1>1, <1>2, <1>3, <4>1 DEF Repeats
    <3> QED BY <1>2, <2>2, <3>1
  <2> QED BY <2>1, <2>2
<1>9. \A i \in 1..n : /\ chunk[i].word = before[Len(before) - n + i].word
                      /\ chunk[i].to = before[Len(before) - n + i].to
  <2> SUFFICES ASSUME NEW i \in 1..n
               PROVE  /\ chunk[i].word = before[Len(before) - n + i].word
                      /\ chunk[i].to = before[Len(before) - n + i].to
    OBVIOUS
  <2>1. n # 0 BY <1>2
  <2> QED BY <1>1, <1>2, <1>3, <2>1 DEF Repeats
<1>10. countTokens(c, SubSeq(chunk, 1, n)) <= c.overlap BY <1>2
<1>11. RunesOf(Last(chunk)) <= c.maxTokens * Inflation BY <1>2 DEF MaxRunes
<1>12. FollowsOn(c, text, before, chunk) BY <1>5, <1>6, <1>7, <1>8, <1>9, <1>10, <1>11 DEF FollowsOn
<1> QED BY <1>1, <1>12

\* A chunk may go on while it is within the budgets.
LEMMA GrowChunk ==
  ASSUME NEW c \in Chunkers, NEW text, NEW before \in Seq(Pieces), NEW chunk \in Seq(Pieces), chunk # << >>,
         FollowsOn(c, text, before, chunk), NEW p \in Pieces, ~p.again, Continues(text, Last(chunk), p),
         WrittenRunes(chunk) + RunesOf(p) <= MaxRunes(c), countTokens(c, Append(chunk, p)) < c.maxTokens
  PROVE  FollowsOn(c, text, before, Append(chunk, p))
<1>1. PICK n, more, old : n = Len(chunk) /\ more = Append(chunk, p) /\ old = Repeated(chunk) OBVIOUS
<1>2. /\ more \in Seq(Pieces) /\ Len(more) = n + 1 /\ n \in Nat /\ DOMAIN chunk = 1..n
      /\ DOMAIN more = 1..(n + 1) /\ more[n + 1] = p /\ Last(more) = p
      /\ \A i \in 1..n : more[i] = chunk[i]
      /\ \A k \in 0..n : SubSeq(more, 1, k) = SubSeq(chunk, 1, k)
  BY <1>1, MorePieces
<1>3. n # 0 BY <1>1, <1>2
<1>4. /\ old < n /\ (\A i \in 1..n : chunk[i].again <=> i <= old)
      /\ \A i \in (old + 1)..(n - 1) : Continues(text, chunk[i], chunk[i + 1])
      /\ IF before = << >> THEN old = 0 /\ chunk[1].word = 1 /\ chunk[1].from = 0
         ELSE old <= Len(before) /\ Continues(text, Last(before), chunk[old + 1])
      /\ \A i \in 1..old : /\ chunk[i].word = before[Len(before) - old + i].word
                           /\ chunk[i].to = before[Len(before) - old + i].to
      /\ countTokens(c, SubSeq(chunk, 1, old)) <= c.overlap
  BY <1>1, <1>2 DEF FollowsOn
<1>5. old \in Nat
  <2>1. IsFiniteSet({i \in DOMAIN chunk : chunk[i].again})
    <3>1. IsFiniteSet(1..n)
      <4>1. 1 \in Int /\ n \in Int BY <1>2
      <4> QED BY <4>1, FS_Interval
    <3>2. {i \in DOMAIN chunk : chunk[i].again} \subseteq 1..n BY <1>2
    <3> QED BY <3>1, <3>2, FS_Subset
  <2> QED BY <1>1, <2>1, FS_CardinalityType DEF Repeated
<1>6. \A i \in DOMAIN more : more[i].again <=> i <= old
  <2>1. \A i \in 1..(n + 1) : i \in 1..n \/ (i = n + 1 /\ ~(i <= old)) BY <1>2, <1>4, <1>5
  <2> QED BY <1>2, <1>4, <2>1
<1>7. Repeated(more) = old
  <2>1. old \in 0..Len(more) BY <1>2, <1>4, <1>5
  <2> QED BY <1>2, <1>6, <2>1, RepeatedIs
<1>8. old < Len(more) /\ old + 1 # Len(more) BY <1>2, <1>4, <1>5
<1>9. \A i \in (old + 1)..(Len(more) - 1) : Continues(text, more[i], more[i + 1])
  <2> SUFFICES ASSUME NEW i \in (old + 1)..n PROVE Continues(text, more[i], more[i + 1]) BY <1>2
  <2>1. i \in 1..n BY <1>2, <1>5
  <2>2. CASE i = n
    <3>1. more[i] = Last(chunk) /\ more[i + 1] = p BY <1>1, <1>2, <2>1, <2>2 DEF Last
    <3> QED BY <3>1
  <2>3. CASE i # n
    <3>1. i \in (old + 1)..(n - 1) /\ i + 1 \in 1..n BY <1>2, <1>5, <2>3
    <3> QED BY <1>2, <1>4, <2>1, <3>1
  <2> QED BY <2>2, <2>3
<1>10. IF before = << >> THEN old = 0 /\ more[1].word = 1 /\ more[1].from = 0
       ELSE old <= Len(before) /\ Continues(text, Last(before), more[old + 1])
  <2>1. 1 \in 1..n /\ old + 1 \in 1..n BY <1>2, <1>3, <1>4, <1>5
  <2> QED BY <1>2, <1>4, <2>1
<1>11. \A i \in 1..old : /\ more[i].word = before[Len(before) - old + i].word
                         /\ more[i].to = before[Len(before) - old + i].to
  <2>1. \A i \in 1..old : i \in 1..n BY <1>2, <1>4, <1>5
  <2> QED BY <1>2, <1>4, <2>1
<1>12. countTokens(c, SubSeq(more, 1, old)) <= c.overlap
  <2>1. old \in 0..n BY <1>2, <1>4, <1>5
  <2> QED BY <1>2, <1>4, <2>1
<1>13. ContentRunes(more) <= c.maxTokens * Inflation
  <2>1. WrittenRunes(more) = WrittenRunes(chunk) + RunesOf(p) + p.gap /\ WrittenRunes(chunk) \in Nat
    BY <1>1, WrittenAppend
  <2>2. RunesOf(p) \in Nat /\ p.gap \in Nat BY PieceMeasures
  <2>3. ContentRunes(more) = WrittenRunes(chunk) + RunesOf(p) BY <1>2, <2>1, <2>2 DEF ContentRunes
  <2> QED BY <2>3 DEF MaxRunes
<1>14. countTokens(c, more) < c.maxTokens BY <1>1
<1>15. FollowsOn(c, text, before, more)
  BY <1>6, <1>7, <1>8, <1>9, <1>10, <1>11, <1>12, <1>13, <1>14 DEF FollowsOn
<1> QED BY <1>1, <1>15

Widened(chunk, breaks) == [chunk EXCEPT ![Len(chunk)].gap = @ + breaks]

\* The break behind a paragraph is no part of a chunk: its content stays.
LEMMA WidenGap ==
  ASSUME NEW c \in Chunkers, NEW text, NEW before \in Seq(Pieces), NEW chunk \in Seq(Pieces), chunk # << >>,
         NEW breaks \in Nat
  PROVE  LET wide == Widened(chunk, breaks)
         IN  /\ wide \in Seq(Pieces) /\ wide # << >>
             /\ Last(wide).word = Last(chunk).word /\ Last(wide).to = Last(chunk).to
             /\ WrittenRunes(wide) = WrittenRunes(chunk) + breaks
             /\ FollowsOn(c, text, before, chunk) => FollowsOn(c, text, before, wide)
<1>1. PICK n, wide, p : n = Len(chunk) /\ wide = Widened(chunk, breaks) /\ p = chunk[n] OBVIOUS
<1>2. n \in Nat /\ DOMAIN chunk = 1..n /\ n # 0 /\ n \in 1..n /\ \A i \in 1..n : chunk[i] \in Pieces BY <1>1
<1>3. PICK q : q = [p EXCEPT !.gap = @ + breaks] OBVIOUS
<1>4. p \in Pieces BY <1>1, <1>2
<1>5. /\ q \in Pieces /\ q.word = p.word /\ q.from = p.from /\ q.to = p.to /\ q.gap = p.gap + breaks
      /\ q.again = p.again
  <2>1. /\ p \in [word : Nat, from : Nat, to : Nat, gap : Nat, again : BOOLEAN] /\ p.from < p.to
    BY <1>4 DEF Pieces
  <2>2. p.gap + breaks \in Nat BY <2>1
  <2>3. /\ q \in [word : Nat, from : Nat, to : Nat, gap : Nat, again : BOOLEAN]
        /\ q.word = p.word /\ q.from = p.from /\ q.to = p.to /\ q.gap = p.gap + breaks /\ q.again = p.again
    BY <1>3, <2>1, <2>2
  <2> QED BY <2>1, <2>3 DEF Pieces
<1>6. DOMAIN wide = 1..n /\ \A i \in 1..n : wide[i] = IF i = n THEN q ELSE chunk[i]
  <2>1. wide = [chunk EXCEPT ![n] = q] BY <1>1, <1>3 DEF Widened
  <2> QED BY <1>2, <2>1
<1>7. wide \in Seq(Pieces) /\ Len(wide) = n
  <2>1. \A i \in 1..n : wide[i] \in Pieces BY <1>2, <1>5, <1>6
  <2>2. wide = [i \in 1..n |-> wide[i]] BY <1>1, <1>2, <1>6 DEF Widened
  <2>3. wide \in [1..n -> Pieces] BY <2>1, <2>2
  <2> QED BY <1>2, <2>3
<1>8. \A i \in 1..n : /\ wide[i].word = chunk[i].word /\ wide[i].from = chunk[i].from /\ wide[i].to = chunk[i].to
                      /\ wide[i].again = chunk[i].again
  BY <1>1, <1>5, <1>6
<1>9. Last(chunk) = p /\ Last(wide) = q BY <1>1, <1>2, <1>6, <1>7 DEF Last
<1>10. PICK front \in Seq(Pieces) : /\ Len(front) = n - 1 /\ chunk = Append(front, p)
                                   /\ \A i \in 1..(n - 1) : front[i] = chunk[i]
  BY <1>1, FrontOf
<1>11. wide = Append(front, q)
  <2>1. PICK t : t = Append(front, q) OBVIOUS
  <2>2. /\ DOMAIN t = 1..((n - 1) + 1) /\ t[(n - 1) + 1] = q /\ \A i \in 1..(n - 1) : t[i] = front[i]
        /\ t \in Seq(Pieces)
    BY <1>5, <1>10, <2>1
  <2>3. (n - 1) + 1 = n /\ \A i \in 1..n : i \in 1..(n - 1) \/ i = n BY <1>2
  <2>4. \A i \in 1..(n - 1) : i \in 1..n /\ i # n BY <1>2
  <2>5. \A i \in 1..n : t[i] = wide[i] BY <1>6, <1>10, <2>2, <2>3, <2>4
  <2>6. t = [i \in 1..n |-> t[i]] BY <2>2, <2>3
  <2>7. wide = [i \in 1..n |-> wide[i]] BY <1>1, <1>2 DEF Widened
  <2> QED BY <2>1, <2>5, <2>6, <2>7
<1>12. RunesOf(q) = RunesOf(p) /\ TokensOf(c, q) = TokensOf(c, p) BY <1>5 DEF RunesOf, TokensOf
<1>13. /\ WrittenRunes(chunk) = WrittenRunes(front) + RunesOf(p) + p.gap
       /\ WrittenRunes(wide) = WrittenRunes(front) + RunesOf(q) + q.gap
       /\ countTokens(c, wide) = countTokens(c, chunk)
       /\ WrittenRunes(front) \in Nat
  BY <1>4, <1>5, <1>10, <1>11, <1>12, WrittenAppend
<1>14. RunesOf(p) \in Nat /\ p.gap \in Nat BY <1>4, PieceMeasures
<1>15. WrittenRunes(wide) = WrittenRunes(chunk) + breaks BY <1>5, <1>12, <1>13, <1>14
<1>16. ContentRunes(wide) = ContentRunes(chunk)
  BY <1>5, <1>9, <1>12, <1>13, <1>14 DEF ContentRunes
<1>17. ASSUME FollowsOn(c, text, before, chunk) PROVE FollowsOn(c, text, before, wide)
  <2>1. PICK old : old = Repeated(chunk) OBVIOUS
  <2>2. /\ old < n /\ (\A i \in 1..n : chunk[i].again <=> i <= old)
        /\ \A i \in (old + 1)..(n - 1) : Continues(text, chunk[i], chunk[i + 1])
        /\ IF before = << >> THEN old = 0 /\ chunk[1].word = 1 /\ chunk[1].from = 0
           ELSE old <= Len(before) /\ Continues(text, Last(before), chunk[old + 1])
        /\ \A i \in 1..old : /\ chunk[i].word = before[Len(before) - old + i].word
                             /\ chunk[i].to = before[Len(before) - old + i].to
        /\ countTokens(c, SubSeq(chunk, 1, old)) <= c.overlap
        /\ IF old + 1 = n THEN RunesOf(Last(chunk)) <= c.maxTokens * Inflation
           ELSE ContentRunes(chunk) <= c.maxTokens * Inflation /\ countTokens(c, chunk) < c.maxTokens
    BY <1>1, <1>2, <1>17, <2>1 DEF FollowsOn
  <2>3. Repeated(wide) = old
    <3>1. {i \in DOMAIN wide : wide[i].again} = {i \in DOMAIN chunk : chunk[i].again} BY <1>2, <1>6, <1>8
    <3> QED BY <2>1, <3>1 DEF Repeated
  <2>4. old \in Nat
    <3>1. IsFiniteSet({i \in DOMAIN chunk : chunk[i].again})
      <4>1. 1 \in Int /\ n \in Int BY <1>2
      <4>2. IsFiniteSet(1..n) BY <4>1, FS_Interval
      <4>3. {i \in DOMAIN chunk : chunk[i].again} \subseteq 1..n BY <1>2
      <4> QED BY <4>2, <4>3, FS_Subset
    <3> QED BY <2>1, <3>1, FS_CardinalityType DEF Repeated
  <2>5. \A i \in DOMAIN wide : wide[i].again <=> i <= old BY <1>6, <1>8, <2>2
  <2>6. ASSUME NEW i \in (old + 1)..(n - 1) PROVE Continues(text, wide[i], wide[i + 1])
    <3>1. i \in 1..n /\ i + 1 \in 1..n BY <1>2, <2>4
    <3>2. Continues(text, chunk[i], chunk[i + 1]) BY <2>2
    <3> QED BY <1>8, <3>1, <3>2 DEF Continues
  <2>7. IF before = << >> THEN old = 0 /\ wide[1].word = 1 /\ wide[1].from = 0
        ELSE old <= Len(before) /\ Continues(text, Last(before), wide[old + 1])
    <3>1. 1 \in 1..n /\ old + 1 \in 1..n BY <1>2, <2>2, <2>4
    <3>2. /\ wide[1].word = chunk[1].word /\ wide[1].from = chunk[1].from
          /\ wide[old + 1].word = chunk[old + 1].word /\ wide[old + 1].from = chunk[old + 1].from
      BY <1>8, <3>1
    <3> QED BY <2>2, <3>2 DEF Continues
  <2>8. \A i \in 1..old : /\ wide[i].word = before[Len(before) - old + i].word
                          /\ wide[i].to = before[Len(before) - old + i].to
    <3>1. \A i \in 1..old : i \in 1..n BY <1>2, <2>2, <2>4
    <3> QED BY <1>8, <2>2, <3>1
  <2>9. SubSeq(wide, 1, old) = SubSeq(chunk, 1, old)
    <3>1. old \in 0..(n - 1) BY <1>2, <2>2, <2>4
    <3>2. \A k \in 0..(n - 1) : SubSeq(Append(front, p), 1, k) = SubSeq(front, 1, k) BY <1>4, <1>10, MorePieces
    <3>3. \A k \in 0..(n - 1) : SubSeq(Append(front, q), 1, k) = SubSeq(front, 1, k) BY <1>5, <1>10, MorePieces
    <3> QED BY <1>10, <1>11, <3>1, <3>2, <3>3
  <2>10. IF old + 1 = n THEN RunesOf(Last(wide)) <= c.maxTokens * Inflation
         ELSE ContentRunes(wide) <= c.maxTokens * Inflation /\ countTokens(c, wide) < c.maxTokens
    BY <1>9, <1>12, <1>13, <1>16, <2>2
  <2> QED BY <1>7, <2>2, <2>3, <2>5, <2>6, <2>7, <2>8, <2>9, <2>10 DEF FollowsOn
<1>18. wide # << >> BY <1>2, <1>7
<1> QED BY <1>1, <1>5, <1>7, <1>9, <1>15, <1>17, <1>18

-----------------------------------------------------------------------------
(* Chunks: what is written *)

LastOf(out) == IF out = << >> THEN << >> ELSE Last(out)
EndOf(s) == IF s.current # << >> THEN Last(s.current) ELSE Last(LastOf(s.out))

(* Every finished chunk, and the one being written, follows on the one     *)
(* before.                                                                 *)
HeldBy(c, text, out) ==
  \A i \in DOMAIN out : out[i] # << >> /\ FollowsOn(c, text, IF i = 1 THEN << >> ELSE out[i - 1], out[i])
States == [current : Seq(Pieces), runes : Nat, out : Seq(Seq(Pieces))]
Good(c, text, s) ==
  /\ s \in States /\ s.runes = WrittenRunes(s.current) /\ HeldBy(c, text, s.out)
  /\ s.current # << >> => FollowsOn(c, text, LastOf(s.out), s.current)

(* The piece goes on where the writing stopped. *)
GoesOn(text, s, p) ==
  IF s.current = << >> /\ s.out = << >> THEN p.word = 1 /\ p.from = 0 ELSE Continues(text, EndOf(s), p)

\* A chunk that follows on the finished ones is the next of them.
LEMMA FinishedChunks ==
  ASSUME NEW out \in Seq(Seq(Pieces)), NEW c, NEW text, HeldBy(c, text, out)
  PROVE  /\ LastOf(out) \in Seq(Pieces) /\ (LastOf(out) = << >> <=> out = << >>)
         /\ \A chunk \in Seq(Pieces) :
              chunk # << >> /\ FollowsOn(c, text, LastOf(out), chunk)
              => /\ Append(out, chunk) \in Seq(Seq(Pieces)) /\ Append(out, chunk) # << >>
                 /\ HeldBy(c, text, Append(out, chunk)) /\ LastOf(Append(out, chunk)) = chunk
<1>1. PICK n : n = Len(out) OBVIOUS
<1>2. n \in Nat /\ DOMAIN out = 1..n /\ (n = 0 <=> out = << >>) /\ \A i \in 1..n : out[i] \in Seq(Pieces) BY <1>1
<1>3. LastOf(out) = IF out = << >> THEN << >> ELSE out[n] BY <1>1 DEF LastOf, Last
<1>4. << >> \in Seq(Pieces) OBVIOUS
<1>5. out # << >> => n \in 1..n BY <1>2
<1>6. LastOf(out) \in Seq(Pieces) BY <1>2, <1>3, <1>4, <1>5
<1>7. LastOf(out) = << >> <=> out = << >> BY <1>2, <1>3, <1>5 DEF HeldBy
<1>8. ASSUME NEW chunk \in Seq(Pieces), chunk # << >>, FollowsOn(c, text, LastOf(out), chunk)
      PROVE  /\ Append(out, chunk) \in Seq(Seq(Pieces)) /\ Append(out, chunk) # << >>
             /\ HeldBy(c, text, Append(out, chunk)) /\ LastOf(Append(out, chunk)) = chunk
  <2>1. PICK more : more = Append(out, chunk) OBVIOUS
  <2>2. /\ more \in Seq(Seq(Pieces)) /\ DOMAIN more = 1..(n + 1) /\ Len(more) = n + 1 /\ more[n + 1] = chunk
        /\ \A i \in 1..n : more[i] = out[i]
    BY <1>1, <1>2, <2>1
  <2>3. more # << >> BY <1>2, <2>2
  <2>4. ASSUME NEW i \in 1..(n + 1)
        PROVE  more[i] # << >> /\ FollowsOn(c, text, IF i = 1 THEN << >> ELSE more[i - 1], more[i])
    <3>1. CASE i = n + 1
      <4>1. LastOf(out) = IF i = 1 THEN << >> ELSE more[i - 1]
        <5>1. CASE n = 0 BY <1>2, <1>3, <3>1, <5>1
        <5>2. CASE n # 0
          <6>1. i - 1 = n /\ n \in 1..n /\ i # 1 BY <1>2, <3>1, <5>2
          <6> QED BY <1>2, <1>3, <2>2, <5>2, <6>1
        <5> QED BY <5>1, <5>2
      <4> QED BY <1>8, <2>2, <3>1, <4>1
    <3>2. CASE i # n + 1
      <4>1. i \in 1..n /\ (i # 1 => i - 1 \in 1..n) BY <1>2, <3>2
      <4>2. more[i] = out[i] /\ (i # 1 => more[i - 1] = out[i - 1]) BY <2>2, <4>1
      <4>3. out[i] # << >> /\ FollowsOn(c, text, IF i = 1 THEN << >> ELSE out[i - 1], out[i])
        BY <1>2, <4>1 DEF HeldBy
      <4>4. CASE i = 1 BY <4>2, <4>3, <4>4
      <4>5. CASE i # 1 BY <4>2, <4>3, <4>5
      <4> QED BY <4>4, <4>5
    <3> QED BY <3>1, <3>2
  <2>5. HeldBy(c, text, more) BY <2>2, <2>4 DEF HeldBy
  <2>6. LastOf(more) = chunk BY <2>2, <2>3 DEF LastOf, Last
  <2> QED BY <2>1, <2>2, <2>3, <2>5, <2>6
<1> QED BY <1>6, <1>7, <1>8

\* An empty chunk is within the overlap.
LEMMA NoPieces ==
  ASSUME NEW c \in Chunkers
  PROVE  /\ << >> \in Seq(Pieces) /\ << >> \in Seq(Seq(Pieces))
         /\ countTokens(c, << >>) <= c.overlap /\ WrittenRunes(<< >>) = 0
<1>1. countTokens(c, << >>) = 0 /\ WrittenRunes(<< >>) = 0 BY NothingMeasures
<1>2. 0 <= c.overlap BY DEF Chunkers
<1> QED BY <1>1, <1>2

\* Finishing a chunk loses nothing.
LEMMA FlushKeeps ==
  ASSUME NEW c \in Chunkers, NEW text, NEW s, Good(c, text, s)
  PROVE  LET t == Flush(s)
         IN  /\ Good(c, text, t) /\ t.current = << >> /\ t.runes = 0
             /\ t.out = << >> <=> s.current = << >> /\ s.out = << >>
             /\ EndOf(t) = EndOf(s)
             /\ \A p : GoesOn(text, s, p) => GoesOn(text, t, p)
<1>1. PICK t, out : /\ t = Flush(s)
                    /\ out = IF s.current = << >> THEN s.out ELSE Append(s.out, s.current)
  OBVIOUS
<1>2. t = [current |-> << >>, runes |-> 0, out |-> out] BY <1>1 DEF Flush
<1>3. s.current \in Seq(Pieces) /\ s.out \in Seq(Seq(Pieces)) /\ HeldBy(c, text, s.out) BY DEF Good, States
<1>4. /\ out \in Seq(Seq(Pieces)) /\ HeldBy(c, text, out)
      /\ out = << >> <=> s.current = << >> /\ s.out = << >>
      /\ LastOf(out) = IF s.current = << >> THEN LastOf(s.out) ELSE s.current
  <2>1. CASE s.current = << >> BY <1>1, <1>3, <2>1
  <2>2. CASE s.current # << >>
    <3>1. FollowsOn(c, text, LastOf(s.out), s.current) BY <2>2 DEF Good
    <3>2. out = Append(s.out, s.current) BY <1>1, <2>2
    <3>3. /\ Append(s.out, s.current) \in Seq(Seq(Pieces)) /\ Append(s.out, s.current) # << >>
          /\ HeldBy(c, text, Append(s.out, s.current)) /\ LastOf(Append(s.out, s.current)) = s.current
      BY <1>3, <2>2, <3>1, FinishedChunks
    <3> QED BY <2>2, <3>2, <3>3
  <2> QED BY <2>1, <2>2
<1>5. << >> \in Seq(Pieces) /\ WrittenRunes(<< >>) = 0 BY NoPieces
<1>6. t.current = << >> /\ t.runes = 0 /\ t.out = out BY <1>2
<1>7. t \in States
  <2>1. 0 \in Nat OBVIOUS
  <2> QED BY <1>2, <1>4, <1>5, <2>1 DEF States
<1>8. Good(c, text, t) BY <1>4, <1>5, <1>6, <1>7 DEF Good
<1>9. EndOf(t) = EndOf(s) BY <1>4, <1>6 DEF EndOf
<1>10. \A p : GoesOn(text, s, p) => GoesOn(text, t, p) BY <1>4, <1>6, <1>9 DEF GoesOn
<1> QED BY <1>1, <1>4, <1>6, <1>8, <1>9, <1>10

NewPiece(c, p) == p \in Pieces /\ p.again = FALSE /\ p.gap = 1 /\ RunesOf(p) <= MaxRunes(c)

\* The piece that starts a chunk behind what it repeats.
LEMMA PieceStarts ==
  ASSUME NEW c \in Chunkers, NEW text, NEW s \in States, HeldBy(c, text, s.out), s.runes = WrittenRunes(s.current),
         s.current # << >> => s.out # << >> /\ Repeats(s.current, LastOf(s.out)),
         countTokens(c, s.current) <= c.overlap, NEW p, NewPiece(c, p),
         IF s.out = << >> THEN p.word = 1 /\ p.from = 0 ELSE Continues(text, Last(LastOf(s.out)), p)
  PROVE  LET t == WritePiece(s, p)
         IN  Good(c, text, t) /\ t.current # << >> /\ EndOf(t) = p
<1>1. PICK t, current, before : t = WritePiece(s, p) /\ current = Append(s.current, p) /\ before = LastOf(s.out) OBVIOUS
<1>2. s.current \in Seq(Pieces) /\ s.runes \in Nat /\ s.out \in Seq(Seq(Pieces)) BY DEF States
<1>3. p \in Pieces /\ ~p.again /\ p.gap = 1 /\ RunesOf(p) <= MaxRunes(c) BY DEF NewPiece
<1>4. before \in Seq(Pieces) /\ (before = << >> <=> s.out = << >>) BY <1>1, <1>2, FinishedChunks
<1>5. FollowsOn(c, text, before, current)
  <2>1. IF before = << >> THEN p.word = 1 /\ p.from = 0 ELSE Continues(text, Last(before), p) BY <1>1, <1>4
  <2>2. s.current # << >> => before # << >> /\ Repeats(s.current, before) BY <1>1, <1>4
  <2>3. PICK tail : tail = s.current OBVIOUS
  <2>4. /\ tail \in Seq(Pieces) /\ (tail # << >> => before # << >> /\ Repeats(tail, before))
        /\ countTokens(c, tail) <= c.overlap
    BY <1>2, <2>2, <2>3
  <2>5. FollowsOn(c, text, before, Append(tail, p)) BY <1>3, <1>4, <2>1, <2>4, StartChunk
  <2> QED BY <1>1, <2>3, <2>5
<1>6. t = [current |-> current, runes |-> s.runes + RunesOf(p) + 1, out |-> s.out]
  BY <1>1 DEF WritePiece, States
<1>7. current \in Seq(Pieces) /\ current # << >> /\ Last(current) = p BY <1>1, <1>2, <1>3, MorePieces
<1>8. WrittenRunes(current) = s.runes + RunesOf(p) + 1 /\ RunesOf(p) \in Nat
  BY <1>1, <1>2, <1>3, WrittenAppend, PieceMeasures
<1>9. t \in States
  <2>1. s.runes + RunesOf(p) + 1 \in Nat BY <1>2, <1>8
  <2> QED BY <1>2, <1>6, <1>7, <2>1 DEF States
<1>10. t.current = current /\ t.out = s.out /\ t.runes = s.runes + RunesOf(p) + 1 BY <1>6
<1>11. Good(c, text, t) BY <1>1, <1>5, <1>8, <1>9, <1>10 DEF Good
<1> QED BY <1>1, <1>7, <1>10, <1>11 DEF EndOf

\* The piece that goes on with a chunk.
LEMMA PieceGrows ==
  ASSUME NEW c \in Chunkers, NEW text, NEW s, Good(c, text, s), s.current # << >>, NEW p, NewPiece(c, p),
         GoesOn(text, s, p), s.runes + RunesOf(p) <= MaxRunes(c),
         countTokens(c, Append(s.current, p)) < c.maxTokens
  PROVE  LET t == WritePiece(s, p)
         IN  Good(c, text, t) /\ t.current # << >> /\ EndOf(t) = p
<1>1. PICK t, current, before : t = WritePiece(s, p) /\ current = Append(s.current, p) /\ before = LastOf(s.out) OBVIOUS
<1>2. /\ s \in States /\ s.current \in Seq(Pieces) /\ s.runes \in Nat /\ s.out \in Seq(Seq(Pieces))
      /\ HeldBy(c, text, s.out) /\ s.runes = WrittenRunes(s.current) /\ FollowsOn(c, text, before, s.current)
  BY <1>1 DEF Good, States
<1>3. p \in Pieces /\ ~p.again /\ p.gap = 1 BY DEF NewPiece
<1>4. before \in Seq(Pieces) BY <1>1, <1>2, FinishedChunks
<1>5. FollowsOn(c, text, before, current)
  <2>1. PICK chunk : chunk = s.current OBVIOUS
  <2>2. Continues(text, Last(chunk), p) BY <2>1 DEF GoesOn, EndOf
  <2>3. /\ chunk \in Seq(Pieces) /\ chunk # << >> /\ FollowsOn(c, text, before, chunk)
        /\ WrittenRunes(chunk) + RunesOf(p) <= MaxRunes(c) /\ countTokens(c, Append(chunk, p)) < c.maxTokens
    BY <1>2, <2>1
  <2>4. FollowsOn(c, text, before, Append(chunk, p)) BY <1>3, <1>4, <2>2, <2>3, GrowChunk
  <2> QED BY <1>1, <2>1, <2>4
<1>6. t = [current |-> current, runes |-> s.runes + RunesOf(p) + 1, out |-> s.out]
  BY <1>1, <1>2 DEF WritePiece, States
<1>7. current \in Seq(Pieces) /\ current # << >> /\ Last(current) = p BY <1>1, <1>2, <1>3, MorePieces
<1>8. WrittenRunes(current) = s.runes + RunesOf(p) + 1 /\ RunesOf(p) \in Nat
  BY <1>1, <1>2, <1>3, WrittenAppend, PieceMeasures
<1>9. t \in States
  <2>1. s.runes + RunesOf(p) + 1 \in Nat BY <1>2, <1>8
  <2> QED BY <1>2, <1>6, <1>7, <2>1 DEF States
<1>10. t.current = current /\ t.out = s.out /\ t.runes = s.runes + RunesOf(p) + 1 BY <1>6
<1>11. Good(c, text, t) BY <1>1, <1>2, <1>5, <1>8, <1>9, <1>10 DEF Good
<1> QED BY <1>1, <1>7, <1>10, <1>11 DEF EndOf

\* The piece that starts a chunk with nothing before it in the chunk.
LEMMA PieceAlone ==
  ASSUME NEW c \in Chunkers, NEW text, NEW s, Good(c, text, s), s.current = << >>, NEW p, NewPiece(c, p),
         GoesOn(text, s, p)
  PROVE  LET t == WritePiece(s, p)
         IN  Good(c, text, t) /\ t.current # << >> /\ EndOf(t) = p
<1>1. s \in States /\ HeldBy(c, text, s.out) /\ s.runes = WrittenRunes(s.current) BY DEF Good
<1>2. countTokens(c, s.current) <= c.overlap BY NoPieces
<1>3. IF s.out = << >> THEN p.word = 1 /\ p.from = 0 ELSE Continues(text, Last(LastOf(s.out)), p)
  BY DEF GoesOn, EndOf
<1> QED BY <1>1, <1>2, <1>3, PieceStarts

\* The piece behind an overlap.
LEMMA PieceOverlaps ==
  ASSUME NEW c \in Chunkers, NEW text, NEW s, Good(c, text, s), NEW p, NewPiece(c, p), GoesOn(text, s, p)
  PROVE  LET t == WritePiece(Overlap(c, s), p)
         IN  Good(c, text, t) /\ t.current # << >> /\ EndOf(t) = p
<1>1. PICK u : u = Flush(s) OBVIOUS
<1>2. Good(c, text, u) /\ u.current = << >> /\ GoesOn(text, u, p) BY <1>1, FlushKeeps
<1>3. CASE c.overlap = 0 \/ u.out = << >>
  <2>1. Overlap(c, s) = u BY <1>1, <1>3 DEF Overlap
  <2> QED BY <1>2, <2>1, PieceAlone
<1>4. CASE ~(c.overlap = 0 \/ u.out = << >>)
  <2>1. PICK body, tail : body = Last(u.out) /\ tail = tailTokens(c, body) OBVIOUS
  <2>2. u.out \in Seq(Seq(Pieces)) /\ HeldBy(c, text, u.out) BY <1>2 DEF Good, States
  <2>3. body = LastOf(u.out) BY <1>4, <2>1 DEF LastOf
  <2>4. body \in Seq(Pieces) /\ body # << >> BY <1>4, <2>2, <2>3, FinishedChunks
  <2>5. tail # << >> /\ Repeats(tail, body) /\ countTokens(c, tail) <= c.overlap
    BY <1>4, <2>1, <2>4, TailRepeats
  <2>6. PICK v : v = [current |-> tail, runes |-> WrittenRunes(tail), out |-> u.out] OBVIOUS
  <2>7. Overlap(c, s) = v BY <1>1, <1>4, <2>1, <2>6 DEF Overlap
  <2>8. tail \in Seq(Pieces) BY <2>5 DEF Repeats
  <2>9. WrittenRunes(tail) \in Nat BY <2>8, WrittenAppend DEF NewPiece
  <2>10. /\ v \in States /\ v.current = tail /\ v.runes = WrittenRunes(tail) /\ v.out = u.out
    BY <2>2, <2>6, <2>8, <2>9 DEF States
  <2>11. IF v.out = << >> THEN p.word = 1 /\ p.from = 0 ELSE Continues(text, Last(LastOf(v.out)), p)
    BY <1>2, <2>10 DEF GoesOn, EndOf
  <2> QED BY <1>4, <2>2, <2>3, <2>5, <2>7, <2>10, <2>11, PieceStarts
<1> QED BY <1>3, <1>4

\* A word within the budget of runes.
LEMMA WordWritten ==
  ASSUME NEW c \in Chunkers, NEW text, NEW s, Good(c, text, s), NEW w \in Nat, NEW runes \in Nat \ {0},
         runes <= MaxRunes(c), GoesOn(text, s, Piece(w, 0, runes))
  PROVE  LET t == WriteWord(c, s, w, runes, MaxRunes(c))
         IN  Good(c, text, t) /\ t.current # << >> /\ EndOf(t) = Piece(w, 0, runes)
<1>1. PICK p, t, max : p = Piece(w, 0, runes) /\ max = MaxRunes(c) /\ t = WriteWord(c, s, w, runes, max) OBVIOUS
<1>2. NewPiece(c, p) /\ RunesOf(p) = runes
  BY <1>1 DEF NewPiece, Piece, Pieces, RunesOf
<1>3. max \in Nat BY <1>1, TokenAssumption DEF MaxRunes, Chunkers
<1>4. t = WritePiece(IF s.runes + runes > max \/ countTokens(c, Append(s.current, p)) >= c.maxTokens
                     THEN Overlap(c, s) ELSE s, p)
  <2>1. ~(runes > max) BY <1>1, <1>3
  <2> QED BY <1>1, <2>1 DEF WriteWord
<1>5. CASE s.runes + runes > max \/ countTokens(c, Append(s.current, p)) >= c.maxTokens
  <2>1. t = WritePiece(Overlap(c, s), p) BY <1>4, <1>5
  <2> QED BY <1>1, <1>2, <2>1, PieceOverlaps
<1>6. CASE ~(s.runes + runes > max \/ countTokens(c, Append(s.current, p)) >= c.maxTokens)
  <2>1. t = WritePiece(s, p) BY <1>4, <1>6
  <2>2. CASE s.current = << >> BY <1>1, <1>2, <2>1, <2>2, PieceAlone
  <2>3. CASE s.current # << >>
    <3>1. s.current \in Seq(Pieces) /\ s.runes \in Nat BY DEF Good, States
    <3>2. p \in Pieces BY <1>2 DEF NewPiece
    <3>3. countTokens(c, Append(s.current, p)) \in Int /\ c.maxTokens \in Int
      <4>1. Append(s.current, p) \in Seq(Pieces) BY <3>1, <3>2
      <4>2. countTokens(c, Append(s.current, p)) \in Nat BY <3>2, <4>1, WrittenAppend
      <4> QED BY <4>2 DEF Chunkers
    <3>4. s.runes + RunesOf(p) <= MaxRunes(c) /\ countTokens(c, Append(s.current, p)) < c.maxTokens
      BY <1>1, <1>2, <1>3, <1>6, <3>1, <3>3
    <3> QED BY <1>1, <1>2, <2>1, <2>3, <3>4, PieceGrows
  <2> QED BY <2>2, <2>3
<1> QED BY <1>1, <1>5, <1>6

\* The break behind a paragraph.
LEMMA ParagraphEnds ==
  ASSUME NEW c \in Chunkers, NEW text, NEW s, Good(c, text, s), s.current # << >>, NEW breaks \in Nat
  PROVE  LET t == EndParagraph(s, breaks)
         IN  /\ Good(c, text, t) /\ t.current # << >>
             /\ EndOf(t).word = EndOf(s).word /\ EndOf(t).to = EndOf(s).to
<1>1. /\ s \in States /\ s.current \in Seq(Pieces) /\ s.runes \in Nat /\ s.out \in Seq(Seq(Pieces))
      /\ HeldBy(c, text, s.out) /\ s.runes = WrittenRunes(s.current)
      /\ FollowsOn(c, text, LastOf(s.out), s.current)
  BY DEF Good, States
<1>2. PICK chunk, wide, t : /\ chunk = s.current /\ wide = [chunk EXCEPT ![Len(chunk)].gap = @ + breaks]
                            /\ t = EndParagraph(s, breaks)
  OBVIOUS
<1>3. LastOf(s.out) \in Seq(Pieces) BY <1>1, FinishedChunks
<1>4. /\ wide \in Seq(Pieces) /\ wide # << >>
      /\ Last(wide).word = Last(chunk).word /\ Last(wide).to = Last(chunk).to
      /\ WrittenRunes(wide) = WrittenRunes(chunk) + breaks
      /\ FollowsOn(c, text, LastOf(s.out), wide)
  <2>1. chunk \in Seq(Pieces) /\ chunk # << >> /\ FollowsOn(c, text, LastOf(s.out), chunk) BY <1>1, <1>2
  <2>2. wide = Widened(chunk, breaks) BY <1>2, Zenon DEF Widened
  <2>3. /\ Widened(chunk, breaks) \in Seq(Pieces) /\ Widened(chunk, breaks) # << >>
        /\ Last(Widened(chunk, breaks)).word = Last(chunk).word /\ Last(Widened(chunk, breaks)).to = Last(chunk).to
        /\ WrittenRunes(Widened(chunk, breaks)) = WrittenRunes(chunk) + breaks
        /\ FollowsOn(c, text, LastOf(s.out), Widened(chunk, breaks))
    BY <1>3, <2>1, WidenGap
  <2> QED BY <2>2, <2>3
<1>5. t = [current |-> wide, runes |-> s.runes + breaks, out |-> s.out]
  BY <1>1, <1>2 DEF EndParagraph, States
<1>6. t.current = wide /\ t.runes = s.runes + breaks /\ t.out = s.out BY <1>5
<1>7. t \in States
  <2>1. s.runes + breaks \in Nat BY <1>1
  <2> QED BY <1>1, <1>4, <1>5, <2>1 DEF States
<1>8. Good(c, text, t) BY <1>1, <1>2, <1>4, <1>6, <1>7 DEF Good
<1> QED BY <1>2, <1>4, <1>6, <1>8 DEF EndOf

\* A part of a long word: whatever was written before is a chunk of its own then.
LEMMA PartWritten ==
  ASSUME NEW c \in Chunkers, NEW text, NEW s, Good(c, text, s), NEW p, NewPiece(c, p), GoesOn(text, s, p),
         s.current = << >> \/ RunesOf(p) = MaxRunes(c)
  PROVE  LET t == WritePart(s, p, MaxRunes(c))
         IN  Good(c, text, t) /\ t.current # << >> /\ EndOf(t) = p
<1>1. PICK max, u : max = MaxRunes(c) /\ u = IF s.runes + RunesOf(p) > max THEN Flush(s) ELSE s OBVIOUS
<1>2. WritePart(s, p, max) = WritePiece(u, p) BY <1>1 DEF WritePart
<1>3. Good(c, text, Flush(s)) /\ Flush(s).current = << >> /\ GoesOn(text, Flush(s), p) BY FlushKeeps
<1>4. max \in Nat BY <1>1, TokenAssumption DEF MaxRunes, Chunkers
<1>5. s.current # << >> => s.runes + RunesOf(p) > max
  <2> SUFFICES ASSUME s.current # << >> PROVE s.runes + RunesOf(p) > max OBVIOUS
  <2>1. s.current \in Seq(Pieces) /\ s.runes = WrittenRunes(s.current) BY DEF Good, States
  <2>2. PICK chunk : chunk = s.current OBVIOUS
  <2>3. PICK q \in Pieces, front \in Seq(Pieces) : chunk = Append(front, q)
    <3>1. chunk \in Seq(Pieces) /\ chunk # << >> BY <2>1, <2>2
    <3>2. PICK front \in Seq(Pieces) : chunk = Append(front, chunk[Len(chunk)]) BY <3>1, FrontOf
    <3>3. PICK q : q = chunk[Len(chunk)] OBVIOUS
    <3>4. q \in Pieces BY <3>1, <3>3
    <3> QED BY <3>2, <3>3, <3>4
  <2>4. /\ WrittenRunes(chunk) = WrittenRunes(front) + RunesOf(q) + q.gap /\ WrittenRunes(front) \in Nat
        /\ RunesOf(q) \in Nat \ {0} /\ q.gap \in Nat
    BY <2>3, WrittenAppend, PieceMeasures
  <2>5. s.runes \in Nat /\ s.runes > 0 BY <2>1, <2>2, <2>4
  <2>6. RunesOf(p) = max BY <1>1
  <2> QED BY <1>4, <2>5, <2>6
<1>6. Good(c, text, u) /\ u.current = << >> /\ GoesOn(text, u, p)
  <2>1. CASE s.runes + RunesOf(p) > max BY <1>1, <1>3, <2>1
  <2>2. CASE ~(s.runes + RunesOf(p) > max) BY <1>1, <1>5, <2>2
  <2> QED BY <2>1, <2>2
<1> QED BY <1>1, <1>2, <1>6, PieceAlone

LongParts(c, w, runes, parts) ==
  LET n == Len(parts)
  IN  /\ n \in Nat \ {0, 1} /\ DOMAIN parts = 1..n
      /\ \A i \in 1..n : NewPiece(c, parts[i]) /\ parts[i].word = w
      /\ \A i \in 1..(n - 1) : RunesOf(parts[i]) = MaxRunes(c) /\ parts[i + 1].from = parts[i].to
      /\ parts[1].from = 0 /\ parts[n].to = runes

\* The parts of a long word: all but the last as long as a chunk may be, one behind the other.
LEMMA PartsOfWord ==
  ASSUME NEW c \in Chunkers, NEW w \in Nat, NEW runes \in Nat \ {0}, runes > MaxRunes(c)
  PROVE  LongParts(c, w, runes, splitLongWord(w, runes, MaxRunes(c)))
<1>1. PICK max, n, parts : max = MaxRunes(c) /\ n = Up(runes, max) /\ parts = splitLongWord(w, runes, max) OBVIOUS
<1>2. max \in Nat \ {0}
  <2>1. c.maxTokens \in Nat \ {0} /\ Inflation \in Nat \ {0} BY TokenAssumption DEF Chunkers
  <2> QED BY <1>1, <2>1 DEF MaxRunes
<1>3. n \in Nat \ {0} /\ runes <= n * max /\ (n - 1) * max < runes BY <1>1, <1>2, UpRounds
<1>4. n # 1
  <2>1. 1 * max = max BY <1>2
  <2> QED BY <1>1, <1>2, <1>3, <2>1
<1>5. parts = [i \in 1..n |-> Piece(w, (i - 1) * max, IF i * max < runes THEN i * max ELSE runes)]
  BY <1>1 DEF splitLongWord
<1>6. Len(parts) = n /\ DOMAIN parts = 1..n BY <1>3, <1>5
<1>7. ASSUME NEW i \in 1..n
      PROVE  /\ i \in Nat /\ (i - 1) * max \in Nat /\ i * max \in Nat /\ i * max = (i - 1) * max + max
             /\ (i - 1) * max < runes
             /\ i # n => i * max < runes
  <2>1. i \in Nat /\ i - 1 \in Nat /\ n - 1 \in Nat /\ i - 1 <= n - 1 BY <1>3
  <2>2. (i - 1) * max \in Nat /\ i * max \in Nat /\ (n - 1) * max \in Nat BY <1>2, <2>1
  <2>3. i * max = (i - 1) * max + max BY <1>2, <2>1
  <2>4. (i - 1) * max <= (n - 1) * max BY <1>2, <2>1
  <2>5. (i - 1) * max < runes BY <1>3, <2>2, <2>4
  <2>6. i # n => i * max <= (n - 1) * max
    <3>1. i # n => i <= n - 1 BY <1>3
    <3> QED BY <1>2, <2>1, <3>1
  <2>7. i # n => i * max < runes BY <1>3, <2>2, <2>6
  <2> QED BY <2>1, <2>2, <2>3, <2>5, <2>7
<1>8. ASSUME NEW i \in 1..n
      PROVE  /\ parts[i].word = w /\ parts[i].from = (i - 1) * max /\ NewPiece(c, parts[i])
             /\ i # n => parts[i].to = i * max /\ RunesOf(parts[i]) = max
             /\ i = n => parts[i].to = runes
  <2>1. PICK from, to, p : /\ from = (i - 1) * max /\ to = (IF i * max < runes THEN i * max ELSE runes)
                           /\ p = parts[i]
    OBVIOUS
  <2>2. p = [word |-> w, from |-> from, to |-> to, gap |-> 1, again |-> FALSE] BY <1>5, <2>1 DEF Piece
  <2>3. from \in Nat /\ to \in Nat /\ from < to /\ to - from <= max
    <3>1. PICK a, b : a = (i - 1) * max /\ b = i * max OBVIOUS
    <3>2. a \in Nat /\ b \in Nat /\ b = a + max /\ a < runes BY <1>7, <3>1
    <3>3. from = a /\ to = IF b < runes THEN b ELSE runes BY <2>1, <3>1
    <3> QED BY <1>2, <3>2, <3>3
  <2>4. NewPiece(c, p) BY <1>1, <2>2, <2>3 DEF NewPiece, Pieces, RunesOf
  <2>5. i # n => to = i * max /\ to - from = max
    <3>1. PICK a, b : a = (i - 1) * max /\ b = i * max OBVIOUS
    <3>2. a \in Nat /\ b \in Nat /\ b = a + max /\ (i # n => b < runes) BY <1>7, <3>1
    <3> QED BY <1>2, <2>1, <3>1, <3>2
  <2>6. i = n => to = runes
    <3>1. PICK b : b = n * max OBVIOUS
    <3>2. b \in Nat /\ runes <= b BY <1>2, <1>3, <3>1
    <3> QED BY <2>1, <3>1, <3>2
  <2> QED BY <2>1, <2>2, <2>4, <2>5, <2>6 DEF RunesOf
<1>9. 1 \in 1..n /\ n \in 1..n BY <1>3
<1>10. parts[1].from = 0
  <2>1. (1 - 1) * max = 0 BY <1>2
  <2> QED BY <1>8, <1>9, <2>1
<1>11. ASSUME NEW i \in 1..(n - 1) PROVE RunesOf(parts[i]) = max /\ parts[i + 1].from = parts[i].to
  <2>1. i \in 1..n /\ i + 1 \in 1..n /\ i # n /\ (i + 1) - 1 = i BY <1>3
  <2> QED BY <1>8, <2>1
<1> QED BY <1>1, <1>3, <1>4, <1>6, <1>8, <1>9, <1>10, <1>11 DEF LongParts

\* What holds at the start of a loop and is kept by each round holds after all of them.
LEMMA LoopKeeps ==
  ASSUME NEW n \in Nat, NEW Ok, NEW h, <<h[0], 0>> \in Ok,
         \A i \in 1..n : <<h[i - 1], i - 1>> \in Ok => <<h[i], i>> \in Ok
  PROVE  \A i \in 0..n : <<h[i], i>> \in Ok
<1> DEFINE Bad == {i \in 0..n : <<h[i], i>> \notin Ok}
<1> SUFFICES ASSUME Bad # {} PROVE FALSE OBVIOUS
<1>1. Bad \in SUBSET Nat OBVIOUS
<1>2. PICK i \in Bad : \A k \in Bad : i <= k
  <2> HIDE DEF Bad
  <2> QED BY <1>1, MinOfNats
<1>3. i \in 1..n /\ i - 1 \in 0..n /\ ~(i <= i - 1) BY <1>2
<1>4. i - 1 \notin Bad
  <2> HIDE DEF Bad
  <2> QED BY <1>2, <1>3
<1> QED BY <1>2, <1>3, <1>4

\* A word above the budget of runes.
LEMMA LongWordWritten ==
  ASSUME NEW c \in Chunkers, NEW text, NEW s, Good(c, text, s), NEW w \in Nat, NEW runes \in Nat \ {0},
         runes > MaxRunes(c), GoesOn(text, s, Piece(w, 0, runes))
  PROVE  LET t == WriteWord(c, s, w, runes, MaxRunes(c))
         IN  Good(c, text, t) /\ t.current # << >> /\ EndOf(t).word = w /\ EndOf(t).to = runes
<1>1. PICK max, parts : max = MaxRunes(c) /\ parts = splitLongWord(w, runes, max) OBVIOUS
<1> DEFINE n == Len(parts)
<1>2. /\ n \in Nat \ {0, 1} /\ DOMAIN parts = 1..n
      /\ \A i \in 1..n : NewPiece(c, parts[i]) /\ parts[i].word = w
      /\ \A i \in 1..(n - 1) : RunesOf(parts[i]) = max /\ parts[i + 1].from = parts[i].to
      /\ parts[1].from = 0 /\ parts[n].to = runes
  <2>1. LongParts(c, w, runes, splitLongWord(w, runes, MaxRunes(c))) BY PartsOfWord
  <2>2. LongParts(c, w, runes, parts) BY <1>1, <2>1
  <2> QED BY <1>1, <2>2 DEF LongParts
<1>3. WriteWord(c, s, w, runes, max) = WriteLong(s, parts, max) BY <1>1 DEF WriteWord
<1> DEFINE Round(u, i) == IF i = n THEN WritePart(u, parts[i], max) ELSE Flush(WritePart(u, parts[i], max))
           Kept(u, i) == /\ Good(c, text, u) /\ (i = 0 => u = s)
                         /\ i \in 1..(n - 1) => u.current = << >> /\ u.out # << >> /\ EndOf(u) = parts[i]
                         /\ i = n => u.current # << >> /\ EndOf(u) = parts[n]
           Ok == {x \in States \X (0..n) : Kept(x[1], x[2])}
           step == [x \in States \X (1..n) |-> IF <<x[1], x[2] - 1>> \in Ok THEN Round(x[1], x[2]) ELSE x[1]]
           F(after) == [i \in 0..n |-> IF i = 0 THEN s
                                       ELSE IF i = n THEN WritePart(after[i - 1], parts[i], max)
                                       ELSE Flush(WritePart(after[i - 1], parts[i], max))]
<1>4. WriteLong(s, parts, max) = (CHOOSE after : after = F(after))[n] BY Zenon DEF WriteLong
<1> HIDE DEF n
<1>5. ASSUME NEW u, NEW i \in 1..n, Kept(u, i - 1) PROVE Kept(Round(u, i), i)
  <2>1. PICK p, t : p = parts[i] /\ t = WritePart(u, p, max) OBVIOUS
  <2>2. NewPiece(c, p) /\ Good(c, text, u) BY <1>2, <1>5, <2>1
  <2>3. GoesOn(text, u, p) /\ (u.current = << >> \/ RunesOf(p) = max)
    <3>1. CASE i = 1
      <4>1. u = s /\ 1 \in 1..(n - 1) BY <1>2, <1>5, <3>1
      <4>2. p.word = w /\ p.from = 0 /\ RunesOf(p) = max BY <1>2, <2>1, <3>1, <4>1
      <4>3. GoesOn(text, s, p) BY <4>2 DEF GoesOn, Continues, Piece
      <4> QED BY <4>1, <4>2, <4>3
    <3>2. CASE i # 1
      <4>1. i - 1 \in 1..(n - 1) /\ (i - 1) + 1 = i /\ i - 1 \in 1..n BY <1>2, <3>2
      <4>2. u.current = << >> /\ u.out # << >> /\ EndOf(u) = parts[i - 1] BY <1>5, <4>1
      <4>3. parts[i - 1].word = w /\ p.word = w /\ p.from = parts[i - 1].to BY <1>2, <2>1, <4>1
      <4> QED BY <4>2, <4>3 DEF GoesOn, Continues
    <3> QED BY <3>1, <3>2
  <2>4. Good(c, text, t) /\ t.current # << >> /\ EndOf(t) = p BY <1>1, <2>1, <2>2, <2>3, PartWritten
  <2>5. CASE i = n
    <3>1. Round(u, i) = t /\ i # 0 /\ i \notin 1..(n - 1) BY <1>2, <2>1, <2>5
    <3> QED BY <2>1, <2>4, <2>5, <3>1
  <2>6. CASE i # n
    <3>1. Round(u, i) = Flush(t) /\ i # 0 BY <1>2, <2>1, <2>6
    <3>2. /\ Good(c, text, Flush(t)) /\ Flush(t).current = << >> /\ Flush(t).out # << >>
          /\ EndOf(Flush(t)) = EndOf(t)
      BY <2>4, FlushKeeps
    <3> QED BY <2>1, <2>4, <2>6, <3>1, <3>2
  <2> QED BY <2>5, <2>6
<1>6. \A u, i : Kept(u, i) => u \in States BY DEF Good
<1>7. Kept(s, 0)
  <2>1. 0 # n /\ 0 \notin 1..(n - 1) BY <1>2
  <2> QED BY <2>1
<1> HIDE DEF Kept, Round
<1>8. \A u, i : <<u, i>> \in Ok <=> i \in 0..n /\ Kept(u, i) BY <1>6
<1>9. \A i \in 1..n : i \in 0..n /\ i - 1 \in 0..n /\ i # 0 BY <1>2
<1>10. ASSUME NEW h, h[0] = s, \A i \in 1..n : <<h[i - 1], i - 1>> \in Ok => h[i] = Round(h[i - 1], i)
       PROVE  \A i \in 0..n : <<h[i], i>> \in Ok
  <2>1. <<h[0], 0>> \in Ok BY <1>2, <1>7, <1>8, <1>10
  <2>2. \A i \in 1..n : <<h[i - 1], i - 1>> \in Ok => <<h[i], i>> \in Ok BY <1>5, <1>8, <1>9, <1>10
  <2> HIDE DEF Ok
  <2> QED BY <1>2, <2>1, <2>2, LoopKeeps
<1>11. step \in [States \X (1..n) -> States] /\ s \in States
  <2>1. s \in States BY DEF Good
  <2>2. \A u \in States, i \in 1..n : <<u, i - 1>> \in Ok => Round(u, i) \in States BY <1>5, <1>6, <1>8
  <2> HIDE DEF Ok, States
  <2> QED BY <2>1, <2>2
<1>12. \A u, i : <<u, i>> \in Ok => u \in States BY <1>6, <1>8
<1>13. \A u \in States, i \in 1..n : step[<<u, i>>] = IF <<u, i - 1>> \in Ok THEN Round(u, i) ELSE u
  <2> HIDE DEF Ok, States
  <2> QED OBVIOUS
<1> HIDE DEF Ok, step
<1>14. PICK g \in [0..n -> States] : g[0] = s /\ \A i \in 1..n : g[i] = step[<<g[i - 1], i>>]
  <2>1. PICK S, base, m, t : S = States /\ base = s /\ m = n /\ t = step OBVIOUS
  <2>2. m \in Nat /\ base \in S /\ t \in [S \X (1..m) -> S] BY <1>2, <1>11, <2>1
  <2>3. \E g : Loops(g, m, S, base, t) BY <2>2, LoopExists
  <2> QED BY <2>1, <2>3 DEF Loops
<1>15. \A i \in 1..n : <<g[i - 1], i - 1>> \in Ok => g[i] = Round(g[i - 1], i) BY <1>12, <1>13, <1>14
<1>16. \A i \in 1..n : g[i] = Round(g[i - 1], i) BY <1>9, <1>10, <1>14, <1>15
<1>17. g = F(g)
  <2>1. g = [i \in 0..n |-> g[i]] BY <1>14
  <2>2. \A i \in 0..n : g[i] = IF i = 0 THEN s ELSE Round(g[i - 1], i)
    <3>1. \A i \in 0..n : i = 0 \/ i \in 1..n BY <1>2
    <3> QED BY <1>9, <1>14, <1>16, <3>1
  <2>3. F(g) = [i \in 0..n |-> IF i = 0 THEN s ELSE Round(g[i - 1], i)] BY DEF Round
  <2> HIDE DEF F
  <2> QED BY <2>1, <2>2, <2>3
<1> HIDE DEF F
<1>18. PICK f : f = CHOOSE after : after = F(after) OBVIOUS
<1>19. f = F(f) BY <1>17, <1>18
<1>20. f[0] = s /\ \A i \in 1..n : f[i] = Round(f[i - 1], i)
  <2>1. F(f) = [i \in 0..n |-> IF i = 0 THEN s ELSE Round(f[i - 1], i)] BY DEF F, Round
  <2>2. \A i \in 0..n : f[i] = IF i = 0 THEN s ELSE Round(f[i - 1], i) BY <1>19, <2>1
  <2>3. 0 \in 0..n BY <1>2
  <2> QED BY <1>9, <2>2, <2>3
<1>21. n \in 0..n BY <1>2
<1>22. Kept(f[n], n) BY <1>8, <1>10, <1>20, <1>21
<1>23. WriteLong(s, parts, max) = f[n] BY <1>4, <1>18
<1>24. n \in 1..n BY <1>2
<1> QED BY <1>1, <1>2, <1>3, <1>22, <1>23, <1>24 DEF Kept

-----------------------------------------------------------------------------
(* Chunks: the whole text *)

(* The chunks are the whole text. *)
HoldText(c, text, chunks) ==
  /\ chunks \in Seq(Seq(Pieces)) /\ HeldBy(c, text, chunks)
  /\ IF text = << >> THEN chunks = << >>
     ELSE /\ chunks # << >> /\ Last(Last(chunks)).word = Len(text)
          /\ Last(Last(chunks)).to = text[Len(text)].runes

\* The next word of the text, whatever its length, with the breaks behind it.
LEMMA WordAndBreaks ==
  ASSUME NEW c \in Chunkers, NEW text, NEW s, Good(c, text, s), NEW w \in Nat, NEW runes \in Nat \ {0},
         NEW breaks \in Nat, GoesOn(text, s, Piece(w, 0, runes))
  PROVE  LET t == EndParagraph(WriteWord(c, s, w, runes, MaxRunes(c)), breaks)
         IN  Good(c, text, t) /\ t.current # << >> /\ EndOf(t).word = w /\ EndOf(t).to = runes
<1>1. PICK u : u = WriteWord(c, s, w, runes, MaxRunes(c)) OBVIOUS
<1>2. MaxRunes(c) \in Nat BY TokenAssumption DEF MaxRunes, Chunkers
<1>3. Good(c, text, u) /\ u.current # << >> /\ EndOf(u).word = w /\ EndOf(u).to = runes
  <2>1. CASE runes > MaxRunes(c) BY <1>1, <2>1, LongWordWritten
  <2>2. CASE ~(runes > MaxRunes(c))
    <3>1. runes <= MaxRunes(c) BY <1>2, <2>2
    <3>2. Good(c, text, u) /\ u.current # << >> /\ EndOf(u) = Piece(w, 0, runes) BY <1>1, <3>1, WordWritten
    <3> QED BY <3>2 DEF Piece
  <2> QED BY <2>1, <2>2
<1>4. PICK t : t = EndParagraph(u, breaks) OBVIOUS
<1>5. /\ Good(c, text, t) /\ t.current # << >>
      /\ EndOf(t).word = EndOf(u).word /\ EndOf(t).to = EndOf(u).to
  <2>1. Good(c, text, u) /\ u.current # << >> BY <1>3
  <2>2. /\ Good(c, text, EndParagraph(u, breaks)) /\ EndParagraph(u, breaks).current # << >>
        /\ EndOf(EndParagraph(u, breaks)).word = EndOf(u).word
        /\ EndOf(EndParagraph(u, breaks)).to = EndOf(u).to
    BY <2>1, ParagraphEnds
  <2> QED BY <1>4, <2>2
<1> QED BY <1>1, <1>3, <1>4, <1>5

\* Nothing is written at the start.
LEMMA NothingIsGood ==
  ASSUME NEW c \in Chunkers, NEW text
  PROVE  Good(c, text, NothingWritten)
<1>1. PICK s : s = NothingWritten OBVIOUS
<1>2. s = [current |-> << >>, runes |-> 0, out |-> << >>] BY <1>1 DEF NothingWritten
<1>3. << >> \in Seq(Pieces) /\ << >> \in Seq(Seq(Pieces)) /\ WrittenRunes(<< >>) = 0 BY NoPieces
<1>4. s.current = << >> /\ s.runes = 0 /\ s.out = << >> BY <1>2
<1>5. s \in States
  <2>1. 0 \in Nat OBVIOUS
  <2> QED BY <1>2, <1>3, <2>1 DEF States
<1>6. HeldBy(c, text, << >>) BY DEF HeldBy
<1> QED BY <1>1, <1>3, <1>4, <1>5, <1>6 DEF Good

\* The chunks of a text are all of it.
LEMMA TextWritten ==
  ASSUME NEW c \in Chunkers, NEW text \in Seq(Words)
  PROVE  HoldText(c, text, Chunk(c, text))
<1> DEFINE n == Len(text)
           max == c.maxTokens * Inflation
           F(after) == [i \in 0..n |-> IF i = 0 THEN NothingWritten
                                       ELSE EndParagraph(WriteWord(c, after[i - 1], i, text[i].runes, max),
                                                         text[i].breaks)]
<1>1. Chunk(c, text) = Flush((CHOOSE after : after = F(after))[n]).out BY Zenon DEF Chunk
<1> HIDE DEF n
<1>2. n = Len(text) /\ n \in Nat /\ DOMAIN text = 1..n BY DEF n
<1>3. max = MaxRunes(c) BY DEF MaxRunes
<1> HIDE DEF max
<1>4. \A i \in 1..n : text[i].runes \in Nat \ {0} /\ text[i].breaks \in Nat
  <2>1. \A i \in 1..n : text[i] \in Words BY <1>2
  <2> QED BY <2>1 DEF Words
<1> DEFINE Round(u, i) == EndParagraph(WriteWord(c, u, i, text[i].runes, max), text[i].breaks)
           Kept(u, i) == /\ Good(c, text, u) /\ (i = 0 => u = NothingWritten)
                         /\ i \in 1..n => u.current # << >> /\ EndOf(u).word = i /\ EndOf(u).to = text[i].runes
           Ok == {x \in States \X (0..n) : Kept(x[1], x[2])}
           step == [x \in States \X (1..n) |-> IF <<x[1], x[2] - 1>> \in Ok THEN Round(x[1], x[2]) ELSE x[1]]
<1>5. ASSUME NEW u, NEW i \in 1..n, Kept(u, i - 1) PROVE Kept(Round(u, i), i)
  <2>1. PICK runes, breaks, p : runes = text[i].runes /\ breaks = text[i].breaks /\ p = Piece(i, 0, runes) OBVIOUS
  <2>2. runes \in Nat \ {0} /\ breaks \in Nat /\ i \in Nat /\ i # 0 BY <1>2, <1>4, <2>1
  <2>3. Good(c, text, u) BY <1>5
  <2>4. p.word = i /\ p.from = 0 BY <2>1 DEF Piece
  <2>5. GoesOn(text, u, p)
    <3>1. CASE i = 1
      <4>1. u = NothingWritten BY <1>5, <3>1
      <4>2. u.current = << >> /\ u.out = << >> BY <4>1 DEF NothingWritten
      <4> QED BY <2>4, <3>1, <4>2 DEF GoesOn
    <3>2. CASE i # 1
      <4>1. i - 1 \in 1..n /\ (i - 1) + 1 = i BY <1>2, <3>2
      <4>2. u.current # << >> /\ EndOf(u).word = i - 1 /\ EndOf(u).to = text[i - 1].runes BY <1>5, <4>1
      <4> QED BY <2>4, <4>1, <4>2 DEF GoesOn, Continues
    <3> QED BY <3>1, <3>2
  <2>6. PICK t : t = EndParagraph(WriteWord(c, u, i, runes, MaxRunes(c)), breaks) OBVIOUS
  <2>7. Good(c, text, t) /\ t.current # << >> /\ EndOf(t).word = i /\ EndOf(t).to = runes
    BY <2>1, <2>2, <2>3, <2>5, <2>6, WordAndBreaks
  <2>8. Round(u, i) = t BY <1>3, <2>1, <2>6
  <2> HIDE DEF Round
  <2> QED BY <2>1, <2>2, <2>7, <2>8
<1>6. \A u, i : Kept(u, i) => u \in States BY DEF Good
<1>7. Kept(NothingWritten, 0)
  <2>1. 0 \notin 1..n BY <1>2
  <2> QED BY <2>1, NothingIsGood
<1> HIDE DEF Kept, Round
<1>8. \A u, i : <<u, i>> \in Ok <=> i \in 0..n /\ Kept(u, i) BY <1>6
<1>9. \A i \in 1..n : i \in 0..n /\ i - 1 \in 0..n /\ i # 0 BY <1>2
<1>10. ASSUME NEW h, h[0] = NothingWritten, \A i \in 1..n : <<h[i - 1], i - 1>> \in Ok => h[i] = Round(h[i - 1], i)
       PROVE  \A i \in 0..n : <<h[i], i>> \in Ok
  <2>1. <<h[0], 0>> \in Ok BY <1>2, <1>7, <1>8, <1>10
  <2>2. \A i \in 1..n : <<h[i - 1], i - 1>> \in Ok => <<h[i], i>> \in Ok BY <1>5, <1>8, <1>9, <1>10
  <2> HIDE DEF Ok
  <2> QED BY <1>2, <2>1, <2>2, LoopKeeps
<1>11. step \in [States \X (1..n) -> States] /\ NothingWritten \in States
  <2>1. NothingWritten \in States BY NothingIsGood DEF Good
  <2>2. \A u \in States, i \in 1..n : <<u, i - 1>> \in Ok => Round(u, i) \in States BY <1>5, <1>6, <1>8
  <2> HIDE DEF Ok, States
  <2> QED BY <2>1, <2>2
<1>12. \A u, i : <<u, i>> \in Ok => u \in States BY <1>6, <1>8
<1>13. \A u \in States, i \in 1..n : step[<<u, i>>] = IF <<u, i - 1>> \in Ok THEN Round(u, i) ELSE u
  <2> HIDE DEF Ok, States
  <2> QED OBVIOUS
<1> HIDE DEF Ok, step
<1>14. PICK g \in [0..n -> States] : g[0] = NothingWritten /\ \A i \in 1..n : g[i] = step[<<g[i - 1], i>>]
  <2>1. PICK S, base, m, t : S = States /\ base = NothingWritten /\ m = n /\ t = step OBVIOUS
  <2>2. m \in Nat /\ base \in S /\ t \in [S \X (1..m) -> S] BY <1>2, <1>11, <2>1
  <2>3. \E g : Loops(g, m, S, base, t) BY <2>2, LoopExists
  <2> QED BY <2>1, <2>3 DEF Loops
<1>15. \A i \in 1..n : <<g[i - 1], i - 1>> \in Ok => g[i] = Round(g[i - 1], i) BY <1>12, <1>13, <1>14
<1>16. \A i \in 1..n : g[i] = Round(g[i - 1], i) BY <1>9, <1>10, <1>14, <1>15
<1>17. g = F(g)
  <2>1. g = [i \in 0..n |-> g[i]] BY <1>14
  <2>2. \A i \in 0..n : g[i] = IF i = 0 THEN NothingWritten ELSE Round(g[i - 1], i)
    <3>1. \A i \in 0..n : i = 0 \/ i \in 1..n BY <1>2
    <3> QED BY <1>9, <1>14, <1>16, <3>1
  <2>3. F(g) = [i \in 0..n |-> IF i = 0 THEN NothingWritten ELSE Round(g[i - 1], i)] BY DEF Round
  <2> HIDE DEF F
  <2> QED BY <2>1, <2>2, <2>3
<1> HIDE DEF F
<1>18. PICK f : f = CHOOSE after : after = F(after) OBVIOUS
<1>19. f = F(f) BY <1>17, <1>18
<1>20. f[0] = NothingWritten /\ \A i \in 1..n : f[i] = Round(f[i - 1], i)
  <2>1. F(f) = [i \in 0..n |-> IF i = 0 THEN NothingWritten ELSE Round(f[i - 1], i)] BY DEF F, Round
  <2>2. \A i \in 0..n : f[i] = IF i = 0 THEN NothingWritten ELSE Round(f[i - 1], i) BY <1>19, <2>1
  <2>3. 0 \in 0..n BY <1>2
  <2> QED BY <1>9, <2>2, <2>3
<1>21. n \in 0..n BY <1>2
<1>22. Kept(f[n], n) BY <1>8, <1>10, <1>20, <1>21
<1>23. Chunk(c, text) = Flush(f[n]).out BY <1>1, <1>18
<1>24. PICK s, t, chunks : s = f[n] /\ t = Flush(s) /\ chunks = Chunk(c, text) OBVIOUS
<1>25. Good(c, text, s) /\ Kept(s, n) BY <1>22, <1>24 DEF Kept
<1>26. /\ Good(c, text, t) /\ t.current = << >> /\ (t.out = << >> <=> s.current = << >> /\ s.out = << >>)
       /\ EndOf(t) = EndOf(s) /\ t.out = chunks
  BY <1>23, <1>24, <1>25, FlushKeeps
<1>27. chunks \in Seq(Seq(Pieces)) /\ HeldBy(c, text, chunks) BY <1>26 DEF Good, States
<1>28. CASE text = << >>
  <2>1. n = 0 BY <1>2, <1>28
  <2>2. s = NothingWritten BY <1>25, <2>1 DEF Kept
  <2>3. s.current = << >> /\ s.out = << >> BY <2>2 DEF NothingWritten
  <2> QED BY <1>24, <1>26, <1>27, <1>28, <2>3 DEF HoldText
<1>29. CASE text # << >>
  <2>1. n \in 1..n BY <1>2, <1>29
  <2>2. s.current # << >> /\ EndOf(s).word = n /\ EndOf(s).to = text[n].runes BY <1>25, <2>1 DEF Kept
  <2>3. chunks # << >> BY <1>26, <2>2
  <2>4. EndOf(t) = Last(Last(chunks)) BY <1>26, <2>3 DEF EndOf, LastOf
  <2> QED BY <1>2, <1>24, <1>26, <1>27, <1>29, <2>2, <2>3, <2>4 DEF HoldText
<1> QED BY <1>28, <1>29

-----------------------------------------------------------------------------
(* Vectors *)

Contents == {body \in Seq(Pieces) : body # << >>}
Batches == [batch : Seq(Contents), tokens : Int, out : Seq(Contents), error : BOOLEAN]

(* What was sent and what waits are the contents so far, unless one of     *)
(* them is too large.                                                      *)
Batched(contents, b, i) ==
  /\ b \in Batches
  /\ IF b.error THEN \E k \in 1..i : estimateTokens(contents[k]) > MaxBatchTokens
     ELSE b.out \o b.batch = SubSeq(contents, 1, i)

\* The estimate of a content is a number.
LEMMA EstimateType ==
  ASSUME NEW body \in Contents
  PROVE  estimateTokens(body) \in Int
<1>1. PICK front \in Seq(Pieces), p \in Pieces : body = Append(front, p) /\ Last(body) = p
  <2>1. body \in Seq(Pieces) /\ body # << >> BY DEF Contents
  <2>2. PICK front \in Seq(Pieces) : body = Append(front, body[Len(body)]) BY <2>1, FrontOf
  <2>3. PICK p : p = body[Len(body)] OBVIOUS
  <2>4. p \in Pieces BY <2>1, <2>3
  <2> QED BY <2>2, <2>3, <2>4 DEF Last
<1>2. PICK c : c \in Chunkers
  <2>1. [maxTokens |-> 1, overlap |-> 0, encoder |-> FALSE] \in Chunkers BY DEF Chunkers
  <2> QED BY <2>1
<1>3. /\ RunesOf(p) \in Nat /\ p.gap \in Nat /\ WrittenRunes(front) \in Nat
      /\ WrittenRunes(body) = WrittenRunes(front) + RunesOf(p) + p.gap
  BY <1>1, <1>2, PieceMeasures, WrittenAppend
<1>4. ContentRunes(body) \in Int BY <1>1, <1>3 DEF ContentRunes
<1>5. PICK r : r = ContentRunes(body) OBVIOUS
<1>6. Up(r, 2) \in Int BY <1>4, <1>5 DEF Up
<1>7. Len(body) \in Int BY DEF Contents
<1> QED BY <1>5, <1>6, <1>7 DEF estimateTokens

\* One more content is in a batch, or one is too large.
LEMMA ContentBatched ==
  ASSUME NEW contents \in Seq(Contents), NEW i \in 1..Len(contents), NEW b, Batched(contents, b, i - 1)
  PROVE  Batched(contents, EmbedOne(b, contents[i]), i)
<1>1. PICK body, tokens, t : /\ body = contents[i] /\ tokens = estimateTokens(body)
                                /\ t = EmbedOne(b, body)
  OBVIOUS
<1>2. body \in Contents /\ tokens \in Int /\ MaxBatchTokens \in Int
  <2>1. body \in Contents BY <1>1
  <2> QED BY <1>1, <2>1, EstimateType, TokenAssumption
<1>3. PICK batch, out : batch = b.batch /\ out = b.out OBVIOUS
<1>4. b \in Batches /\ batch \in Seq(Contents) /\ out \in Seq(Contents) /\ b.tokens \in Int
  BY <1>3 DEF Batched, Batches
<1>5. CASE b.error \/ tokens > MaxBatchTokens
  <2>1. t = [b EXCEPT !.error = TRUE] BY <1>1, <1>5 DEF EmbedOne
  <2>2. t \in Batches /\ t.error BY <1>4, <2>1 DEF Batches
  <2>3. \E k \in 1..i : estimateTokens(contents[k]) > MaxBatchTokens
    <3>1. CASE b.error
      <4>1. PICK k \in 1..(i - 1) : estimateTokens(contents[k]) > MaxBatchTokens BY <3>1 DEF Batched
      <4>2. k \in 1..i OBVIOUS
      <4> QED BY <4>1, <4>2
    <3>2. CASE tokens > MaxBatchTokens
      <4>1. i \in 1..i OBVIOUS
      <4> QED BY <1>1, <3>2, <4>1
    <3> QED BY <1>5, <3>1, <3>2
  <2> QED BY <1>1, <2>2, <2>3 DEF Batched
<1>6. CASE ~(b.error \/ tokens > MaxBatchTokens)
  <2>1. out \o batch = SubSeq(contents, 1, i - 1) BY <1>3, <1>6 DEF Batched
  <2>2. Append(SubSeq(contents, 1, i - 1), body) = SubSeq(contents, 1, i) BY <1>1
  <2>3. CASE b.tokens + tokens > MaxBatchTokens /\ batch # << >>
    <3>1. t = [batch |-> <<body>>, tokens |-> tokens, out |-> out \o batch, error |-> FALSE]
      BY <1>1, <1>3, <1>6, <2>3 DEF EmbedOne
    <3>2. out \o batch \in Seq(Contents) /\ <<body>> \in Seq(Contents) BY <1>2, <1>4
    <3>3. t \in Batches BY <1>2, <3>1, <3>2 DEF Batches
    <3>4. PICK sent : sent = out \o batch OBVIOUS
    <3>5. sent \o <<body>> = Append(sent, body) BY <1>2, <3>2, <3>4
    <3>6. ~t.error /\ t.out \o t.batch = sent \o <<body>> BY <3>1, <3>4
    <3> QED BY <1>1, <2>1, <2>2, <3>3, <3>4, <3>5, <3>6 DEF Batched
  <2>4. CASE ~(b.tokens + tokens > MaxBatchTokens /\ batch # << >>)
    <3>1. t = [batch |-> Append(batch, body), tokens |-> b.tokens + tokens, out |-> out, error |-> FALSE]
      BY <1>1, <1>3, <1>6, <2>4 DEF EmbedOne
    <3>2. Append(batch, body) \in Seq(Contents) /\ b.tokens + tokens \in Int BY <1>2, <1>4
    <3>3. t \in Batches BY <1>4, <3>1, <3>2 DEF Batches
    <3>4. out \o Append(batch, body) = Append(out \o batch, body) BY <1>2, <1>4
    <3>5. ~t.error /\ t.out \o t.batch = out \o Append(batch, body) BY <3>1
    <3> QED BY <1>1, <2>1, <2>2, <3>3, <3>4, <3>5 DEF Batched
  <2> QED BY <2>3, <2>4
<1> QED BY <1>5, <1>6

\* Every content has its vector, or one of them is too large.
LEMMA ContentsEmbedded ==
  ASSUME NEW contents \in Seq(Contents)
  PROVE  \/ ChatGPTEmbed(contents) = contents
         \/ /\ ChatGPTEmbed(contents) = << >>
            /\ \E k \in DOMAIN contents : estimateTokens(contents[k]) > MaxBatchTokens
<1> DEFINE n == Len(contents)
           first == [batch |-> << >>, tokens |-> 0, out |-> << >>, error |-> FALSE]
           F(after) == [i \in 0..n |-> IF i = 0 THEN [batch |-> << >>, tokens |-> 0, out |-> << >>, error |-> FALSE]
                                       ELSE EmbedOne(after[i - 1], contents[i])]
<1>1. LET end == (CHOOSE after : after = F(after))[n]
      IN  ChatGPTEmbed(contents) = IF end.error THEN << >> ELSE end.out \o end.batch
  BY Zenon DEF ChatGPTEmbed
<1> HIDE DEF n
<1>2. n = Len(contents) /\ n \in Nat /\ DOMAIN contents = 1..n BY DEF n
<1> DEFINE Ok == {x \in Batches \X (0..n) : Batched(contents, x[1], x[2])}
           step == [x \in Batches \X (1..n) |->
                      IF <<x[1], x[2] - 1>> \in Ok THEN EmbedOne(x[1], contents[x[2]]) ELSE x[1]]
<1>3. \A u, i : Batched(contents, u, i) => u \in Batches BY DEF Batched
<1>4. first \in Batches /\ Batched(contents, first, 0)
  <2>1. << >> \in Seq(Contents) /\ 0 \in Int OBVIOUS
  <2>2. first \in Batches /\ ~first.error /\ first.out = << >> /\ first.batch = << >> BY <2>1 DEF Batches
  <2>3. << >> \o << >> = << >> OBVIOUS
  <2>4. SubSeq(contents, 1, 0) = << >> OBVIOUS
  <2> QED BY <2>2, <2>3, <2>4 DEF Batched
<1> HIDE DEF first
<1>5. \A u, i : <<u, i>> \in Ok <=> i \in 0..n /\ Batched(contents, u, i) BY <1>3
<1>6. \A i \in 1..n : i \in 0..n /\ i - 1 \in 0..n /\ i # 0 BY <1>2
<1>7. \A u, i : i \in 1..n /\ <<u, i - 1>> \in Ok => <<EmbedOne(u, contents[i]), i>> \in Ok
  BY <1>2, <1>5, <1>6, ContentBatched
<1>8. ASSUME NEW h, h[0] = first, \A i \in 1..n : <<h[i - 1], i - 1>> \in Ok => h[i] = EmbedOne(h[i - 1], contents[i])
      PROVE  \A i \in 0..n : <<h[i], i>> \in Ok
  <2>1. <<h[0], 0>> \in Ok BY <1>2, <1>4, <1>5, <1>8
  <2>2. \A i \in 1..n : <<h[i - 1], i - 1>> \in Ok => <<h[i], i>> \in Ok
    <3> HIDE DEF Ok
    <3> QED BY <1>7, <1>8
  <2> HIDE DEF Ok
  <2> QED BY <1>2, <2>1, <2>2, LoopKeeps
<1>9. \A u, i : <<u, i>> \in Ok => u \in Batches BY <1>3, <1>5
<1>10. step \in [Batches \X (1..n) -> Batches]
  <2>1. \A u \in Batches, i \in 1..n : <<u, i - 1>> \in Ok => EmbedOne(u, contents[i]) \in Batches
    <3> HIDE DEF Ok
    <3> QED BY <1>7, <1>9
  <2> HIDE DEF Ok, Batches
  <2> QED BY <2>1
<1>11. \A u \in Batches, i \in 1..n : step[<<u, i>>] = IF <<u, i - 1>> \in Ok THEN EmbedOne(u, contents[i]) ELSE u
  <2> HIDE DEF Ok, Batches
  <2> QED OBVIOUS
<1> HIDE DEF Ok, step
<1>12. PICK g \in [0..n -> Batches] : g[0] = first /\ \A i \in 1..n : g[i] = step[<<g[i - 1], i>>]
  <2>1. PICK S, base, m, t : S = Batches /\ base = first /\ m = n /\ t = step OBVIOUS
  <2>2. m \in Nat /\ base \in S /\ t \in [S \X (1..m) -> S] BY <1>2, <1>4, <1>10, <2>1
  <2>3. \E g : Loops(g, m, S, base, t) BY <2>2, LoopExists
  <2> QED BY <2>1, <2>3 DEF Loops
<1>13. \A i \in 1..n : <<g[i - 1], i - 1>> \in Ok => g[i] = EmbedOne(g[i - 1], contents[i]) BY <1>9, <1>11, <1>12
<1>14. \A i \in 1..n : g[i] = EmbedOne(g[i - 1], contents[i]) BY <1>6, <1>8, <1>12, <1>13
<1>15. \A after : F(after) = [i \in 0..n |-> IF i = 0 THEN first ELSE EmbedOne(after[i - 1], contents[i])]
  BY DEF first
<1>16. g = F(g)
  <2>1. g = [i \in 0..n |-> g[i]] BY <1>12
  <2>2. \A i \in 0..n : g[i] = IF i = 0 THEN first ELSE EmbedOne(g[i - 1], contents[i])
    <3>1. \A i \in 0..n : i = 0 \/ i \in 1..n BY <1>2
    <3> QED BY <1>6, <1>12, <1>14, <3>1
  <2> HIDE DEF F
  <2> QED BY <1>15, <2>1, <2>2
<1> HIDE DEF F
<1>17. PICK f : f = CHOOSE after : after = F(after) OBVIOUS
<1>18. f = F(f) BY <1>16, <1>17
<1>19. f[0] = first /\ \A i \in 1..n : f[i] = EmbedOne(f[i - 1], contents[i])
  <2>1. \A i \in 0..n : f[i] = IF i = 0 THEN first ELSE EmbedOne(f[i - 1], contents[i]) BY <1>15, <1>18
  <2>2. 0 \in 0..n BY <1>2
  <2> QED BY <1>6, <2>1, <2>2
<1>20. n \in 0..n BY <1>2
<1>21. PICK end : end = f[n] OBVIOUS
<1>22. Batched(contents, end, n) BY <1>5, <1>8, <1>19, <1>20, <1>21
<1>23. ChatGPTEmbed(contents) = IF end.error THEN << >> ELSE end.out \o end.batch BY <1>1, <1>17, <1>21
<1>24. SubSeq(contents, 1, n) = contents BY <1>2
<1> QED BY <1>2, <1>22, <1>23, <1>24 DEF Batched

\* A chunker has a budget above zero, whatever is configured.
LEMMA ChunkerType ==
  ASSUME NEW budget \in Int \X Int, NEW c \in NewSimpleChunker(budget[1], budget[2])
  PROVE  c \in Chunkers
<1>1. PICK tokens \in Int, overlap \in Int : tokens = budget[1] /\ overlap = budget[2] OBVIOUS
<1>2. c \in [maxTokens : {IF tokens <= 0 THEN 800 ELSE tokens}, overlap : {IF overlap < 0 THEN 0 ELSE overlap},
             encoder : BOOLEAN]
  BY <1>1 DEF NewSimpleChunker
<1>3. (IF tokens <= 0 THEN 800 ELSE tokens) \in Nat \ {0} /\ (IF overlap < 0 THEN 0 ELSE overlap) \in Nat OBVIOUS
<1> QED BY <1>2, <1>3 DEF Chunkers

(* The invariant: the document with the chunks that hold its text and      *)
(* their vectors.                                                          *)
Vectored(chunks, vectors) ==
  \/ vectors = chunks
  \/ vectors = << >> /\ \E i \in DOMAIN chunks : estimateTokens(chunks[i]) > MaxBatchTokens
ChunkInv ==
  processed # << >> =>
    /\ HoldText(processed.chunker, processed.text, processed.chunks)
    /\ Vectored(processed.chunks, processed.vectors)

\* A document that is processed has chunks that hold it and their vectors.
LEMMA ProcessTextKeeps ==
  ASSUME ProcessText
  PROVE  ChunkInv'
<1>1. PICK budget \in Budgets, text \in Texts : \E c \in NewSimpleChunker(budget[1], budget[2]) :
        \E vectors \in {ChatGPTEmbed(Chunk(c, text)), DeterministicEmbed(Chunk(c, text))} :
          processed' = [chunker |-> c, text |-> text, chunks |-> Chunk(c, text), vectors |-> vectors]
  BY DEF ProcessText
<1>2. PICK c \in NewSimpleChunker(budget[1], budget[2]) :
        \E vectors \in {ChatGPTEmbed(Chunk(c, text)), DeterministicEmbed(Chunk(c, text))} :
          processed' = [chunker |-> c, text |-> text, chunks |-> Chunk(c, text), vectors |-> vectors]
  BY <1>1
<1>3. PICK chunks : chunks = Chunk(c, text) OBVIOUS
<1>4. PICK vectors \in {ChatGPTEmbed(chunks), DeterministicEmbed(chunks)} :
        processed' = [chunker |-> c, text |-> text, chunks |-> chunks, vectors |-> vectors]
  BY <1>2, <1>3
<1>5. c \in Chunkers /\ text \in Seq(Words)
  <2>1. budget \in Int \X Int /\ text \in Seq(Words) BY DocumentAssumption
  <2> QED BY <2>1, ChunkerType
<1>6. HoldText(c, text, chunks) BY <1>3, <1>5, TextWritten
<1>7. chunks \in Seq(Contents)
  <2>1. chunks \in Seq(Seq(Pieces)) /\ \A i \in DOMAIN chunks : chunks[i] # << >> BY <1>6 DEF HoldText, HeldBy
  <2>2. PICK n : n = Len(chunks) OBVIOUS
  <2>3. n \in Nat /\ DOMAIN chunks = 1..n /\ chunks = [i \in 1..n |-> chunks[i]] BY <2>1, <2>2
  <2>4. ASSUME NEW i \in 1..n PROVE chunks[i] \in Contents
    <3>1. PICK S, body : S = Seq(Pieces) /\ body = chunks[i] OBVIOUS
    <3>2. chunks \in Seq(S) /\ body # << >> BY <2>1, <2>3, <3>1
    <3>3. body \in S BY <2>2, <3>1, <3>2
    <3> QED BY <3>1, <3>2, <3>3 DEF Contents
  <2> HIDE DEF Contents
  <2>5. chunks \in [1..n -> Contents] BY <2>3, <2>4
  <2> QED BY <2>3, <2>5
<1>8. Vectored(chunks, vectors) BY <1>4, <1>7, ContentsEmbedded DEF Vectored, DeterministicEmbed
<1>9. /\ processed'.chunker = c /\ processed'.text = text /\ processed'.chunks = chunks
      /\ processed'.vectors = vectors
  BY <1>4
<1> QED BY <1>6, <1>8, <1>9 DEF ChunkInv

\* ChunksHoldTheText, for any text of any length, any budgets and overlap, with and
\* without the encoding: the chunks are all of the text in its order, what they repeat is
\* the end of the chunk before within the overlap, they are within the budgets, and each
\* has its vector unless one is too large.
THEOREM ChunksHoldTheTextHolds == ChunkSpec => []ChunksHoldTheText
<1>1. ChunkInit => ChunkInv BY DEF ChunkInit, ChunkInv
<1>2. ChunkInv /\ [ProcessText]_processed => ChunkInv'
  <2> SUFFICES ASSUME ChunkInv, [ProcessText]_processed PROVE ChunkInv' OBVIOUS
  <2>1. CASE ProcessText BY <2>1, ProcessTextKeeps
  <2>2. CASE UNCHANGED processed BY <2>2 DEF ChunkInv
  <2> QED BY <2>1, <2>2
<1>3. ChunkInv => ChunksHoldTheText BY Zenon DEF ChunkInv, HoldText, HeldBy, Vectored, ChunksHoldTheText
<1> QED BY <1>1, <1>2, <1>3, PTL DEF ChunkSpec
================================================================================
