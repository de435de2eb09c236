------------------------------- MODULE UvAdvice -------------------------------
(***************************************************************************)
(* The UV advisor: one request without state.  The records of data.gov.sg  *)
(* become hourly readings, the highest of them gives the category, and the *)
(* answer of the chat model is decoded and cleaned.                        *)
(*                                                                         *)
(* Values are in hundredths and may be negative.  An hour is named by the  *)
(* text of the record; two texts may mean the same time, and one that      *)
(* cannot be read means none.                                              *)
(***************************************************************************)
EXTENDS Integers, Sequences, SequencesExt, FiniteSets

CONSTANTS
  Hours,    \* texts of hours
  TimeOf,   \* the time a text means, 0 when it cannot be read
  Values,   \* readings
  Items,    \* texts of recommendations
  Clean,    \* a text without the spaces around it, "" for a blank one
  Queries,  \* what data.gov.sg and the chat model answer to the requests
  None

ASSUME HourAssumption == TimeOf \in [Hours -> Nat] /\ Values \subseteq Int
ASSUME CleanAssumption == Clean \in [Items -> Items] /\ \A i \in Items : Clean[Clean[i]] = Clean[i]

Entries == [hour : Hours, value : Values]
Lists == [kind : {"absent", "other"}] \cup [kind : {"text"}, text : Items] \cup [kind : {"list"}, items : Seq(Items)]
Fields == {"clothing", "protection", "tips"}
Messages == [summary : {"", " ", "sunny"}, lists : [Fields -> Lists]]

\* A request has a date that can be read or not; a completion is ok when it has a
\* choice whose content is a JSON object.
ASSUME QueryAssumption ==
  Queries \subseteq [date : BOOLEAN,
                    fetched : [ok : BOOLEAN, records : Seq(Seq(Entries))],
                    completion : [ok : BOOLEAN, toolCalls : BOOLEAN, message : Messages]]

-----------------------------------------------------------------------------

\* The entries of all records by their places, in the order they are read.
Places(records) == UNION {{r} \X DOMAIN records[r] : r \in DOMAIN records}
Entry(records, p) == records[p[1]][p[2]]
Earlier(p, q) == p[1] < q[1] \/ (p[1] = q[1] /\ p[2] < q[2])

\* Faulty variant: a later record replaces the value of an hour.
KeepsLast(records, p) ==
  \A q \in Places(records) : Earlier(p, q) => Entry(records, q).hour # Entry(records, p).hour

\* The first entry of an hour counts.
Keeps(records, p) ==
  \A q \in Places(records) : Earlier(q, p) => Entry(records, q).hour # Entry(records, p).hour

\* The readings of all records, those that name a time, by time.
NormalizeRecords(records) ==
  LET time(p) == TimeOf[Entry(records, p).hour]
      kept == {p \in Places(records) : Keeps(records, p) /\ time(p) # 0}
      order == CHOOSE o \in [1..Cardinality(kept) -> kept] :
                 \A m, n \in DOMAIN o : m < n => o[m] # o[n] /\ time(o[m]) <= time(o[n])
  IN [n \in DOMAIN order |-> [time |-> time(order[n]), value |-> Entry(records, order[n]).value]]

Higher(point, peak) ==
  point.value > peak.value \/ (point.value = peak.value /\ point.time < peak.time)

\* The loop starts at -1.0 and no time; a day with no reading above it has no peak.
NoPeak == [time |-> 0, value |-> -100]
Peak(points) ==
  LET peak[n \in 0..Len(points)] ==
        IF n = 0 THEN NoPeak
        ELSE IF Higher(points[n], peak[n - 1]) THEN points[n] ELSE peak[n - 1]
  IN peak[Len(points)]

CategoryFor(value) ==
  CASE value < 300 -> "low"
    [] value >= 300 /\ value < 600 -> "moderate"
    [] value >= 600 /\ value < 800 -> "high"
    [] value >= 800 /\ value < 1100 -> "very_high"
    [] OTHER -> "extreme"

\* To one decimal, half of it away from zero.
Rounded(value) ==
  IF value >= 0 THEN 10 * ((value + 5) \div 10) ELSE -(10 * ((5 - value) \div 10))

ToResponseReadings(points) ==
  [n \in DOMAIN points |-> [time |-> points[n].time, value |-> Rounded(points[n].value)]]

\* The texts without the spaces around them, the blank and the repeated ones left out.
NormalizeList(items) ==
  LET out[n \in 0..Len(items)] ==
        IF n = 0 THEN <<>>
        ELSE IF Clean[items[n]] = "" \/ Clean[items[n]] \in ToSet(out[n - 1]) THEN out[n - 1]
        ELSE Append(out[n - 1], Clean[items[n]])
  IN out[Len(items)]

\* A JSON value where a list is expected: nothing, a text or a list of texts.
CoerceStringArray(v) ==
  CASE v.kind = "absent" -> <<>>
    [] v.kind = "text" -> IF Clean[v.text] = "" THEN <<>> ELSE <<v.text>>
    [] v.kind = "list" -> v.items

ParseAIAdvice(c) ==
  LET lists == [f \in Fields |-> NormalizeList(CoerceStringArray(c.lists[f]))]
  IN IF \E f \in Fields : c.lists[f].kind = "other" THEN [error |-> "malformed"]
     ELSE IF c.summary = "" THEN [error |-> "summary missing"]
     ELSE IF lists["clothing"] = <<>> /\ lists["protection"] = <<>> THEN [error |-> "recommendations missing"]
     ELSE [error |-> "none", summary |-> c.summary, lists |-> lists]

\* The whole request: the date, the records or a failed fetch, then the model's
\* message or its failure.  The maximum and its band are those of the readings as
\* they came, the readings are shown rounded.
Recommend(q) ==
  LET points == NormalizeRecords(q.fetched.records)
      peak == Peak(points)
      parsed == ParseAIAdvice(q.completion.message)
  IN IF ~q.date THEN [error |-> "invalid_input"]
     ELSE IF ~q.fetched.ok \/ points = <<>> THEN [error |-> "uv_data_error"]
     ELSE IF ~q.completion.ok \/ q.completion.toolCalls \/ parsed.error # "none" THEN [error |-> "llm_error"]
     ELSE [error |-> "none", readings |-> ToResponseReadings(points), max |-> peak.value,
           peakHour |-> peak.time, category |-> CategoryFor(peak.value), summary |-> parsed.summary,
           lists |-> [f \in Fields |-> NormalizeList(parsed.lists[f])]]

-----------------------------------------------------------------------------

VARIABLES
  query,  \* what the two services answer, or None before a request
  advice  \* what the user gets, or None

uvVars == <<query, advice>>

UvInit == query = None /\ advice = None

AskAdvice(q) ==
  /\ query' = q
  /\ advice' = Recommend(q)

UvNext == query = None /\ \E q \in Queries : AskAdvice(q)
UvSpec == UvInit /\ [][UvNext]_uvVars

-----------------------------------------------------------------------------
(* Properties *)

\* The advice is about the data: the readings are those of the entries that first
\* name an hour that can be read, rounded, in the order of time; the peak is the
\* earliest of the highest of them before rounding, or, when none is above -1.0,
\* there is no peak hour; and the category is the band of the value as it came, which
\* a reading shown as 3.0 may not have reached.
PeakIsTrue ==
  (advice # None /\ advice.error = "none") =>
    LET records == query.fetched.records
        time(i) == TimeOf[Entry(records, i).hour]
        value(i) == Entry(records, i).value
        first == {i \in Places(records) :
                    /\ time(i) # 0
                    /\ ~ \E j \in Places(records) : Earlier(j, i) /\ Entry(records, j).hour = Entry(records, i).hour}
    IN /\ ToSet(advice.readings) = {[time |-> time(i), value |-> Rounded(value(i))] : i \in first}
       /\ \A m, n \in DOMAIN advice.readings : m < n => advice.readings[m].time <= advice.readings[n].time
       /\ IF \E i \in first : value(i) > -100
          THEN /\ \E i \in first : value(i) = advice.max /\ time(i) = advice.peakHour
               /\ \A i \in first :
                    value(i) < advice.max \/ (value(i) = advice.max /\ advice.peakHour <= time(i))
          ELSE advice.max = -100 /\ advice.peakHour = 0
       /\ advice.category = CategoryFor(advice.max)

\* A request fails only for a reason, an answer never comes without advice, and its
\* lists hold what the model wrote, no blank and nothing twice, though they are
\* cleaned two times on the way.  Tips alone are no advice.
AdviceIsClean ==
  advice # None =>
    LET message == query.completion.message
        records == query.fetched.records
        TextsIn(v) == {Clean[i] : i \in CASE v.kind = "text" -> {v.text} [] v.kind = "list" -> ToSet(v.items)
                                        [] OTHER -> {}} \ {""}
        Faithful(list, v) == ToSet(list) = TextsIn(v) /\ IsInjective(list)
    IN CASE advice.error = "none" ->
              /\ advice.lists["clothing"] # <<>> \/ advice.lists["protection"] # <<>>
              /\ \A f \in Fields : Faithful(advice.lists[f], message.lists[f])
         [] advice.error = "invalid_input" -> ~query.date
         [] advice.error = "uv_data_error" ->
              ~query.fetched.ok \/ \A i \in Places(records) : TimeOf[Entry(records, i).hour] = 0
         [] advice.error = "llm_error" ->
              \/ ~query.completion.ok \/ query.completion.toolCalls
              \/ message.summary = ""
              \/ \E f \in Fields : message.lists[f].kind = "other"
              \/ TextsIn(message.lists["clothing"]) \cup TextsIn(message.lists["protection"]) = {}

\* What the user is told is true of the data and of the model's message.
AdviceIsTrue == PeakIsTrue /\ AdviceIsClean
===============================================================================
