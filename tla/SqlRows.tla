------------------------------ MODULE SqlRows ------------------------------
(***************************************************************************)
(* What the store modules need of a map and of a database: INSERT under    *)
(* unique keys, ORDER BY, and how the SQLite stores write a time.          *)
(*                                                                         *)
(* RFC3339Nano drops the trailing zeros of the fraction, and the columns   *)
(* are TEXT, so rows are ordered by the characters: at the place where a   *)
(* shorter fraction ends it has 'Z' (or, with no fraction at all, 'Z'      *)
(* against '.'), which is above every digit.                               *)
(*                                                                         *)
(* Abstraction: a time is a number of ticks; a second has four of them and *)
(* its fraction two binary digits in place of nine decimal ones.  Date,    *)
(* hour and the other parts of fixed width are one number, the second.     *)
(***************************************************************************)
EXTENDS Naturals, Sequences, SequencesExt, FiniteSets

(* A unique key is a set of columns; an insert is refused when a row has   *)
(* the same values in all of them.                                         *)
Clashes(table, row, keys) == \E r \in table, k \in keys : \A f \in k : r[f] = row[f]

(* The assignment f[k] = v of a map, which adds the key when it is new.    *)
Put(f, k, v) == [x \in DOMAIN f \cup {k} |-> IF x = k THEN v ELSE f[x]]

(* ORDER BY.  The order is given as the set of the pairs <<r, q>> in which *)
(* r goes before q.  Of the rows that remain, one that no other of them    *)
(* goes before is next, so ties come in any order.                         *)
Foremost(rows, before) == CHOOSE r \in rows : \A q \in rows : <<q, r>> \notin before
Remaining(rows, before) ==
  LET left[i \in 0..Cardinality(rows)] ==
        IF i = 0 THEN rows ELSE left[i - 1] \ {Foremost(left[i - 1], before)}
  IN  left
Sorted(rows, before) ==
  LET left == Remaining(rows, before)
  IN  [i \in 1..Cardinality(rows) |-> Foremost(left[i - 1], before)]

Prefix(seq, n) == SubSeq(seq, 1, IF Len(seq) > n THEN n ELSE Len(seq))

(* formatSQLiteTime: the second, then the digits up to the last that is    *)
(* not zero.                                                               *)
formatSQLiteTime(t) ==
  CASE t % 4 = 0 -> <<t \div 4>>
    [] t % 4 # 0 /\ t % 2 = 0 -> <<t \div 4, (t \div 2) % 2>>
    [] OTHER -> <<t \div 4, (t \div 2) % 2, t % 2>>

(* parseSQLiteTime reads the digits back; those left out are zeros.        *)
parseSQLiteTime(text) ==
  LET digit(i) == IF i <= Len(text) THEN text[i] ELSE 0
  IN  4 * digit(1) + 2 * digit(2) + digit(3)

(* TEXT ordering of two written times: a sorts above b.                    *)
TextAbove(a, b) ==
  LET shorter == IF Len(a) < Len(b) THEN Len(a) ELSE Len(b)
      apart == {i \in 1..shorter : a[i] # b[i]}
  IN  \/ apart = {} /\ Len(a) < Len(b)
      \/ \E i \in apart : (\A j \in apart : i <= j) /\ a[i] > b[i]

(* The pairs that ORDER BY gets wrong: the earlier time was cut to a       *)
(* beginning of the later one.                                             *)
Misordered(s, t) ==
  /\ s < t
  /\ TextAbove(formatSQLiteTime(s), formatSQLiteTime(t))
InTextOrder(rows) == \A r, q \in rows : ~Misordered(r.at, q.at)

NewestText(rows) ==
  Sorted(rows, {p \in rows \X rows :
                  TextAbove(formatSQLiteTime(p[1].at), formatSQLiteTime(p[2].at))})
Newest(rows) == Sorted(rows, {p \in rows \X rows : p[1].at > p[2].at})

(* Scored rows, the nearest first; and those of one score newest first.    *)
(* Memory and SQLite score by the cosine, "near"; pgvector's <-> is the     *)
(* Euclidean distance, by which "close" is the rank.                        *)
Nearest(rows) == Sorted(rows, {p \in rows \X rows : p[1].near > p[2].near})
NearestNewest(rows) ==
  Sorted(rows, {p \in rows \X rows : \/ p[1].near > p[2].near
                                     \/ p[1].near = p[2].near /\ p[1].at > p[2].at})
ByDistance(rows) == Sorted(rows, {p \in rows \X rows : p[1].close > p[2].close})

(* The two measures rank the rows alike, as they do unit vectors.           *)
RankedAlike(rows) == \A r, q \in rows : r.near > q.near <=> r.close > q.close
=============================================================================
