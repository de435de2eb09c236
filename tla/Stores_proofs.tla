---------------------------- MODULE Stores_proofs ----------------------------
(***************************************************************************)
(* Proofs about the variants of the stores, for any calls in any number:   *)
(* the user repository, the Upload & Ask repositories, the message log and *)
(* the memories, the questions, the answers and the counts of the FAQ.     *)
(***************************************************************************)
EXTENDS UserStores, DocumentStores, ConversationStores, FaqStores, FiniteSetTheorems, WellFoundedInduction, TLAPS

-----------------------------------------------------------------------------
(* ORDER BY and sort.Slice *)

StrictOrder(rows, before) ==
  /\ \A r \in rows : <<r, r>> \notin before
  /\ \A r, q, p \in rows : <<r, q>> \in before /\ <<q, p>> \in before => <<r, p>> \in before

Arranges(s, rows, before) ==
  /\ s \in [1..Cardinality(rows) -> rows]
  /\ \A r \in rows : \E i \in 1..Cardinality(rows) : s[i] = r
  /\ \A i, j \in 1..Cardinality(rows) : i < j => s[i] # s[j] /\ <<s[j], s[i]>> \notin before

\* A set of numbers that is not empty has a least one.
LEMMA LeastNat ==
  ASSUME NEW S, S \subseteq Nat, S # {}
  PROVE  \E m \in S : \A k \in S : m <= k
<1> DEFINE R == {ss \in Nat \X Nat : ss[1] < ss[2]}
<1>1. IsWellFoundedOn(R, Nat)
  BY NatLessThanWellFounded DEF OpToRel
<1> HIDE DEF R
<1>2. PICK m \in S : \A k \in S : ~(<<k, m>> \in R)
  BY <1>1, WFMin
<1>3. \A k \in S : ~(k < m)
  BY <1>2 DEF R
<1> QED BY <1>2, <1>3

\* Of finitely many rows one has no other before it: one with fewest ahead of it.
LEMMA ForemostLeads ==
  ASSUME NEW rows, IsFiniteSet(rows), rows # {}, NEW before, StrictOrder(rows, before)
  PROVE  /\ Foremost(rows, before) \in rows
         /\ \A q \in rows : <<q, Foremost(rows, before)>> \notin before
<1> DEFINE Ahead(r) == {q \in rows : <<q, r>> \in before}
           Crowds == {Cardinality(Ahead(r)) : r \in rows}
<1>1. \A r \in rows : IsFiniteSet(Ahead(r)) /\ Cardinality(Ahead(r)) \in Nat
  BY FS_Subset, FS_CardinalityType
<1>2. PICK m \in Crowds : \A k \in Crowds : m <= k
  <2>1. Crowds \subseteq Nat /\ Crowds # {} BY <1>1
  <2> HIDE DEF Crowds
  <2> QED BY <2>1, LeastNat
<1>3. PICK r \in rows : m = Cardinality(Ahead(r)) BY <1>2
<1>4. ASSUME NEW q \in rows, <<q, r>> \in before PROVE FALSE
  <2>1. Ahead(q) \subseteq Ahead(r) /\ q \in Ahead(r) /\ q \notin Ahead(q)
    BY <1>3, <1>4 DEF StrictOrder
  <2>2. Cardinality(Ahead(q)) < Cardinality(Ahead(r))
    <3> HIDE DEF Ahead
    <3> QED BY <2>1, <1>1, <1>3, FS_Subset, FS_CardinalityType
  <2>3. m <= Cardinality(Ahead(q)) BY <1>2
  <2> QED BY <2>2, <2>3, <1>1, <1>3
<1>5. \E p \in rows : \A q \in rows : <<q, p>> \notin before BY <1>3, <1>4
<1> QED BY <1>5 DEF Foremost

\* What the recursion of Remaining computes: a function satisfies its equation.
LEMMA RemainingStep ==
  ASSUME NEW rows, IsFiniteSet(rows), NEW before, StrictOrder(rows, before)
  PROVE  LET left == Remaining(rows, before) IN
         left = [i \in 0..Cardinality(rows) |->
                   IF i = 0 THEN rows ELSE left[i - 1] \ {Foremost(left[i - 1], before)}]
<1> DEFINE n == Cardinality(rows)
           F(left, m) == [i \in 0..m |-> IF i = 0 THEN rows ELSE left[i - 1] \ {Foremost(left[i - 1], before)}]
           Missing == {m \in 0..n : ~\E g : g = F(g, m)}
<1>1. n \in Nat BY FS_CardinalityType
<1>2. Missing = {}
  <2> SUFFICES ASSUME Missing # {} PROVE FALSE OBVIOUS
  <2>1. Missing \subseteq Nat BY <1>1
  <2>2. PICK m \in Missing : \A k \in Missing : m <= k
    <3> HIDE DEF Missing
    <3> QED BY <2>1, LeastNat
  <2>3. m # 0
    <3>1. [i \in 0..0 |-> rows] = F([i \in 0..0 |-> rows], 0) OBVIOUS
    <3> HIDE DEF F
    <3> QED BY <3>1
  <2>4. m \in Nat /\ m - 1 \in 0..n /\ m - 1 < m BY <2>2, <2>3, <1>1
  <2>5. m - 1 \notin Missing BY <2>2, <2>4
  <2>6. PICK g : g = F(g, m - 1) BY <2>4, <2>5
  <2> DEFINE h == [i \in 0..m |-> IF i < m THEN g[i] ELSE g[m - 1] \ {Foremost(g[m - 1], before)}]
  <2>7. \A i \in 0..m : h[i] = IF i = 0 THEN rows ELSE h[i - 1] \ {Foremost(h[i - 1], before)}
    <3> SUFFICES ASSUME NEW i \in 0..m
                 PROVE h[i] = IF i = 0 THEN rows ELSE h[i - 1] \ {Foremost(h[i - 1], before)}
      OBVIOUS
    <3>1. CASE i = 0
      <4>1. g[0] = rows BY <2>6, <2>4
      <4>2. 0 < m /\ 0 \in 0..m BY <2>3, <2>4
      <4>3. h[0] = g[0] BY <4>2
      <4> HIDE DEF h
      <4> QED BY <3>1, <4>1, <4>3
    <3>2. CASE i # 0 /\ i < m
      <4>1. i \in 0..(m - 1) BY <3>2, <2>4
      <4>2. \A j \in 0..(m - 1) : g[j] = IF j = 0 THEN rows ELSE g[j - 1] \ {Foremost(g[j - 1], before)}
        BY <2>6
      <4>3. g[i] = g[i - 1] \ {Foremost(g[i - 1], before)} BY <4>1, <4>2, <3>2
      <4> QED BY <4>1, <4>3, <3>2, <2>4
    <3>3. CASE i = m
      <4>1. h[i] = g[m - 1] \ {Foremost(g[m - 1], before)} BY <3>3, <2>4
      <4>2. h[i - 1] = g[m - 1] BY <3>3, <2>4, <2>3
      <4> HIDE DEF h
      <4> QED BY <4>1, <4>2, <3>3, <2>3
    <3> QED BY <3>1, <3>2, <3>3, <2>4
  <2>8. h = F(h, m)
    <3>1. \A i \in 0..m : h[i] = F(h, m)[i] BY <2>7
    <3> QED BY <3>1
  <2> HIDE DEF h, F
  <2> QED BY <2>8, <2>2
<1>3. PICK g : g = F(g, n)
  <2>1. n \in 0..n BY <1>1
  <2> QED BY <2>1, <1>2
<1>4. Remaining(rows, before) = CHOOSE left : left = F(left, n)
  BY Zenon DEF Remaining
<1> HIDE DEF F
<1>5. Remaining(rows, before) = F(Remaining(rows, before), n)
  BY <1>4, <1>3, Zenon
<1> QED BY <1>5 DEF F

\* After i rows are taken, all but i of them remain.
LEMMA RemainingShrinks ==
  ASSUME NEW rows, IsFiniteSet(rows), NEW before, StrictOrder(rows, before)
  PROVE  \A i \in 0..Cardinality(rows) :
           LET left == Remaining(rows, before)[i]
           IN  left \subseteq rows /\ IsFiniteSet(left) /\ Cardinality(left) = Cardinality(rows) - i
<1> DEFINE n == Cardinality(rows)
           left == Remaining(rows, before)
           Good(i) == left[i] \subseteq rows /\ IsFiniteSet(left[i]) /\ Cardinality(left[i]) = n - i
           Bad == {i \in 0..n : ~Good(i)}
<1>1. n \in Nat BY FS_CardinalityType
<1>2. left = [i \in 0..n |-> IF i = 0 THEN rows ELSE left[i - 1] \ {Foremost(left[i - 1], before)}]
  BY RemainingStep
<1> HIDE DEF left
<1>3. Good(0)
  <2>1. left[0] = rows BY <1>1, <1>2
  <2> QED BY <2>1, <1>1
<1>4. ASSUME NEW i \in 1..n, Good(i - 1) PROVE Good(i)
  <2> DEFINE after(j) == IF j = 0 THEN rows ELSE left[j - 1] \ {Foremost(left[j - 1], before)}
  <2>0. \A j \in 0..n : left[j] = after(j) BY <1>2
  <2>1. left[i] = left[i - 1] \ {Foremost(left[i - 1], before)}
    <3>1. i \in 0..n /\ i # 0 BY <1>1
    <3> QED BY <3>1, <2>0
  <2>2. PICK p : p = left[i - 1] OBVIOUS
  <2>3. p \subseteq rows /\ IsFiniteSet(p) /\ Cardinality(p) = n - (i - 1) BY <1>4, <2>2
  <2>4. p # {}
    <3> SUFFICES ASSUME p = {} PROVE FALSE OBVIOUS
    <3>1. Cardinality(p) = 0 BY FS_EmptySet
    <3> QED BY <3>1, <2>3, <1>1
  <2>5. StrictOrder(p, before) BY <2>3 DEF StrictOrder
  <2>6. Foremost(p, before) \in p BY <2>3, <2>4, <2>5, ForemostLeads
  <2>7. IsFiniteSet(p \ {Foremost(p, before)}) /\ Cardinality(p \ {Foremost(p, before)}) = Cardinality(p) - 1
    BY <2>3, <2>6, FS_RemoveElement
  <2>8. left[i] = p \ {Foremost(p, before)} BY <2>1, <2>2
  <2> QED BY <2>3, <2>7, <2>8, <1>1
<1>5. Bad = {}
  <2> SUFFICES ASSUME Bad # {} PROVE FALSE OBVIOUS
  <2>1. Bad \subseteq Nat BY <1>1
  <2>2. PICK m \in Bad : \A k \in Bad : m <= k
    <3> HIDE DEF Bad
    <3> QED BY <2>1, LeastNat
  <2>3. m # 0 BY <1>3, <2>2
  <2>4. m \in 1..n /\ m - 1 \in 0..n /\ m - 1 < m BY <2>2, <2>3, <1>1
  <2>5. Good(m - 1) BY <2>2, <2>4
  <2>6. Good(m) BY <1>4, <2>4, <2>5
  <2> QED BY <2>6, <2>2
<1> QED BY <1>5 DEF left

\* Sorted lists every row once, and none behind a row it goes before.
LEMMA SortedArranges ==
  ASSUME NEW rows, IsFiniteSet(rows), NEW before, StrictOrder(rows, before)
  PROVE  Arranges(Sorted(rows, before), rows, before)
<1> DEFINE n == Cardinality(rows)
           left == Remaining(rows, before)
           s == Sorted(rows, before)
<1>1. n \in Nat BY FS_CardinalityType
<1>2. left = [i \in 0..n |-> IF i = 0 THEN rows ELSE left[i - 1] \ {Foremost(left[i - 1], before)}]
  BY RemainingStep
<1>3. \A i \in 0..n : left[i] \subseteq rows /\ IsFiniteSet(left[i]) /\ Cardinality(left[i]) = n - i
  BY RemainingShrinks
<1>4. s = [i \in 1..n |-> Foremost(left[i - 1], before)] BY DEF Sorted
<1> HIDE DEF left, s
<1>5. \A i \in 1..n : s[i] \in left[i - 1] /\ \A q \in left[i - 1] : <<q, s[i]>> \notin before
  <2> SUFFICES ASSUME NEW i \in 1..n
               PROVE s[i] \in left[i - 1] /\ \A q \in left[i - 1] : <<q, s[i]>> \notin before
    OBVIOUS
  <2>1. i - 1 \in 0..n BY <1>1
  <2>2. PICK p : p = left[i - 1] OBVIOUS
  <2>3. p \subseteq rows /\ IsFiniteSet(p) /\ Cardinality(p) = n - (i - 1) BY <1>3, <2>1, <2>2
  <2>4. p # {}
    <3> SUFFICES ASSUME p = {} PROVE FALSE OBVIOUS
    <3>1. Cardinality(p) = 0 BY FS_EmptySet
    <3> QED BY <3>1, <2>3, <1>1
  <2>5. StrictOrder(p, before) BY <2>3 DEF StrictOrder
  <2>6. s[i] = Foremost(p, before) BY <1>4, <2>2
  <2> QED BY <2>2, <2>3, <2>4, <2>5, <2>6, ForemostLeads
<1>6. \A i \in 1..n : left[i] = left[i - 1] \ {s[i]}
  <2>1. \A j \in 0..n : left[j] = IF j = 0 THEN rows ELSE left[j - 1] \ {Foremost(left[j - 1], before)}
    BY <1>2
  <2>2. \A i \in 1..n : i \in 0..n /\ i # 0 BY <1>1
  <2>3. \A i \in 1..n : left[i] = left[i - 1] \ {Foremost(left[i - 1], before)} BY <2>1, <2>2
  <2> QED BY <2>3, <1>4
<1>7. \A j \in 0..n : \A i \in 0..j : left[j] \subseteq left[i]
  <2> DEFINE Bad == {j \in 0..n : ~\A i \in 0..j : left[j] \subseteq left[i]}
  <2> SUFFICES ASSUME Bad # {} PROVE FALSE OBVIOUS
  <2>1. Bad \subseteq Nat BY <1>1
  <2>2. PICK m \in Bad : \A k \in Bad : m <= k
    <3> HIDE DEF Bad
    <3> QED BY <2>1, LeastNat
  <2>3. m # 0
    <3> SUFFICES ASSUME m = 0 PROVE FALSE OBVIOUS
    <3>1. \A i \in 0..0 : left[0] \subseteq left[i]
      <4>1. \A i \in 0..0 : i = 0 OBVIOUS
      <4> QED BY <4>1
    <3> QED BY <3>1, <2>2
  <2>4. m \in 1..n /\ m - 1 \in 0..n /\ m - 1 < m BY <2>2, <2>3, <1>1
  <2>5. \A i \in 0..(m - 1) : left[m - 1] \subseteq left[i] BY <2>2, <2>4
  <2>6. left[m] \subseteq left[m - 1] BY <1>6, <2>4
  <2>7. \A i \in 0..m : i = m \/ i \in 0..(m - 1) BY <2>4
  <2>8. \A i \in 0..m : left[m] \subseteq left[i] BY <2>5, <2>6, <2>7
  <2> QED BY <2>8, <2>2
<1>8. s \in [1..n -> rows]
  <2>1. \A i \in 1..n : s[i] \in rows
    <3>1. \A i \in 1..n : i - 1 \in 0..n BY <1>1
    <3> QED BY <3>1, <1>5, <1>3
  <2> QED BY <2>1, <1>4
<1>9. \A r \in rows : \E i \in 1..n : s[i] = r
  <2> SUFFICES ASSUME NEW r \in rows, \A i \in 1..n : s[i] # r PROVE FALSE OBVIOUS
  <2> DEFINE Bad == {j \in 0..n : r \notin left[j]}
  <2>1. Bad # {}
    <3>1. n \in 0..n BY <1>1
    <3>2. Cardinality(left[n]) = 0 /\ IsFiniteSet(left[n]) BY <1>3, <3>1, <1>1
    <3>3. left[n] = {} BY <3>2, FS_EmptySet
    <3> QED BY <3>1, <3>3
  <2>2. Bad \subseteq Nat BY <1>1
  <2>3. PICK m \in Bad : \A k \in Bad : m <= k
    <3> HIDE DEF Bad
    <3> QED BY <2>1, <2>2, LeastNat
  <2>4. left[0] = rows BY <1>1, <1>2
  <2>5. m # 0 BY <2>3, <2>4
  <2>6. m \in 1..n /\ m - 1 \in 0..n /\ m - 1 < m BY <2>3, <2>5, <1>1
  <2>7. r \in left[m - 1] BY <2>3, <2>6
  <2>8. left[m] = left[m - 1] \ {s[m]} /\ s[m] # r BY <1>6, <2>6
  <2> QED BY <2>7, <2>8, <2>3
<1>10. \A i, j \in 1..n : i < j => s[i] # s[j] /\ <<s[j], s[i]>> \notin before
  <2> SUFFICES ASSUME NEW i \in 1..n, NEW j \in 1..n, i < j
               PROVE s[i] # s[j] /\ <<s[j], s[i]>> \notin before
    OBVIOUS
  <2>1. i \in 0..(j - 1) /\ j - 1 \in 0..n /\ i - 1 \in 0..i /\ i \in 0..n BY <1>1
  <2>2. s[j] \in left[j - 1] BY <1>5
  <2>3. s[j] \in left[i] BY <1>7, <2>1, <2>2
  <2>4. s[j] \in left[i - 1] BY <1>7, <2>1, <2>3
  <2>5. left[i] = left[i - 1] \ {s[i]} BY <1>6
  <2> QED BY <2>3, <2>4, <2>5, <1>5
<1> QED BY <1>8, <1>9, <1>10 DEF Arranges, s

\* An order that relates any two rows leaves one arrangement of them.
LEMMA OneArrangement ==
  ASSUME NEW rows, IsFiniteSet(rows), NEW before,
         \A r, q \in rows : r # q => <<r, q>> \in before \/ <<q, r>> \in before,
         NEW s, Arranges(s, rows, before), NEW t, Arranges(t, rows, before)
  PROVE  s = t
<1> DEFINE n == Cardinality(rows)
           Bad == {i \in 1..n : s[i] # t[i]}
<1>1. n \in Nat BY FS_CardinalityType
<1>2. /\ s \in [1..n -> rows] /\ t \in [1..n -> rows]
      /\ \A r \in rows : \E i \in 1..n : s[i] = r
      /\ \A r \in rows : \E i \in 1..n : t[i] = r
      /\ \A i, j \in 1..n : i < j => s[i] # s[j] /\ <<s[j], s[i]>> \notin before
      /\ \A i, j \in 1..n : i < j => t[i] # t[j] /\ <<t[j], t[i]>> \notin before
  BY DEF Arranges
<1> HIDE DEF n
<1>3. Bad = {}
  <2> SUFFICES ASSUME Bad # {} PROVE FALSE OBVIOUS
  <2>1. Bad \subseteq Nat BY <1>1
  <2>2. PICK i \in Bad : \A k \in Bad : i <= k
    <3> HIDE DEF Bad
    <3> QED BY <2>1, LeastNat
  <2>3. i \in 1..n /\ s[i] # t[i] /\ s[i] \in rows /\ t[i] \in rows BY <2>2, <1>2
  <2>4. \A k \in 1..n : k < i => s[k] = t[k] BY <2>2, <2>3, <1>1
  <2>5. PICK j \in 1..n : t[j] = s[i] BY <1>2, <2>3
  <2>6. PICK k \in 1..n : s[k] = t[i] BY <1>2, <2>3
  <2>7. i < j
    <3> SUFFICES ASSUME j < i PROVE FALSE BY <2>3, <2>5, <1>1
    <3>1. s[j] = t[j] BY <2>4
    <3> QED BY <3>1, <2>5, <1>2, <2>3
  <2>8. i < k
    <3> SUFFICES ASSUME k < i PROVE FALSE BY <2>3, <2>6, <1>1
    <3>1. s[k] = t[k] BY <2>4
    <3> QED BY <3>1, <2>6, <1>2, <2>3
  <2>9. <<s[i], t[i]>> \notin before BY <2>7, <2>5, <1>2, <2>3
  <2>10. <<t[i], s[i]>> \notin before BY <2>8, <2>6, <1>2, <2>3
  <2> QED BY <2>3, <2>9, <2>10
<1>4. \A i \in 1..n : s[i] = t[i] BY <1>3
<1>5. s = [i \in 1..n |-> s[i]] /\ t = [i \in 1..n |-> t[i]] BY <1>2
<1>6. [i \in 1..n |-> s[i]] = [i \in 1..n |-> t[i]] BY <1>4
<1> QED BY <1>5, <1>6

Follows(ra, A, ka) == \A a, b \in A : ka[a] > ka[b] => <<a, b>> \in ra
Pairs(f, A, ka, B, kb) ==
  /\ f \in [A -> B]
  /\ \A a, b \in A : f[a] = f[b] => a = b
  /\ \A b \in B : \E a \in A : f[a] = b
  /\ \A a \in A : kb[f[a]] = ka[a]

\* Of two arrangements by keys that pair up, neither has a higher key at a place.
LEMMA KeysNotAbove ==
  ASSUME NEW A, IsFiniteSet(A), NEW B, IsFiniteSet(B), Cardinality(A) = Cardinality(B),
         NEW ka \in [A -> Int], NEW kb \in [B -> Int],
         NEW f, Pairs(f, A, ka, B, kb),
         NEW ra, Follows(ra, A, ka), NEW rb, Follows(rb, B, kb),
         NEW s, Arranges(s, A, ra), NEW t, Arranges(t, B, rb),
         NEW i \in 1..Cardinality(A)
  PROVE  ka[s[i]] <= kb[t[i]]
<1> DEFINE n == Cardinality(A)
<1>1. n \in Nat BY FS_CardinalityType
<1>2. /\ s \in [1..n -> A] /\ t \in [1..n -> B] /\ i \in 1..n
      /\ \A b \in B : \E k \in 1..n : t[k] = b
      /\ \A k, j \in 1..n : k < j => s[k] # s[j] /\ <<s[j], s[k]>> \notin ra
      /\ \A k, j \in 1..n : k < j => t[k] # t[j] /\ <<t[j], t[k]>> \notin rb
  BY DEF Arranges
<1> HIDE DEF n
<1>21. /\ f \in [A -> B] /\ \A a \in A : kb[f[a]] = ka[a]
       /\ \A a, b \in A : f[a] = f[b] => a = b
       /\ \A a, b \in A : ka[a] > ka[b] => <<a, b>> \in ra
       /\ \A a, b \in B : kb[a] > kb[b] => <<a, b>> \in rb
  BY DEF Pairs, Follows
<1>20. /\ \A k \in 1..n : s[k] \in A /\ t[k] \in B /\ ka[s[k]] \in Int /\ kb[t[k]] \in Int
       /\ \A a \in A : ka[a] \in Int /\ f[a] \in B
       /\ \A b \in B : kb[b] \in Int
  <2>1. \A k \in 1..n : s[k] \in A /\ t[k] \in B BY <1>2
  <2>2. \A a \in A : ka[a] \in Int /\ f[a] \in B BY <1>21
  <2>3. \A b \in B : kb[b] \in Int OBVIOUS
  <2> QED BY <2>1, <2>2, <2>3
<1> SUFFICES ASSUME ka[s[i]] > kb[t[i]] PROVE FALSE
  BY <1>2, <1>20
<1> DEFINE Up == {f[s[k]] : k \in 1..i}
           Below == {t[k] : k \in 1..(i - 1)}
<1>3. \A k \in 1..i : k \in 1..n BY <1>1, <1>2
<1>4. \A k \in 1..i : ka[s[k]] >= ka[s[i]]
  <2> SUFFICES ASSUME NEW k \in 1..i, ka[s[k]] < ka[s[i]] PROVE FALSE BY <1>2, <1>3, <1>20
  <2>0. k \in 1..n BY <1>3
  <2>1. k \in 1..n /\ k < i
    <3>1. k # i BY <1>2, <1>20
    <3> QED BY <3>1, <2>0, <1>2
  <2>2. <<s[i], s[k]>> \in ra
    <3>1. s[i] \in A /\ s[k] \in A /\ ka[s[i]] > ka[s[k]] BY <2>0, <1>2, <1>20
    <3> QED BY <3>1, <1>21
  <2> QED BY <2>1, <2>2, <1>2
<1>5. Up \subseteq Below
  <2> SUFFICES ASSUME NEW k \in 1..i PROVE f[s[k]] \in Below OBVIOUS
  <2>1. s[k] \in A /\ f[s[k]] \in B BY <1>2, <1>3, <1>21
  <2>2. kb[f[s[k]]] > kb[t[i]] 
    <3>1. k \in 1..n BY <1>3
    <3>2. ka[s[k]] >= ka[s[i]] BY <1>4
    <3>3. kb[f[s[k]]] = ka[s[k]] BY <2>1, <1>21
    <3> QED BY <3>1, <3>2, <3>3, <1>20, <1>2
  <2>3. PICK j \in 1..n : t[j] = f[s[k]] BY <1>2, <2>1
  <2>4. ~(i <= j)
    <3> SUFFICES ASSUME i <= j PROVE FALSE OBVIOUS
    <3>1. i # j BY <2>2, <2>3, <1>2, <1>20
    <3>2. i < j BY <3>1, <1>2
    <3>3. <<t[j], t[i]>> \in rb
      <4>1. t[j] \in B /\ t[i] \in B /\ kb[t[j]] > kb[t[i]] BY <2>2, <2>3, <1>2, <1>20
      <4> QED BY <4>1 DEF Follows
    <3> QED BY <3>2, <3>3, <1>2
  <2>5. j \in 1..(i - 1) BY <2>4, <1>1, <1>2
  <2> QED BY <2>3, <2>5
<1>6. IsFiniteSet(1..(i - 1)) /\ Cardinality(1..(i - 1)) = i - 1
  <2>1. 1 \in Int /\ i - 1 \in Int /\ 1 <= i BY <1>1, <1>2
  <2>2. IsFiniteSet(1..(i - 1)) /\ Cardinality(1..(i - 1)) = IF 1 > i - 1 THEN 0 ELSE (i - 1) - 1 + 1
    BY <2>1, FS_Interval
  <2> QED BY <2>1, <2>2
<1>7. IsFiniteSet(1..i) /\ Cardinality(1..i) = i
  <2>1. 1 \in Int /\ i \in Int /\ 1 <= i BY <1>2
  <2> QED BY <2>1, FS_Interval
<1>8. IsFiniteSet(Below) /\ Cardinality(Below) <= i - 1
  <2>1. [k \in 1..(i - 1) |-> t[k]] \in Surjection(1..(i - 1), Below) BY DEF Surjection
  <2> QED BY <2>1, <1>6, FS_Surjection
<1>9. Cardinality(Up) = i
  <2> DEFINE g == [k \in 1..i |-> f[s[k]]]
  <2>1. g \in [1..i -> Up] /\ \A u \in Up : \E k \in 1..i : g[k] = u OBVIOUS
  <2>2. \A k, j \in 1..i : g[k] = g[j] => k = j
    <3> SUFFICES ASSUME NEW k \in 1..i, NEW j \in 1..i, g[k] = g[j] PROVE k = j OBVIOUS
    <3>1. s[k] \in A /\ s[j] \in A /\ f[s[k]] = f[s[j]] BY <1>2, <1>3
    <3>2. s[k] = s[j] BY <3>1, <1>21
    <3>3. ~(k < j) /\ ~(j < k) BY <3>2, <1>2, <1>3
    <3> QED BY <3>3
  <2>3. g \in Surjection(1..i, Up) BY <2>1 DEF Surjection
  <2>4. IsFiniteSet(Up) /\ Cardinality(Up) <= i /\ (Cardinality(Up) = i <=> g \in Injection(1..i, Up))
    <3> HIDE DEF g, Up
    <3> QED BY <2>3, <1>7, FS_Surjection
  <2>5. g \in Injection(1..i, Up)
    <3> HIDE DEF g, Up
    <3> QED BY <2>1, <2>2 DEF Injection, IsInjective
  <2> QED BY <2>4, <2>5
<1>10. Cardinality(Up) <= Cardinality(Below) BY <1>5, <1>8, FS_Subset
<1>11. Cardinality(Below) \in Nat BY <1>8, FS_CardinalityType
<1> QED BY <1>8, <1>9, <1>10, <1>11, <1>2

\* Arrangements by keys that pair up show the same keys, whatever breaks ties.
LEMMA SameKeys ==
  ASSUME NEW A, IsFiniteSet(A), NEW B, IsFiniteSet(B),
         NEW ka \in [A -> Int], NEW kb \in [B -> Int],
         NEW f, Pairs(f, A, ka, B, kb),
         NEW ra, Follows(ra, A, ka), NEW rb, Follows(rb, B, kb),
         NEW s, Arranges(s, A, ra), NEW t, Arranges(t, B, rb)
  PROVE  /\ Cardinality(A) = Cardinality(B)
         /\ \A i \in 1..Cardinality(A) : ka[s[i]] = kb[t[i]]
<1> DEFINE g == [b \in B |-> CHOOSE a \in A : f[a] = b]
<1>0. /\ f \in [A -> B] /\ \A a, b \in A : f[a] = f[b] => a = b
      /\ \A b \in B : \E a \in A : f[a] = b
      /\ \A a \in A : kb[f[a]] = ka[a]
  BY DEF Pairs
<1>1. \A b \in B : g[b] \in A /\ f[g[b]] = b BY <1>0
<1>2. g \in [B -> A] BY <1>1
<1> HIDE DEF g
<1>3. Pairs(g, B, kb, A, ka)
  <2>1. \A b, c \in B : g[b] = g[c] => b = c BY <1>1
  <2>2. \A b \in B : ka[g[b]] = kb[b] BY <1>0, <1>1
  <2>3. \A a \in A : \E b \in B : g[b] = a
    <3> SUFFICES ASSUME NEW a \in A PROVE \E b \in B : g[b] = a OBVIOUS
    <3>1. f[a] \in B BY <1>0
    <3>2. g[f[a]] \in A /\ f[g[f[a]]] = f[a] BY <1>1, <3>1
    <3> QED BY <1>0, <3>1, <3>2
  <2> QED BY <1>2, <2>1, <2>2, <2>3 DEF Pairs
<1>5. Cardinality(A) = Cardinality(B)
  <2>1. f \in Surjection(A, B) BY <1>0 DEF Surjection
  <2>2. f \in Injection(A, B) BY <1>0 DEF Injection, IsInjective
  <2> QED BY <2>1, <2>2, FS_Surjection
<1>6. \A i \in 1..Cardinality(A) : ka[s[i]] <= kb[t[i]]
  BY <1>5, KeysNotAbove
<1>7. \A i \in 1..Cardinality(B) : kb[t[i]] <= ka[s[i]]
  BY <1>3, <1>5, KeysNotAbove
<1>8. \A i \in 1..Cardinality(A) : ka[s[i]] \in Int /\ kb[t[i]] \in Int
  <2>1. \A i \in 1..Cardinality(A) : s[i] \in A /\ t[i] \in B BY <1>5 DEF Arranges
  <2> QED BY <2>1
<1> QED BY <1>5, <1>6, <1>7, <1>8

(* The first messages or rows of a list, up to a limit. *)
Begins(q, s, n, limit) == q = [i \in 1..(IF n > limit THEN limit ELSE n) |-> s[i]]

\* Prefix as a function of its places.
LEMMA PrefixBegins ==
  ASSUME NEW n \in Nat, NEW X, NEW s \in [1..n -> X], NEW limit \in Nat
  PROVE  Begins(Prefix(s, limit), s, n, limit)
<1>1. s \in Seq(X) /\ Len(s) = n
  <2>1. Len(s) = n /\ s \in Seq(X) OBVIOUS
  <2> QED BY <2>1
<1>2. PICK m : m = IF n > limit THEN limit ELSE n OBVIOUS
<1>3. m \in 0..n BY <1>2
<1>4. Prefix(s, limit) = SubSeq(s, 1, m) BY <1>1, <1>2 DEF Prefix
<1>5. SubSeq(s, 1, m) = [i \in 1..m |-> s[i]] BY <1>1, <1>3
<1> QED BY <1>2, <1>4, <1>5 DEF Begins

\* The beginning of an arrangement shows rows of it.
LEMMA PrefixesShow ==
  ASSUME NEW rows, IsFiniteSet(rows), NEW before, NEW s, Arranges(s, rows, before), NEW limit \in Nat
  PROVE  /\ Prefix(s, limit) = [i \in 1..(IF Cardinality(rows) > limit THEN limit ELSE Cardinality(rows)) |-> s[i]]
         /\ \A i \in 1..(IF Cardinality(rows) > limit THEN limit ELSE Cardinality(rows)) : s[i] \in rows
<1>1. Cardinality(rows) \in Nat BY FS_CardinalityType
<1>2. s \in [1..Cardinality(rows) -> rows] BY DEF Arranges
<1>3. Prefix(s, limit) = [i \in 1..(IF Cardinality(rows) > limit THEN limit ELSE Cardinality(rows)) |-> s[i]]
  <2>1. Begins(Prefix(s, limit), s, Cardinality(rows), limit) BY <1>1, <1>2, PrefixBegins
  <2> QED BY <2>1 DEF Begins
<1> QED BY <1>1, <1>2, <1>3

\* Where the distances rank the rows as the cosines do, they come in one order.
LEMMA DistanceSorts ==
  ASSUME NEW rows, RankedAlike(rows)
  PROVE  ByDistance(rows) = Nearest(rows)
<1> DEFINE close == {p \in rows \X rows : p[1].close > p[2].close}
           near == {p \in rows \X rows : p[1].near > p[2].near}
<1>1. \A p \in rows \X rows : p[1].close > p[2].close <=> p[1].near > p[2].near
  BY DEF RankedAlike
<1>2. close = near BY <1>1
<1>3. ByDistance(rows) = Sorted(rows, close) /\ Nearest(rows) = Sorted(rows, near)
  BY DEF ByDistance, Nearest
<1> HIDE DEF close, near
<1> QED BY <1>2, <1>3


-----------------------------------------------------------------------------
(* The tables of the SQL variants hold what the maps of memory hold: the    *)
(* documents and sessions by their ids, the files and the logs.  Every      *)
(* insert took a tick of its own, so times tell the rows of a table apart.  *)
ImageOf(f) == {f[x] : x \in DOMAIN f}
ByOwnTime(f) == \A x, y \in DOMAIN f : f[x].at = f[y].at => x = y
DocsInv ==
  /\ IsFiniteSet(DOMAIN memoryRepo.docs)
  /\ \A d \in DOMAIN memoryRepo.docs :
       LET doc == memoryRepo.docs[d]
       IN  doc.id = d /\ doc.at \in Nat /\ doc.at < docTime
  /\ ByOwnTime(memoryRepo.docs)
  /\ sqliteRepo.docs = ImageOf(memoryRepo.docs)
  /\ postgresRepo.docs = ImageOf(memoryRepo.docs)
FilesInv ==
  /\ DOMAIN memoryRepo.files \subseteq DOMAIN memoryRepo.docs
  /\ \A d \in DOMAIN memoryRepo.files : memoryRepo.files[d].doc = d
  /\ sqliteRepo.files = ImageOf(memoryRepo.files)
  /\ postgresRepo.files = ImageOf(memoryRepo.files)

(* The chunks of a document in memory, in their order: those of an earlier  *)
(* job first, those of one job by their index.                              *)
ChunkRow(d, c) == [doc |-> d, index |-> c.index, near |-> c.near, close |-> c.close, at |-> c.at]
Chunk == [index : Nat, near : Nat, close : Nat, at : Nat]
Embedding == [near : Nat, close : Nat]
InOrder(chunks) ==
  \A i, j \in DOMAIN chunks :
    i < j => \/ chunks[i].at < chunks[j].at
             \/ chunks[i].at = chunks[j].at /\ chunks[i].index < chunks[j].index
RowsOf(C) == UNION {{ChunkRow(d, C[d][i]) : i \in DOMAIN C[d]} : d \in DOMAIN C}
ChunksInv ==
  LET C == memoryRepo.chunks
  IN  /\ DOMAIN C \subseteq DOMAIN memoryRepo.docs
      /\ \A d \in DOMAIN C :
           /\ C[d] \in Seq(Chunk) /\ InOrder(C[d])
           /\ \A i \in DOMAIN C[d] : C[d][i].at < docTime
      /\ postgresRepo.chunks = RowsOf(C)
      /\ refused = {} => sqliteRepo.chunks = postgresRepo.chunks

SessionsInv ==
  /\ IsFiniteSet(DOMAIN memoryRepo.sessions)
  /\ \A s \in DOMAIN memoryRepo.sessions :
       LET session == memoryRepo.sessions[s]
       IN  session.id = s /\ session.at \in Nat /\ session.at < docTime
  /\ ByOwnTime(memoryRepo.sessions)
  /\ sqliteRepo.sessions = ImageOf(memoryRepo.sessions)
  /\ postgresRepo.sessions = ImageOf(memoryRepo.sessions)
LogOf(s) == [session : {s}, at : Nat]
LogRowsOf(L) == UNION {ImageOf(L[s]) : s \in DOMAIN L}
LogsInv ==
  LET L == memoryRepo.logs
  IN  /\ DOMAIN L \subseteq DOMAIN memoryRepo.sessions
      /\ \A s \in DOMAIN L :
           /\ L[s] \in Seq(LogOf(s))
           /\ \A i \in DOMAIN L[s] : L[s][i].at < docTime
           /\ \A i, j \in DOMAIN L[s] : i < j => L[s][i].at < L[s][j].at
      /\ sqliteRepo.logs = LogRowsOf(L)
      /\ postgresRepo.logs = sqliteRepo.logs

HasTables(db) == {"docs", "files", "chunks", "sessions", "logs"} \subseteq DOMAIN db
DocStoresInv ==
  /\ docTime \in Nat
  /\ HasTables(memoryRepo) /\ HasTables(sqliteRepo) /\ HasTables(postgresRepo)
  /\ DocsInv /\ FilesInv /\ ChunksInv /\ SessionsInv /\ LogsInv

(* What an insert, a Put and an update of one table do to it and leave.     *)
OnlyTable(db2, db, t) == DOMAIN db2 = DOMAIN db /\ \A x \in DOMAIN db \ {t} : db2[x] = db[x]

\* An update of one table gives it its rows and leaves the others.
LEMMA TableSet ==
  ASSUME NEW db, NEW t \in DOMAIN db, NEW e
  PROVE  OnlyTable([db EXCEPT ![t] = e], db, t) /\ [db EXCEPT ![t] = e][t] = e
BY DEF OnlyTable

\* An element of a sequence is one of its set.
LEMMA ElementOfSeq ==
  ASSUME NEW S, NEW s \in Seq(S), NEW i \in DOMAIN s
  PROVE  s[i] \in S /\ i \in 1..Len(s)
OBVIOUS

\* A step that leaves the documents keeps what holds of them.
LEMMA DocsStay ==
  ASSUME DocsInv, docTime \in Nat, docTime' \in Nat, docTime <= docTime',
         memoryRepo'.docs = memoryRepo.docs, sqliteRepo'.docs = sqliteRepo.docs,
         postgresRepo'.docs = postgresRepo.docs
  PROVE  DocsInv'
<1>1. \A d \in DOMAIN memoryRepo.docs : memoryRepo.docs[d].at < docTime'
  BY DEF DocsInv
<1> QED BY <1>1 DEF DocsInv

\* A step that leaves the files keeps what holds of them.
LEMMA FilesStay ==
  ASSUME FilesInv, DOMAIN memoryRepo.docs \subseteq DOMAIN memoryRepo'.docs,
         memoryRepo'.files = memoryRepo.files, sqliteRepo'.files = sqliteRepo.files,
         postgresRepo'.files = postgresRepo.files
  PROVE  FilesInv'
BY DEF FilesInv

\* A step that leaves the chunks keeps what holds of them.
LEMMA ChunksStay ==
  ASSUME ChunksInv, docTime \in Nat, docTime' \in Nat, docTime <= docTime',
         DOMAIN memoryRepo.docs \subseteq DOMAIN memoryRepo'.docs,
         memoryRepo'.chunks = memoryRepo.chunks, sqliteRepo'.chunks = sqliteRepo.chunks,
         postgresRepo'.chunks = postgresRepo.chunks, refused' = refused
  PROVE  ChunksInv'
<1>1. \A d \in DOMAIN memoryRepo.chunks : \A i \in DOMAIN memoryRepo.chunks[d] :
        memoryRepo.chunks[d][i].at < docTime'
  <2> SUFFICES ASSUME NEW d \in DOMAIN memoryRepo.chunks, NEW i \in DOMAIN memoryRepo.chunks[d]
               PROVE memoryRepo.chunks[d][i].at < docTime'
    OBVIOUS
  <2>1. memoryRepo.chunks[d] \in Seq(Chunk) /\ memoryRepo.chunks[d][i].at < docTime BY DEF ChunksInv
  <2>2. memoryRepo.chunks[d][i].at \in Nat
    <3>1. PICK c : c = memoryRepo.chunks[d] OBVIOUS
    <3>2. c \in Seq(Chunk) /\ i \in DOMAIN c BY <2>1, <3>1
    <3>3. c[i] \in Chunk BY <3>2, ElementOfSeq
    <3> QED BY <3>1, <3>3 DEF Chunk
  <2> QED BY <2>1, <2>2
<1> QED BY <1>1 DEF ChunksInv

\* A step that leaves the sessions keeps what holds of them.
LEMMA SessionsStay ==
  ASSUME SessionsInv, docTime \in Nat, docTime' \in Nat, docTime <= docTime',
         memoryRepo'.sessions = memoryRepo.sessions, sqliteRepo'.sessions = sqliteRepo.sessions,
         postgresRepo'.sessions = postgresRepo.sessions
  PROVE  SessionsInv'
<1>1. \A s \in DOMAIN memoryRepo.sessions : memoryRepo.sessions[s].at < docTime'
  BY DEF SessionsInv
<1> QED BY <1>1 DEF SessionsInv

\* A step that leaves the logs keeps what holds of them.
LEMMA LogsStay ==
  ASSUME LogsInv, docTime \in Nat, docTime' \in Nat, docTime <= docTime',
         DOMAIN memoryRepo.sessions \subseteq DOMAIN memoryRepo'.sessions,
         memoryRepo'.logs = memoryRepo.logs, sqliteRepo'.logs = sqliteRepo.logs,
         postgresRepo'.logs = postgresRepo.logs
  PROVE  LogsInv'
<1>1. \A s \in DOMAIN memoryRepo.logs : \A i \in DOMAIN memoryRepo.logs[s] :
        memoryRepo.logs[s][i].at < docTime'
  <2> SUFFICES ASSUME NEW s \in DOMAIN memoryRepo.logs, NEW i \in DOMAIN memoryRepo.logs[s]
               PROVE memoryRepo.logs[s][i].at < docTime'
    OBVIOUS
  <2>1. memoryRepo.logs[s] \in Seq(LogOf(s)) /\ memoryRepo.logs[s][i].at < docTime
    BY DEF LogsInv
  <2>2. memoryRepo.logs[s][i].at \in Nat
    <3>1. PICK c : c = memoryRepo.logs[s] OBVIOUS
    <3>2. c \in Seq(LogOf(s)) /\ i \in DOMAIN c BY <2>1, <3>1
    <3>3. c[i] \in LogOf(s) BY <3>2, ElementOfSeq
    <3> QED BY <3>1, <3>3 DEF LogOf
  <2> QED BY <2>1, <2>2
<1> QED BY <1>1 DEF LogsInv

Ticked == docTime \in Nat /\ docTime' \in Nat /\ docTime <= docTime'

\* Empty maps are like empty tables.
LEMMA InitDocStoresInv == DocInit => DocStoresInv
<1> SUFFICES ASSUME DocInit PROVE DocStoresInv OBVIOUS
<1>1. /\ memoryRepo = [t \in {"docs", "files", "chunks", "sessions", "logs"} |-> << >>]
      /\ sqliteRepo = [docs |-> {}, files |-> {}, chunks |-> {}, sessions |-> {}, logs |-> {}]
      /\ postgresRepo = sqliteRepo /\ docTime = 0 /\ refused = {}
  BY DEF DocInit, Tables
<1>2. /\ memoryRepo.docs = << >> /\ memoryRepo.files = << >> /\ memoryRepo.chunks = << >>
      /\ memoryRepo.sessions = << >> /\ memoryRepo.logs = << >>
      /\ sqliteRepo.docs = {} /\ sqliteRepo.files = {} /\ sqliteRepo.chunks = {}
      /\ sqliteRepo.sessions = {} /\ sqliteRepo.logs = {}
  BY <1>1
<1>3. HasTables(memoryRepo) /\ HasTables(sqliteRepo) /\ HasTables(postgresRepo) /\ docTime \in Nat
  BY <1>1 DEF HasTables
<1>4. DOMAIN << >> = {} /\ IsFiniteSet({}) /\ ImageOf(<< >>) = {} BY FS_EmptySet DEF ImageOf
<1>5. DocsInv BY <1>1, <1>2, <1>4 DEF DocsInv, ByOwnTime
<1>6. FilesInv BY <1>1, <1>2, <1>4 DEF FilesInv
<1>7. ChunksInv
  <2>1. RowsOf(<< >>) = {} BY <1>4 DEF RowsOf
  <2> QED BY <1>1, <1>2, <1>4, <2>1 DEF ChunksInv
<1>8. SessionsInv BY <1>1, <1>2, <1>4 DEF SessionsInv, ByOwnTime
<1>9. LogsInv
  <2>1. LogRowsOf(<< >>) = {} BY <1>4 DEF LogRowsOf
  <2> QED BY <1>1, <1>2, <1>4, <2>1 DEF LogsInv
<1> QED BY <1>3, <1>5, <1>6, <1>7, <1>8, <1>9 DEF DocStoresInv

\* A document of a new id goes into every variant.
LEMMA CreateDocKeeps ==
  ASSUME DocStoresInv, NEW d, NEW u, CreateDoc(d, u), docTime' = docTime + 1
  PROVE  DocStoresInv'
<1> DEFINE doc == [id |-> d, user |-> u, status |-> "pending", at |-> docTime]
           D == memoryRepo.docs
<1>1. /\ d \notin DOMAIN D /\ refused' = refused
      /\ memoryRepo' = [memoryRepo EXCEPT !.docs = Put(D, d, doc)]
      /\ sqliteRepo' = Insert(sqliteRepo, "docs", doc, {{"id"}}, TRUE)
      /\ postgresRepo' = Insert(postgresRepo, "docs", doc, {{"id"}}, TRUE)
  BY DEF CreateDoc, MemoryCreateDoc, SqliteCreateDoc, PostgresCreateDoc
<1>2. "docs" \in DOMAIN memoryRepo /\ "docs" \in DOMAIN sqliteRepo /\ "docs" \in DOMAIN postgresRepo
  BY DEF DocStoresInv, HasTables
<1>3. sqliteRepo.docs = ImageOf(D) /\ postgresRepo.docs = ImageOf(D) /\ docTime \in Nat
  BY DEF DocStoresInv, DocsInv
<1>4. ~Clashes(ImageOf(D), doc, {{"id"}})
  <2> SUFFICES ASSUME NEW x \in DOMAIN D, D[x].id = doc.id PROVE FALSE BY DEF Clashes, ImageOf
  <2>1. D[x].id = x BY DEF DocStoresInv, DocsInv
  <2> QED BY <1>1, <2>1
<1> HIDE DEF doc
<1>5. OnlyTable(memoryRepo', memoryRepo, "docs") /\ memoryRepo'.docs = Put(D, d, doc)
  BY <1>1, <1>2, TableSet
<1>6. OnlyTable(sqliteRepo', sqliteRepo, "docs") /\ sqliteRepo'.docs = ImageOf(D) \cup {doc}
  <2>1. sqliteRepo' = [sqliteRepo EXCEPT !.docs = ImageOf(D) \cup {doc}] BY <1>1, <1>3, <1>4 DEF Insert
  <2> QED BY <2>1, <1>2, TableSet
<1>7. OnlyTable(postgresRepo', postgresRepo, "docs") /\ postgresRepo'.docs = ImageOf(D) \cup {doc}
  <2>1. postgresRepo' = [postgresRepo EXCEPT !.docs = ImageOf(D) \cup {doc}] BY <1>1, <1>3, <1>4 DEF Insert
  <2> QED BY <2>1, <1>2, TableSet
<1>8. /\ DOMAIN memoryRepo'.docs = DOMAIN D \cup {d} /\ memoryRepo'.docs[d] = doc
      /\ \A x \in DOMAIN D : memoryRepo'.docs[x] = D[x]
      /\ ImageOf(memoryRepo'.docs) = ImageOf(D) \cup {doc}
  <2>1. PICK f, g : f = D /\ g = memoryRepo'.docs OBVIOUS
  <2>2. g = Put(f, d, doc) /\ d \notin DOMAIN f BY <1>1, <1>5, <2>1
  <2>3. DOMAIN g = DOMAIN f \cup {d} /\ g[d] = doc /\ \A x \in DOMAIN f : g[x] = f[x]
    BY <2>2 DEF Put
  <2>4. ImageOf(g) = ImageOf(f) \cup {doc} BY <2>2, <2>3 DEF ImageOf
  <2> QED BY <2>1, <2>3, <2>4
<1>9. DocsInv'
  <2>1. IsFiniteSet(DOMAIN D \cup {d}) BY FS_AddElement DEF DocStoresInv, DocsInv
  <2>2. doc.id = d /\ doc.at = docTime BY DEF doc
  <2>3. \A x \in DOMAIN D : D[x].id = x /\ D[x].at \in Nat /\ D[x].at < docTime
    BY DEF DocStoresInv, DocsInv
  <2>4. \A x \in DOMAIN memoryRepo'.docs :
          LET r == memoryRepo'.docs[x]
          IN  r.id = x /\ r.at \in Nat /\ r.at < docTime'
    BY <1>3, <1>8, <2>2, <2>3
  <2>5. ByOwnTime(memoryRepo'.docs)
    BY <1>3, <1>8, <2>2, <2>3 DEF ByOwnTime, DocStoresInv, DocsInv
  <2> QED BY <1>6, <1>7, <1>8, <2>1, <2>4, <2>5 DEF DocsInv
<1>10. Ticked BY <1>3 DEF Ticked
<1>11. /\ memoryRepo'.files = memoryRepo.files /\ memoryRepo'.chunks = memoryRepo.chunks
       /\ memoryRepo'.sessions = memoryRepo.sessions /\ memoryRepo'.logs = memoryRepo.logs
       /\ sqliteRepo'.files = sqliteRepo.files /\ sqliteRepo'.chunks = sqliteRepo.chunks
       /\ sqliteRepo'.sessions = sqliteRepo.sessions /\ sqliteRepo'.logs = sqliteRepo.logs
       /\ postgresRepo'.files = postgresRepo.files /\ postgresRepo'.chunks = postgresRepo.chunks
       /\ postgresRepo'.sessions = postgresRepo.sessions /\ postgresRepo'.logs = postgresRepo.logs
  BY <1>5, <1>6, <1>7 DEF OnlyTable, DocStoresInv, HasTables
<1>12. FilesInv' BY <1>8, <1>11, FilesStay DEF DocStoresInv
<1>13. ChunksInv' BY <1>1, <1>8, <1>10, <1>11, ChunksStay DEF DocStoresInv, Ticked
<1>14. SessionsInv' BY <1>10, <1>11, SessionsStay DEF DocStoresInv, Ticked
<1>15. LogsInv' BY <1>10, <1>11, LogsStay DEF DocStoresInv, Ticked
<1>16. HasTables(memoryRepo') /\ HasTables(sqliteRepo') /\ HasTables(postgresRepo')
  BY <1>5, <1>6, <1>7 DEF OnlyTable, DocStoresInv, HasTables
<1>17. HasTables(memoryRepo)' /\ HasTables(sqliteRepo)' /\ HasTables(postgresRepo)' /\ (docTime \in Nat)'
  BY <1>16, <1>10 DEF HasTables, Ticked
<1> QED BY <1>9, <1>12, <1>13, <1>14, <1>15, <1>17 DEF DocStoresInv

\* The one file of a document goes into every variant.
LEMMA CreateFileKeeps ==
  ASSUME DocStoresInv, NEW d, CreateFile(d), docTime' = docTime + 1
  PROVE  DocStoresInv'
<1> DEFINE file == [doc |-> d, at |-> docTime]
           D == memoryRepo.docs
           F == memoryRepo.files
<1>1. /\ d \in DOMAIN D /\ d \notin DOMAIN F /\ refused' = refused
      /\ memoryRepo' = [memoryRepo EXCEPT !.files = Put(F, d, file)]
      /\ sqliteRepo' = Insert(sqliteRepo, "files", file, {{"doc"}}, HasDoc(sqliteRepo, d))
      /\ postgresRepo' = Insert(postgresRepo, "files", file, {}, HasDoc(postgresRepo, d))
  BY DEF CreateFile, MemoryCreateFile, SqliteCreateFile, PostgresCreateFile
<1>2. "files" \in DOMAIN memoryRepo /\ "files" \in DOMAIN sqliteRepo /\ "files" \in DOMAIN postgresRepo
  BY DEF DocStoresInv, HasTables
<1>3. /\ sqliteRepo.files = ImageOf(F) /\ postgresRepo.files = ImageOf(F) /\ docTime \in Nat
      /\ \A x \in DOMAIN F : F[x].doc = x
  BY DEF DocStoresInv, FilesInv
<1>4. ~Clashes(ImageOf(F), file, {{"doc"}}) /\ ~Clashes(ImageOf(F), file, {})
  <2> SUFFICES ASSUME NEW x \in DOMAIN F, F[x].doc = file.doc PROVE FALSE BY DEF Clashes, ImageOf
  <2>1. F[x].doc = x BY <1>3
  <2> QED BY <1>1, <2>1
<1>5. HasDoc(sqliteRepo, d) /\ HasDoc(postgresRepo, d)
  <2>1. D[d] \in ImageOf(D) /\ D[d].id = d BY <1>1 DEF ImageOf, DocStoresInv, DocsInv
  <2> QED BY <2>1 DEF HasDoc, DocStoresInv, DocsInv
<1> HIDE DEF file
<1>6. OnlyTable(memoryRepo', memoryRepo, "files") /\ memoryRepo'.files = Put(F, d, file)
  BY <1>1, <1>2, TableSet
<1>7. OnlyTable(sqliteRepo', sqliteRepo, "files") /\ sqliteRepo'.files = ImageOf(F) \cup {file}
  <2>1. sqliteRepo' = [sqliteRepo EXCEPT !.files = ImageOf(F) \cup {file}]
    BY <1>1, <1>3, <1>4, <1>5 DEF Insert
  <2> QED BY <2>1, <1>2, TableSet
<1>8. OnlyTable(postgresRepo', postgresRepo, "files") /\ postgresRepo'.files = ImageOf(F) \cup {file}
  <2>1. postgresRepo' = [postgresRepo EXCEPT !.files = ImageOf(F) \cup {file}]
    BY <1>1, <1>3, <1>4, <1>5 DEF Insert
  <2> QED BY <2>1, <1>2, TableSet
<1>9. /\ memoryRepo'.docs = D /\ memoryRepo'.chunks = memoryRepo.chunks
      /\ memoryRepo'.sessions = memoryRepo.sessions /\ memoryRepo'.logs = memoryRepo.logs
      /\ sqliteRepo'.docs = sqliteRepo.docs /\ sqliteRepo'.chunks = sqliteRepo.chunks
      /\ sqliteRepo'.sessions = sqliteRepo.sessions /\ sqliteRepo'.logs = sqliteRepo.logs
      /\ postgresRepo'.docs = postgresRepo.docs /\ postgresRepo'.chunks = postgresRepo.chunks
      /\ postgresRepo'.sessions = postgresRepo.sessions /\ postgresRepo'.logs = postgresRepo.logs
  BY <1>6, <1>7, <1>8 DEF OnlyTable, DocStoresInv, HasTables
<1>10. FilesInv'
  <2>1. PICK f, g : f = F /\ g = memoryRepo'.files OBVIOUS
  <2>2. g = Put(f, d, file) /\ d \notin DOMAIN f BY <1>1, <1>6, <2>1
  <2>3. DOMAIN g = DOMAIN f \cup {d} /\ g[d] = file /\ \A x \in DOMAIN f : g[x] = f[x]
    BY <2>2 DEF Put
  <2>4. ImageOf(g) = ImageOf(f) \cup {file} BY <2>2, <2>3 DEF ImageOf
  <2>5. \A x \in DOMAIN g : g[x].doc = x BY <1>3, <2>1, <2>3 DEF file
  <2>6. DOMAIN F \subseteq DOMAIN D BY DEF DocStoresInv, FilesInv
  <2>7. DOMAIN memoryRepo'.files \subseteq DOMAIN memoryRepo'.docs BY <1>1, <1>9, <2>1, <2>3, <2>6
  <2>8. sqliteRepo'.files = ImageOf(memoryRepo'.files) /\ postgresRepo'.files = ImageOf(memoryRepo'.files)
    BY <1>7, <1>8, <2>1, <2>4
  <2> QED BY <2>1, <2>5, <2>7, <2>8 DEF FilesInv
<1>11. Ticked BY <1>3 DEF Ticked
<1>12. DocsInv' BY <1>9, <1>11, DocsStay DEF DocStoresInv, Ticked
<1>13. ChunksInv' BY <1>1, <1>9, <1>11, ChunksStay DEF DocStoresInv, Ticked
<1>14. SessionsInv' BY <1>9, <1>11, SessionsStay DEF DocStoresInv, Ticked
<1>15. LogsInv' BY <1>9, <1>11, LogsStay DEF DocStoresInv, Ticked
<1>16. HasTables(memoryRepo)' /\ HasTables(sqliteRepo)' /\ HasTables(postgresRepo)' /\ (docTime \in Nat)'
  BY <1>6, <1>7, <1>8, <1>11 DEF OnlyTable, DocStoresInv, HasTables, Ticked
<1> QED BY <1>10, <1>12, <1>13, <1>14, <1>15, <1>16 DEF DocStoresInv

\* A status changes in the map and in the rows of that id.
LEMMA UpdateStatusKeeps ==
  ASSUME DocStoresInv, NEW d, NEW st, UpdateStatus(d, st), docTime' = docTime
  PROVE  DocStoresInv'
<1> DEFINE D == memoryRepo.docs
           E == [D EXCEPT ![d].status = st]
<1>1. d \in DOMAIN D /\ refused' = refused
  BY DEF UpdateStatus, DocStoresInv, FilesInv
<1>2. /\ memoryRepo' = [memoryRepo EXCEPT !.docs = E]
      /\ sqliteRepo' = [sqliteRepo EXCEPT !.docs = WithStatus(sqliteRepo.docs, d, st)]
      /\ postgresRepo' = [postgresRepo EXCEPT !.docs = WithStatus(postgresRepo.docs, d, st)]
  <2>1. memoryRepo' = MemoryUpdateStatus(memoryRepo, d, st) BY DEF UpdateStatus
  <2>2. memoryRepo' = [memoryRepo EXCEPT !.docs[d].status = st] BY <1>1, <2>1 DEF MemoryUpdateStatus
  <2>3. memoryRepo' = [memoryRepo EXCEPT !.docs = E] BY <2>2
  <2> QED BY <2>3 DEF UpdateStatus, SqliteUpdateStatus, PostgresUpdateStatus
<1>3. "docs" \in DOMAIN memoryRepo /\ "docs" \in DOMAIN sqliteRepo /\ "docs" \in DOMAIN postgresRepo
  BY DEF DocStoresInv, HasTables
<1>4. /\ sqliteRepo.docs = ImageOf(D) /\ postgresRepo.docs = ImageOf(D) /\ docTime \in Nat
      /\ \A x \in DOMAIN D : D[x].id = x /\ D[x].at \in Nat /\ D[x].at < docTime
      /\ ByOwnTime(D) /\ IsFiniteSet(DOMAIN D)
  BY DEF DocStoresInv, DocsInv
<1>5. DOMAIN E = DOMAIN D /\ E[d] = [D[d] EXCEPT !.status = st] /\ \A x \in DOMAIN D \ {d} : E[x] = D[x]
  BY <1>1
<1>6. E[d].id = D[d].id /\ E[d].at = D[d].at BY <1>5
<1> HIDE DEF E
<1>7. ImageOf(E) = WithStatus(ImageOf(D), d, st)
  <2> DEFINE Set(r) == IF r.id = d THEN [r EXCEPT !.status = st] ELSE r
  <2>1. \A x \in DOMAIN D : Set(D[x]) = E[x] BY <1>4, <1>5
  <2>2. WithStatus(ImageOf(D), d, st) = {Set(r) : r \in ImageOf(D)} BY DEF WithStatus
  <2> HIDE DEF Set
  <2> QED BY <1>5, <2>1, <2>2 DEF ImageOf
<1>8. OnlyTable(memoryRepo', memoryRepo, "docs") /\ memoryRepo'.docs = E
  BY <1>2, <1>3, TableSet
<1>9. OnlyTable(sqliteRepo', sqliteRepo, "docs") /\ sqliteRepo'.docs = ImageOf(E)
  <2>1. PICK e : e = ImageOf(E) OBVIOUS
  <2>2. sqliteRepo' = [sqliteRepo EXCEPT !.docs = e] BY <1>2, <1>4, <1>7, <2>1
  <2> QED BY <2>1, <2>2, <1>3, TableSet
<1>10. OnlyTable(postgresRepo', postgresRepo, "docs") /\ postgresRepo'.docs = ImageOf(E)
  <2>1. PICK e : e = ImageOf(E) OBVIOUS
  <2>2. postgresRepo' = [postgresRepo EXCEPT !.docs = e] BY <1>2, <1>4, <1>7, <2>1
  <2> QED BY <2>1, <2>2, <1>3, TableSet
<1>11. DocsInv'
  <2>1. \A x \in DOMAIN E : E[x].id = x /\ E[x].at \in Nat /\ E[x].at < docTime' BY <1>1, <1>4, <1>5, <1>6
  <2>2. ByOwnTime(E)
    <3>1. \A x \in DOMAIN D : E[x].at = D[x].at BY <1>5, <1>6
    <3> QED BY <1>4, <1>5, <3>1 DEF ByOwnTime
  <2> QED BY <1>4, <1>5, <1>8, <1>9, <1>10, <2>1, <2>2 DEF DocsInv
<1>12. Ticked BY <1>4 DEF Ticked
<1>13. /\ memoryRepo'.files = memoryRepo.files /\ memoryRepo'.chunks = memoryRepo.chunks
       /\ memoryRepo'.sessions = memoryRepo.sessions /\ memoryRepo'.logs = memoryRepo.logs
       /\ sqliteRepo'.files = sqliteRepo.files /\ sqliteRepo'.chunks = sqliteRepo.chunks
       /\ sqliteRepo'.sessions = sqliteRepo.sessions /\ sqliteRepo'.logs = sqliteRepo.logs
       /\ postgresRepo'.files = postgresRepo.files /\ postgresRepo'.chunks = postgresRepo.chunks
       /\ postgresRepo'.sessions = postgresRepo.sessions /\ postgresRepo'.logs = postgresRepo.logs
       /\ DOMAIN memoryRepo.docs \subseteq DOMAIN memoryRepo'.docs
  BY <1>5, <1>8, <1>9, <1>10 DEF OnlyTable, DocStoresInv, HasTables
<1>14. FilesInv' BY <1>13, FilesStay DEF DocStoresInv
<1>15. ChunksInv' BY <1>1, <1>12, <1>13, ChunksStay DEF DocStoresInv, Ticked
<1>16. SessionsInv' BY <1>12, <1>13, SessionsStay DEF DocStoresInv, Ticked
<1>17. LogsInv' BY <1>12, <1>13, LogsStay DEF DocStoresInv, Ticked
<1>18. HasTables(memoryRepo)' /\ HasTables(sqliteRepo)' /\ HasTables(postgresRepo)' /\ (docTime \in Nat)'
  BY <1>8, <1>9, <1>10, <1>12 DEF OnlyTable, DocStoresInv, HasTables, Ticked
<1> QED BY <1>11, <1>14, <1>15, <1>16, <1>17, <1>18 DEF DocStoresInv

\* A row of the chunks is that of a place in a document.
LEMMA RowOfSome ==
  ASSUME NEW C, NEW r
  PROVE  r \in RowsOf(C) <=> \E d \in DOMAIN C : \E i \in DOMAIN C[d] : r = ChunkRow(d, C[d][i])
<1> DEFINE of(d) == {ChunkRow(d, C[d][i]) : i \in DOMAIN C[d]}
<1>1. RowsOf(C) = UNION {of(d) : d \in DOMAIN C} BY DEF RowsOf
<1>2. \A d : r \in of(d) <=> \E i \in DOMAIN C[d] : r = ChunkRow(d, C[d][i]) OBVIOUS
<1> HIDE DEF of
<1> QED BY <1>1, <1>2

(* A batch behind the chunks a document has keeps their order.              *)
Behind(n, m, time, old, batch, all) ==
  /\ DOMAIN old = 1..n /\ DOMAIN batch = 1..m /\ DOMAIN all = 1..(n + m)
  /\ \A i \in 1..n : all[i] = old[i] /\ old[i].at \in Nat /\ old[i].at < time
  /\ \A i \in 1..m : all[n + i] = batch[i] /\ batch[i].at = time /\ batch[i].index = i

Joined(time, old, batch, all) ==
  /\ InOrder(all)
  /\ \A i \in DOMAIN all : all[i].at < time + 1
  /\ {all[i] : i \in DOMAIN all} = {old[i] : i \in DOMAIN old} \cup {batch[i] : i \in DOMAIN batch}

\* Chunks of a later time behind those of a document are in order.
LEMMA OrderedBehind ==
  ASSUME NEW n \in Nat, NEW m \in Nat, NEW time \in Nat, NEW old, NEW batch, NEW all,
         InOrder(old), Behind(n, m, time, old, batch, all)
  PROVE  Joined(time, old, batch, all)
<1> USE DEF Behind
<1>1. \A i \in 1..(n + m) : i \in 1..n \/ (i - n \in 1..m /\ n + (i - n) = i /\ i > n)
  OBVIOUS
<1>2. \A i \in 1..(n + m) : i > n => /\ i - n \in 1..m /\ all[i] = batch[i - n]
                                      /\ all[i].at = time /\ all[i].index = i - n
  BY <1>1
<1>3. \A i \in DOMAIN all : all[i].at < time + 1
  <2> SUFFICES ASSUME NEW i \in 1..(n + m) PROVE all[i].at < time + 1 OBVIOUS
  <2>1. CASE i \in 1..n
    <3>1. all[i] = old[i] /\ old[i].at \in Nat /\ old[i].at < time BY <2>1
    <3> QED BY <3>1
  <2>2. CASE i > n BY <2>2, <1>2
  <2> QED BY <2>1, <2>2, <1>1
<1>4. InOrder(all)
  <2> SUFFICES ASSUME NEW i \in 1..(n + m), NEW j \in 1..(n + m), i < j
               PROVE \/ all[i].at < all[j].at
                     \/ all[i].at = all[j].at /\ all[i].index < all[j].index
    BY DEF InOrder
  <2>1. CASE j \in 1..n
    <3>1. i \in 1..n BY <2>1
    <3>2. all[i] = old[i] /\ all[j] = old[j] BY <2>1, <3>1
    <3>3. \/ old[i].at < old[j].at
          \/ old[i].at = old[j].at /\ old[i].index < old[j].index
      BY <2>1, <3>1 DEF InOrder
    <3> QED BY <3>2, <3>3
  <2>2. CASE j > n /\ i \in 1..n BY <2>2, <1>2
  <2>3. CASE j > n /\ i > n
    <3>1. i - n < j - n OBVIOUS
    <3> QED BY <2>3, <3>1, <1>2
  <2> QED BY <2>1, <2>2, <2>3, <1>1
<1>5. {all[i] : i \in DOMAIN all} = {old[i] : i \in DOMAIN old} \cup {batch[i] : i \in DOMAIN batch}
  <2>1. \A i \in 1..(n + m) : all[i] \in {old[k] : k \in 1..n} \cup {batch[k] : k \in 1..m}
    <3> SUFFICES ASSUME NEW i \in 1..(n + m)
                 PROVE all[i] \in {old[k] : k \in 1..n} \cup {batch[k] : k \in 1..m}
      OBVIOUS
    <3>1. CASE i \in 1..n BY <3>1
    <3>2. CASE i > n BY <3>2, <1>2
    <3> QED BY <3>1, <3>2, <1>1
  <2>2. \A k \in 1..n : old[k] \in {all[i] : i \in 1..(n + m)}
    <3>1. \A k \in 1..n : k \in 1..(n + m) OBVIOUS
    <3> QED BY <3>1
  <2>3. \A k \in 1..m : batch[k] \in {all[i] : i \in 1..(n + m)}
    <3>1. \A k \in 1..m : n + k \in 1..(n + m) OBVIOUS
    <3> QED BY <3>1
  <2>4. {all[i] : i \in 1..(n + m)} = {old[k] : k \in 1..n} \cup {batch[k] : k \in 1..m}
    <3> DEFINE A == {all[i] : i \in 1..(n + m)}
               O == {old[k] : k \in 1..n}
               B == {batch[k] : k \in 1..m}
    <3>1. A \subseteq O \cup B BY <2>1
    <3>2. O \subseteq A BY <2>2
    <3>3. B \subseteq A BY <2>3
    <3> HIDE DEF A, O, B
    <3>4. A = O \cup B BY <3>1, <3>2, <3>3
    <3> QED BY <3>4 DEF A, O, B
  <2>5. DOMAIN old = 1..n /\ DOMAIN batch = 1..m /\ DOMAIN all = 1..(n + m) OBVIOUS
  <2> QED BY <2>4, <2>5
<1> QED BY <1>3, <1>4, <1>5 DEF Joined

\* What a job stores is behind the chunks of earlier jobs, in order.
LEMMA BatchBehind ==
  ASSUME NEW time \in Nat, NEW old \in Seq(Chunk), NEW vectors \in Seq(Embedding),
         InOrder(old), \A i \in DOMAIN old : old[i].at < time,
         NEW batch, batch = [i \in DOMAIN vectors |->
           [index |-> i, near |-> vectors[i].near, close |-> vectors[i].close, at |-> time]],
         NEW all, all = old \o batch
  PROVE  all \in Seq(Chunk) /\ Joined(time, old, batch, all)
<1> DEFINE n == Len(old)
           m == Len(vectors)
<1>1. n \in Nat /\ m \in Nat /\ DOMAIN old = 1..n /\ DOMAIN vectors = 1..m OBVIOUS
<1>2. \A i \in 1..m : batch[i] = [index |-> i, near |-> vectors[i].near, close |-> vectors[i].close, at |-> time] BY <1>1
<1>3. \A i \in 1..m : batch[i] \in Chunk
  <2>1. \A i \in 1..m : vectors[i].near \in Nat /\ vectors[i].close \in Nat
    <3>1. \A i \in DOMAIN vectors : vectors[i] \in Embedding BY ElementOfSeq
    <3> QED BY <1>1, <3>1 DEF Embedding
  <2>2. \A i \in 1..m : i \in Nat OBVIOUS
  <2> QED BY <1>2, <2>1, <2>2 DEF Chunk
<1>4. batch \in Seq(Chunk) /\ Len(batch) = m /\ DOMAIN batch = 1..m
  <2>1. batch \in [1..m -> Chunk] BY <1>1, <1>3
  <2> QED BY <2>1, <1>1
<1>5. /\ all \in Seq(Chunk) /\ Len(all) = n + m /\ DOMAIN all = 1..(n + m)
      /\ \A i \in 1..n : all[i] = old[i]
      /\ \A i \in 1..m : all[n + i] = batch[i]
  <2> HIDE DEF n, m
  <2>1. Len(old) = n /\ Len(batch) = m BY <1>4 DEF n
  <2>2. all \in Seq(Chunk) /\ Len(all) = n + m /\ DOMAIN all = 1..(n + m) BY <2>1, <1>4
  <2>3. \A i \in 1..(n + m) : all[i] = IF i <= n THEN old[i] ELSE batch[i - n]
    <3>1. PICK o, b, a : o = old /\ b = batch /\ a = all OBVIOUS
    <3>2. o \in Seq(Chunk) /\ b \in Seq(Chunk) /\ a = o \o b /\ Len(o) = n /\ Len(b) = m
      BY <1>4, <2>1, <3>1
    <3>3. \A i \in 1..(n + m) : a[i] = IF i <= n THEN o[i] ELSE b[i - n] BY <3>2
    <3> QED BY <3>1, <3>3
  <2>4. \A i \in 1..n : i \in 1..(n + m) /\ i <= n BY <1>1
  <2>5. \A i \in 1..m : n + i \in 1..(n + m) /\ ~(n + i <= n) /\ (n + i) - n = i BY <1>1
  <2> QED BY <2>2, <2>3, <2>4, <2>5
<1> HIDE DEF n, m
<1>6. \A i \in 1..n : all[i] = old[i] /\ old[i].at \in Nat /\ old[i].at < time
  <2>1. \A i \in DOMAIN old : old[i] \in Chunk /\ old[i].at < time BY ElementOfSeq
  <2>2. DOMAIN old = 1..n BY <1>1
  <2>3. \A i \in 1..n : old[i] \in Chunk /\ old[i].at < time BY <2>1, <2>2
  <2> QED BY <2>3, <1>5 DEF Chunk
<1>7. \A i \in 1..m : all[n + i] = batch[i] /\ batch[i].at = time /\ batch[i].index = i
  <2>1. PICK b : b = batch OBVIOUS
  <2>2. \A i \in 1..m : b[i] = [index |-> i, near |-> vectors[i].near, close |-> vectors[i].close, at |-> time] BY <1>2, <2>1
  <2>3. ASSUME NEW i \in 1..m PROVE b[i].at = time /\ b[i].index = i
    <3>1. PICK r : r = b[i] OBVIOUS
    <3>2. r = [index |-> i, near |-> vectors[i].near, close |-> vectors[i].close, at |-> time] BY <2>2, <3>1
    <3>3. r.at = time /\ r.index = i BY <3>2
    <3> QED BY <3>1, <3>3
  <2>4. \A i \in 1..m : all[n + i] = batch[i] BY <1>5
  <2> QED BY <2>1, <2>3, <2>4
<1>8. DOMAIN old = 1..n /\ DOMAIN batch = 1..m /\ DOMAIN all = 1..(n + m) BY <1>1, <1>4, <1>5
<1>9. Joined(time, old, batch, all)
  <2>1. PICK b, a : b = batch /\ a = all OBVIOUS
  <2>2. \A i \in 1..n : a[i] = old[i] /\ old[i].at \in Nat /\ old[i].at < time BY <1>6, <2>1
  <2>3. \A i \in 1..m : a[n + i] = b[i] /\ b[i].at = time /\ b[i].index = i BY <1>7, <2>1
  <2>4. DOMAIN old = 1..n /\ DOMAIN b = 1..m /\ DOMAIN a = 1..(n + m) BY <1>8, <2>1
  <2>5. n \in Nat /\ m \in Nat BY <1>1
  <2>6. Behind(n, m, time, old, b, a) BY <2>2, <2>3, <2>4 DEF Behind
  <2>7. Joined(time, old, b, a) BY <2>5, <2>6, OrderedBehind
  <2> QED BY <2>1, <2>7
<1> QED BY <1>5, <1>9

\* Its rows are added to those of the document.
LEMMA RowsBehind ==
  ASSUME NEW time, NEW C, NEW d, NEW old, NEW batch, NEW all, NEW C2,
         d \in DOMAIN C => old = C[d], d \notin DOMAIN C => DOMAIN old = {},
         Joined(time, old, batch, all), C2 = Put(C, d, all)
  PROVE  RowsOf(C2) = RowsOf(C) \cup Rows(d, batch)
<1>1. DOMAIN C2 = DOMAIN C \cup {d} /\ C2[d] = all /\ \A x \in DOMAIN C \ {d} : C2[x] = C[x]
  BY DEF Put
<1>2. {all[i] : i \in DOMAIN all} = {old[i] : i \in DOMAIN old} \cup {batch[i] : i \in DOMAIN batch}
  BY DEF Joined
<1>3. Rows(d, batch) = {ChunkRow(d, batch[i]) : i \in DOMAIN batch} BY DEF Rows, ChunkRow
<1>4. ASSUME NEW r \in RowsOf(C2) PROVE r \in RowsOf(C) \cup Rows(d, batch)
  <2>1. PICK x \in DOMAIN C2 : \E i \in DOMAIN C2[x] : r = ChunkRow(x, C2[x][i]) BY RowOfSome
  <2>2. CASE x # d
    <3>1. x \in DOMAIN C /\ C2[x] = C[x] BY <1>1, <2>2
    <3> QED BY <2>1, <3>1, RowOfSome
  <2>3. CASE x = d
    <3>1. PICK i \in DOMAIN all : r = ChunkRow(d, all[i]) BY <1>1, <2>1, <2>3
    <3>2. (\E k \in DOMAIN old : all[i] = old[k]) \/ (\E k \in DOMAIN batch : all[i] = batch[k])
      BY <1>2
    <3>3. CASE \E k \in DOMAIN batch : all[i] = batch[k] BY <1>3, <3>1, <3>3
    <3>4. CASE \E k \in DOMAIN old : all[i] = old[k]
      <4>1. PICK k \in DOMAIN old : all[i] = old[k] BY <3>4
      <4>2. d \in DOMAIN C /\ old = C[d] BY <4>1
      <4> QED BY <3>1, <4>1, <4>2, RowOfSome
    <3> QED BY <3>2, <3>3, <3>4
  <2> QED BY <2>2, <2>3
<1>5. ASSUME NEW r \in RowsOf(C) PROVE r \in RowsOf(C2)
  <2>1. PICK x \in DOMAIN C : \E i \in DOMAIN C[x] : r = ChunkRow(x, C[x][i]) BY RowOfSome
  <2>2. CASE x # d
    <3>1. x \in DOMAIN C2 /\ C2[x] = C[x] BY <1>1, <2>2
    <3> QED BY <2>1, <3>1, RowOfSome
  <2>3. CASE x = d
    <3>1. PICK k \in DOMAIN old : r = ChunkRow(d, old[k]) BY <2>1, <2>3
    <3>2. old[k] \in {all[i] : i \in DOMAIN all} BY <1>2
    <3>3. PICK i \in DOMAIN all : all[i] = old[k] BY <3>2
    <3> QED BY <1>1, <3>1, <3>3, RowOfSome
  <2> QED BY <2>2, <2>3
<1>6. ASSUME NEW r \in Rows(d, batch) PROVE r \in RowsOf(C2)
  <2>1. PICK k \in DOMAIN batch : r = ChunkRow(d, batch[k]) BY <1>3
  <2>2. batch[k] \in {all[i] : i \in DOMAIN all} BY <1>2
  <2>3. PICK i \in DOMAIN all : all[i] = batch[k] BY <2>2
  <2> QED BY <1>1, <2>1, <2>3, RowOfSome
<1>7. PICK a, b, c : a = RowsOf(C2) /\ b = RowsOf(C) /\ c = Rows(d, batch) OBVIOUS
<1> QED BY <1>4, <1>5, <1>6

\* A batch goes into memory and Postgres, and into SQLite unless refused.
LEMMA InsertBatchKeeps ==
  ASSUME DocStoresInv, NEW d, NEW vectors \in Seq(Embedding), InsertBatch(d, vectors),
         docTime' = docTime + 1
  PROVE  DocStoresInv'
<1> DEFINE C == memoryRepo.chunks
           old == IF d \in DOMAIN C THEN C[d] ELSE << >>
           batch == [i \in DOMAIN vectors |->
                      [index |-> i, near |-> vectors[i].near, close |-> vectors[i].close, at |-> docTime]]
           all == old \o batch
<1>1. /\ d \in DOMAIN memoryRepo.files
      /\ memoryRepo' = [memoryRepo EXCEPT !.chunks = Put(C, d, all)]
      /\ sqliteRepo' = SqliteInsertBatch(sqliteRepo, d, batch)
      /\ postgresRepo' = PostgresInsertBatch(postgresRepo, d, batch)
      /\ refused' = IF SqliteRefusesBatch(sqliteRepo, d, batch) THEN refused \cup {d} ELSE refused
  BY DEF InsertBatch, MemoryInsertBatch
<1>2. "chunks" \in DOMAIN memoryRepo /\ "chunks" \in DOMAIN sqliteRepo /\ "chunks" \in DOMAIN postgresRepo
  BY DEF DocStoresInv, HasTables
<1>3. /\ DOMAIN C \subseteq DOMAIN memoryRepo.docs /\ docTime \in Nat
      /\ postgresRepo.chunks = RowsOf(C) /\ (refused = {} => sqliteRepo.chunks = postgresRepo.chunks)
      /\ \A x \in DOMAIN C : /\ C[x] \in Seq(Chunk) /\ InOrder(C[x])
                             /\ \A i \in DOMAIN C[x] : C[x][i].at < docTime
  BY DEF DocStoresInv, ChunksInv
<1>4. /\ old \in Seq(Chunk) /\ InOrder(old) /\ \A i \in DOMAIN old : old[i].at < docTime
      /\ (d \in DOMAIN C => old = C[d]) /\ (d \notin DOMAIN C => DOMAIN old = {})
  <2>1. CASE d \in DOMAIN C
    <3>1. old = C[d] BY <2>1
    <3> HIDE DEF old
    <3> QED BY <1>3, <2>1, <3>1
  <2>2. CASE d \notin DOMAIN C
    <3>1. old = << >> BY <2>2
    <3>2. << >> \in Seq(Chunk) /\ DOMAIN << >> = {} OBVIOUS
    <3>3. InOrder(<< >>) BY <3>2 DEF InOrder
    <3> HIDE DEF old
    <3> QED BY <2>2, <3>1, <3>2, <3>3
  <2> QED BY <2>1, <2>2
<1>5. all \in Seq(Chunk) /\ Joined(docTime, old, batch, all)
  <2>1. PICK o, b, a : o = old /\ b = batch /\ a = all OBVIOUS
  <2>2. /\ b = [i \in DOMAIN vectors |->
                [index |-> i, near |-> vectors[i].near, close |-> vectors[i].close, at |-> docTime]]
        /\ a = o \o b
    BY <2>1
  <2> HIDE DEF old, batch, all
  <2>3. o \in Seq(Chunk) /\ InOrder(o) /\ \A i \in DOMAIN o : o[i].at < docTime BY <1>4, <2>1
  <2>4. a \in Seq(Chunk) /\ Joined(docTime, o, b, a) BY <1>3, <2>2, <2>3, BatchBehind
  <2> QED BY <2>1, <2>4
<1> HIDE DEF old, batch, all
<1>6. OnlyTable(memoryRepo', memoryRepo, "chunks") /\ memoryRepo'.chunks = Put(C, d, all)
  BY <1>1, <1>2, TableSet
<1>7. RowsOf(memoryRepo'.chunks) = RowsOf(C) \cup Rows(d, batch)
  <2>1. PICK a, b, o, e : a = all /\ b = batch /\ o = old /\ e = memoryRepo'.chunks OBVIOUS
  <2>2. /\ (d \in DOMAIN C => o = C[d]) /\ (d \notin DOMAIN C => DOMAIN o = {})
        /\ Joined(docTime, o, b, a) /\ e = Put(C, d, a)
    BY <1>4, <1>5, <1>6, <2>1
  <2>3. RowsOf(e) = RowsOf(C) \cup Rows(d, b) BY <2>2, RowsBehind
  <2> QED BY <2>1, <2>3
<1>8. d \in DOMAIN memoryRepo.docs /\ HasDoc(postgresRepo, d)
  <2>1. d \in DOMAIN memoryRepo.docs BY <1>1 DEF DocStoresInv, FilesInv
  <2>2. memoryRepo.docs[d] \in postgresRepo.docs /\ memoryRepo.docs[d].id = d
    BY <2>1 DEF DocStoresInv, DocsInv, ImageOf
  <2> QED BY <2>1, <2>2 DEF HasDoc
<1>9. /\ OnlyTable(postgresRepo', postgresRepo, "chunks")
      /\ postgresRepo'.chunks = postgresRepo.chunks \cup Rows(d, batch)
  <2>1. PICK rows : rows = postgresRepo.chunks \cup Rows(d, batch) OBVIOUS
  <2>2. postgresRepo' = [postgresRepo EXCEPT !.chunks = rows]
    BY <1>1, <1>8, <2>1 DEF PostgresInsertBatch
  <2> QED BY <1>2, <2>1, <2>2, TableSet
<1>10. /\ OnlyTable(sqliteRepo', sqliteRepo, "chunks")
       /\ ~SqliteRefusesBatch(sqliteRepo, d, batch) =>
            sqliteRepo'.chunks = sqliteRepo.chunks \cup Rows(d, batch)
  <2>1. CASE SqliteRefusesBatch(sqliteRepo, d, batch)
    BY <1>1, <2>1 DEF SqliteInsertBatch, OnlyTable
  <2>2. CASE ~SqliteRefusesBatch(sqliteRepo, d, batch)
    <3>1. PICK rows : rows = sqliteRepo.chunks \cup Rows(d, batch) OBVIOUS
    <3>2. sqliteRepo' = [sqliteRepo EXCEPT !.chunks = rows]
      BY <1>1, <2>2, <3>1 DEF SqliteInsertBatch
    <3> QED BY <1>2, <3>1, <3>2, TableSet
  <2> QED BY <2>1, <2>2
<1>11. /\ memoryRepo'.docs = memoryRepo.docs /\ memoryRepo'.files = memoryRepo.files
       /\ memoryRepo'.sessions = memoryRepo.sessions /\ memoryRepo'.logs = memoryRepo.logs
       /\ sqliteRepo'.docs = sqliteRepo.docs /\ sqliteRepo'.files = sqliteRepo.files
       /\ sqliteRepo'.sessions = sqliteRepo.sessions /\ sqliteRepo'.logs = sqliteRepo.logs
       /\ postgresRepo'.docs = postgresRepo.docs /\ postgresRepo'.files = postgresRepo.files
       /\ postgresRepo'.sessions = postgresRepo.sessions /\ postgresRepo'.logs = postgresRepo.logs
  BY <1>6, <1>9, <1>10 DEF OnlyTable, DocStoresInv, HasTables
<1>12. ChunksInv'
  <2>1. PICK e : e = memoryRepo'.chunks OBVIOUS
  <2>2. DOMAIN e = DOMAIN C \cup {d} /\ e[d] = all /\ \A x \in DOMAIN C \ {d} : e[x] = C[x]
    BY <1>6, <2>1 DEF Put
  <2>3. DOMAIN e \subseteq DOMAIN memoryRepo'.docs BY <1>3, <1>8, <1>11, <2>2
  <2>4. ASSUME NEW x \in DOMAIN e
        PROVE  e[x] \in Seq(Chunk) /\ InOrder(e[x]) /\ \A i \in DOMAIN e[x] : e[x][i].at < docTime'
    <3>1. CASE x = d BY <1>5, <2>2, <3>1 DEF Joined
    <3>2. CASE x # d
      <4>1. PICK c : c = C[x] OBVIOUS
      <4>2. e[x] = c /\ c \in Seq(Chunk) /\ InOrder(c) /\ \A i \in DOMAIN c : c[i].at < docTime
        BY <1>3, <2>2, <3>2, <4>1
      <4>3. \A i \in DOMAIN c : c[i] \in Chunk BY <4>2, ElementOfSeq
      <4>4. \A i \in DOMAIN c : c[i].at < docTime' BY <1>3, <4>2, <4>3 DEF Chunk
      <4> QED BY <4>2, <4>4
    <3> QED BY <3>1, <3>2
  <2>5. postgresRepo'.chunks = RowsOf(e) BY <1>3, <1>7, <1>9, <2>1
  <2>6. refused' = {} => sqliteRepo'.chunks = postgresRepo'.chunks
    <3>1. refused' = {} => ~SqliteRefusesBatch(sqliteRepo, d, batch) /\ refused = {} BY <1>1
    <3> QED BY <1>3, <1>9, <1>10, <3>1
  <2> QED BY <2>1, <2>3, <2>4, <2>5, <2>6 DEF ChunksInv
<1>13. Ticked BY <1>3 DEF Ticked
<1>14. DocsInv' BY <1>11, <1>13, DocsStay DEF DocStoresInv, Ticked
<1>15. FilesInv' BY <1>11, FilesStay DEF DocStoresInv
<1>16. SessionsInv' BY <1>11, <1>13, SessionsStay DEF DocStoresInv, Ticked
<1>17. LogsInv' BY <1>11, <1>13, LogsStay DEF DocStoresInv, Ticked
<1>18. HasTables(memoryRepo)' /\ HasTables(sqliteRepo)' /\ HasTables(postgresRepo)' /\ (docTime \in Nat)'
  BY <1>6, <1>9, <1>10, <1>13 DEF OnlyTable, DocStoresInv, HasTables, Ticked
<1> QED BY <1>12, <1>14, <1>15, <1>16, <1>17, <1>18 DEF DocStoresInv

\* A session of a new id goes into every variant.
LEMMA CreateSessionKeeps ==
  ASSUME DocStoresInv, NEW s, NEW u, CreateSession(s, u), docTime' = docTime + 1
  PROVE  DocStoresInv'
<1> DEFINE session == [id |-> s, user |-> u, at |-> docTime]
           S == memoryRepo.sessions
<1>1. /\ s \notin DOMAIN S /\ refused' = refused
      /\ memoryRepo' = [memoryRepo EXCEPT !.sessions = Put(S, s, session)]
      /\ sqliteRepo' = Insert(sqliteRepo, "sessions", session, {{"id"}}, TRUE)
      /\ postgresRepo' = Insert(postgresRepo, "sessions", session, {{"id"}}, TRUE)
  BY DEF CreateSession, MemoryCreateSession, SqliteCreateSession, PostgresCreateSession
<1>2. /\ "sessions" \in DOMAIN memoryRepo /\ "sessions" \in DOMAIN sqliteRepo
      /\ "sessions" \in DOMAIN postgresRepo
  BY DEF DocStoresInv, HasTables
<1>3. /\ sqliteRepo.sessions = ImageOf(S) /\ postgresRepo.sessions = ImageOf(S) /\ docTime \in Nat
      /\ \A x \in DOMAIN S : S[x].id = x /\ S[x].at \in Nat /\ S[x].at < docTime
      /\ ByOwnTime(S) /\ IsFiniteSet(DOMAIN S)
  BY DEF DocStoresInv, SessionsInv
<1>4. ~Clashes(ImageOf(S), session, {{"id"}})
  <2> SUFFICES ASSUME NEW x \in DOMAIN S, S[x].id = session.id PROVE FALSE BY DEF Clashes, ImageOf
  <2>1. S[x].id = x BY <1>3
  <2> QED BY <1>1, <2>1
<1> HIDE DEF session
<1>5. OnlyTable(memoryRepo', memoryRepo, "sessions") /\ memoryRepo'.sessions = Put(S, s, session)
  BY <1>1, <1>2, TableSet
<1>6. OnlyTable(sqliteRepo', sqliteRepo, "sessions") /\ sqliteRepo'.sessions = ImageOf(S) \cup {session}
  <2>1. sqliteRepo' = [sqliteRepo EXCEPT !.sessions = ImageOf(S) \cup {session}]
    BY <1>1, <1>3, <1>4 DEF Insert
  <2> QED BY <2>1, <1>2, TableSet
<1>7. /\ OnlyTable(postgresRepo', postgresRepo, "sessions")
      /\ postgresRepo'.sessions = ImageOf(S) \cup {session}
  <2>1. postgresRepo' = [postgresRepo EXCEPT !.sessions = ImageOf(S) \cup {session}]
    BY <1>1, <1>3, <1>4 DEF Insert
  <2> QED BY <2>1, <1>2, TableSet
<1>8. /\ DOMAIN memoryRepo'.sessions = DOMAIN S \cup {s} /\ memoryRepo'.sessions[s] = session
      /\ \A x \in DOMAIN S : memoryRepo'.sessions[x] = S[x]
      /\ ImageOf(memoryRepo'.sessions) = ImageOf(S) \cup {session}
  <2>1. PICK f, g : f = S /\ g = memoryRepo'.sessions OBVIOUS
  <2>2. g = Put(f, s, session) /\ s \notin DOMAIN f BY <1>1, <1>5, <2>1
  <2>3. DOMAIN g = DOMAIN f \cup {s} /\ g[s] = session /\ \A x \in DOMAIN f : g[x] = f[x]
    BY <2>2 DEF Put
  <2>4. ImageOf(g) = ImageOf(f) \cup {session} BY <2>2, <2>3 DEF ImageOf
  <2> QED BY <2>1, <2>3, <2>4
<1>9. SessionsInv'
  <2>1. IsFiniteSet(DOMAIN S \cup {s}) BY <1>3, FS_AddElement
  <2>2. session.id = s /\ session.at = docTime BY DEF session
  <2>3. \A x \in DOMAIN memoryRepo'.sessions :
          LET r == memoryRepo'.sessions[x]
          IN  r.id = x /\ r.at \in Nat /\ r.at < docTime'
    BY <1>3, <1>8, <2>2
  <2>4. ByOwnTime(memoryRepo'.sessions)
    BY <1>3, <1>8, <2>2 DEF ByOwnTime
  <2> QED BY <1>6, <1>7, <1>8, <2>1, <2>3, <2>4 DEF SessionsInv
<1>10. Ticked BY <1>3 DEF Ticked
<1>11. /\ memoryRepo'.docs = memoryRepo.docs /\ memoryRepo'.files = memoryRepo.files
       /\ memoryRepo'.chunks = memoryRepo.chunks /\ memoryRepo'.logs = memoryRepo.logs
       /\ sqliteRepo'.docs = sqliteRepo.docs /\ sqliteRepo'.files = sqliteRepo.files
       /\ sqliteRepo'.chunks = sqliteRepo.chunks /\ sqliteRepo'.logs = sqliteRepo.logs
       /\ postgresRepo'.docs = postgresRepo.docs /\ postgresRepo'.files = postgresRepo.files
       /\ postgresRepo'.chunks = postgresRepo.chunks /\ postgresRepo'.logs = postgresRepo.logs
  BY <1>5, <1>6, <1>7 DEF OnlyTable, DocStoresInv, HasTables
<1>12. DocsInv' BY <1>10, <1>11, DocsStay DEF DocStoresInv, Ticked
<1>13. FilesInv' BY <1>11, FilesStay DEF DocStoresInv
<1>14. ChunksInv' BY <1>1, <1>10, <1>11, ChunksStay DEF DocStoresInv, Ticked
<1>15. LogsInv' BY <1>8, <1>10, <1>11, LogsStay DEF DocStoresInv, Ticked
<1>16. HasTables(memoryRepo)' /\ HasTables(sqliteRepo)' /\ HasTables(postgresRepo)' /\ (docTime \in Nat)'
  BY <1>5, <1>6, <1>7, <1>10 DEF OnlyTable, DocStoresInv, HasTables, Ticked
<1> QED BY <1>9, <1>12, <1>13, <1>14, <1>15, <1>16 DEF DocStoresInv

(* The log of a session, with one entry more at its end.                    *)
LogUntil(s, time, log) ==
  /\ log \in Seq(LogOf(s)) /\ \A i \in DOMAIN log : log[i].at < time
  /\ \A i, j \in DOMAIN log : i < j => log[i].at < log[j].at

Longer(old, log, new) == new = Append(old, log)
WithImage(old, log, new) == ImageOf(new) = ImageOf(old) \cup {log}

\* An entry with a later time is the newest of a log.
LEMMA LogBehind ==
  ASSUME NEW s, NEW time \in Nat, NEW old, NEW log \in LogOf(s), log.at = time,
         LogUntil(s, time, old), NEW new, Longer(old, log, new)
  PROVE  LogUntil(s, time + 1, new) /\ WithImage(old, log, new)
<1> USE DEF LogUntil, Longer, WithImage
<1>1. PICK n : n = Len(old) OBVIOUS
<1>2. n \in Nat /\ DOMAIN old = 1..n BY <1>1
<1>3. new \in Seq(LogOf(s)) /\ DOMAIN new = 1..(n + 1) /\ new[n + 1] = log
      /\ \A i \in 1..n : new[i] = old[i]
  BY <1>1
<1>4. PICK f, g : f = old /\ g = new OBVIOUS
<1>5. \A i \in 1..n : f[i].at \in Nat /\ f[i].at < time
  <2>1. \A i \in DOMAIN old : old[i] \in LogOf(s) BY ElementOfSeq
  <2>2. \A i \in 1..n : f[i] \in LogOf(s) /\ f[i].at < time BY <1>2, <1>4, <2>1
  <2> QED BY <2>2 DEF LogOf
<1>6. /\ DOMAIN f = 1..n /\ DOMAIN g = 1..(n + 1) /\ g[n + 1] = log /\ \A i \in 1..n : g[i] = f[i]
      /\ \A i, j \in 1..n : i < j => f[i].at < f[j].at
  BY <1>2, <1>3, <1>4
<1>7. \A i \in 1..(n + 1) : i \in 1..n \/ i = n + 1 BY <1>2
<1>8. \A i \in DOMAIN g : g[i].at < time + 1
  <2> SUFFICES ASSUME NEW i \in 1..(n + 1) PROVE g[i].at < time + 1 BY <1>6
  <2>1. CASE i \in 1..n BY <1>5, <1>6, <2>1
  <2>2. CASE i = n + 1 BY <1>6, <2>2
  <2> QED BY <1>7, <2>1, <2>2
<1>9. \A i, j \in DOMAIN g : i < j => g[i].at < g[j].at
  <2> SUFFICES ASSUME NEW i \in 1..(n + 1), NEW j \in 1..(n + 1), i < j PROVE g[i].at < g[j].at
    BY <1>6
  <2>1. i \in 1..n BY <1>2
  <2>2. CASE j \in 1..n BY <1>6, <2>1, <2>2
  <2>3. CASE j = n + 1 BY <1>5, <1>6, <2>1, <2>3
  <2> QED BY <1>7, <2>2, <2>3
<1>10. ImageOf(g) = ImageOf(f) \cup {log}
  <2>1. \A x \in ImageOf(g) : x \in ImageOf(f) \cup {log} BY <1>6, <1>7 DEF ImageOf
  <2>2. \A i \in 1..n : i \in 1..(n + 1) BY <1>2
  <2>3. n + 1 \in 1..(n + 1) BY <1>2
  <2>4. \A x \in ImageOf(f) \cup {log} : x \in ImageOf(g) BY <1>6, <2>2, <2>3 DEF ImageOf
  <2> QED BY <2>1, <2>4
<1> QED BY <1>3, <1>4, <1>8, <1>9, <1>10

\* Its row is added to those of the log.
LEMMA LogRowsBehind ==
  ASSUME NEW L, NEW s, NEW old, NEW log, NEW new, NEW L2, L2 = Put(L, s, new),
         s \in DOMAIN L => old = L[s], s \notin DOMAIN L => DOMAIN old = {},
         WithImage(old, log, new)
  PROVE  LogRowsOf(L2) = LogRowsOf(L) \cup {log}
<1>1. DOMAIN L2 = DOMAIN L \cup {s} /\ L2[s] = new /\ \A x \in DOMAIN L \ {s} : L2[x] = L[x]
  BY DEF Put
<1>2. \A r : /\ r \in LogRowsOf(L2) <=> \E x \in DOMAIN L2 : r \in ImageOf(L2[x])
             /\ r \in LogRowsOf(L) <=> \E x \in DOMAIN L : r \in ImageOf(L[x])
  BY DEF LogRowsOf
<1>3. (s \notin DOMAIN L => ImageOf(old) = {}) /\ ImageOf(new) = ImageOf(old) \cup {log}
  BY DEF ImageOf, WithImage
<1>4. \A r \in LogRowsOf(L2) : r \in LogRowsOf(L) \cup {log}
  <2> SUFFICES ASSUME NEW r, NEW x \in DOMAIN L2, r \in ImageOf(L2[x]) PROVE r \in LogRowsOf(L) \cup {log}
    BY <1>2
  <2>1. CASE x = s BY <1>1, <1>2, <1>3, <2>1
  <2>2. CASE x # s BY <1>1, <1>2, <2>2
  <2> QED BY <2>1, <2>2
<1>5. \A r \in LogRowsOf(L) \cup {log} : r \in LogRowsOf(L2)
  <2>1. ASSUME NEW x \in DOMAIN L, NEW r \in ImageOf(L[x]) PROVE r \in LogRowsOf(L2)
    <3>1. CASE x = s
      <4>1. r \in ImageOf(L2[s]) BY <1>1, <1>3, <2>1, <3>1
      <4> QED BY <1>1, <1>2, <4>1
    <3>2. CASE x # s BY <1>1, <1>2, <2>1, <3>2
    <3> QED BY <3>1, <3>2
  <2>2. log \in LogRowsOf(L2)
    <3>1. log \in ImageOf(L2[s]) BY <1>1, <1>3
    <3> QED BY <1>1, <1>2, <3>1
  <2> QED BY <1>2, <2>1, <2>2
<1> QED BY <1>4, <1>5

\* A log entry of a session goes into every variant.
LEMMA AppendLogKeeps ==
  ASSUME DocStoresInv, NEW s, AppendLog(s), docTime' = docTime + 1
  PROVE  DocStoresInv'
<1> DEFINE L == memoryRepo.logs
           log == [session |-> s, at |-> docTime]
           old == IF s \in DOMAIN L THEN L[s] ELSE << >>
           new == Append(old, log)
<1>1. /\ s \in DOMAIN memoryRepo.sessions /\ refused' = refused
      /\ memoryRepo' = [memoryRepo EXCEPT !.logs = Put(L, s, new)]
      /\ sqliteRepo' = Insert(sqliteRepo, "logs", log, {}, HasChat(sqliteRepo, s))
      /\ postgresRepo' = Insert(postgresRepo, "logs", log, {}, HasChat(postgresRepo, s))
  BY DEF AppendLog, MemoryAppendLog, SqliteAppendLog, PostgresAppendLog
<1>2. "logs" \in DOMAIN memoryRepo /\ "logs" \in DOMAIN sqliteRepo /\ "logs" \in DOMAIN postgresRepo
  BY DEF DocStoresInv, HasTables
<1>3. /\ DOMAIN L \subseteq DOMAIN memoryRepo.sessions /\ docTime \in Nat
      /\ \A x \in DOMAIN L : /\ L[x] \in Seq(LogOf(x)) /\ \A i \in DOMAIN L[x] : L[x][i].at < docTime
                             /\ \A i, j \in DOMAIN L[x] : i < j => L[x][i].at < L[x][j].at
      /\ sqliteRepo.logs = LogRowsOf(L) /\ postgresRepo.logs = sqliteRepo.logs
  BY DEF DocStoresInv, LogsInv
<1>4. log \in LogOf(s) /\ log.at = docTime BY <1>3 DEF LogOf
<1>5. /\ old \in Seq(LogOf(s)) /\ \A i \in DOMAIN old : old[i].at < docTime
      /\ \A i, j \in DOMAIN old : i < j => old[i].at < old[j].at
      /\ (s \in DOMAIN L => old = L[s]) /\ (s \notin DOMAIN L => DOMAIN old = {})
  <2>1. CASE s \in DOMAIN L
    <3>1. old = L[s] BY <2>1
    <3> HIDE DEF old
    <3> QED BY <1>3, <2>1, <3>1
  <2>2. CASE s \notin DOMAIN L
    <3>1. old = << >> BY <2>2
    <3>2. << >> \in Seq(LogOf(s)) /\ DOMAIN << >> = {} OBVIOUS
    <3> HIDE DEF old
    <3> QED BY <2>2, <3>1, <3>2
  <2> QED BY <2>1, <2>2
<1>6. HasChat(sqliteRepo, s) /\ HasChat(postgresRepo, s)
  <2>1. /\ memoryRepo.sessions[s] \in ImageOf(memoryRepo.sessions) /\ memoryRepo.sessions[s].id = s
        /\ sqliteRepo.sessions = ImageOf(memoryRepo.sessions)
        /\ postgresRepo.sessions = ImageOf(memoryRepo.sessions)
    BY <1>1 DEF DocStoresInv, SessionsInv, ImageOf
  <2> QED BY <2>1 DEF HasChat
<1> HIDE DEF old, log
<1>7. LogUntil(s, docTime + 1, new) /\ WithImage(old, log, new)
  <2>1. PICK n, o, l : n = new /\ o = old /\ l = log OBVIOUS
  <2>2. Longer(o, l, n) BY <2>1 DEF Longer
  <2> HIDE DEF new
  <2>3. LogUntil(s, docTime, o) BY <1>5, <2>1 DEF LogUntil
  <2>4. l \in LogOf(s) /\ l.at = docTime /\ docTime \in Nat BY <1>3, <1>4, <2>1
  <2>5. LogUntil(s, docTime + 1, n) /\ WithImage(o, l, n)
    BY <2>2, <2>3, <2>4, LogBehind
  <2> QED BY <2>1, <2>5
<1> HIDE DEF new
<1>8. OnlyTable(memoryRepo', memoryRepo, "logs") /\ memoryRepo'.logs = Put(L, s, new)
  BY <1>1, <1>2, TableSet
<1>9. LogRowsOf(memoryRepo'.logs) = LogRowsOf(L) \cup {log}
  <2>1. PICK e, n, o, k : e = memoryRepo'.logs /\ n = new /\ o = old /\ k = L OBVIOUS
  <2>2. e = Put(k, s, n) BY <1>8, <2>1
  <2>3. /\ (s \in DOMAIN k => o = k[s]) /\ (s \notin DOMAIN k => DOMAIN o = {})
        /\ WithImage(o, log, n)
    BY <1>5, <1>7, <2>1
  <2> HIDE DEF L
  <2>4. LogRowsOf(e) = LogRowsOf(k) \cup {log} BY <2>2, <2>3, LogRowsBehind
  <2> QED BY <2>1, <2>4
<1>10. ~Clashes(sqliteRepo.logs, log, {}) /\ ~Clashes(postgresRepo.logs, log, {}) BY DEF Clashes
<1>11. OnlyTable(sqliteRepo', sqliteRepo, "logs") /\ sqliteRepo'.logs = sqliteRepo.logs \cup {log}
  <2>1. sqliteRepo' = [sqliteRepo EXCEPT !.logs = @ \cup {log}] BY <1>1, <1>6, <1>10 DEF Insert
  <2> QED BY <2>1, <1>2, TableSet
<1>12. /\ OnlyTable(postgresRepo', postgresRepo, "logs")
       /\ postgresRepo'.logs = postgresRepo.logs \cup {log}
  <2>1. postgresRepo' = [postgresRepo EXCEPT !.logs = @ \cup {log}] BY <1>1, <1>6, <1>10 DEF Insert
  <2> QED BY <2>1, <1>2, TableSet
<1>13. /\ memoryRepo'.docs = memoryRepo.docs /\ memoryRepo'.files = memoryRepo.files
       /\ memoryRepo'.chunks = memoryRepo.chunks /\ memoryRepo'.sessions = memoryRepo.sessions
       /\ sqliteRepo'.docs = sqliteRepo.docs /\ sqliteRepo'.files = sqliteRepo.files
       /\ sqliteRepo'.chunks = sqliteRepo.chunks /\ sqliteRepo'.sessions = sqliteRepo.sessions
       /\ postgresRepo'.docs = postgresRepo.docs /\ postgresRepo'.files = postgresRepo.files
       /\ postgresRepo'.chunks = postgresRepo.chunks /\ postgresRepo'.sessions = postgresRepo.sessions
  BY <1>8, <1>11, <1>12 DEF OnlyTable, DocStoresInv, HasTables
<1>14. LogsInv'
  <2>1. PICK e : e = memoryRepo'.logs OBVIOUS
  <2>2. DOMAIN e = DOMAIN L \cup {s} /\ e[s] = new /\ \A x \in DOMAIN L \ {s} : e[x] = L[x]
    BY <1>8, <2>1 DEF Put
  <2>3. DOMAIN e \subseteq DOMAIN memoryRepo'.sessions BY <1>1, <1>3, <1>13, <2>2
  <2>4. ASSUME NEW x \in DOMAIN e
        PROVE  /\ e[x] \in Seq(LogOf(x)) /\ \A i \in DOMAIN e[x] : e[x][i].at < docTime'
               /\ \A i, j \in DOMAIN e[x] : i < j => e[x][i].at < e[x][j].at
    <3>1. CASE x = s BY <1>7, <2>2, <3>1 DEF LogUntil
    <3>2. CASE x # s
      <4>1. PICK c : c = L[x] OBVIOUS
      <4>2. /\ e[x] = c /\ c \in Seq(LogOf(x)) /\ \A i \in DOMAIN c : c[i].at < docTime
            /\ \A i, j \in DOMAIN c : i < j => c[i].at < c[j].at
        BY <1>3, <2>2, <3>2, <4>1
      <4>3. \A i \in DOMAIN c : c[i] \in LogOf(x) BY <4>2, ElementOfSeq
      <4>4. \A i \in DOMAIN c : c[i].at < docTime' BY <1>3, <4>2, <4>3 DEF LogOf
      <4> QED BY <4>2, <4>4
    <3> QED BY <3>1, <3>2
  <2>5. sqliteRepo'.logs = LogRowsOf(e) /\ postgresRepo'.logs = sqliteRepo'.logs
    BY <1>3, <1>9, <1>11, <1>12, <2>1
  <2> QED BY <2>1, <2>3, <2>4, <2>5 DEF LogsInv
<1>15. Ticked BY <1>3 DEF Ticked
<1>16. DocsInv' BY <1>13, <1>15, DocsStay DEF DocStoresInv, Ticked
<1>17. FilesInv' BY <1>13, FilesStay DEF DocStoresInv
<1>18. ChunksInv' BY <1>1, <1>13, <1>15, ChunksStay DEF DocStoresInv, Ticked
<1>19. SessionsInv' BY <1>13, <1>15, SessionsStay DEF DocStoresInv, Ticked
<1>20. HasTables(memoryRepo)' /\ HasTables(sqliteRepo)' /\ HasTables(postgresRepo)' /\ (docTime \in Nat)'
  BY <1>8, <1>11, <1>12, <1>15 DEF OnlyTable, DocStoresInv, HasTables, Ticked
<1> QED BY <1>14, <1>16, <1>17, <1>18, <1>19, <1>20 DEF DocStoresInv

(* The tables hold what the maps hold after any calls.                      *)
THEOREM DocStoresInvHolds == DocStoreSpec => []DocStoresInv
<1>1. DocInit => DocStoresInv BY InitDocStoresInv
<1>2. DocStoresInv /\ [DocNext \/ SessionNext]_docVars => DocStoresInv'
  <2> SUFFICES ASSUME DocStoresInv, [DocNext \/ SessionNext]_docVars PROVE DocStoresInv' OBVIOUS
  <2>1. CASE UNCHANGED docVars
    BY <2>1 DEF docVars, DocStoresInv, HasTables, DocsInv, FilesInv, ChunksInv, SessionsInv, LogsInv
  <2>2. ASSUME NEW d \in Docs, NEW u \in Owners, DocTick, CreateDoc(d, u) PROVE DocStoresInv'
    BY <2>2, CreateDocKeeps DEF DocTick
  <2>3. ASSUME NEW d \in Docs, DocTick, CreateFile(d) PROVE DocStoresInv'
    BY <2>3, CreateFileKeeps DEF DocTick
  <2>4. ASSUME NEW d \in Docs, NEW vectors \in Batches, DocTick, InsertBatch(d, vectors)
        PROVE  DocStoresInv'
    <3>1. vectors \in Seq(Embedding) BY SearchAssumption DEF Embedding
    <3> QED BY <2>4, <3>1, InsertBatchKeeps DEF DocTick
  <2>5. ASSUME NEW d \in Docs, NEW st, UpdateStatus(d, st), UNCHANGED docTime PROVE DocStoresInv'
    BY <2>5, UpdateStatusKeeps
  <2>6. ASSUME NEW s \in Chats, NEW u \in Owners, DocTick, CreateSession(s, u) PROVE DocStoresInv'
    BY <2>6, CreateSessionKeeps DEF DocTick
  <2>7. ASSUME NEW s \in Chats, DocTick, AppendLog(s) PROVE DocStoresInv'
    BY <2>7, AppendLogKeeps DEF DocTick
  <2> QED BY <2>1, <2>2, <2>3, <2>4, <2>5, <2>6, <2>7 DEF DocNext, SessionNext
<1> QED BY <1>1, <1>2, PTL DEF DocStoreSpec

-----------------------------------------------------------------------------
(* The order of written times.  Within a second the text without a fraction *)
(* is highest, then that of two quarters, of three, and of one.             *)
TextRank(t) ==
  9 * (t \div 4) + (IF t % 4 = 0 THEN 8 ELSE IF t % 4 = 2 THEN 5 ELSE IF t % 4 = 3 THEN 4 ELSE 1)

\* Texts that differ in the second are ordered by it.
LEMMA ApartAtOnce ==
  ASSUME NEW a, NEW b, Len(a) \in 1..3, Len(b) \in 1..3, a[1] \in Nat, b[1] \in Nat, a[1] # b[1]
  PROVE  TextAbove(a, b) <=> a[1] > b[1]
<1> DEFINE shorter == IF Len(a) < Len(b) THEN Len(a) ELSE Len(b)
           apart == {i \in 1..shorter : a[i] # b[i]}
<1>1. TextAbove(a, b) <=> \/ apart = {} /\ Len(a) < Len(b)
                          \/ \E i \in apart : (\A j \in apart : i <= j) /\ a[i] > b[i]
  BY DEF TextAbove
<1>2. 1 \in apart /\ \A j \in apart : j \in 1..3 OBVIOUS
<1> HIDE DEF apart
<1>3. \A i \in apart : (\A j \in apart : i <= j) <=> i = 1 BY <1>2
<1> QED BY <1>1, <1>2, <1>3

\* Texts of one second are ordered by the digits and, if cut, by length.
LEMMA ApartLater ==
  ASSUME NEW a, NEW b, Len(a) \in 1..3, Len(b) \in 1..3, a[1] = b[1]
  PROVE  /\ Len(a) >= 2 /\ Len(b) >= 2 /\ a[2] # b[2] => (TextAbove(a, b) <=> a[2] > b[2])
         /\ (Len(a) = 1 \/ Len(b) = 1 \/ a[2] = b[2]) /\ (Len(a) < 3 \/ Len(b) < 3 \/ a[3] = b[3])
              => (TextAbove(a, b) <=> Len(a) < Len(b))
<1> DEFINE shorter == IF Len(a) < Len(b) THEN Len(a) ELSE Len(b)
           apart == {i \in 1..shorter : a[i] # b[i]}
<1>1. TextAbove(a, b) <=> \/ apart = {} /\ Len(a) < Len(b)
                          \/ \E i \in apart : (\A j \in apart : i <= j) /\ a[i] > b[i]
  BY DEF TextAbove
<1>2. ASSUME Len(a) >= 2, Len(b) >= 2, a[2] # b[2] PROVE TextAbove(a, b) <=> a[2] > b[2]
  <2>1. 2 \in apart /\ \A j \in apart : j \in 2..3 BY <1>2
  <2> HIDE DEF apart
  <2>2. \A i \in apart : (\A j \in apart : i <= j) <=> i = 2 BY <2>1
  <2> QED BY <1>1, <2>1, <2>2
<1>3. ASSUME Len(a) = 1 \/ Len(b) = 1 \/ a[2] = b[2], Len(a) < 3 \/ Len(b) < 3 \/ a[3] = b[3]
      PROVE  TextAbove(a, b) <=> Len(a) < Len(b)
  <2>1. apart = {}
    <3> SUFFICES ASSUME NEW i \in apart PROVE FALSE OBVIOUS
    <3>1. i \in 1..3 /\ i <= Len(a) /\ i <= Len(b) /\ a[i] # b[i] OBVIOUS
    <3>2. i = 1 \/ i = 2 \/ i = 3 BY <3>1
    <3> QED BY <1>3, <3>1, <3>2
  <2> QED BY <1>1, <2>1
<1> QED BY <1>2, <1>3

\* The four texts a second has, with the rank of each.
LEMMA Written ==
  ASSUME NEW t \in Nat
  PROVE  \E q \in Nat :
           \/ formatSQLiteTime(t) = <<q>> /\ t = 4 * q /\ TextRank(t) = 9 * q + 8
           \/ formatSQLiteTime(t) = <<q, 0, 1>> /\ t = 4 * q + 1 /\ TextRank(t) = 9 * q + 1
           \/ formatSQLiteTime(t) = <<q, 1>> /\ t = 4 * q + 2 /\ TextRank(t) = 9 * q + 5
           \/ formatSQLiteTime(t) = <<q, 1, 1>> /\ t = 4 * q + 3 /\ TextRank(t) = 9 * q + 4
<1> DEFINE q == t \div 4
<1>1. q \in Nat OBVIOUS
<1>2. \/ t = 4 * q /\ t % 4 = 0
      \/ t = 4 * q + 1 /\ t % 4 = 1 /\ t % 2 = 1 /\ (t \div 2) % 2 = 0
      \/ t = 4 * q + 2 /\ t % 4 = 2 /\ t % 2 = 0 /\ (t \div 2) % 2 = 1
      \/ t = 4 * q + 3 /\ t % 4 = 3 /\ t % 2 = 1 /\ (t \div 2) % 2 = 1
  OBVIOUS
<1>3. CASE t = 4 * q /\ t % 4 = 0 BY <1>1, <1>3 DEF formatSQLiteTime, TextRank
<1>4. CASE t = 4 * q + 1 /\ t % 4 = 1 /\ t % 2 = 1 /\ (t \div 2) % 2 = 0
  BY <1>1, <1>4 DEF formatSQLiteTime, TextRank
<1>5. CASE t = 4 * q + 2 /\ t % 4 = 2 /\ t % 2 = 0 /\ (t \div 2) % 2 = 1
  BY <1>1, <1>5 DEF formatSQLiteTime, TextRank
<1>6. CASE t = 4 * q + 3 /\ t % 4 = 3 /\ t % 2 = 1 /\ (t \div 2) % 2 = 1
  BY <1>1, <1>6 DEF formatSQLiteTime, TextRank
<1> QED BY <1>2, <1>3, <1>4, <1>5, <1>6

\* The characters order written times as their ranks do.
LEMMA TextByRank ==
  ASSUME NEW s \in Nat, NEW t \in Nat
  PROVE  /\ TextAbove(formatSQLiteTime(s), formatSQLiteTime(t)) <=> TextRank(s) > TextRank(t)
         /\ TextRank(s) \in Nat /\ (TextRank(s) = TextRank(t) => s = t)
<1>1. PICK p \in Nat :
        \/ formatSQLiteTime(s) = <<p>> /\ s = 4 * p /\ TextRank(s) = 9 * p + 8
        \/ formatSQLiteTime(s) = <<p, 0, 1>> /\ s = 4 * p + 1 /\ TextRank(s) = 9 * p + 1
        \/ formatSQLiteTime(s) = <<p, 1>> /\ s = 4 * p + 2 /\ TextRank(s) = 9 * p + 5
        \/ formatSQLiteTime(s) = <<p, 1, 1>> /\ s = 4 * p + 3 /\ TextRank(s) = 9 * p + 4
  BY Written
<1>2. PICK q \in Nat :
        \/ formatSQLiteTime(t) = <<q>> /\ t = 4 * q /\ TextRank(t) = 9 * q + 8
        \/ formatSQLiteTime(t) = <<q, 0, 1>> /\ t = 4 * q + 1 /\ TextRank(t) = 9 * q + 1
        \/ formatSQLiteTime(t) = <<q, 1>> /\ t = 4 * q + 2 /\ TextRank(t) = 9 * q + 5
        \/ formatSQLiteTime(t) = <<q, 1, 1>> /\ t = 4 * q + 3 /\ TextRank(t) = 9 * q + 4
  BY Written
<1>3. PICK a, b : a = formatSQLiteTime(s) /\ b = formatSQLiteTime(t) OBVIOUS
<1>4. PICK x, y : x = TextRank(s) /\ y = TextRank(t) OBVIOUS
<1>5. \/ Len(a) = 1 /\ a[1] = p /\ s = 4 * p /\ x = 9 * p + 8
      \/ Len(a) = 3 /\ a[1] = p /\ a[2] = 0 /\ a[3] = 1 /\ s = 4 * p + 1 /\ x = 9 * p + 1
      \/ Len(a) = 2 /\ a[1] = p /\ a[2] = 1 /\ s = 4 * p + 2 /\ x = 9 * p + 5
      \/ Len(a) = 3 /\ a[1] = p /\ a[2] = 1 /\ a[3] = 1 /\ s = 4 * p + 3 /\ x = 9 * p + 4
  BY <1>1, <1>3, <1>4
<1>6. \/ Len(b) = 1 /\ b[1] = q /\ t = 4 * q /\ y = 9 * q + 8
      \/ Len(b) = 3 /\ b[1] = q /\ b[2] = 0 /\ b[3] = 1 /\ t = 4 * q + 1 /\ y = 9 * q + 1
      \/ Len(b) = 2 /\ b[1] = q /\ b[2] = 1 /\ t = 4 * q + 2 /\ y = 9 * q + 5
      \/ Len(b) = 3 /\ b[1] = q /\ b[2] = 1 /\ b[3] = 1 /\ t = 4 * q + 3 /\ y = 9 * q + 4
  BY <1>2, <1>3, <1>4
<1>7. Len(a) \in 1..3 /\ Len(b) \in 1..3 /\ a[1] = p /\ b[1] = q BY <1>5, <1>6
<1>8. x \in Nat /\ y \in Nat /\ (x = y => s = t) BY <1>5, <1>6
<1>9. TextAbove(a, b) <=> x > y
  <2>1. CASE p # q
    <3>1. TextAbove(a, b) <=> p > q BY <1>7, <2>1, ApartAtOnce
    <3>2. p > q <=> x > y BY <1>5, <1>6, <2>1
    <3> QED BY <3>1, <3>2
  <2>2. CASE p = q
    <3>1. /\ Len(a) >= 2 /\ Len(b) >= 2 /\ a[2] # b[2] => (TextAbove(a, b) <=> a[2] > b[2])
          /\ (Len(a) = 1 \/ Len(b) = 1 \/ a[2] = b[2]) /\ (Len(a) < 3 \/ Len(b) < 3 \/ a[3] = b[3])
               => (TextAbove(a, b) <=> Len(a) < Len(b))
      BY <1>7, <2>2, ApartLater
    <3>2. CASE Len(a) >= 2 /\ Len(b) >= 2 /\ a[2] # b[2]
      <4>1. a[2] > b[2] <=> x > y BY <1>5, <1>6, <2>2, <3>2
      <4> QED BY <3>1, <3>2, <4>1
    <3>3. CASE Len(a) = 1 \/ Len(b) = 1 \/ a[2] = b[2]
      <4>1. Len(a) < 3 \/ Len(b) < 3 \/ a[3] = b[3] BY <1>5, <1>6
      <4>2. CASE Len(a) = 1
        <5>1. x = 9 * p + 8 BY <1>5, <4>2
        <5>2. (Len(b) = 1 /\ y = 9 * q + 8) \/ (Len(b) \in 2..3 /\ y < 9 * q + 8) BY <1>6
        <5>3. (Len(b) = 1 /\ y = x) \/ (Len(b) \in 2..3 /\ y < x) BY <2>2, <5>1, <5>2
        <5> QED BY <1>8, <3>1, <3>3, <4>1, <4>2, <5>3
      <4>3. CASE Len(b) = 1
        <5>1. y = 9 * p + 8 BY <1>6, <2>2, <4>3
        <5>2. (Len(a) = 1 /\ x = y) \/ (Len(a) \in 2..3 /\ x < y) BY <1>5, <5>1
        <5>3. x \in Nat /\ y \in Nat BY <1>8, <5>1
        <5> QED BY <3>1, <3>3, <4>1, <4>3, <5>2, <5>3
      <4>4. CASE Len(a) > 1 /\ Len(b) > 1 /\ a[2] = b[2]
        <5>1. CASE a[2] = 0
          <6>1. Len(a) = 3 /\ x = 9 * p + 1 BY <1>5, <4>4, <5>1
          <6>2. b[2] = 0 /\ Len(b) > 1 BY <4>4, <5>1
          <6>3. Len(b) = 3 /\ y = 9 * q + 1 BY <1>6, <6>2
          <6>4. x = y /\ ~(x > y) /\ ~(Len(a) < Len(b)) BY <1>8, <2>2, <6>1, <6>3
          <6> QED BY <3>1, <3>3, <4>1, <6>4
        <5>2. CASE a[2] = 1
          <6>1. (Len(a) = 2 /\ x = 9 * p + 5) \/ (Len(a) = 3 /\ x = 9 * p + 4)
            BY <1>5, <4>4, <5>2
          <6>2. b[2] = 1 /\ Len(b) > 1 BY <4>4, <5>2
          <6>3. (Len(b) = 2 /\ y = 9 * q + 5) \/ (Len(b) = 3 /\ y = 9 * q + 4)
            BY <1>6, <6>2
          <6>4. p \in Nat /\ p = q BY <1>1, <2>2
          <6>5. (Len(b) = 2 /\ y = 9 * p + 5) \/ (Len(b) = 3 /\ y = 9 * p + 4) BY <6>3, <6>4
          <6>6. CASE Len(a) = 2 /\ x = 9 * p + 5
            <7>1. CASE Len(b) = 2 /\ y = 9 * p + 5
              <8>1. ~(x > y) /\ ~(Len(a) < Len(b)) BY <1>8, <6>6, <7>1
              <8> QED BY <3>1, <3>3, <4>1, <8>1
            <7>2. CASE Len(b) = 3 /\ y = 9 * p + 4
              <8>1. x > y /\ Len(a) < Len(b) BY <6>4, <6>6, <7>2
              <8> QED BY <3>1, <3>3, <4>1, <8>1
            <7> QED BY <6>5, <7>1, <7>2
          <6>7. CASE Len(a) = 3 /\ x = 9 * p + 4
            <7>1. CASE Len(b) = 2 /\ y = 9 * p + 5
              <8>1. ~(x > y) BY <6>4, <6>7, <7>1
              <8>2. ~(Len(a) < Len(b)) BY <6>7, <7>1
              <8> QED BY <3>1, <3>3, <4>1, <8>1, <8>2
            <7>2. CASE Len(b) = 3 /\ y = 9 * p + 4
              <8>1. ~(x > y) BY <1>8, <6>7, <7>2
              <8>2. ~(Len(a) < Len(b)) BY <6>7, <7>2
              <8> QED BY <3>1, <3>3, <4>1, <8>1, <8>2
            <7> QED BY <6>5, <7>1, <7>2
          <6> QED BY <6>1, <6>6, <6>7
        <5>3. a[2] = 0 \/ a[2] = 1 BY <1>5, <4>4
        <5> QED BY <5>1, <5>2, <5>3
      <4> QED BY <1>7, <3>3, <4>2, <4>3, <4>4
    <3> QED BY <1>7, <3>2, <3>3
  <2> QED BY <2>1, <2>2
<1> QED BY <1>3, <1>4, <1>8, <1>9

(* Rows with times can be ordered by them and by their texts; where the     *)
(* texts sort as the times do the orders are one.                           *)
Timed(rows) == IsFiniteSet(rows) /\ \A r \in rows : r.at \in Nat
Later(rows) == {p \in rows \X rows : p[1].at > p[2].at}
LaterText(rows) ==
  {p \in rows \X rows : TextAbove(formatSQLiteTime(p[1].at), formatSQLiteTime(p[2].at))}

\* Newest and NewestText arrange the rows; in text order they are one.
LEMMA NewestArranges ==
  ASSUME NEW rows, Timed(rows)
  PROVE  /\ Arranges(Newest(rows), rows, Later(rows))
         /\ Arranges(NewestText(rows), rows, LaterText(rows))
         /\ InTextOrder(rows) => NewestText(rows) = Newest(rows)
<1>1. Newest(rows) = Sorted(rows, Later(rows)) /\ NewestText(rows) = Sorted(rows, LaterText(rows))
  BY DEF Newest, NewestText, Later, LaterText
<1>2. \A r, q \in rows : <<r, q>> \in Later(rows) <=> r.at > q.at BY DEF Later
<1>3. \A r, q \in rows : <<r, q>> \in LaterText(rows) <=> TextRank(r.at) > TextRank(q.at)
  <2> SUFFICES ASSUME NEW r \in rows, NEW q \in rows
               PROVE  <<r, q>> \in LaterText(rows) <=> TextRank(r.at) > TextRank(q.at)
    OBVIOUS
  <2>1. r.at \in Nat /\ q.at \in Nat BY DEF Timed
  <2>2. <<r, q>> \in LaterText(rows) <=> TextAbove(formatSQLiteTime(r.at), formatSQLiteTime(q.at))
    BY DEF LaterText
  <2> QED BY <2>1, <2>2, TextByRank
<1>4. \A r \in rows : r.at \in Nat /\ TextRank(r.at) \in Nat BY TextByRank DEF Timed
<1>5. StrictOrder(rows, Later(rows)) BY <1>2, <1>4 DEF StrictOrder
<1>6. StrictOrder(rows, LaterText(rows)) BY <1>3, <1>4 DEF StrictOrder
<1>7. InTextOrder(rows) => LaterText(rows) = Later(rows)
  <2> SUFFICES ASSUME InTextOrder(rows) PROVE LaterText(rows) = Later(rows) OBVIOUS
  <2>1. ASSUME NEW r \in rows, NEW q \in rows
        PROVE  <<r, q>> \in LaterText(rows) <=> <<r, q>> \in Later(rows)
    <3>1. PICK i, j : i = r.at /\ j = q.at OBVIOUS
    <3>2. i \in Nat /\ j \in Nat BY <1>4, <3>1
    <3>3. ~Misordered(i, j) /\ ~Misordered(j, i) BY <3>1 DEF InTextOrder
    <3>4. /\ i < j => ~(TextRank(i) > TextRank(j))
          /\ j < i => ~(TextRank(j) > TextRank(i))
      BY <3>2, <3>3, TextByRank DEF Misordered
    <3>5. /\ TextRank(i) \in Nat /\ TextRank(j) \in Nat /\ (TextRank(i) = TextRank(j) => i = j)
          /\ (i = j => TextRank(i) = TextRank(j))
      BY <3>2, TextByRank
    <3>6. TextRank(i) > TextRank(j) <=> i > j BY <3>2, <3>4, <3>5
    <3> QED BY <1>2, <1>3, <3>1, <3>6
  <2>2. Later(rows) \subseteq rows \X rows /\ LaterText(rows) \subseteq rows \X rows
    BY DEF Later, LaterText
  <2> QED BY <2>1, <2>2
<1>8. IsFiniteSet(rows) BY DEF Timed
<1> QED BY <1>1, <1>5, <1>6, <1>7, <1>8, SortedArranges

\* An arrangement shows all rows and no others.
LEMMA ArrangedSet ==
  ASSUME NEW rows, NEW before, NEW s, Arranges(s, rows, before)
  PROVE  AsSet(s) = rows
BY DEF Arranges, AsSet

-----------------------------------------------------------------------------
(* What a user sees of rows that are the image of a map.                    *)
LEMMA FiniteImage ==
  ASSUME NEW f, IsFiniteSet(DOMAIN f)
  PROVE  IsFiniteSet(ImageOf(f)) /\ \A T : T \subseteq ImageOf(f) => IsFiniteSet(T)
<1> DEFINE g == [x \in DOMAIN f |-> f[x]]
<1>1. g \in Surjection(DOMAIN f, ImageOf(f)) BY DEF Surjection, ImageOf
<1> HIDE DEF g
<1>2. IsFiniteSet(ImageOf(f)) BY <1>1, FS_Surjection
<1> QED BY <1>2, FS_Subset

(* What is found of a user's record: at most the one with its name. *)
OwnRow(found, f, d, u) == found = IF d \in DOMAIN f /\ f[d].user = u THEN {f[d]} ELSE {}

\* The row of an id and user is what the map has for the id.
LEMMA RowById ==
  ASSUME NEW f, \A x \in DOMAIN f : f[x].id = x, NEW d, NEW u
  PROVE  OwnRow({r \in ImageOf(f) : r.id = d /\ r.user = u}, f, d, u)
<1>1. \A r \in ImageOf(f) : r.id = d => d \in DOMAIN f /\ r = f[d] BY DEF ImageOf
<1>2. d \in DOMAIN f => f[d] \in ImageOf(f) /\ f[d].id = d BY DEF ImageOf
<1> QED BY <1>1, <1>2 DEF OwnRow

\* The row of a document is what the map has for it.
LEMMA RowByDoc ==
  ASSUME NEW f, \A x \in DOMAIN f : f[x].doc = x, NEW d
  PROVE  {r \in ImageOf(f) : r.doc = d} = IF d \in DOMAIN f THEN {f[d]} ELSE {}
<1>1. \A r \in ImageOf(f) : r.doc = d => d \in DOMAIN f /\ r = f[d] BY DEF ImageOf
<1>2. d \in DOMAIN f => f[d] \in ImageOf(f) /\ f[d].doc = d BY DEF ImageOf
<1> QED BY <1>1, <1>2

\* Both lists show the rows, in text order in the same order.
LEMMA ListsAgree ==
  ASSUME NEW rows, Timed(rows)
  PROVE  /\ AsSet(Newest(rows)) = rows /\ AsSet(NewestText(rows)) = rows
         /\ InTextOrder(rows) => NewestText(rows) = Newest(rows)
BY NewestArranges, ArrangedSet

\* Documents, files and their lists are the same in every variant.
LEMMA SameDocumentsHold == DocStoresInv => SameDocuments
<1> SUFFICES ASSUME DocStoresInv PROVE SameDocuments OBVIOUS
<1> DEFINE D == memoryRepo.docs
           F == memoryRepo.files
<1>1. /\ sqliteRepo.docs = ImageOf(D) /\ postgresRepo.docs = ImageOf(D) /\ IsFiniteSet(DOMAIN D)
      /\ (\A x \in DOMAIN D : D[x].id = x) /\ (\A x \in DOMAIN D : D[x].at \in Nat)
  BY DEF DocStoresInv, DocsInv
<1>2. /\ sqliteRepo.files = ImageOf(F) /\ postgresRepo.files = ImageOf(F)
      /\ \A x \in DOMAIN F : F[x].doc = x
  BY DEF DocStoresInv, FilesInv
<1> HIDE DEF D, F
<1>3. ASSUME NEW d \in Docs, NEW u \in Owners
      PROVE  /\ MemoryGetDoc(memoryRepo, d, u) = SqliteGetDoc(sqliteRepo, d, u)
             /\ MemoryGetDoc(memoryRepo, d, u) = PostgresGetDoc(postgresRepo, d, u)
  <2>1. {r \in ImageOf(D) : r.id = d /\ r.user = u} = IF d \in DOMAIN D /\ D[d].user = u THEN {D[d]} ELSE {}
    <3>1. PICK f : f = D OBVIOUS
    <3>2. \A x \in DOMAIN f : f[x].id = x BY <1>1, <3>1
    <3>3. OwnRow({r \in ImageOf(f) : r.id = d /\ r.user = u}, f, d, u) BY <3>2, RowById
    <3> QED BY <3>1, <3>3 DEF OwnRow
  <2> QED BY <1>1, <2>1 DEF MemoryGetDoc, SqliteGetDoc, PostgresGetDoc, D
<1>4. ASSUME NEW d \in Docs
      PROVE  /\ MemoryFindFile(memoryRepo, d) = SqliteFindFile(sqliteRepo, d)
             /\ MemoryFindFile(memoryRepo, d) = PostgresFindFile(postgresRepo, d)
  <2>1. {r \in ImageOf(F) : r.doc = d} = IF d \in DOMAIN F THEN {F[d]} ELSE {}
    BY <1>2, RowByDoc
  <2> QED BY <1>2, <2>1 DEF MemoryFindFile, SqliteFindFile, PostgresFindFile, F
<1>5. ASSUME NEW u \in Owners, NEW statuses, NEW ids \in SUBSET Docs
      PROVE  LET memory == MemoryListDocs(memoryRepo, u, statuses, ids)
                 sqlite == SqliteListDocs(sqliteRepo, u, statuses, ids)
                 postgres == PostgresListDocs(postgresRepo, u, statuses, ids)
             IN  /\ memory = AsSet(sqlite) /\ memory = AsSet(postgres)
                 /\ InTextOrder(memory) => sqlite = postgres
  <2> DEFINE Kept == {r \in ImageOf(D) : /\ r.user = u
                                         /\ statuses # NoFilter => r.status \in statuses
                                         /\ ids # NoFilter => r.id \in ids}
  <2>1. MemoryListDocs(memoryRepo, u, statuses, ids) = Kept BY DEF MemoryListDocs, ImageOf, D
  <2>2. SqliteListDocs(sqliteRepo, u, statuses, ids) = NewestText(Kept)
    <3>1. {r \in ImageOf(D) : r.user = u /\ Allowed(ids, r.id) /\ Allowed(statuses, r.status)} = Kept
      BY DEF Allowed
    <3>2. SqliteListDocs(sqliteRepo, u, statuses, ids)
            = NewestText({r \in ImageOf(D) : r.user = u /\ Allowed(ids, r.id) /\ Allowed(statuses, r.status)})
      BY <1>1 DEF SqliteListDocs
    <3> HIDE DEF Kept
    <3> QED BY <3>1, <3>2
  <2>3. PostgresListDocs(postgresRepo, u, statuses, ids) = Newest(Kept)
    BY <1>1 DEF PostgresListDocs
  <2>4. Timed(Kept)
    <3>1. \A r \in ImageOf(D) : r.at \in Nat BY <1>1 DEF ImageOf
    <3>2. Kept \subseteq ImageOf(D) OBVIOUS
    <3> HIDE DEF Kept
    <3> QED BY <1>1, <3>1, <3>2, FiniteImage DEF Timed
  <2> HIDE DEF Kept
  <2> QED BY <2>1, <2>2, <2>3, <2>4, ListsAgree
<1> QED BY <1>3, <1>4, <1>5 DEF SameDocuments

(* A log of n entries, newest first, is the only arrangement of them.       *)
LEMMA ReverseIsNewest ==
  ASSUME NEW s, NEW time, NEW log, LogUntil(s, time, log)
  PROVE  Timed(ImageOf(log)) /\ Reverse(log) = Newest(ImageOf(log))
<1> DEFINE n == Len(log)
           rows == ImageOf(log)
           back == Reverse(log)
<1>1. log \in Seq(LogOf(s)) /\ n \in Nat /\ DOMAIN log = 1..n BY DEF LogUntil
<1>2. \A i \in 1..n : log[i] \in rows /\ log[i].at \in Nat
  <2>1. \A i \in DOMAIN log : log[i] \in LogOf(s) BY <1>1, ElementOfSeq
  <2> HIDE DEF n
  <2> QED BY <1>1, <2>1 DEF LogOf, ImageOf
<1>3. \A r \in rows : \E i \in 1..n : r = log[i] BY <1>1 DEF ImageOf
<1>4. \A i, j \in 1..n : i < j => log[i].at < log[j].at BY <1>1 DEF LogUntil
<1>5. back = [i \in 1..n |-> log[(n - i) + 1]] BY DEF Reverse
<1> HIDE DEF n, rows, back
<1>6. IsFiniteSet(rows) /\ Cardinality(rows) = n
  <2> DEFINE f == [i \in 1..n |-> log[i]]
  <2>1. f \in Surjection(1..n, rows) BY <1>2, <1>3 DEF Surjection
  <2>2. f \in Injection(1..n, rows)
    <3>1. \A i, j \in 1..n : log[i] = log[j] => i = j
      <4> SUFFICES ASSUME NEW i \in 1..n, NEW j \in 1..n, log[i] = log[j], i # j PROVE FALSE OBVIOUS
      <4>1. i < j \/ j < i BY <1>1
      <4>2. log[i].at = log[j].at /\ log[i].at \in Nat BY <1>2
      <4> QED BY <1>4, <4>1, <4>2
    <3> QED BY <1>2, <3>1 DEF Injection, IsInjective
  <2>3. IsFiniteSet(1..n) /\ Cardinality(1..n) = n
    <3>1. 1 \in Int /\ n \in Int BY <1>1
    <3>2. IsFiniteSet(1..n) /\ Cardinality(1..n) = IF 1 > n THEN 0 ELSE n - 1 + 1 BY <3>1, FS_Interval
    <3> QED BY <1>1, <3>2
  <2> HIDE DEF f
  <2> QED BY <2>1, <2>2, <2>3, FS_Surjection
<1>7. Timed(rows) BY <1>2, <1>3, <1>6 DEF Timed
<1>8. Arranges(back, rows, Later(rows))
  <2>1. \A i \in 1..n : (n - i) + 1 \in 1..n /\ (n - ((n - i) + 1)) + 1 = i BY <1>1
  <2>2. \A i \in 1..n : back[i] = log[(n - i) + 1] /\ back[i] \in rows BY <1>2, <1>5, <2>1
  <2>3. back \in [1..n -> rows] BY <1>5, <2>2
  <2>4. \A r \in rows : \E i \in 1..n : back[i] = r
    <3> SUFFICES ASSUME NEW r \in rows PROVE \E i \in 1..n : back[i] = r OBVIOUS
    <3>1. PICK i \in 1..n : r = log[i] BY <1>3
    <3>2. back[(n - i) + 1] = r BY <2>1, <2>2, <3>1
    <3> QED BY <2>1, <3>2
  <2>5. \A i, j \in 1..n : i < j => back[i] # back[j] /\ <<back[j], back[i]>> \notin Later(rows)
    <3> SUFFICES ASSUME NEW i \in 1..n, NEW j \in 1..n, i < j
                 PROVE  back[i] # back[j] /\ <<back[j], back[i]>> \notin Later(rows)
      OBVIOUS
    <3>1. PICK k, l : k = (n - i) + 1 /\ l = (n - j) + 1 OBVIOUS
    <3>2. k \in 1..n /\ l \in 1..n /\ l < k BY <1>1, <3>1
    <3>3. back[i] = log[k] /\ back[j] = log[l] BY <2>2, <3>1
    <3>4. log[l].at < log[k].at /\ log[l].at \in Nat /\ log[k].at \in Nat BY <1>2, <1>4, <3>2
    <3>5. \A r, q : <<r, q>> \in Later(rows) => r.at > q.at BY DEF Later
    <3> QED BY <3>3, <3>4, <3>5
  <2> QED BY <1>6, <2>3, <2>4, <2>5 DEF Arranges
<1>9. \A r, q \in rows : r # q => <<r, q>> \in Later(rows) \/ <<q, r>> \in Later(rows)
  <2> SUFFICES ASSUME NEW r \in rows, NEW q \in rows, r # q
               PROVE  <<r, q>> \in Later(rows) \/ <<q, r>> \in Later(rows)
    OBVIOUS
  <2>1. PICK i \in 1..n : r = log[i] BY <1>3
  <2>2. PICK j \in 1..n : q = log[j] BY <1>3
  <2>3. i < j \/ j < i BY <1>1, <2>1, <2>2
  <2>4. r.at < q.at \/ q.at < r.at BY <1>4, <2>1, <2>2, <2>3
  <2>5. r.at \in Nat /\ q.at \in Nat BY <1>2, <2>1, <2>2
  <2> QED BY <2>4, <2>5 DEF Later
<1>10. Arranges(Newest(rows), rows, Later(rows)) BY <1>7, NewestArranges
<1>11. PICK a, b, l : a = back /\ b = Newest(rows) /\ l = Later(rows) OBVIOUS
<1>12. a = b BY <1>6, <1>8, <1>9, <1>10, <1>11, OneArrangement
<1> QED BY <1>7, <1>11, <1>12 DEF rows, back

\* Sessions and logs are the same in every variant, logs in memory reversed.
LEMMA SameSessionsHold == DocStoresInv => SameSessions
<1> SUFFICES ASSUME DocStoresInv PROVE SameSessions OBVIOUS
<1> DEFINE S == memoryRepo.sessions
           L == memoryRepo.logs
<1>1. /\ sqliteRepo.sessions = ImageOf(S) /\ postgresRepo.sessions = ImageOf(S) /\ IsFiniteSet(DOMAIN S)
      /\ (\A x \in DOMAIN S : S[x].id = x) /\ (\A x \in DOMAIN S : S[x].at \in Nat)
  BY DEF DocStoresInv, SessionsInv
<1>2. /\ sqliteRepo.logs = LogRowsOf(L) /\ postgresRepo.logs = LogRowsOf(L)
      /\ \A x \in DOMAIN L : LogUntil(x, docTime, L[x])
  BY DEF DocStoresInv, LogsInv, LogUntil
<1> HIDE DEF S, L
<1>3. ASSUME NEW u \in Owners
      PROVE  /\ MemoryListSessions(memoryRepo, u) = AsSet(SqliteListSessions(sqliteRepo, u))
             /\ MemoryListSessions(memoryRepo, u) = AsSet(PostgresListSessions(postgresRepo, u))
  <2> DEFINE Kept == {r \in ImageOf(S) : r.user = u}
  <2>1. MemoryListSessions(memoryRepo, u) = Kept BY DEF MemoryListSessions, ImageOf, S
  <2>2. /\ SqliteListSessions(sqliteRepo, u) = NewestText(Kept)
        /\ PostgresListSessions(postgresRepo, u) = Newest(Kept)
    BY <1>1 DEF SqliteListSessions, PostgresListSessions
  <2>3. Timed(Kept)
    <3>1. \A r \in ImageOf(S) : r.at \in Nat BY <1>1 DEF ImageOf
    <3>2. Kept \subseteq ImageOf(S) OBVIOUS
    <3> HIDE DEF Kept
    <3> QED BY <1>1, <3>1, <3>2, FiniteImage DEF Timed
  <2> HIDE DEF Kept
  <2> QED BY <2>1, <2>2, <2>3, ListsAgree
<1>4. ASSUME NEW u \in Owners, NEW s \in Chats
      PROVE  LET found == MemoryFindSession(memoryRepo, s, u)
                 oldestFirst == MemoryListLogs(memoryRepo, s, u)
             IN  /\ found = SqliteFindSession(sqliteRepo, s, u)
                 /\ found = PostgresFindSession(postgresRepo, s, u)
                 /\ found # {} =>
                      /\ Reverse(oldestFirst) = PostgresListLogs(postgresRepo, s, u)
                      /\ InTextOrder(AsSet(oldestFirst)) =>
                           Reverse(oldestFirst) = SqliteListLogs(sqliteRepo, s, u)
  <2> DEFINE found == MemoryFindSession(memoryRepo, s, u)
             oldestFirst == MemoryListLogs(memoryRepo, s, u)
             rows == {q \in LogRowsOf(L) : q.session = s}
  <2>1. found = SqliteFindSession(sqliteRepo, s, u) /\ found = PostgresFindSession(postgresRepo, s, u)
    <3>1. {r \in ImageOf(S) : r.id = s /\ r.user = u} = IF s \in DOMAIN S /\ S[s].user = u THEN {S[s]} ELSE {}
      <4>1. OwnRow({r \in ImageOf(S) : r.id = s /\ r.user = u}, S, s, u) BY <1>1, RowById
      <4> QED BY <4>1 DEF OwnRow
    <3> QED BY <1>1, <3>1 DEF MemoryFindSession, SqliteFindSession, PostgresFindSession, S
  <2>2. LogUntil(s, docTime, oldestFirst)
    <3>1. oldestFirst = IF s \in DOMAIN L THEN L[s] ELSE << >> BY DEF MemoryListLogs, L
    <3> HIDE DEF oldestFirst
    <3>2. CASE s \in DOMAIN L BY <1>2, <3>1, <3>2
    <3>3. CASE s \notin DOMAIN L
      <4>1. << >> \in Seq(LogOf(s)) /\ DOMAIN << >> = {} OBVIOUS
      <4>2. LogUntil(s, docTime, << >>) BY <4>1 DEF LogUntil
      <4> QED BY <3>1, <3>3, <4>2
    <3> QED BY <3>2, <3>3
  <2>3. rows = ImageOf(oldestFirst)
    <3>1. oldestFirst = IF s \in DOMAIN L THEN L[s] ELSE << >> BY DEF MemoryListLogs, L
    <3> HIDE DEF oldestFirst
    <3>2. ASSUME NEW x \in DOMAIN L, NEW r \in ImageOf(L[x]) PROVE r.session = x
      <4>1. PICK l : l = L[x] OBVIOUS
      <4>2. l \in Seq(LogOf(x)) BY <1>2, <4>1 DEF LogUntil
      <4>3. PICK i \in DOMAIN l : r = l[i] BY <4>1 DEF ImageOf
      <4>4. r \in LogOf(x) BY <4>2, <4>3, ElementOfSeq
      <4> QED BY <4>4 DEF LogOf
    <3>3. \A r : r \in LogRowsOf(L) <=> \E x \in DOMAIN L : r \in ImageOf(L[x]) BY DEF LogRowsOf
    <3>4. \A r : r \in rows <=> s \in DOMAIN L /\ r \in ImageOf(L[s]) BY <3>2, <3>3
    <3>5. ImageOf(<< >>) = {} BY DEF ImageOf
    <3> HIDE DEF rows
    <3>6. CASE s \in DOMAIN L BY <3>1, <3>4, <3>6
    <3>7. CASE s \notin DOMAIN L BY <3>1, <3>4, <3>5, <3>7
    <3> QED BY <3>6, <3>7
  <2>4. found # {} => /\ SqliteListLogs(sqliteRepo, s, u) = NewestText(rows)
                      /\ PostgresListLogs(postgresRepo, s, u) = Newest(rows)
    <3> SUFFICES ASSUME found # {} PROVE /\ SqliteListLogs(sqliteRepo, s, u) = NewestText(rows)
                                         /\ PostgresListLogs(postgresRepo, s, u) = Newest(rows)
      OBVIOUS
    <3>1. SqliteFindSession(sqliteRepo, s, u) # {} /\ PostgresFindSession(postgresRepo, s, u) # {}
      BY <2>1
    <3>2. {q \in sqliteRepo.logs : q.session = s /\ SqliteFindSession(sqliteRepo, s, u) # {}} = rows
      BY <1>2, <3>1
    <3>3. {q \in postgresRepo.logs : q.session = s /\ PostgresFindSession(postgresRepo, s, u) # {}} = rows
      BY <1>2, <3>1
    <3> HIDE DEF rows
    <3> QED BY <3>2, <3>3 DEF SqliteListLogs, PostgresListLogs
  <2>5. AsSet(oldestFirst) = ImageOf(oldestFirst) BY DEF AsSet, ImageOf
  <2> HIDE DEF found, oldestFirst, rows
  <2>6. Timed(rows) /\ Reverse(oldestFirst) = Newest(rows) BY <2>2, <2>3, ReverseIsNewest
  <2>7. InTextOrder(rows) => NewestText(rows) = Newest(rows) BY <2>6, ListsAgree
  <2> QED BY <2>1, <2>3, <2>4, <2>5, <2>6, <2>7 DEF found, oldestFirst
<1> QED BY <1>3, <1>4 DEF SameSessions
-----------------------------------------------------------------------------
(* What a search finds: in memory the places of the chunks of the documents *)
(* it may look into, in the tables their rows.  Places and rows pair up.    *)
Ordered(C) ==
  /\ IsFiniteSet(DOMAIN C)
  /\ \A d \in DOMAIN C : C[d] \in Seq(Chunk) /\ InOrder(C[d])
Places(C) == UNION {{d} \X DOMAIN C[d] : d \in DOMAIN C}
PlaceHits(C, V) ==
  {[hit |-> h, near |-> C[h[1]][h[2]].near] : h \in {p \in Places(C) : p[1] \in V}}
RowHits(C, V) == {r \in RowsOf(C) : r.doc \in V}
NearOf(rows) == [r \in rows |-> r.near]

\* A place is a document and one of the positions of its chunks.
LEMMA PlaceOfSome ==
  ASSUME NEW C, NEW h
  PROVE  h \in Places(C) <=> \E d \in DOMAIN C : \E i \in DOMAIN C[d] : h = <<d, i>>
<1> DEFINE of(d) == {d} \X DOMAIN C[d]
<1>1. Places(C) = UNION {of(d) : d \in DOMAIN C} BY DEF Places
<1>2. \A d : h \in of(d) <=> \E i \in DOMAIN C[d] : h = <<d, i>> OBVIOUS
<1> HIDE DEF of
<1> QED BY <1>1, <1>2

\* There are finitely many places.
LEMMA FinitePlaces ==
  ASSUME NEW C, Ordered(C)
  PROVE  IsFiniteSet(Places(C))
<1> DEFINE of == [d \in DOMAIN C |-> {d} \X DOMAIN C[d]]
           all == {of[d] : d \in DOMAIN C}
<1>1. Places(C) = UNION all BY DEF Places
<1>2. of \in Surjection(DOMAIN C, all) BY DEF Surjection
<1>3. \A T \in all : IsFiniteSet(T)
  <2> SUFFICES ASSUME NEW d \in DOMAIN C PROVE IsFiniteSet({d} \X DOMAIN C[d]) OBVIOUS
  <2>1. PICK c : c = C[d] OBVIOUS
  <2>2. c \in Seq(Chunk) BY <2>1 DEF Ordered
  <2>3. DOMAIN c = 1..Len(c) /\ Len(c) \in Int /\ 1 \in Int BY <2>2
  <2>4. IsFiniteSet(DOMAIN c) BY <2>3, FS_Interval
  <2>5. IsFiniteSet({d}) BY FS_Singleton
  <2>6. IsFiniteSet({d} \X DOMAIN c) BY <2>4, <2>5, FS_Product
  <2> QED BY <2>1, <2>6
<1> HIDE DEF of, all
<1>4. IsFiniteSet(DOMAIN C) BY DEF Ordered
<1>5. IsFiniteSet(all) BY <1>2, <1>4, FS_Surjection
<1> QED BY <1>1, <1>3, <1>5, FS_UNION

\* The chunks of a document have numbers, and two places different rows.
LEMMA ChunkAt ==
  ASSUME NEW C, Ordered(C), NEW d \in DOMAIN C, NEW i \in DOMAIN C[d]
  PROVE  /\ i \in Nat /\ C[d][i].index \in Nat /\ C[d][i].near \in Nat /\ C[d][i].at \in Nat
         /\ \A j \in DOMAIN C[d] : ChunkRow(d, C[d][i]) = ChunkRow(d, C[d][j]) => i = j
<1>1. PICK c : c = C[d] OBVIOUS
<1>2. c \in Seq(Chunk) /\ InOrder(c) /\ i \in DOMAIN c BY <1>1 DEF Ordered
<1>3. \A j \in DOMAIN c : c[j] \in Chunk /\ j \in Nat
  <2>1. \A j \in DOMAIN c : c[j] \in Chunk BY <1>2, ElementOfSeq
  <2>2. \A j \in DOMAIN c : j \in Nat BY <1>2
  <2> QED BY <2>1, <2>2
<1>4. ASSUME NEW j \in DOMAIN c, ChunkRow(d, c[i]) = ChunkRow(d, c[j]) PROVE i = j
  <2>1. PICK a, b : a = c[i] /\ b = c[j] OBVIOUS
  <2>2. a \in Chunk /\ b \in Chunk /\ i \in Nat /\ j \in Nat BY <1>2, <1>3, <2>1
  <2>3. ChunkRow(d, a) = ChunkRow(d, b) BY <1>4, <2>1
  <2>4. a.index = b.index /\ a.at = b.at BY <2>3 DEF ChunkRow
  <2>5. a.index \in Nat /\ a.at \in Nat BY <2>2 DEF Chunk
  <2>6. /\ i < j => a.at < b.at \/ (a.at = b.at /\ a.index < b.index)
        /\ j < i => b.at < a.at \/ (b.at = a.at /\ b.index < a.index)
    BY <1>2, <2>1 DEF InOrder
  <2>7. ~(i < j) /\ ~(j < i) BY <2>4, <2>5, <2>6
  <2> QED BY <2>2, <2>7
<1>5. c[i].index \in Nat /\ c[i].near \in Nat /\ c[i].at \in Nat /\ i \in Nat BY <1>2, <1>3 DEF Chunk
<1> QED BY <1>1, <1>4, <1>5

\* Each place that may be hit has its row, and they are equally near.
LEMMA HitsPair ==
  ASSUME NEW C, Ordered(C), NEW V
  PROVE  LET A == PlaceHits(C, V)
             B == RowHits(C, V)
         IN  /\ IsFiniteSet(A) /\ IsFiniteSet(B)
             /\ \A a \in A : a.near \in Nat
             /\ \A b \in B : b.near \in Nat /\ b.at \in Nat
             /\ \E f : Pairs(f, A, NearOf(A), B, NearOf(B))
<1> DEFINE H == {p \in Places(C) : p[1] \in V}
           A == PlaceHits(C, V)
           B == RowHits(C, V)
           Place(h) == [hit |-> h, near |-> C[h[1]][h[2]].near]
           row == [a \in A |-> ChunkRow(a.hit[1], C[a.hit[1]][a.hit[2]])]
<1>1. \A h : h \in H <=> \E d \in DOMAIN C : \E i \in DOMAIN C[d] : h = <<d, i>> /\ d \in V
  BY PlaceOfSome
<1>2. A = {Place(h) : h \in H} BY DEF PlaceHits
<1>3. IsFiniteSet(H) BY FinitePlaces, FS_Subset
<1>4. \A h \in H : Place(h).hit = h /\ Place(h).near = C[h[1]][h[2]].near OBVIOUS
<1> HIDE DEF H, A, Place
<1>5. IsFiniteSet(A)
  <2> DEFINE place == [h \in H |-> Place(h)]
  <2>1. place \in Surjection(H, A) BY <1>2 DEF Surjection
  <2> HIDE DEF place
  <2> QED BY <1>3, <2>1, FS_Surjection
<1>6. \A a \in A : \E d \in DOMAIN C : \E i \in DOMAIN C[d] :
        a = Place(<<d, i>>) /\ <<d, i>> \in H /\ d \in V
  BY <1>1, <1>2
<1>7. ASSUME NEW d \in DOMAIN C, NEW i \in DOMAIN C[d], d \in V
      PROVE  /\ Place(<<d, i>>) \in A /\ Place(<<d, i>>).hit = <<d, i>>
             /\ Place(<<d, i>>).near = C[d][i].near
             /\ row[Place(<<d, i>>)] = ChunkRow(d, C[d][i])
  <2>1. <<d, i>> \in H /\ <<d, i>>[1] = d /\ <<d, i>>[2] = i BY <1>1, <1>7
  <2>2. Place(<<d, i>>) \in A BY <1>2, <2>1
  <2>3. Place(<<d, i>>).hit = <<d, i>> /\ Place(<<d, i>>).near = C[d][i].near BY <1>4, <2>1
  <2> QED BY <2>1, <2>2, <2>3
<1>8. \A r : r \in B <=> \E d \in DOMAIN C : \E i \in DOMAIN C[d] : r = ChunkRow(d, C[d][i]) /\ d \in V
  <2>1. \A d, c : ChunkRow(d, c).doc = d BY DEF ChunkRow
  <2> QED BY <2>1, RowOfSome DEF RowHits
<1> HIDE DEF row, B
<1>9. row \in [A -> B]
  <2>1. row = [a \in A |-> row[a]] BY DEF row
  <2>2. ASSUME NEW a \in A PROVE row[a] \in B
    <3>1. PICK d \in DOMAIN C : \E i \in DOMAIN C[d] : a = Place(<<d, i>>) /\ d \in V BY <1>6
    <3>2. PICK i \in DOMAIN C[d] : a = Place(<<d, i>>) BY <3>1
    <3>3. row[a] = ChunkRow(d, C[d][i]) BY <1>7, <3>1, <3>2
    <3> QED BY <1>8, <3>1, <3>3
  <2> QED BY <2>1, <2>2
<1>10. ASSUME NEW b \in B PROVE \E a \in A : row[a] = b
  <2>1. PICK d \in DOMAIN C : \E i \in DOMAIN C[d] : b = ChunkRow(d, C[d][i]) /\ d \in V BY <1>8
  <2>2. PICK i \in DOMAIN C[d] : b = ChunkRow(d, C[d][i]) BY <2>1
  <2> QED BY <1>7, <2>1, <2>2
<1>11. \A a, b \in A : row[a] = row[b] => a = b
  <2> SUFFICES ASSUME NEW a \in A, NEW b \in A, row[a] = row[b] PROVE a = b OBVIOUS
  <2>1. PICK d \in DOMAIN C : \E i \in DOMAIN C[d] : a = Place(<<d, i>>) /\ d \in V BY <1>6
  <2>2. PICK i \in DOMAIN C[d] : a = Place(<<d, i>>) BY <2>1
  <2>3. PICK e \in DOMAIN C : \E j \in DOMAIN C[e] : b = Place(<<e, j>>) /\ e \in V BY <1>6
  <2>4. PICK j \in DOMAIN C[e] : b = Place(<<e, j>>) BY <2>3
  <2>5. ChunkRow(d, C[d][i]) = ChunkRow(e, C[e][j]) BY <1>7, <2>1, <2>2, <2>3, <2>4
  <2>6. d = e BY <2>5 DEF ChunkRow
  <2>7. i = j BY <2>5, <2>6, ChunkAt
  <2> QED BY <2>2, <2>4, <2>6, <2>7
<1>12. \A a \in A : a.near \in Nat /\ row[a].near = a.near
  <2> SUFFICES ASSUME NEW a \in A PROVE a.near \in Nat /\ row[a].near = a.near OBVIOUS
  <2>1. PICK d \in DOMAIN C : \E i \in DOMAIN C[d] : a = Place(<<d, i>>) /\ d \in V BY <1>6
  <2>2. PICK i \in DOMAIN C[d] : a = Place(<<d, i>>) BY <2>1
  <2>3. a.near = C[d][i].near /\ row[a] = ChunkRow(d, C[d][i]) BY <1>7, <2>1, <2>2
  <2>4. C[d][i].near \in Nat BY ChunkAt
  <2>5. ChunkRow(d, C[d][i]).near = C[d][i].near BY DEF ChunkRow
  <2> QED BY <2>3, <2>4, <2>5
<1>13. \A b \in B : b.near \in Nat /\ b.at \in Nat
  <2> SUFFICES ASSUME NEW d \in DOMAIN C, NEW i \in DOMAIN C[d]
               PROVE  ChunkRow(d, C[d][i]).near \in Nat /\ ChunkRow(d, C[d][i]).at \in Nat
    BY <1>8
  <2>1. C[d][i].near \in Nat /\ C[d][i].at \in Nat BY ChunkAt
  <2> QED BY <2>1 DEF ChunkRow
<1>14. IsFiniteSet(B)
  <2>1. row \in Surjection(A, B) BY <1>9, <1>10 DEF Surjection
  <2> QED BY <1>5, <2>1, FS_Surjection
<1>15. Pairs(row, A, NearOf(A), B, NearOf(B))
  <2>1. \A a \in A : NearOf(B)[row[a]] = NearOf(A)[a] BY <1>9, <1>12 DEF NearOf
  <2> QED BY <1>9, <1>10, <1>11, <2>1 DEF Pairs
<1> QED BY <1>5, <1>12, <1>13, <1>14, <1>15 DEF A, B

(* Sorted by nearness, whatever breaks ties, they show the same numbers.    *)
NearestFirst(rows) == {p \in rows \X rows : p[1].near > p[2].near}
NearestNewestFirst(rows) ==
  {p \in rows \X rows : \/ p[1].near > p[2].near
                        \/ p[1].near = p[2].near /\ p[1].at > p[2].at}

\* Of those asked for, SearchLimit at most.
Within(k) == IF k > SearchLimit THEN SearchLimit ELSE k

\* The nearness of the first k of what a limit of SearchLimit leaves.
LEMMA TopShows ==
  ASSUME NEW rows, IsFiniteSet(rows), NEW before, NEW s, Arranges(s, rows, before), NEW k \in Nat
  PROVE  LET n == Cardinality(rows)
             shown == [i \in 1..(IF n > Within(k) THEN Within(k) ELSE n) |-> s[i].near]
         IN  TopNears(s, Within(k)) = shown /\ TopNears(Prefix(s, SearchLimit), k) = shown
<1> DEFINE n == Cardinality(rows)
           used == IF n > Within(k) THEN Within(k) ELSE n
           kept == IF n > SearchLimit THEN SearchLimit ELSE n
<1>1. n \in Nat /\ SearchLimit \in Nat /\ Within(k) \in Nat
  BY FS_CardinalityType, SearchAssumption DEF Within
<1>2. s \in [1..n -> rows] BY DEF Arranges
<1>3. Prefix(s, Within(k)) = [i \in 1..used |-> s[i]] BY <1>1, PrefixesShow
<1>4. Prefix(s, SearchLimit) = [i \in 1..kept |-> s[i]] BY <1>1, PrefixesShow
<1> HIDE DEF n
<1>5. kept \in Nat /\ used \in Nat /\ (\A i \in 1..kept : i \in 1..n) /\ (\A i \in 1..used : i \in 1..kept)
      /\ used = IF kept > k THEN k ELSE kept
  BY <1>1 DEF Within
<1> HIDE DEF used, kept
<1>6. PICK p : p = Prefix(s, SearchLimit) OBVIOUS
<1>7. p \in [1..kept -> rows] /\ \A i \in 1..used : p[i] = s[i] BY <1>2, <1>4, <1>5, <1>6
<1>8. Prefix(p, k) = [i \in 1..(IF kept > k THEN k ELSE kept) |-> p[i]]
  <2>1. Begins(Prefix(p, k), p, kept, k) BY <1>5, <1>7, PrefixBegins
  <2> QED BY <2>1 DEF Begins
<1>9. Prefix(p, k) = [i \in 1..used |-> s[i]] BY <1>5, <1>7, <1>8
<1>10. TopNears(s, Within(k)) = [i \in 1..used |-> s[i].near] BY <1>3 DEF TopNears
<1>11. TopNears(p, k) = [i \in 1..used |-> s[i].near] BY <1>9 DEF TopNears
<1> QED BY <1>6, <1>10, <1>11 DEF used, n

\* Memory, Postgres and SQLite find equally near chunks.
LEMMA SearchesAgree ==
  ASSUME NEW C, Ordered(C), NEW V, NEW k \in Nat
  PROVE  LET A == PlaceHits(C, V)
             B == RowHits(C, V)
         IN  /\ TopNears(Nearest(A), Within(k)) = TopNears(Prefix(Nearest(B), SearchLimit), k)
             /\ TopNears(Nearest(A), Within(k)) = TopNears(Prefix(NearestNewest(B), SearchLimit), k)
<1> DEFINE A == PlaceHits(C, V)
           B == RowHits(C, V)
           a == Sorted(A, NearestFirst(A))
           b == Sorted(B, NearestFirst(B))
           c == Sorted(B, NearestNewestFirst(B))
<1>1. /\ IsFiniteSet(A) /\ IsFiniteSet(B)
      /\ \A r \in A : r.near \in Nat
      /\ \A r \in B : r.near \in Nat /\ r.at \in Nat
      /\ \E f : Pairs(f, A, NearOf(A), B, NearOf(B))
  BY HitsPair
<1>2. Nearest(A) = a /\ Nearest(B) = b /\ NearestNewest(B) = c
  BY DEF Nearest, NearestNewest, NearestFirst, NearestNewestFirst
<1> HIDE DEF A, B
<1>3. PICK f : Pairs(f, A, NearOf(A), B, NearOf(B)) BY <1>1
<1>4. StrictOrder(A, NearestFirst(A)) BY <1>1 DEF StrictOrder, NearestFirst
<1>5. StrictOrder(B, NearestFirst(B)) BY <1>1 DEF StrictOrder, NearestFirst
<1>6. StrictOrder(B, NearestNewestFirst(B)) BY <1>1 DEF StrictOrder, NearestNewestFirst
<1>7. NearOf(A) \in [A -> Int] /\ NearOf(B) \in [B -> Int] BY <1>1 DEF NearOf
<1>8. Follows(NearestFirst(A), A, NearOf(A)) BY DEF Follows, NearestFirst, NearOf
<1>9. Follows(NearestFirst(B), B, NearOf(B)) BY DEF Follows, NearestFirst, NearOf
<1>10. Follows(NearestNewestFirst(B), B, NearOf(B)) BY DEF Follows, NearestNewestFirst, NearOf
<1>11. Arranges(a, A, NearestFirst(A)) BY <1>1, <1>4, SortedArranges
<1>12. Arranges(b, B, NearestFirst(B)) BY <1>1, <1>5, SortedArranges
<1>13. Arranges(c, B, NearestNewestFirst(B)) BY <1>1, <1>6, SortedArranges
<1> HIDE DEF a, b, c
<1> DEFINE n == Cardinality(A)
           used == IF n > Within(k) THEN Within(k) ELSE n
<1>14. Cardinality(B) = n /\ \A i \in 1..n : NearOf(A)[a[i]] = NearOf(B)[b[i]]
  BY <1>1, <1>3, <1>7, <1>8, <1>9, <1>11, <1>12, SameKeys
<1>15. \A i \in 1..n : NearOf(A)[a[i]] = NearOf(B)[c[i]]
  BY <1>1, <1>3, <1>7, <1>8, <1>10, <1>11, <1>13, SameKeys
<1>16. \A i \in 1..n : a[i] \in A /\ b[i] \in B /\ c[i] \in B
  BY <1>11, <1>12, <1>13, <1>14 DEF Arranges
<1>17. \A i \in 1..n : a[i].near = b[i].near /\ a[i].near = c[i].near
  BY <1>14, <1>15, <1>16 DEF NearOf
<1>18. TopNears(a, Within(k)) = [i \in 1..used |-> a[i].near] BY <1>1, <1>11, TopShows
<1>19. TopNears(Prefix(b, SearchLimit), k) = [i \in 1..used |-> b[i].near]
  BY <1>1, <1>12, <1>14, TopShows
<1>20. TopNears(Prefix(c, SearchLimit), k) = [i \in 1..used |-> c[i].near]
  BY <1>1, <1>13, <1>14, TopShows
<1>21. \A i \in 1..used : i \in 1..n BY <1>1, FS_CardinalityType, SearchAssumption DEF Within
<1> HIDE DEF used, n
<1> QED BY <1>2, <1>17, <1>18, <1>19, <1>20, <1>21 DEF A, B

\* Whatever the filter, a question finds equally near chunks.
LEMMA SameHitsHold == DocStoresInv => SameHits
<1> SUFFICES ASSUME DocStoresInv, NEW u \in Owners, NEW ids \in SUBSET Docs, NEW k \in 1..TopK
             PROVE  LET memory == TopNears(MemorySearch(memoryRepo, u, {"processed"}, ids), Within(k))
                    IN  /\ RankedAlike(postgresRepo.chunks) =>
                             TopNears(PostgresSearch(postgresRepo, u, {"processed"}, ids), k) = memory
                        /\ refused = {} =>
                             TopNears(SqliteSearch(sqliteRepo, u, {"processed"}, ids), k) = memory
  BY DEF SameHits, Within
<1> DEFINE D == memoryRepo.docs
           C == memoryRepo.chunks
           V == {d \in DOMAIN D : /\ D[d].user = u /\ D[d].status \in {"processed"}
                                  /\ ids # NoFilter => d \in ids}
<1>1. /\ sqliteRepo.docs = ImageOf(D) /\ postgresRepo.docs = ImageOf(D) /\ IsFiniteSet(DOMAIN D)
      /\ \A x \in DOMAIN D : D[x].id = x
  BY DEF DocStoresInv, DocsInv
<1>2. /\ Ordered(C) /\ postgresRepo.chunks = RowsOf(C)
      /\ refused = {} => sqliteRepo.chunks = RowsOf(C)
  <2>1. IsFiniteSet(DOMAIN C) BY <1>1, FS_Subset DEF DocStoresInv, ChunksInv
  <2> QED BY <2>1 DEF DocStoresInv, ChunksInv, Ordered
<1>3. \A x : x \in V <=> /\ \E doc \in ImageOf(D) : doc.id = x /\ doc.user = u /\ doc.status \in {"processed"}
                         /\ ids # NoFilter => x \in ids
  BY <1>1 DEF ImageOf
<1>4. \A x : (\E doc \in MemoryGetDoc(memoryRepo, x, u) : doc.status \in {"processed"})
               <=> x \in DOMAIN D /\ D[x].user = u /\ D[x].status \in {"processed"}
  BY DEF MemoryGetDoc
<1>5. MemorySearch(memoryRepo, u, {"processed"}, ids) = Nearest(PlaceHits(C, V))
  <2> DEFINE hits == {h \in Places(C) :
                        /\ ids # NoFilter => h[1] \in ids
                        /\ \E doc \in MemoryGetDoc(memoryRepo, h[1], u) :
                             {"processed"} # NoFilter => doc.status \in {"processed"}}
  <2>1. hits = {p \in Places(C) : p[1] \in V} BY <1>4 DEF NoFilter
  <2>2. MemorySearch(memoryRepo, u, {"processed"}, ids)
          = Nearest({[hit |-> h, near |-> C[h[1]][h[2]].near] : h \in hits})
    BY DEF MemorySearch, Places
  <2> HIDE DEF hits, C, V
  <2> QED BY <2>1, <2>2 DEF PlaceHits
<1>6. PostgresSearch(postgresRepo, u, {"processed"}, ids) = Prefix(ByDistance(RowHits(C, V)), SearchLimit)
  <2> DEFINE hits == {c \in RowsOf(C) :
                        /\ \E d \in ImageOf(D) : /\ d.id = c.doc /\ d.user = u
                                                 /\ {"processed"} # NoFilter => d.status \in {"processed"}
                        /\ ids # NoFilter => c.doc \in ids}
  <2>1. PostgresSearch(postgresRepo, u, {"processed"}, ids) = Prefix(ByDistance(hits), SearchLimit)
    BY <1>1, <1>2 DEF PostgresSearch
  <2>2. hits = RowHits(C, V)
    <3> HIDE DEF C, D, V
    <3> QED BY <1>3 DEF RowHits, NoFilter
  <2> HIDE DEF hits
  <2> QED BY <2>1, <2>2
<1>7. refused = {} => SqliteSearch(sqliteRepo, u, {"processed"}, ids)
                        = Prefix(NearestNewest(RowHits(C, V)), SearchLimit)
  <2> SUFFICES ASSUME refused = {}
               PROVE  SqliteSearch(sqliteRepo, u, {"processed"}, ids)
                        = Prefix(NearestNewest(RowHits(C, V)), SearchLimit)
    OBVIOUS
  <2> DEFINE hits == {c \in RowsOf(C) :
                        \E d \in ImageOf(D) : /\ d.id = c.doc /\ d.user = u
                                              /\ Allowed(ids, d.id) /\ Allowed({"processed"}, d.status)}
  <2>1. SqliteSearch(sqliteRepo, u, {"processed"}, ids) = Prefix(NearestNewest(hits), SearchLimit)
    BY <1>1, <1>2 DEF SqliteSearch
  <2>2. hits = RowHits(C, V)
    <3> HIDE DEF C, D, V
    <3> QED BY <1>3 DEF RowHits, NoFilter, Allowed
  <2> HIDE DEF hits
  <2> QED BY <2>1, <2>2
<1> HIDE DEF C, D, V
<1>8. ASSUME RankedAlike(postgresRepo.chunks)
      PROVE  ByDistance(RowHits(C, V)) = Nearest(RowHits(C, V))
  <2>1. RankedAlike(RowHits(C, V)) BY <1>2, <1>8 DEF RankedAlike, RowHits
  <2> QED BY <2>1, DistanceSorts
<1>9. k \in Nat BY SearchAssumption
<1>10. /\ TopNears(Nearest(PlaceHits(C, V)), Within(k))
            = TopNears(Prefix(Nearest(RowHits(C, V)), SearchLimit), k)
       /\ TopNears(Nearest(PlaceHits(C, V)), Within(k))
            = TopNears(Prefix(NearestNewest(RowHits(C, V)), SearchLimit), k)
  BY <1>2, <1>9, SearchesAgree
<1> QED BY <1>5, <1>6, <1>7, <1>8, <1>10

(* The documents, hits and sessions a caller sees do not depend on the      *)
(* variant of the stores that was wired, whatever was called.               *)
THEOREM DocumentStoresAgreeHolds == DocStoreSpec => []DocumentStoresAgree
<1>1. DocStoresInv => DocumentStoresAgree
  BY SameDocumentsHold, SameHitsHold, SameSessionsHold DEF DocumentStoresAgree
<1> QED BY <1>1, DocStoresInvHolds, PTL

-----------------------------------------------------------------------------
(* The message logs: the same messages in every variant, numbered in the    *)
(* order they were written, no earlier time after a later one.              *)
Message == [id : Nat, at : Nat, tokens : Nat]
Logged(memory, sqlite, postgres, time) ==
  /\ memory \in Seq(Message)
  /\ \A i \in DOMAIN memory : memory[i].id = i /\ memory[i].at <= time
  /\ \A i, j \in DOMAIN memory : i < j => memory[i].at <= memory[j].at
  /\ sqlite = ImageOf(memory) /\ postgres = sqlite
ChatLogInv == chatTime \in Nat /\ Logged(memoryLog, sqliteLog, postgresLog, chatTime)

\* A log has as many rows as messages, which their numbers tell apart.
LEMMA LoggedRows ==
  ASSUME NEW memory, NEW sqlite, NEW postgres, NEW time \in Nat, Logged(memory, sqlite, postgres, time)
  PROVE  IsFiniteSet(sqlite) /\ Cardinality(sqlite) = Len(memory)
<1> DEFINE n == Len(memory)
           f == [i \in 1..n |-> memory[i]]
<1>1. n \in Nat /\ DOMAIN memory = 1..n BY DEF Logged
<1>2. \A i \in 1..n : memory[i] \in sqlite /\ memory[i].id = i BY <1>1 DEF Logged, ImageOf
<1>3. \A r \in sqlite : \E i \in 1..n : r = memory[i] BY <1>1 DEF Logged, ImageOf
<1> HIDE DEF n
<1>4. f \in Surjection(1..n, sqlite) BY <1>2, <1>3 DEF Surjection
<1>5. f \in Injection(1..n, sqlite)
  <2>1. \A i, j \in 1..n : memory[i] = memory[j] => i = j BY <1>2
  <2> QED BY <1>2, <2>1 DEF Injection, IsInjective
<1>6. IsFiniteSet(1..n) /\ Cardinality(1..n) = n
  <2>1. 1 \in Int /\ n \in Int BY <1>1
  <2>2. IsFiniteSet(1..n) /\ Cardinality(1..n) = IF 1 > n THEN 0 ELSE n - 1 + 1 BY <2>1, FS_Interval
  <2> QED BY <1>1, <2>2
<1> HIDE DEF f
<1>7. IsFiniteSet(sqlite) /\ Cardinality(sqlite) = n BY <1>4, <1>5, <1>6, FS_Surjection
<1> QED BY <1>7 DEF n

\* An append of a message of this time keeps the logs alike.
LEMMA AppendKeepsLogged ==
  ASSUME NEW memory, NEW sqlite, NEW postgres, NEW time \in Nat, Logged(memory, sqlite, postgres, time),
         NEW tokens \in Nat, NEW msg, msg = [id |-> 0, at |-> time, tokens |-> tokens]
  PROVE  Logged(MemoryAppend(memory, msg), SqliteAppend(sqlite, msg), PostgresAppend(postgres, msg), time)
<1> DEFINE n == Len(memory)
           row == [msg EXCEPT !.id = n + 1]
<1>1. /\ memory \in Seq(Message) /\ n \in Nat /\ DOMAIN memory = 1..n
      /\ \A i \in 1..n : memory[i].id = i /\ memory[i].at <= time /\ memory[i] \in Message
      /\ \A i, j \in 1..n : i < j => memory[i].at <= memory[j].at
      /\ sqlite = ImageOf(memory) /\ postgres = sqlite
  <2>1. memory \in Seq(Message) /\ n \in Nat /\ DOMAIN memory = 1..n BY DEF Logged
  <2>2. \A i \in DOMAIN memory : memory[i] \in Message BY <2>1, ElementOfSeq
  <2> HIDE DEF n
  <2> QED BY <2>1, <2>2 DEF Logged
<1>2. Cardinality(sqlite) = n BY LoggedRows
<1>3. row = [id |-> n + 1, at |-> time, tokens |-> tokens] /\ row \in Message BY <1>1 DEF Message
<1>4. PICK new : new = Append(memory, row) OBVIOUS
<1>5. /\ MemoryAppend(memory, msg) = new
      /\ SqliteAppend(sqlite, msg) = sqlite \cup {row}
      /\ PostgresAppend(postgres, msg) = sqlite \cup {row}
  BY <1>1, <1>2, <1>4 DEF MemoryAppend, SqliteAppend, PostgresAppend
<1> HIDE DEF row
<1>6. /\ new \in Seq(Message) /\ DOMAIN new = 1..(n + 1)
      /\ \A i \in 1..n : new[i] = memory[i]
      /\ new[n + 1] = row
  BY <1>1, <1>3, <1>4
<1> HIDE DEF n
<1>7. \A i \in 1..(n + 1) : i \in 1..n \/ i = n + 1 BY <1>1
<1>8. \A i \in DOMAIN new : new[i].id = i /\ new[i].at <= time BY <1>1, <1>3, <1>6, <1>7
<1>9. \A i, j \in DOMAIN new : i < j => new[i].at <= new[j].at
  <2> SUFFICES ASSUME NEW i \in 1..(n + 1), NEW j \in 1..(n + 1), i < j PROVE new[i].at <= new[j].at
    BY <1>6
  <2>1. i \in 1..n BY <1>1
  <2>2. CASE j \in 1..n BY <2>1, <2>2, <1>1, <1>6
  <2>3. CASE j = n + 1 BY <2>1, <2>3, <1>1, <1>3, <1>6
  <2> QED BY <1>7, <2>2, <2>3
<1>10. sqlite \cup {row} = ImageOf(new)
  <2>1. \A x : x \in sqlite <=> \E i \in 1..n : x = memory[i] BY <1>1 DEF ImageOf
  <2>2. \A x : x \in ImageOf(new) <=> \E i \in 1..(n + 1) : x = new[i] BY <1>6 DEF ImageOf
  <2>3. 1..n \subseteq 1..(n + 1) /\ n + 1 \in 1..(n + 1) BY <1>1
  <2>4. \A x : x \in ImageOf(new) <=> x \in sqlite \/ x = row BY <1>6, <1>7, <2>1, <2>2, <2>3
  <2> QED BY <2>4
<1> QED BY <1>5, <1>6, <1>8, <1>9, <1>10 DEF Logged

\* A later time changes nothing for the messages logged.
LEMMA LoggedLater ==
  ASSUME NEW m, NEW s, NEW p, NEW time \in Nat, Logged(m, s, p, time), NEW later \in Nat, time <= later
  PROVE  Logged(m, s, p, later)
<1>1. m \in Seq(Message) BY DEF Logged
<1>2. \A i \in DOMAIN m : m[i].at \in Nat
  <2>1. \A i \in DOMAIN m : m[i] \in Message BY <1>1, ElementOfSeq
  <2> QED BY <2>1 DEF Message
<1> QED BY <1>1, <1>2 DEF Logged

\* The messages a turn appends, one or both, keep the logs alike.
LEMMA AppendMessagesKeeps ==
  ASSUME ChatLogInv, LogNext
  PROVE  ChatLogInv'
<1>1. /\ chatTime \in Nat /\ chatTime' \in Nat /\ chatTime <= chatTime'
  BY DEF ChatLogInv, LogNext, ChatTick
<1>2. PICK sizes \in {<<n>> : n \in Sizes} \cup {<<n, m>> : n, m \in Sizes} : AppendMessages(sizes)
  BY DEF LogNext
<1>3. Sizes \subseteq Nat BY ChatAssumption
<1>4. Logged(memoryLog', sqliteLog', postgresLog', chatTime)
  <2> DEFINE first == [id |-> 0, at |-> chatTime, tokens |-> sizes[1]]
             second == [id |-> 0, at |-> chatTime, tokens |-> sizes[2]]
             m1 == MemoryAppend(memoryLog, first)
             s1 == SqliteAppend(sqliteLog, first)
             p1 == PostgresAppend(postgresLog, first)
  <2>1. sizes[1] \in Nat /\ (Len(sizes) # 1 => sizes[2] \in Nat)
    <3>1. CASE \E n \in Sizes : sizes = <<n>> BY <1>3, <3>1
    <3>2. CASE \E n, m \in Sizes : sizes = <<n, m>> BY <1>3, <3>2
    <3> QED BY <1>2, <3>1, <3>2
  <2>2. Len(sizes) # 1 => sizes[2] \in Nat BY <2>1
  <2>3. /\ memoryLog' = IF Len(sizes) = 1 THEN m1 ELSE MemoryAppend(m1, second)
        /\ sqliteLog' = IF Len(sizes) = 1 THEN s1 ELSE SqliteAppend(s1, second)
        /\ postgresLog' = IF Len(sizes) = 1 THEN p1 ELSE PostgresAppend(p1, second)
    BY <1>2 DEF AppendMessages
  <2> HIDE DEF second
  <2>4. PICK b : b = second OBVIOUS
  <2>5. Logged(m1, s1, p1, chatTime)
    <3>1. Logged(memoryLog, sqliteLog, postgresLog, chatTime) BY DEF ChatLogInv
    <3> QED BY <1>1, <2>1, <3>1, AppendKeepsLogged
  <2>6. PICK m, s, p : m = m1 /\ s = s1 /\ p = p1 OBVIOUS
  <2>7. CASE Len(sizes) = 1 BY <2>3, <2>5, <2>7
  <2>8. CASE Len(sizes) # 1
    <3>1. Logged(m, s, p, chatTime) BY <2>5, <2>6
    <3>2. sizes[2] \in Nat BY <2>2, <2>8
    <3>3. Logged(MemoryAppend(m, b), SqliteAppend(s, b), PostgresAppend(p, b), chatTime)
      BY <1>1, <2>4, <3>1, <3>2, AppendKeepsLogged DEF second
    <3>4. memoryLog' = MemoryAppend(m, b) /\ sqliteLog' = SqliteAppend(s, b) /\ postgresLog' = PostgresAppend(p, b)
      BY <2>3, <2>4, <2>6, <2>8
    <3> QED BY <3>3, <3>4
  <2> QED BY <2>7, <2>8
<1>5. PICK m, s, p, t, u :
        m = memoryLog' /\ s = sqliteLog' /\ p = postgresLog' /\ t = chatTime /\ u = chatTime'
  OBVIOUS
<1>6. Logged(m, s, p, u)
  <2>1. Logged(m, s, p, t) /\ t \in Nat /\ u \in Nat /\ t <= u BY <1>1, <1>4, <1>5
  <2> QED BY <2>1, LoggedLater
<1> QED BY <1>1, <1>5, <1>6 DEF ChatLogInv
-----------------------------------------------------------------------------
(* The budgets of a history.                                                *)

\* What the recursion of Spent computes: a function satisfies its equation.
LEMMA SpentStep ==
  ASSUME NEW msgs, Len(msgs) \in Nat
  PROVE  Spent(msgs) = [i \in 0..Len(msgs) |-> IF i = 0 THEN 0 ELSE Spent(msgs)[i - 1] + msgs[i].tokens]
<1> DEFINE n == Len(msgs)
           F(sum, m) == [i \in 0..m |-> IF i = 0 THEN 0 ELSE sum[i - 1] + msgs[i].tokens]
           Missing == {m \in 0..n : ~\E g : g = F(g, m)}
<1>1. n \in Nat OBVIOUS
<1>2. Missing = {}
  <2> SUFFICES ASSUME Missing # {} PROVE FALSE OBVIOUS
  <2>1. Missing \subseteq Nat BY <1>1
  <2>2. PICK m \in Missing : \A k \in Missing : m <= k
    <3> HIDE DEF Missing
    <3> QED BY <2>1, LeastNat
  <2>3. m # 0
    <3>1. [i \in 0..0 |-> 0] = F([i \in 0..0 |-> 0], 0) OBVIOUS
    <3> HIDE DEF F
    <3> QED BY <3>1
  <2>4. m \in Nat /\ m - 1 \in 0..n /\ m - 1 < m BY <2>2, <2>3, <1>1
  <2>5. m - 1 \notin Missing
    <3> HIDE DEF Missing
    <3> QED BY <2>2, <2>4
  <2>6. PICK g : g = F(g, m - 1) BY <2>4, <2>5
  <2> DEFINE h == [i \in 0..m |-> IF i < m THEN g[i] ELSE g[m - 1] + msgs[m].tokens]
  <2>7. \A i \in 0..m : h[i] = IF i = 0 THEN 0 ELSE h[i - 1] + msgs[i].tokens
    <3> SUFFICES ASSUME NEW i \in 0..m
                 PROVE h[i] = IF i = 0 THEN 0 ELSE h[i - 1] + msgs[i].tokens
      OBVIOUS
    <3>1. CASE i = 0
      <4>1. g[0] = 0 BY <2>6, <2>4
      <4>2. 0 < m /\ 0 \in 0..m BY <2>3, <2>4
      <4>3. h[0] = g[0] BY <4>2
      <4> HIDE DEF h
      <4> QED BY <3>1, <4>1, <4>3
    <3>2. CASE i # 0 /\ i < m
      <4>1. i \in 0..(m - 1) BY <3>2, <2>4
      <4>2. \A j \in 0..(m - 1) : g[j] = IF j = 0 THEN 0 ELSE g[j - 1] + msgs[j].tokens
        BY <2>6
      <4>3. g[i] = g[i - 1] + msgs[i].tokens BY <4>1, <4>2, <3>2
      <4> QED BY <4>1, <4>3, <3>2, <2>4
    <3>3. CASE i = m
      <4>1. h[i] = g[m - 1] + msgs[m].tokens BY <3>3, <2>4
      <4>2. h[i - 1] = g[m - 1] BY <3>3, <2>4, <2>3
      <4> HIDE DEF h
      <4> QED BY <4>1, <4>2, <3>3, <2>3
    <3> QED BY <3>1, <3>2, <3>3, <2>4
  <2>8. h = F(h, m)
    <3>1. \A i \in 0..m : h[i] = F(h, m)[i] BY <2>7
    <3> QED BY <3>1
  <2> HIDE DEF h, F
  <2> QED BY <2>8, <2>2
<1>3. PICK g : g = F(g, n)
  <2>1. n \in 0..n BY <1>1
  <2> QED BY <2>1, <1>2
<1>4. Spent(msgs) = CHOOSE sum : sum = F(sum, n)
  BY Zenon DEF Spent
<1> HIDE DEF F
<1>5. Spent(msgs) = F(Spent(msgs), n)
  BY <1>4, <1>3, Zenon
<1> QED BY <1>5 DEF F

(* A list of sized messages, and a function that sums its sizes: there is    *)
(* one.                                                                     *)
Sized(msgs, n) ==
  n \in Nat /\ Len(msgs) = n /\ DOMAIN msgs = 1..n /\ \A i \in 1..n : msgs[i].tokens \in Nat
Sums(sum, msgs, n) ==
  sum[0] = 0 /\ \A i \in 1..n : sum[i] = sum[i - 1] + msgs[i].tokens

\* Spent sums the sizes, in numbers that never fall.
LEMMA SpentSums ==
  ASSUME NEW msgs, NEW n, Sized(msgs, n)
  PROVE  /\ Sums(Spent(msgs), msgs, n)
         /\ \A i \in 0..n : Spent(msgs)[i] \in Nat
         /\ \A i, j \in 0..n : i <= j => Spent(msgs)[i] <= Spent(msgs)[j]
<1>1. n \in Nat /\ \A i \in 1..n : msgs[i].tokens \in Nat BY DEF Sized
<1>2. PICK sum : sum = Spent(msgs) OBVIOUS
<1>3. \A i \in 0..n : sum[i] = IF i = 0 THEN 0 ELSE sum[i - 1] + msgs[i].tokens
  <2>1. sum = [i \in 0..n |-> IF i = 0 THEN 0 ELSE sum[i - 1] + msgs[i].tokens]
    BY <1>2, SpentStep DEF Sized
  <2> QED BY <2>1
<1>4. Sums(sum, msgs, n) BY <1>1, <1>3 DEF Sums
<1>5. \A i \in 1..n : sum[i] = sum[i - 1] + msgs[i].tokens /\ i - 1 \in 0..n BY <1>1, <1>3
<1>6. sum[0] = 0 BY <1>1, <1>3
<1>7. \A i \in 0..n : sum[i] \in Nat
  <2> DEFINE Bad == {i \in 0..n : sum[i] \notin Nat}
  <2> SUFFICES ASSUME Bad # {} PROVE FALSE OBVIOUS
  <2>1. Bad \subseteq Nat BY <1>1
  <2>2. PICK i \in Bad : \A k \in Bad : i <= k
    <3> HIDE DEF Bad
    <3> QED BY <2>1, LeastNat
  <2>3. i \in 1..n BY <1>6, <2>2
  <2>4. i - 1 \notin Bad BY <1>1, <2>2, <2>3
  <2>5. sum[i - 1] \in Nat /\ msgs[i].tokens \in Nat BY <1>1, <1>5, <2>3, <2>4
  <2> QED BY <1>5, <2>2, <2>3, <2>5
<1>8. \A i, j \in 0..n : i <= j => sum[i] <= sum[j]
  <2> SUFFICES ASSUME NEW i \in 0..n PROVE \A j \in 0..n : i <= j => sum[i] <= sum[j] OBVIOUS
  <2> DEFINE Bad == {j \in 0..n : i <= j /\ ~(sum[i] <= sum[j])}
  <2> SUFFICES ASSUME Bad # {} PROVE FALSE OBVIOUS
  <2>1. Bad \subseteq Nat BY <1>1
  <2>2. PICK j \in Bad : \A k \in Bad : j <= k
    <3> HIDE DEF Bad
    <3> QED BY <2>1, LeastNat
  <2>3. i < j /\ j \in 1..n BY <1>1, <1>7, <2>2
  <2>4. j - 1 \notin Bad BY <1>1, <2>2, <2>3
  <2>5. sum[i] <= sum[j - 1] /\ sum[i] \in Nat /\ sum[j - 1] \in Nat /\ msgs[j].tokens \in Nat
    BY <1>1, <1>5, <1>7, <2>3, <2>4
  <2> QED BY <1>5, <2>2, <2>3, <2>5
<1> QED BY <1>2, <1>4, <1>7, <1>8

\* Nothing else sums them.
LEMMA OneSum ==
  ASSUME NEW msgs, NEW n, Sized(msgs, n), NEW a, NEW b, NEW m \in 0..n, Sums(a, msgs, m), Sums(b, msgs, m)
  PROVE  \A i \in 0..m : a[i] = b[i]
<1>1. n \in Nat /\ m \in Nat BY DEF Sized
<1>2. a[0] = b[0] /\ \A i \in 1..m : a[i] = a[i - 1] + msgs[i].tokens /\ b[i] = b[i - 1] + msgs[i].tokens
  BY DEF Sums
<1> DEFINE Bad == {i \in 0..m : a[i] # b[i]}
<1> SUFFICES ASSUME Bad # {} PROVE FALSE OBVIOUS
<1>3. Bad \subseteq Nat BY <1>1
<1>4. PICK i \in Bad : \A k \in Bad : i <= k
  <2> HIDE DEF Bad
  <2> QED BY <1>3, LeastNat
<1>5. i \in 1..m BY <1>2, <1>4
<1>6. i - 1 \notin Bad BY <1>1, <1>4, <1>5
<1>7. a[i - 1] = b[i - 1] BY <1>1, <1>5, <1>6
<1> QED BY <1>2, <1>4, <1>5, <1>7

(* The most messages that fit, and that every fewer fit too. *)
Longest(w, msgs, n, k) == k \in 0..n /\ Fit(w, msgs, k) /\ (k < n => ~Fit(w, msgs, k + 1))

\* Where messages fit, fewer of them fit.
LEMMA FewerFit ==
  ASSUME NEW w \in Int, NEW msgs, NEW n, Sized(msgs, n), NEW i \in 0..n, NEW j \in 0..n, i <= j,
         Fit(w, msgs, j)
  PROVE  Fit(w, msgs, i)
<1>1. Spent(msgs)[i] <= Spent(msgs)[j] /\ Spent(msgs)[i] \in Nat /\ Spent(msgs)[j] \in Nat
  BY SpentSums
<1>2. MaxMessages \in Nat /\ n \in Nat BY ChatAssumption DEF Sized
<1>3. PICK a, b : a = Spent(msgs)[i] /\ b = Spent(msgs)[j] OBVIOUS
<1>4. j <= MaxMessages /\ (w > 0 => b <= w) BY <1>3 DEF Fit
<1>5. i <= MaxMessages /\ (w > 0 => a <= w) BY <1>1, <1>2, <1>3, <1>4
<1> QED BY <1>3, <1>5 DEF Fit

\* There is one longest beginning that fits, and Fitting returns it.
LEMMA FittingIsLongest ==
  ASSUME NEW w \in Int, NEW msgs, NEW n, Sized(msgs, n)
  PROVE  /\ \E k : Longest(w, msgs, n, k)
         /\ \A k : Longest(w, msgs, n, k) => Fitting(w, msgs) = Prefix(msgs, k)
<1>1. n \in Nat /\ Len(msgs) = n /\ MaxMessages \in Nat BY ChatAssumption DEF Sized
<1>2. \E k : Longest(w, msgs, n, k)
  <2> DEFINE Stops == {k \in 0..n : k < n => ~Fit(w, msgs, k + 1)}
  <2>1. Stops \subseteq Nat /\ Stops # {}
    <3>1. n \in Stops BY <1>1
    <3> QED BY <1>1, <3>1
  <2>2. PICK k \in Stops : \A l \in Stops : k <= l
    <3> HIDE DEF Stops
    <3> QED BY <2>1, LeastNat
  <2>3. k \in 0..n /\ (k < n => ~Fit(w, msgs, k + 1)) BY <2>2
  <2>4. Fit(w, msgs, k)
    <3>1. CASE k = 0
      <4>1. Spent(msgs)[0] = 0 BY SpentSums DEF Sums
      <4> QED BY <1>1, <3>1, <4>1 DEF Fit
    <3>2. CASE k # 0
      <4>1. k - 1 \in 0..n /\ ~(k <= k - 1) /\ (k - 1) + 1 = k BY <1>1, <2>3, <3>2
      <4>2. k - 1 \notin Stops
        <5> HIDE DEF Stops
        <5> QED BY <2>2, <4>1
      <4> QED BY <4>1, <4>2
    <3> QED BY <3>1, <3>2
  <2> QED BY <2>3, <2>4 DEF Longest
<1>3. \A k, l : Longest(w, msgs, n, k) /\ Longest(w, msgs, n, l) => k = l
  <2>1. ASSUME NEW k, NEW l, Longest(w, msgs, n, k), Longest(w, msgs, n, l) PROVE ~(k < l)
    <3> SUFFICES ASSUME k < l PROVE FALSE OBVIOUS
    <3>1. k + 1 \in 0..n /\ k + 1 <= l /\ l \in 0..n /\ Fit(w, msgs, l) /\ ~Fit(w, msgs, k + 1)
      BY <1>1, <2>1 DEF Longest
    <3>2. PICK m : m = k + 1 OBVIOUS
    <3>3. m \in 0..n /\ m <= l /\ ~Fit(w, msgs, m) BY <3>1, <3>2
    <3> QED BY <3>1, <3>3, FewerFit
  <2>2. \A k : Longest(w, msgs, n, k) => k \in Nat BY <1>1 DEF Longest
  <2> SUFFICES ASSUME NEW k, NEW l, Longest(w, msgs, n, k), Longest(w, msgs, n, l) PROVE k = l OBVIOUS
  <2>3. ~(k < l) /\ ~(l < k) /\ k \in Nat /\ l \in Nat BY <2>1, <2>2
  <2> QED BY <2>3
<1>4. \A k : Longest(w, msgs, n, k) <=>
               k \in 0..Len(msgs) /\ Fit(w, msgs, k) /\ (k < Len(msgs) => ~Fit(w, msgs, k + 1))
  BY <1>1 DEF Longest
<1> SUFFICES ASSUME NEW k, Longest(w, msgs, n, k) PROVE Fitting(w, msgs) = Prefix(msgs, k) BY <1>2
<1> DEFINE c == CHOOSE c \in 0..Len(msgs) : Fit(w, msgs, c) /\ (c < Len(msgs) => ~Fit(w, msgs, c + 1))
<1>5. Longest(w, msgs, n, c) BY <1>4
<1>6. Fitting(w, msgs) = Prefix(msgs, c) BY DEF Fitting
<1> HIDE DEF c
<1> QED BY <1>3, <1>5, <1>6

\* A list made of sized messages.
LEMMA MadeSized ==
  ASSUME NEW n \in Nat, NEW f, \A i \in 1..n : f[i].tokens \in Nat
  PROVE  Sized([i \in 1..n |-> f[i]], n)
<1>1. PICK s : s = [i \in 1..n |-> f[i]] OBVIOUS
<1>2. DOMAIN s = 1..n /\ \A i \in 1..n : s[i] = f[i] BY <1>1
<1>3. Len(s) = n BY <1>1
<1> QED BY <1>1, <1>2, <1>3 DEF Sized

\* The limit of the query cuts nothing that would fit.
LEMMA LimitHidesNothing ==
  ASSUME NEW w \in Int, NEW X, NEW n \in Nat, NEW msgs \in [1..n -> X], \A i \in 1..n : msgs[i].tokens \in Nat
  PROVE  Fitting(w, Prefix(msgs, MaxMessages)) = Fitting(w, msgs)
<1> DEFINE m == IF n > MaxMessages THEN MaxMessages ELSE n
<1>1. MaxMessages \in Nat BY ChatAssumption
<1>2. m \in Nat /\ m <= n /\ m <= MaxMessages /\ (m < n => m = MaxMessages) BY <1>1
<1>3. PICK p : p = [i \in 1..m |-> msgs[i]] OBVIOUS
<1>4. Prefix(msgs, MaxMessages) = p
  <2>1. Begins(Prefix(msgs, MaxMessages), msgs, n, MaxMessages) BY <1>1, PrefixBegins
  <2> QED BY <1>3, <2>1 DEF Begins
<1> HIDE DEF m
<1>5. \A i \in 1..m : i \in 1..n /\ p[i] = msgs[i] /\ p[i] \in X BY <1>2, <1>3
<1>6. Sized(msgs, n)
  <2>1. msgs = [i \in 1..n |-> msgs[i]] OBVIOUS
  <2>2. Sized([i \in 1..n |-> msgs[i]], n) BY MadeSized
  <2> QED BY <2>1, <2>2
<1>7. Sized(p, m)
  <2>1. \A i \in 1..m : msgs[i].tokens \in Nat BY <1>5
  <2> QED BY <1>2, <1>3, <2>1, MadeSized
<1>8. \A i \in 0..m : Spent(p)[i] = Spent(msgs)[i]
  <2>1. PICK a, b : a = Spent(p) /\ b = Spent(msgs) OBVIOUS
  <2>2. Sums(a, p, m) BY <1>7, <2>1, SpentSums
  <2>3. Sums(b, msgs, n) BY <1>6, <2>1, SpentSums
  <2>4. Sums(b, p, m) BY <1>5, <2>3 DEF Sums
  <2>5. m \in 0..m BY <1>2
  <2> QED BY <1>7, <2>1, <2>2, <2>4, <2>5, OneSum
<1>9. \A i \in 0..m : Fit(w, p, i) <=> Fit(w, msgs, i) BY <1>8 DEF Fit
<1>10. PICK k : Longest(w, msgs, n, k) BY <1>6, FittingIsLongest
<1>11. k \in 0..n /\ Fit(w, msgs, k) /\ k <= MaxMessages /\ (k < n => ~Fit(w, msgs, k + 1))
  BY <1>10 DEF Longest, Fit
<1>12. k \in 0..m BY <1>1, <1>2, <1>11
<1>13. Longest(w, p, m, k)
  <2>1. k < m => k + 1 \in 0..m /\ k < n BY <1>2, <1>12
  <2> QED BY <1>9, <1>11, <1>12, <2>1 DEF Longest
<1>14. Fitting(w, msgs) = Prefix(msgs, k) /\ Fitting(w, p) = Prefix(p, k)
  BY <1>6, <1>7, <1>10, <1>13, FittingIsLongest
<1>15. Prefix(msgs, k) = [i \in 1..k |-> msgs[i]]
  <2>1. k \in Nat /\ k <= n BY <1>11
  <2>2. Prefix(msgs, k) = [i \in 1..(IF n > k THEN k ELSE n) |-> msgs[i]]
    <3>1. Begins(Prefix(msgs, k), msgs, n, k) BY <2>1, PrefixBegins
    <3> QED BY <3>1 DEF Begins
  <2>3. (IF n > k THEN k ELSE n) = k BY <2>1
  <2> QED BY <2>2, <2>3
<1>16. Prefix(p, k) = [i \in 1..k |-> p[i]]
  <2>1. k \in Nat /\ k <= m BY <1>2, <1>12
  <2>2. p \in [1..m -> X] BY <1>3, <1>5
  <2>3. Prefix(p, k) = [i \in 1..(IF m > k THEN k ELSE m) |-> p[i]]
    <3>1. Begins(Prefix(p, k), p, m, k) BY <1>2, <2>1, <2>2, PrefixBegins
    <3> QED BY <3>1 DEF Begins
  <2>4. (IF m > k THEN k ELSE m) = k BY <1>2, <2>1
  <2> QED BY <2>3, <2>4
<1>17. \A i \in 1..k : p[i] = msgs[i] BY <1>2, <1>5, <1>12
<1>18. [i \in 1..k |-> p[i]] = [i \in 1..k |-> msgs[i]] BY <1>17
<1> QED BY <1>4, <1>14, <1>15, <1>16, <1>18

(* A list backward, and the end of a list: their sums are differences. *)
TurnedRound(back, msgs, n) ==
  Sized(back, n) /\ \A i \in 0..n : Spent(back)[i] = Spent(msgs)[n] - Spent(msgs)[n - i]
IsEnd(end, msgs, n, k) == Len(end) = n - k /\ Spent(end)[n - k] = Spent(msgs)[n] - Spent(msgs)[k]

\* From the last message back, the tokens of i messages are what the end of i has.
LEMMA BackwardSums ==
  ASSUME NEW n \in Nat, NEW X, NEW msgs \in [1..n -> X], \A i \in 1..n : msgs[i].tokens \in Nat
  PROVE  TurnedRound([i \in 1..n |-> msgs[(n - i) + 1]], msgs, n)
<1>1. Sized(msgs, n)
  <2>1. msgs = [i \in 1..n |-> msgs[i]] OBVIOUS
  <2>2. Sized([i \in 1..n |-> msgs[i]], n) BY MadeSized
  <2> QED BY <2>1, <2>2
<1>2. PICK back : back = [i \in 1..n |-> msgs[(n - i) + 1]] OBVIOUS
<1>3. PICK f : f = [i \in 1..n |-> msgs[(n - i) + 1]] OBVIOUS
<1>4. \A i \in 1..n : (n - i) + 1 \in 1..n /\ f[i] = msgs[(n - i) + 1] BY <1>3
<1>5. back = [i \in 1..n |-> f[i]] BY <1>2, <1>3
<1>6. Sized(back, n)
  <2>1. \A i \in 1..n : f[i].tokens \in Nat BY <1>4
  <2> QED BY <1>5, <2>1, MadeSized
<1>7. PICK sum : sum = Spent(msgs) OBVIOUS
<1>8. Sums(sum, msgs, n) /\ \A i \in 0..n : sum[i] \in Nat BY <1>1, <1>7, SpentSums
<1>9. PICK rest : rest = [i \in 0..n |-> sum[n] - sum[n - i]] OBVIOUS
<1>10. Sums(rest, back, n)
  <2>1. rest[0] = 0
    <3>1. n \in 0..n /\ 0 \in 0..n /\ n - 0 = n OBVIOUS
    <3>2. rest[0] = sum[n] - sum[n - 0] BY <1>9, <3>1
    <3> QED BY <1>8, <3>1, <3>2
  <2>2. ASSUME NEW i \in 1..n PROVE rest[i] = rest[i - 1] + back[i].tokens
    <3>1. PICK k : k = (n - i) + 1 OBVIOUS
    <3>2. k \in 1..n /\ k - 1 = n - i /\ n - (i - 1) = k /\ i - 1 \in 0..n /\ i \in 0..n
          /\ k - 1 \in 0..n /\ k \in 0..n /\ n \in 0..n
      BY <3>1
    <3>3. sum[k] = sum[k - 1] + msgs[k].tokens BY <1>8, <3>2 DEF Sums
    <3>4. back[i] = msgs[k] BY <1>2, <3>1
    <3>5. rest[i] = sum[n] - sum[k - 1] /\ rest[i - 1] = sum[n] - sum[k] BY <1>9, <3>2
    <3>6. PICK a, b, c, d : a = sum[n] /\ b = sum[k - 1] /\ c = sum[k] /\ d = msgs[k].tokens OBVIOUS
    <3>7. a \in Nat /\ b \in Nat /\ c \in Nat /\ d \in Nat BY <1>8, <3>2, <3>6
    <3>8. c = b + d /\ rest[i] = a - b /\ rest[i - 1] = a - c /\ back[i].tokens = d
      BY <3>3, <3>4, <3>5, <3>6
    <3>9. a - b = (a - c) + d BY <3>7, <3>8
    <3> QED BY <3>8, <3>9
  <2> QED BY <2>1, <2>2 DEF Sums
<1>11. Sums(Spent(back), back, n) BY <1>6, SpentSums
<1>12. \A i \in 0..n : Spent(back)[i] = rest[i]
  <2>1. n \in 0..n OBVIOUS
  <2>2. PICK s : s = Spent(back) OBVIOUS
  <2> QED BY <1>6, <1>10, <1>11, <2>1, <2>2, OneSum
<1>13. \A i \in 0..n : rest[i] = sum[n] - sum[n - i] BY <1>9
<1> QED BY <1>2, <1>6, <1>7, <1>12, <1>13 DEF TurnedRound

\* The tokens of the messages from one on.
LEMMA EndSums ==
  ASSUME NEW n \in Nat, NEW X, NEW msgs \in [1..n -> X], \A i \in 1..n : msgs[i].tokens \in Nat,
         NEW k \in 0..n
  PROVE  IsEnd(SubSeq(msgs, k + 1, n), msgs, n, k)
<1>1. Sized(msgs, n)
  <2>1. msgs = [i \in 1..n |-> msgs[i]] OBVIOUS
  <2>2. Sized([i \in 1..n |-> msgs[i]], n) BY MadeSized
  <2> QED BY <2>1, <2>2
<1>2. PICK m : m = n - k OBVIOUS
<1>3. m \in Nat /\ k \in Nat /\ k + m = n BY <1>2
<1>4. PICK f : f = [i \in 1..m |-> msgs[k + i]] OBVIOUS
<1>5. \A i \in 1..m : k + i \in 1..n /\ f[i] = msgs[k + i] BY <1>3, <1>4
<1>6. SubSeq(msgs, k + 1, n) = f
  <2>1. msgs \in Seq(X) /\ Len(msgs) = n OBVIOUS
  <2>2. SubSeq(msgs, k + 1, n) = [i \in 1..(n - (k + 1) + 1) |-> msgs[(k + 1) + i - 1]] BY <1>3, <2>1
  <2>3. n - (k + 1) + 1 = m /\ \A i \in 1..m : (k + 1) + i - 1 = k + i BY <1>3
  <2> QED BY <1>4, <2>2, <2>3
<1>7. Sized(f, m)
  <2>1. \A i \in 1..m : f[i].tokens \in Nat BY <1>5
  <2>2. f = [i \in 1..m |-> f[i]] BY <1>4
  <2>3. Sized([i \in 1..m |-> f[i]], m) BY <1>3, <2>1, MadeSized
  <2> QED BY <2>2, <2>3
<1>8. PICK sum : sum = Spent(msgs) OBVIOUS
<1>9. Sums(sum, msgs, n) /\ \A i \in 0..n : sum[i] \in Nat BY <1>1, <1>8, SpentSums
<1>10. PICK rest : rest = [i \in 0..m |-> sum[k + i] - sum[k]] OBVIOUS
<1>11. Sums(rest, f, m)
  <2>1. rest[0] = 0
    <3>1. 0 \in 0..m /\ k + 0 = k /\ k \in 0..n BY <1>3
    <3>2. rest[0] = sum[k + 0] - sum[k] BY <1>10, <3>1
    <3> QED BY <1>9, <3>1, <3>2
  <2>2. ASSUME NEW i \in 1..m PROVE rest[i] = rest[i - 1] + f[i].tokens
    <3>1. PICK j : j = k + i OBVIOUS
    <3>2. j \in 1..n /\ j - 1 = k + (i - 1) /\ i - 1 \in 0..m /\ i \in 0..m
          /\ j - 1 \in 0..n /\ j \in 0..n /\ k \in 0..n
      BY <1>3, <3>1
    <3>3. sum[j] = sum[j - 1] + msgs[j].tokens BY <1>9, <3>2 DEF Sums
    <3>4. f[i] = msgs[j] BY <1>5, <3>1
    <3>5. rest[i] = sum[j] - sum[k] /\ rest[i - 1] = sum[j - 1] - sum[k] BY <1>10, <3>1, <3>2
    <3>6. PICK a, b, c, d : a = sum[k] /\ b = sum[j - 1] /\ c = sum[j] /\ d = msgs[j].tokens OBVIOUS
    <3>7. a \in Nat /\ b \in Nat /\ c \in Nat /\ d \in Nat BY <1>9, <3>2, <3>6
    <3>8. c = b + d /\ rest[i] = c - a /\ rest[i - 1] = b - a /\ f[i].tokens = d
      BY <3>3, <3>4, <3>5, <3>6
    <3>9. c - a = (b - a) + d BY <3>7, <3>8
    <3> QED BY <3>8, <3>9
  <2> QED BY <2>1, <2>2 DEF Sums
<1>12. Sums(Spent(f), f, m) BY <1>7, SpentSums
<1>13. Spent(f)[m] = rest[m]
  <2>1. m \in 0..m BY <1>3
  <2>2. PICK s : s = Spent(f) OBVIOUS
  <2>3. \A i \in 0..m : s[i] = rest[i] BY <1>7, <1>11, <1>12, <2>1, <2>2, OneSum
  <2> QED BY <2>1, <2>2, <2>3
<1>14. rest[m] = sum[n] - sum[k]
  <2>1. m \in 0..m BY <1>3
  <2> QED BY <1>3, <1>10, <2>1
<1>15. Len(f) = m BY <1>7 DEF Sized
<1> QED BY <1>2, <1>6, <1>8, <1>13, <1>14, <1>15 DEF IsEnd

(* What every variant lists backward: all messages, the last first.         *)
Back(log) == [i \in 1..Len(log) |-> log[(Len(log) - i) + 1]]

\* Listed backward until the budgets are spent and turned round, a log is its
\* longest end that fits.
LEMMA RecentIsNewest ==
  ASSUME NEW w \in Int, ChatLogInv
  PROVE  Reverse(Fitting(w, Back(memoryLog))) = NewestThatFit(w)
<1> DEFINE n == Len(memoryLog)
           back == Back(memoryLog)
<1>1. /\ n \in Nat /\ memoryLog \in [1..n -> Message]
      /\ \A i \in 1..n : memoryLog[i].tokens \in Nat
  <2>1. memoryLog \in Seq(Message) /\ n \in Nat /\ DOMAIN memoryLog = 1..n BY DEF ChatLogInv, Logged
  <2>2. \A i \in DOMAIN memoryLog : memoryLog[i] \in Message BY <2>1, ElementOfSeq
  <2>3. memoryLog \in [1..n -> Message] BY <2>1
  <2> HIDE DEF n
  <2> QED BY <2>1, <2>2, <2>3 DEF Message
<1>2. PICK log : log = memoryLog OBVIOUS
<1>3. back = [i \in 1..n |-> log[(n - i) + 1]] BY <1>2 DEF Back
<1>4. \A k : End(k) = SubSeq(log, k + 1, n) BY <1>2 DEF End
<1> HIDE DEF n, back
<1>5. /\ Sized(back, n)
      /\ \A i \in 0..n : Spent(back)[i] = Spent(log)[n] - Spent(log)[n - i]
  <2>1. log \in [1..n -> Message] /\ \A i \in 1..n : log[i].tokens \in Nat BY <1>1, <1>2
  <2>2. TurnedRound([i \in 1..n |-> log[(n - i) + 1]], log, n) BY <1>1, <2>1, BackwardSums
  <2> QED BY <1>3, <2>2 DEF TurnedRound
<1>6. \A k \in 0..n : Len(End(k)) = n - k /\ Spent(End(k))[n - k] = Spent(log)[n] - Spent(log)[k]
  <2> SUFFICES ASSUME NEW k \in 0..n
               PROVE  Len(End(k)) = n - k /\ Spent(End(k))[n - k] = Spent(log)[n] - Spent(log)[k]
    OBVIOUS
  <2>1. log \in [1..n -> Message] /\ \A i \in 1..n : log[i].tokens \in Nat BY <1>1, <1>2
  <2>2. IsEnd(SubSeq(log, k + 1, n), log, n, k) BY <1>1, <2>1, EndSums
  <2> QED BY <1>4, <2>2 DEF IsEnd
<1>7. \A k \in 0..n : Fit(w, End(k), Len(End(k))) <=> Fit(w, back, n - k)
  <2> SUFFICES ASSUME NEW k \in 0..n PROVE Fit(w, End(k), Len(End(k))) <=> Fit(w, back, n - k) OBVIOUS
  <2>1. n - k \in 0..n /\ n - (n - k) = k BY <1>1
  <2>2. Spent(back)[n - k] = Spent(log)[n] - Spent(log)[k] BY <1>5, <2>1
  <2>3. PICK e, s : e = End(k) /\ s = Spent(End(k)) OBVIOUS
  <2>4. Len(e) = n - k /\ s[n - k] = Spent(back)[n - k] BY <1>6, <2>2, <2>3
  <2> QED BY <2>3, <2>4 DEF Fit
<1>8. PICK k : Longest(w, back, n, k) BY <1>5, FittingIsLongest
<1>9. Fitting(w, back) = Prefix(back, k) BY <1>5, <1>8, FittingIsLongest
<1>10. k \in 0..n /\ Fit(w, back, k) /\ (k < n => ~Fit(w, back, k + 1)) BY <1>8 DEF Longest
<1> DEFINE Is(m) == m \in 0..n /\ Fit(w, End(m), Len(End(m))) /\ \A j \in 0..(m - 1) : ~Fit(w, End(j), Len(End(j)))
<1>11. Is(n - k)
  <2>1. n - k \in 0..n /\ n - (n - k) = k BY <1>1, <1>10
  <2>2. Fit(w, End(n - k), Len(End(n - k))) BY <1>7, <1>10, <2>1
  <2>3. ASSUME NEW j \in 0..((n - k) - 1) PROVE ~Fit(w, End(j), Len(End(j)))
    <3>1. j \in 0..n /\ n - j \in 0..n /\ k + 1 <= n - j /\ k < n /\ k + 1 \in 0..n BY <1>1, <1>10
    <3>2. PICK a, b : a = k + 1 /\ b = n - j OBVIOUS
    <3>3. Fit(w, back, b) => Fit(w, back, a) BY <1>5, <3>1, <3>2, FewerFit
    <3>4. ~Fit(w, back, b) BY <1>10, <3>1, <3>2, <3>3
    <3> QED BY <1>7, <3>1, <3>2, <3>4
  <2> QED BY <2>1, <2>2, <2>3
<1>12. \A m : Is(m) => m = n - k
  <2> SUFFICES ASSUME NEW m, Is(m), m # n - k PROVE FALSE OBVIOUS
  <2>1. m \in 0..n /\ n - k \in 0..n /\ n \in Nat /\ k \in Nat BY <1>1, <1>10
  <2>2. CASE m < n - k
    <3>1. m \in 0..((n - k) - 1) BY <2>1, <2>2
    <3> QED BY <1>11, <3>1
  <2>3. CASE n - k < m
    <3>1. n - k \in 0..(m - 1) BY <2>1, <2>3
    <3> QED BY <1>11, <3>1
  <2> QED BY <2>1, <2>2, <2>3
<1>13. NewestThatFit(w) = End(n - k)
  <2> DEFINE c == CHOOSE c \in 0..n : Fit(w, End(c), Len(End(c))) /\ \A j \in 0..(c - 1) : ~Fit(w, End(j), Len(End(j)))
  <2>1. Is(c) BY <1>11
  <2>2. NewestThatFit(w) = End(c) BY DEF NewestThatFit, n
  <2> HIDE DEF c, Is
  <2> QED BY <1>12, <2>1, <2>2
<1> HIDE DEF Is
<1>14. Prefix(back, k) = [i \in 1..k |-> log[(n - i) + 1]]
  <2>1. k \in Nat /\ k <= n BY <1>10
  <2>2. \A i \in 1..n : (n - i) + 1 \in 1..n BY <1>1
  <2>3. back \in [1..n -> Message] BY <1>1, <1>2, <1>3, <2>2
  <2>4. Begins(Prefix(back, k), back, n, k) BY <1>1, <2>1, <2>3, PrefixBegins
  <2>5. (IF n > k THEN k ELSE n) = k BY <1>1, <2>1
  <2>6. \A i \in 1..k : back[i] = log[(n - i) + 1] BY <1>1, <1>3, <2>1
  <2>7. [i \in 1..k |-> back[i]] = [i \in 1..k |-> log[(n - i) + 1]] BY <2>6
  <2> QED BY <2>4, <2>5, <2>7 DEF Begins
<1>15. PICK p : p = Prefix(back, k) OBVIOUS
<1>16. Len(p) = k BY <1>10, <1>14, <1>15
<1>17. Reverse(p) = [i \in 1..k |-> log[(n - k) + i]]
  <2>1. Reverse(p) = [i \in 1..k |-> p[(k - i) + 1]] BY <1>16 DEF Reverse
  <2>2. ASSUME NEW i \in 1..k PROVE p[(k - i) + 1] = log[(n - k) + i]
    <3>1. PICK j : j = (k - i) + 1 OBVIOUS
    <3>2. k \in Nat BY <1>10
    <3>3. j \in 1..k /\ (n - j) + 1 = (n - k) + i BY <1>1, <3>1, <3>2
    <3>4. p[j] = log[(n - j) + 1] BY <1>14, <1>15, <3>3
    <3> QED BY <3>1, <3>3, <3>4
  <2> QED BY <2>1, <2>2
<1>18. End(n - k) = [i \in 1..k |-> log[(n - k) + i]]
  <2>1. log \in Seq(Message) /\ Len(log) = n BY <1>1, <1>2
  <2>2. PICK m : m = n - k OBVIOUS
  <2>3. m \in Nat /\ m <= n /\ k \in Nat /\ n - (m + 1) + 1 = k /\ \A i \in 1..k : (m + 1) + i - 1 = m + i
    BY <1>1, <1>10, <2>2
  <2>4. SubSeq(log, m + 1, n) = [i \in 1..(n - (m + 1) + 1) |-> log[(m + 1) + i - 1]] BY <1>1, <2>1, <2>3
  <2> QED BY <1>4, <2>2, <2>3, <2>4
<1> QED BY <1>9, <1>13, <1>15, <1>17, <1>18 DEF back

\* The rows of the logs are the messages, told apart by their ids.
LEMMA LogRows ==
  ASSUME ChatLogInv
  PROVE  LET n == Len(memoryLog) IN
         /\ n \in Nat /\ memoryLog \in [1..n -> Message]
         /\ \A i \in 1..n : /\ memoryLog[i] \in sqliteLog /\ memoryLog[i].id = i
                            /\ memoryLog[i].at \in Nat /\ memoryLog[i].tokens \in Nat
         /\ \A i, j \in 1..n : i < j => memoryLog[i].at <= memoryLog[j].at
         /\ \A r \in sqliteLog : \E i \in 1..n : r = memoryLog[i]
         /\ IsFiniteSet(sqliteLog) /\ Cardinality(sqliteLog) = n
         /\ postgresLog = sqliteLog
<1> DEFINE n == Len(memoryLog)
<1>1. /\ memoryLog \in Seq(Message) /\ n \in Nat /\ DOMAIN memoryLog = 1..n
      /\ sqliteLog = ImageOf(memoryLog) /\ postgresLog = sqliteLog
  BY DEF ChatLogInv, Logged
<1>2. \A i \in DOMAIN memoryLog : memoryLog[i] \in Message BY <1>1, ElementOfSeq
<1>3. memoryLog \in [1..n -> Message] BY <1>1
<1>4. IsFiniteSet(sqliteLog) /\ Cardinality(sqliteLog) = n
  <2>1. chatTime \in Nat /\ Logged(memoryLog, sqliteLog, postgresLog, chatTime) BY DEF ChatLogInv
  <2> QED BY <2>1, LoggedRows
<1> HIDE DEF n
<1>5. \A i \in 1..n : memoryLog[i].id = i BY <1>1 DEF ChatLogInv, Logged
<1>6. \A i, j \in 1..n : i < j => memoryLog[i].at <= memoryLog[j].at BY <1>1 DEF ChatLogInv, Logged
<1>7. \A i \in 1..n : memoryLog[i] \in sqliteLog BY <1>1 DEF ImageOf
<1>8. \A r \in sqliteLog : \E i \in 1..n : r = memoryLog[i] BY <1>1 DEF ImageOf
<1>9. \A i \in 1..n : memoryLog[i].at \in Nat /\ memoryLog[i].tokens \in Nat BY <1>1, <1>2 DEF Message
<1> QED BY <1>1, <1>3, <1>4, <1>5, <1>6, <1>7, <1>8, <1>9 DEF n

\* Back arranges the rows by any order in which no message goes before a later one.
LEMMA BackArranges ==
  ASSUME ChatLogInv, NEW before,
         \A i, j \in 1..Len(memoryLog) : i < j => <<memoryLog[i], memoryLog[j]>> \notin before
  PROVE  Arranges(Back(memoryLog), sqliteLog, before)
<1> DEFINE n == Len(memoryLog)
<1>1. PICK log, rows, back : log = memoryLog /\ rows = sqliteLog /\ back = Back(memoryLog) OBVIOUS
<1>2. /\ n \in Nat /\ Cardinality(rows) = n
      /\ \A i \in 1..n : log[i] \in rows /\ log[i].id = i
      /\ \A r \in rows : \E i \in 1..n : r = log[i]
  BY <1>1, LogRows
<1>3. back = [i \in 1..n |-> log[(n - i) + 1]] BY <1>1 DEF Back
<1>4. \A i, j \in 1..n : i < j => <<log[i], log[j]>> \notin before BY <1>1
<1> HIDE DEF n
<1>5. \A i \in 1..n : (n - i) + 1 \in 1..n /\ (n - ((n - i) + 1)) + 1 = i BY <1>2
<1>6. \A i \in 1..n : back[i] = log[(n - i) + 1] /\ back[i] \in rows BY <1>2, <1>3, <1>5
<1>7. back \in [1..n -> rows] BY <1>3, <1>6
<1>8. \A r \in rows : \E i \in 1..n : back[i] = r
  <2> SUFFICES ASSUME NEW r \in rows PROVE \E i \in 1..n : back[i] = r OBVIOUS
  <2>1. PICK i \in 1..n : r = log[i] BY <1>2
  <2>2. back[(n - i) + 1] = r BY <1>5, <1>6, <2>1
  <2> QED BY <1>5, <2>2
<1>9. \A i, j \in 1..n : i < j => back[i] # back[j] /\ <<back[j], back[i]>> \notin before
  <2> SUFFICES ASSUME NEW i \in 1..n, NEW j \in 1..n, i < j
               PROVE  back[i] # back[j] /\ <<back[j], back[i]>> \notin before
    OBVIOUS
  <2>1. PICK k, l : k = (n - i) + 1 /\ l = (n - j) + 1 OBVIOUS
  <2>2. k \in 1..n /\ l \in 1..n /\ l < k BY <1>2, <2>1
  <2>3. back[i] = log[k] /\ back[j] = log[l] BY <1>6, <2>1
  <2>4. log[l].id = l /\ log[k].id = k BY <1>2, <2>2
  <2> QED BY <1>4, <2>2, <2>3, <2>4
<1> QED BY <1>1, <1>2, <1>7, <1>8, <1>9 DEF Arranges

\* Written times have the same text only if they are the same.
LEMMA TextOfOneTime ==
  ASSUME NEW s \in Nat, NEW t \in Nat, formatSQLiteTime(s) = formatSQLiteTime(t)
  PROVE  s = t
<1>1. PICK a, b : a = TextRank(s) /\ b = TextRank(t) OBVIOUS
<1>2. TextAbove(formatSQLiteTime(s), formatSQLiteTime(t)) <=> a > b BY <1>1, TextByRank
<1>3. TextAbove(formatSQLiteTime(t), formatSQLiteTime(s)) <=> b > a BY <1>1, TextByRank
<1>4. TextAbove(formatSQLiteTime(s), formatSQLiteTime(s)) <=> a > a BY <1>1, TextByRank
<1>5. a \in Nat /\ b \in Nat /\ (a = b => s = t) BY <1>1, TextByRank
<1>6. ~(a > b) /\ ~(b > a)
  <2>1. ~(a > a) BY <1>5
  <2>2. ~TextAbove(formatSQLiteTime(s), formatSQLiteTime(s)) BY <1>4, <2>1
  <2> QED BY <1>2, <1>3, <2>2
<1> QED BY <1>5, <1>6

(* The orders of the two queries. *)
TextThenId(rows) ==
  {p \in rows \X rows :
     \/ TextAbove(formatSQLiteTime(p[1].at), formatSQLiteTime(p[2].at))
     \/ formatSQLiteTime(p[1].at) = formatSQLiteTime(p[2].at) /\ p[1].id > p[2].id}

\* In text order SQLite lists the messages backward.
LEMMA SqliteListsBackward ==
  ASSUME ChatLogInv, InTextOrder(sqliteLog)
  PROVE  Sorted(sqliteLog, TextThenId(sqliteLog)) = Back(memoryLog)
<1> DEFINE n == Len(memoryLog)
<1>1. PICK log, rows, before : log = memoryLog /\ rows = sqliteLog /\ before = TextThenId(sqliteLog)
  OBVIOUS
<1>2. /\ n \in Nat /\ IsFiniteSet(rows)
      /\ \A i \in 1..n : log[i] \in rows /\ log[i].id = i /\ log[i].at \in Nat
      /\ \A i, j \in 1..n : i < j => log[i].at <= log[j].at
      /\ \A r \in rows : \E i \in 1..n : r = log[i]
  BY <1>1, LogRows
<1> HIDE DEF n
<1>3. \A r \in rows : r.at \in Nat /\ r.id \in Nat /\ TextRank(r.at) \in Nat
  <2>1. \A r \in rows : r.at \in Nat /\ r.id \in Nat BY <1>2
  <2> QED BY <2>1, TextByRank
<1>4. \A r, q \in rows : <<r, q>> \in before <=>
        TextRank(r.at) > TextRank(q.at) \/ (TextRank(r.at) = TextRank(q.at) /\ r.id > q.id)
  <2> SUFFICES ASSUME NEW r \in rows, NEW q \in rows
               PROVE  <<r, q>> \in before <=>
                        TextRank(r.at) > TextRank(q.at) \/ (TextRank(r.at) = TextRank(q.at) /\ r.id > q.id)
    OBVIOUS
  <2>1. PICK s, t : s = r.at /\ t = q.at OBVIOUS
  <2>2. s \in Nat /\ t \in Nat BY <1>3, <2>1
  <2>3. TextAbove(formatSQLiteTime(s), formatSQLiteTime(t)) <=> TextRank(s) > TextRank(t)
    BY <2>2, TextByRank
  <2>4. formatSQLiteTime(s) = formatSQLiteTime(t) <=> s = t BY <2>2, TextOfOneTime
  <2>5. TextRank(s) = TextRank(t) <=> s = t BY <2>2, TextByRank
  <2>6. <<r, q>> \in before <=>
          \/ TextAbove(formatSQLiteTime(s), formatSQLiteTime(t))
          \/ formatSQLiteTime(s) = formatSQLiteTime(t) /\ r.id > q.id
    BY <1>1, <2>1 DEF TextThenId
  <2> QED BY <2>1, <2>3, <2>4, <2>5, <2>6
<1>5. StrictOrder(rows, before)
  <2>1. \A r \in rows : <<r, r>> \notin before BY <1>3, <1>4
  <2>2. ASSUME NEW r \in rows, NEW q \in rows, NEW p \in rows, <<r, q>> \in before, <<q, p>> \in before
        PROVE  <<r, p>> \in before
    <3>1. PICK a, b, c, i, j, k : /\ a = TextRank(r.at) /\ b = TextRank(q.at) /\ c = TextRank(p.at)
                                  /\ i = r.id /\ j = q.id /\ k = p.id
      OBVIOUS
    <3>2. /\ a \in Nat /\ b \in Nat /\ c \in Nat /\ i \in Nat /\ j \in Nat /\ k \in Nat BY <1>3, <3>1
    <3>3. (a > b \/ (a = b /\ i > j)) /\ (b > c \/ (b = c /\ j > k)) BY <1>4, <2>2, <3>1
    <3>4. a > c \/ (a = c /\ i > k) BY <3>2, <3>3
    <3> QED BY <1>4, <3>1, <3>4
  <2> QED BY <2>1, <2>2 DEF StrictOrder
<1>6. ASSUME NEW i \in 1..n, NEW j \in 1..n, i < j PROVE <<log[i], log[j]>> \notin before
  <2>1. PICK s, t : s = log[i].at /\ t = log[j].at OBVIOUS
  <2>2. /\ log[i] \in rows /\ log[j] \in rows /\ log[i].id = i /\ log[j].id = j
        /\ s \in Nat /\ t \in Nat /\ s <= t
    BY <1>2, <1>6, <2>1
  <2>3. ~Misordered(s, t) BY <1>1, <2>1, <2>2 DEF InTextOrder
  <2>4. TextAbove(formatSQLiteTime(s), formatSQLiteTime(t)) <=> TextRank(s) > TextRank(t)
    BY <2>2, TextByRank
  <2>5. s < t => ~(TextRank(s) > TextRank(t)) BY <2>3, <2>4 DEF Misordered
  <2>6. TextRank(s) \in Nat /\ TextRank(t) \in Nat BY <2>2, TextByRank
  <2>7. ~(TextRank(s) > TextRank(t))
    <3>1. s = t \/ s < t BY <2>2
    <3>2. CASE s = t BY <2>6, <3>2
    <3> QED BY <2>5, <3>1, <3>2
  <2>8. ~(i > j) BY <1>6, <1>2
  <2> QED BY <1>4, <2>1, <2>2, <2>7, <2>8
<1>7. Arranges(Back(memoryLog), rows, before)
  <2>1. \A i, j \in 1..Len(memoryLog) : i < j => <<memoryLog[i], memoryLog[j]>> \notin before
    BY <1>1, <1>6 DEF n
  <2> QED BY <1>1, <2>1, BackArranges
<1>8. \A r, q \in rows : r # q => <<r, q>> \in before \/ <<q, r>> \in before
  <2> SUFFICES ASSUME NEW r \in rows, NEW q \in rows, r # q
               PROVE  <<r, q>> \in before \/ <<q, r>> \in before
    OBVIOUS
  <2>1. PICK i \in 1..n : r = log[i] BY <1>2
  <2>2. PICK j \in 1..n : q = log[j] BY <1>2
  <2>3. r.id # q.id BY <1>2, <2>1, <2>2
  <2>4. PICK a, b, c, d : a = TextRank(r.at) /\ b = TextRank(q.at) /\ c = r.id /\ d = q.id OBVIOUS
  <2>5. a \in Nat /\ b \in Nat /\ c \in Nat /\ d \in Nat /\ c # d BY <1>3, <2>3, <2>4
  <2>6. (a > b \/ (a = b /\ c > d)) \/ (b > a \/ (b = a /\ d > c)) BY <2>5
  <2> QED BY <1>4, <2>4, <2>6
<1>9. Arranges(Sorted(rows, before), rows, before) BY <1>2, <1>5, SortedArranges
<1>10. PICK s, t : s = Sorted(rows, before) /\ t = Back(memoryLog) OBVIOUS
<1>11. s = t BY <1>2, <1>7, <1>8, <1>9, <1>10, OneArrangement
<1> QED BY <1>1, <1>10, <1>11

\* With one time each, Postgres lists them backward and in no other order.
LEMMA PostgresListsBackward ==
  ASSUME ChatLogInv, OneTimeEach
  PROVE  {o \in SetToSeqs(postgresLog) : \A i, j \in DOMAIN o : i < j => o[i].at >= o[j].at}
           = {Back(memoryLog)}
<1> DEFINE n == Len(memoryLog)
           Orders == {o \in SetToSeqs(postgresLog) : \A i, j \in DOMAIN o : i < j => o[i].at >= o[j].at}
<1>1. PICK log, rows, before, back :
        log = memoryLog /\ rows = sqliteLog /\ before = Later(sqliteLog) /\ back = Back(memoryLog)
  OBVIOUS
<1>2. /\ n \in Nat /\ IsFiniteSet(rows) /\ Cardinality(rows) = n /\ postgresLog = rows
      /\ \A i \in 1..n : log[i] \in rows /\ log[i].id = i /\ log[i].at \in Nat
      /\ \A i, j \in 1..n : i < j => log[i].at <= log[j].at
      /\ \A r \in rows : \E i \in 1..n : r = log[i]
  BY <1>1, LogRows
<1>3. \A o : o \in Orders <=> /\ o \in [1..n -> rows] /\ (\A i, j \in 1..n : i # j => o[i] # o[j])
                              /\ \A i, j \in 1..n : i < j => o[i].at >= o[j].at
  BY <1>2 DEF SetToSeqs
<1> HIDE DEF n, Orders
<1>4. \A r, q \in rows : <<r, q>> \in before <=> r.at > q.at BY <1>1 DEF Later
<1>5. \A r \in rows : r.at \in Nat BY <1>2
<1>6. Arranges(back, rows, before)
  <2>1. ASSUME NEW i \in 1..n, NEW j \in 1..n, i < j PROVE <<log[i], log[j]>> \notin before
    <3>1. log[i].at <= log[j].at /\ log[i].at \in Nat /\ log[j].at \in Nat
          /\ log[i] \in rows /\ log[j] \in rows
      BY <1>2, <2>1
    <3>2. ~(log[i].at > log[j].at) BY <3>1
    <3> QED BY <1>4, <3>1, <3>2
  <2>2. \A i, j \in 1..Len(memoryLog) : i < j => <<memoryLog[i], memoryLog[j]>> \notin before
    BY <1>1, <2>1 DEF n
  <2> QED BY <1>1, <2>2, BackArranges
<1>7. \A r, q \in rows : r # q => <<r, q>> \in before \/ <<q, r>> \in before
  <2> SUFFICES ASSUME NEW r \in rows, NEW q \in rows, r # q
               PROVE  <<r, q>> \in before \/ <<q, r>> \in before
    OBVIOUS
  <2>1. PICK i \in 1..n : r = log[i] BY <1>2
  <2>2. PICK j \in 1..n : q = log[j] BY <1>2
  <2>3. r.id # q.id BY <1>2, <2>1, <2>2
  <2>4. r.at # q.at BY <1>2, <2>3 DEF OneTimeEach
  <2>5. r.at > q.at \/ q.at > r.at BY <1>5, <2>4
  <2> QED BY <1>4, <2>5
<1>8. \A o \in Orders : o = back
  <2> SUFFICES ASSUME NEW o \in Orders PROVE o = back OBVIOUS
  <2>1. /\ o \in [1..n -> rows] /\ (\A i, j \in 1..n : i # j => o[i] # o[j])
        /\ \A i, j \in 1..n : i < j => o[i].at >= o[j].at
    BY <1>3
  <2>2. \A r \in rows : \E i \in 1..n : o[i] = r
    <3>1. o \in Injection(1..n, rows) BY <2>1 DEF Injection, IsInjective
    <3>2. Cardinality(1..n) = n
      <4>1. 1 \in Int /\ n \in Int BY <1>2
      <4>2. Cardinality(1..n) = IF 1 > n THEN 0 ELSE n - 1 + 1 BY <4>1, FS_Interval
      <4> QED BY <1>2, <4>2
    <3>3. o \in Surjection(1..n, rows) BY <1>2, <3>1, <3>2, FS_Injection
    <3> QED BY <3>3 DEF Surjection
  <2>3. \A i, j \in 1..n : i < j => o[i] # o[j] /\ <<o[j], o[i]>> \notin before
    <3> SUFFICES ASSUME NEW i \in 1..n, NEW j \in 1..n, i < j
                 PROVE  o[i] # o[j] /\ <<o[j], o[i]>> \notin before
      OBVIOUS
    <3>1. o[i] \in rows /\ o[j] \in rows /\ o[i] # o[j] /\ o[i].at >= o[j].at BY <1>2, <2>1
    <3>2. o[i].at \in Nat /\ o[j].at \in Nat BY <1>5, <3>1
    <3>3. ~(o[j].at > o[i].at) BY <3>1, <3>2
    <3> QED BY <1>4, <3>1, <3>3
  <2>4. Arranges(o, rows, before) BY <1>2, <2>1, <2>2, <2>3 DEF Arranges
  <2> QED BY <1>2, <1>6, <1>7, <2>4, OneArrangement
<1>9. back \in Orders
  <2>1. back \in [1..n -> rows] /\ \A i, j \in 1..n : i < j => back[i] # back[j] /\ <<back[j], back[i]>> \notin before
    BY <1>2, <1>6 DEF Arranges
  <2>2. \A i, j \in 1..n : i # j => back[i] # back[j]
    <3> SUFFICES ASSUME NEW i \in 1..n, NEW j \in 1..n, i # j PROVE back[i] # back[j] OBVIOUS
    <3>1. i < j \/ j < i BY <1>2
    <3> QED BY <2>1, <3>1
  <2>3. ASSUME NEW i \in 1..n, NEW j \in 1..n, i < j PROVE back[i].at >= back[j].at
    <3>1. <<back[j], back[i]>> \notin before /\ back[i] \in rows /\ back[j] \in rows BY <2>1, <2>3
    <3>2. ~(back[j].at > back[i].at) /\ back[i].at \in Nat /\ back[j].at \in Nat BY <1>4, <1>5, <3>1
    <3> QED BY <3>2
  <2> QED BY <1>3, <2>1, <2>2, <2>3
<1>10. Orders = {back} BY <1>8, <1>9
<1> QED BY <1>1, <1>10 DEF Orders

\* The history a question gets is the same from every variant.
LEMMA HistoryHolds == ChatLogInv => HistoryIsNewestThatFits
<1> SUFFICES ASSUME ChatLogInv, NEW w \in Budgets
             PROVE  /\ MemoryListRecent(memoryLog, w) = NewestThatFit(w)
                    /\ InTextOrder(sqliteLog) => SqliteListRecent(sqliteLog, w) = NewestThatFit(w)
                    /\ OneTimeEach => PostgresListRecent(postgresLog, w) = {NewestThatFit(w)}
  BY DEF HistoryIsNewestThatFits
<1>0. w \in Int BY ChatAssumption
<1> DEFINE n == Len(memoryLog)
<1>1. PICK log, back : log = memoryLog /\ back = Back(memoryLog) OBVIOUS
<1>2. n \in Nat /\ log \in [1..n -> Message] /\ \A i \in 1..n : log[i].tokens \in Nat BY <1>1, LogRows
<1>3. back = [i \in 1..n |-> log[(n - i) + 1]] BY <1>1 DEF Back
<1>4. Reverse(log) = back BY <1>1, <1>3 DEF Reverse
<1> HIDE DEF n
<1>5. \A i \in 1..n : (n - i) + 1 \in 1..n BY <1>2
<1>6. back \in [1..n -> Message] /\ \A i \in 1..n : back[i].tokens \in Nat BY <1>2, <1>3, <1>5
<1>7. Fitting(w, Prefix(back, MaxMessages)) = Fitting(w, back) BY <1>0, <1>2, <1>6, LimitHidesNothing
<1>8. Reverse(Fitting(w, back)) = NewestThatFit(w) BY <1>0, <1>1, RecentIsNewest
<1>9. MemoryListRecent(memoryLog, w) = NewestThatFit(w) BY <1>1, <1>4, <1>8 DEF MemoryListRecent
<1>10. ASSUME InTextOrder(sqliteLog) PROVE SqliteListRecent(sqliteLog, w) = NewestThatFit(w)
  <2>1. SqliteListRecent(sqliteLog, w) = Reverse(Fitting(w, Prefix(Sorted(sqliteLog, TextThenId(sqliteLog)), MaxMessages)))
    BY DEF SqliteListRecent, TextThenId
  <2>2. Sorted(sqliteLog, TextThenId(sqliteLog)) = back BY <1>1, <1>10, SqliteListsBackward
  <2> QED BY <1>7, <1>8, <2>1, <2>2
<1>11. ASSUME OneTimeEach PROVE PostgresListRecent(postgresLog, w) = {NewestThatFit(w)}
  <2> DEFINE Orders == {o \in SetToSeqs(postgresLog) : \A i, j \in DOMAIN o : i < j => o[i].at >= o[j].at}
  <2>1. PostgresListRecent(postgresLog, w) = {Reverse(Fitting(w, Prefix(o, MaxMessages))) : o \in Orders}
    BY DEF PostgresListRecent
  <2>2. Orders = {back} BY <1>1, <1>11, PostgresListsBackward
  <2> HIDE DEF Orders
  <2>3. PostgresListRecent(postgresLog, w) = {Reverse(Fitting(w, Prefix(back, MaxMessages)))} BY <2>1, <2>2
  <2> QED BY <1>7, <1>8, <2>3
<1> QED BY <1>9, <1>10, <1>11
-----------------------------------------------------------------------------
(* The memories: what an upsert and a prune keep of them.                   *)
ImportanceOf(source) == IF source = "summary" THEN 1 ELSE 0
Memories(rows, time) ==
  /\ IsFiniteSet(rows)
  /\ \A m \in rows : /\ m.at \in Nat /\ m.at < time /\ m.near \in Nat
                     /\ m.importance = ImportanceOf(m.source)
  /\ \A m, l \in rows : Key(m) = Key(l) \/ m.at = l.at => m = l
Ranks(rows, before) ==
  /\ StrictOrder(rows, before)
  /\ \A m, l \in rows : <<m, l>> \notin before => m.importance <= l.importance
Top(rows, before) == Held(Prefix(Sorted(rows, before), PruneLimit))

\* The first rows of an order are few, and none that is cut goes before them.
LEMMA TopKeeps ==
  ASSUME NEW rows, IsFiniteSet(rows), NEW before, StrictOrder(rows, before)
  PROVE  /\ Top(rows, before) \subseteq rows
         /\ Cardinality(rows) <= PruneLimit => Top(rows, before) = rows
         /\ Cardinality(rows) > PruneLimit => Cardinality(Top(rows, before)) = PruneLimit
         /\ \A m \in Top(rows, before), l \in rows \ Top(rows, before) : <<l, m>> \notin before
         /\ \A i, j \in DOMAIN Prefix(Sorted(rows, before), PruneLimit) :
              i # j => Prefix(Sorted(rows, before), PruneLimit)[i] # Prefix(Sorted(rows, before), PruneLimit)[j]
         /\ Prefix(Sorted(rows, before), PruneLimit) \in Seq(rows)
<1> DEFINE n == Cardinality(rows)
           k == IF n > PruneLimit THEN PruneLimit ELSE n
<1>1. n \in Nat /\ PruneLimit \in Nat BY FS_CardinalityType, ChatAssumption
<1>2. PICK s : s = Sorted(rows, before) OBVIOUS
<1>3. Arranges(s, rows, before) BY <1>2, SortedArranges
<1>4. /\ s \in [1..n -> rows]
      /\ \A r \in rows : \E i \in 1..n : s[i] = r
      /\ \A i, j \in 1..n : i < j => s[i] # s[j] /\ <<s[j], s[i]>> \notin before
  BY <1>3 DEF Arranges
<1>5. PICK p : p = Prefix(s, PruneLimit) OBVIOUS
<1>6. p = [i \in 1..k |-> s[i]] BY <1>1, <1>3, <1>5, PrefixesShow
<1> HIDE DEF n
<1>7. k \in Nat /\ k <= n /\ (n <= PruneLimit => k = n) /\ (n > PruneLimit => k = PruneLimit) BY <1>1
<1> HIDE DEF k
<1>8. \A i \in 1..k : i \in 1..n /\ p[i] = s[i] /\ p[i] \in rows BY <1>1, <1>4, <1>6, <1>7
<1>9. p \in [1..k -> rows] BY <1>6, <1>8
<1>10. \A i, j \in 1..k : i # j => p[i] # p[j]
  <2> SUFFICES ASSUME NEW i \in 1..k, NEW j \in 1..k, i # j PROVE p[i] # p[j] OBVIOUS
  <2>1. i < j \/ j < i BY <1>7
  <2> QED BY <1>4, <1>8, <2>1
<1>11. PICK kept : kept = Held(p) OBVIOUS
<1>12. \A x : x \in kept <=> \E i \in 1..k : x = p[i] BY <1>9, <1>11 DEF Held
<1>13. kept \subseteq rows BY <1>8, <1>12
<1>14. Cardinality(kept) = k
  <2>1. p \in Surjection(1..k, kept) BY <1>9, <1>12 DEF Surjection
  <2>2. p \in Injection(1..k, kept) BY <1>9, <1>10, <1>12 DEF Injection, IsInjective
  <2>3. IsFiniteSet(1..k) /\ Cardinality(1..k) = k
    <3>1. 1 \in Int /\ k \in Int BY <1>7
    <3>2. IsFiniteSet(1..k) /\ Cardinality(1..k) = IF 1 > k THEN 0 ELSE k - 1 + 1 BY <3>1, FS_Interval
    <3> QED BY <1>7, <3>2
  <2> QED BY <2>1, <2>2, <2>3, FS_Surjection
<1>15. n <= PruneLimit => kept = rows
  <2> SUFFICES ASSUME n <= PruneLimit PROVE rows \subseteq kept BY <1>13
  <2>1. k = n BY <1>7
  <2>2. \A r \in rows : \E i \in 1..k : p[i] = r
    <3> SUFFICES ASSUME NEW r \in rows PROVE \E i \in 1..k : p[i] = r OBVIOUS
    <3>1. PICK i \in 1..n : s[i] = r BY <1>4
    <3>2. i \in 1..k BY <2>1, <3>1
    <3> QED BY <1>8, <3>1, <3>2
  <2> QED BY <1>12, <2>2
<1>16. \A m \in kept, l \in rows \ kept : <<l, m>> \notin before
  <2> SUFFICES ASSUME NEW m \in kept, NEW l \in rows, l \notin kept PROVE <<l, m>> \notin before OBVIOUS
  <2>1. PICK i \in 1..k : m = p[i] BY <1>12
  <2>2. PICK j \in 1..n : l = s[j] BY <1>4
  <2>3. j \notin 1..k BY <1>8, <1>12, <2>2
  <2>4. i < j /\ i \in 1..n BY <1>1, <1>7, <2>1, <2>2, <2>3
  <2>5. m = s[i] BY <1>8, <2>1
  <2> QED BY <1>4, <2>2, <2>4, <2>5
<1>17. p \in Seq(rows) BY <1>7, <1>9
<1>18. DOMAIN p = 1..k BY <1>9
<1> QED BY <1>2, <1>5, <1>7, <1>10, <1>11, <1>13, <1>14, <1>15, <1>16, <1>17, <1>18 DEF Top, n

\* An upsert keeps keys and times apart and makes the rows at most one more.
LEMMA UpsertedMemories ==
  ASSUME NEW time \in Nat, NEW rows, Memories(rows, time),
         NEW mem, mem.at = time, mem.near \in Nat, mem.importance = ImportanceOf(mem.source)
  PROVE  LET all == Upserted(rows, mem)
         IN  /\ Memories(all, time + 1) /\ mem \in all /\ all \subseteq rows \cup {mem}
             /\ Cardinality(all) \in Nat /\ Cardinality(rows) <= Cardinality(all)
             /\ Cardinality(all) = Cardinality(rows) =>
                  \E m \in rows : m.importance = mem.importance
             /\ \A m \in rows : m \notin all => Key(m) = Key(mem)
<1> DEFINE others == {m \in rows : Key(m) # Key(mem)}
<1>1. PICK all : all = Upserted(rows, mem) OBVIOUS
<1>2. all = others \cup {mem} BY <1>1 DEF Upserted
<1>3. /\ IsFiniteSet(rows) /\ Cardinality(rows) \in Nat
      /\ \A m \in rows : m.at \in Nat /\ m.at < time /\ m.near \in Nat /\ m.importance = ImportanceOf(m.source)
      /\ \A m, l \in rows : Key(m) = Key(l) \/ m.at = l.at => m = l
  BY FS_CardinalityType DEF Memories
<1>4. IsFiniteSet(others) /\ others \subseteq rows BY <1>3, FS_Subset
<1>5. mem \notin others OBVIOUS
<1>6. IsFiniteSet(all) /\ Cardinality(all) = Cardinality(others) + 1 /\ Cardinality(others) \in Nat
  BY <1>2, <1>4, <1>5, FS_AddElement, FS_CardinalityType
<1>7. \A m \in others : m \in rows /\ Key(m) # Key(mem) /\ m.at # mem.at BY <1>3
<1>8. \A m \in rows : m \notin all => Key(m) = Key(mem) BY <1>2
<1>9. CASE \E m \in rows : Key(m) = Key(mem)
  <2>1. PICK m \in rows : Key(m) = Key(mem) BY <1>9
  <2>2. others = rows \ {m} BY <1>3, <2>1
  <2>3. Cardinality(others) = Cardinality(rows) - 1 BY <1>3, <2>1, <2>2, FS_RemoveElement
  <2>4. m.source = mem.source BY <2>1 DEF Key
  <2>5. m.importance = mem.importance BY <1>3, <2>4
  <2>6. Cardinality(all) = Cardinality(rows) BY <1>3, <1>6, <2>3
  <2> HIDE DEF others
  <2>7. Memories(all, time + 1) BY <1>2, <1>3, <1>4, <1>6, <1>7 DEF Memories
  <2> QED BY <1>1, <1>2, <1>3, <1>4, <1>6, <1>8, <2>5, <2>6, <2>7
<1>10. CASE ~\E m \in rows : Key(m) = Key(mem)
  <2>1. others = rows BY <1>10
  <2>2. Cardinality(all) = Cardinality(rows) + 1 BY <1>6, <2>1
  <2> HIDE DEF others
  <2>3. Memories(all, time + 1) BY <1>2, <1>3, <1>4, <1>6, <1>7 DEF Memories
  <2>4. Cardinality(all) # Cardinality(rows) /\ Cardinality(rows) <= Cardinality(all) BY <1>3, <2>2
  <2> QED BY <1>1, <1>2, <1>3, <1>4, <1>6, <1>8, <2>3, <2>4
<1> QED BY <1>9, <1>10

(* The rows after an upsert and a prune. *)
Stays(rows, mem, kept) ==
  /\ kept \subseteq rows \cup {mem}
  /\ \A m \in rows : m \notin kept /\ m \in Upserted(rows, mem) => Cardinality(kept) = PruneLimit
  /\ mem \notin kept => Cardinality(kept) = PruneLimit
  /\ Cardinality(rows) = PruneLimit =>
       /\ Cardinality(kept) = PruneLimit
       /\ mem \in kept => \E m \in rows : m.importance <= mem.importance

\* A full store stays full, and takes a memory only for one of no more importance.
LEMMA PruneStays ==
  ASSUME NEW time \in Nat, NEW rows, Memories(rows, time), Cardinality(rows) <= PruneLimit,
         NEW mem, mem.at = time, mem.near \in Nat, mem.importance = ImportanceOf(mem.source),
         NEW before, Ranks(Upserted(rows, mem), before)
  PROVE  /\ Memories(Top(Upserted(rows, mem), before), time + 1)
         /\ Cardinality(Top(Upserted(rows, mem), before)) <= PruneLimit
         /\ Stays(rows, mem, Top(Upserted(rows, mem), before))
<1>1. PICK all, kept : all = Upserted(rows, mem) /\ kept = Top(all, before) OBVIOUS
<1>2. /\ Memories(all, time + 1) /\ mem \in all /\ all \subseteq rows \cup {mem}
      /\ Cardinality(all) \in Nat /\ Cardinality(rows) <= Cardinality(all)
      /\ Cardinality(all) = Cardinality(rows) => \E m \in rows : m.importance = mem.importance
  BY <1>1, UpsertedMemories
<1>3. IsFiniteSet(all) /\ StrictOrder(all, before) BY <1>1, <1>2 DEF Memories, Ranks
<1>4. /\ kept \subseteq all
      /\ Cardinality(all) <= PruneLimit => kept = all
      /\ Cardinality(all) > PruneLimit => Cardinality(kept) = PruneLimit
      /\ \A m \in kept, l \in all \ kept : <<l, m>> \notin before
  BY <1>1, <1>3, TopKeeps
<1>5. PruneLimit \in Nat /\ Cardinality(rows) \in Nat
  BY ChatAssumption, FS_CardinalityType DEF Memories
<1>6. Memories(kept, time + 1)
  <2>1. IsFiniteSet(kept) BY <1>3, <1>4, FS_Subset
  <2> QED BY <1>2, <1>4, <2>1 DEF Memories
<1>7. Cardinality(kept) <= PruneLimit BY <1>2, <1>4, <1>5
<1>8. kept # all => Cardinality(kept) = PruneLimit BY <1>2, <1>4, <1>5
<1>9. \A m \in all : \A l \in all : <<m, l>> \notin before => m.importance <= l.importance
  BY <1>1 DEF Ranks
<1>10. ASSUME Cardinality(rows) = PruneLimit
       PROVE  /\ Cardinality(kept) = PruneLimit
              /\ mem \in kept => \E m \in rows : m.importance <= mem.importance
  <2>1. Cardinality(kept) = PruneLimit BY <1>2, <1>4, <1>5, <1>10
  <2>2. ASSUME mem \in kept PROVE \E m \in rows : m.importance <= mem.importance
    <3>1. CASE kept = all
      <4>1. Cardinality(all) = Cardinality(rows) BY <1>10, <2>1, <3>1
      <4>2. PICK m \in rows : m.importance = mem.importance BY <1>2, <4>1
      <4>3. mem.importance \in Nat BY DEF ImportanceOf
      <4>4. m.importance <= mem.importance BY <4>2, <4>3
      <4> QED BY <4>4
    <3>2. CASE kept # all
      <4>1. PICK l \in all : l \notin kept BY <1>4, <3>2
      <4>2. <<l, mem>> \notin before BY <1>4, <2>2, <4>1
      <4>3. l.importance <= mem.importance BY <1>2, <1>9, <4>1, <4>2
      <4>4. l \in rows BY <1>2, <2>2, <4>1
      <4> QED BY <4>3, <4>4
    <3> QED BY <3>1, <3>2
  <2> QED BY <2>1, <2>2
<1>11. Stays(rows, mem, kept) BY <1>1, <1>2, <1>4, <1>8, <1>10 DEF Stays
<1> QED BY <1>1, <1>6, <1>7, <1>11

(* The orders of the prunes, by the time and by its text. *)
ByImportance(rows) ==
  {p \in rows \X rows : \/ p[1].importance > p[2].importance
                        \/ p[1].importance = p[2].importance /\ p[1].at > p[2].at}
ByText(rows) ==
  {p \in rows \X rows :
     \/ p[1].importance > p[2].importance
     \/ /\ p[1].importance = p[2].importance
        /\ TextAbove(formatSQLiteTime(p[1].at), formatSQLiteTime(p[2].at))}
Above(m, l) == m.importance > l.importance \/ (m.importance = l.importance /\ m.at > l.at)
AboveText(m, l) ==
  m.importance > l.importance \/ (m.importance = l.importance /\ TextRank(m.at) > TextRank(l.at))

\* Both rank by importance first and leave no two memories level.
LEMMA PruneOrders ==
  ASSUME NEW time \in Nat, NEW rows, Memories(rows, time)
  PROVE  /\ Ranks(rows, ByImportance(rows)) /\ Ranks(rows, ByText(rows))
         /\ \A m, l \in rows : m # l /\ <<l, m>> \notin ByImportance(rows) => Above(m, l)
         /\ \A m, l \in rows : m # l /\ <<l, m>> \notin ByText(rows) => AboveText(m, l)
<1>1. /\ \A m \in rows : m.at \in Nat /\ m.importance \in Nat
      /\ \A m, l \in rows : m.at = l.at => m = l
  BY DEF Memories, ImportanceOf
<1>2. \A m \in rows : TextRank(m.at) \in Nat BY <1>1, TextByRank
<1>3. PICK I, T : I = ByImportance(rows) /\ T = ByText(rows) OBVIOUS
<1>4. \A m, l \in rows : <<m, l>> \in I <=> Above(m, l) BY <1>3 DEF ByImportance, Above
<1>5. \A m, l \in rows : <<m, l>> \in T <=> AboveText(m, l)
  <2> SUFFICES ASSUME NEW m \in rows, NEW l \in rows PROVE <<m, l>> \in T <=> AboveText(m, l) OBVIOUS
  <2>1. <<m, l>> \in T <=> \/ m.importance > l.importance
                           \/ /\ m.importance = l.importance
                              /\ TextAbove(formatSQLiteTime(m.at), formatSQLiteTime(l.at))
    BY <1>3 DEF ByText
  <2>2. PICK s, t : s = m.at /\ t = l.at OBVIOUS
  <2>3. s \in Nat /\ t \in Nat BY <1>1, <2>2
  <2>4. TextAbove(formatSQLiteTime(s), formatSQLiteTime(t)) <=> TextRank(s) > TextRank(t)
    BY <2>3, TextByRank
  <2> QED BY <2>1, <2>2, <2>4 DEF AboveText
<1>6. \A m, l \in rows : m # l => TextRank(m.at) # TextRank(l.at)
  <2> SUFFICES ASSUME NEW m \in rows, NEW l \in rows, TextRank(m.at) = TextRank(l.at) PROVE m = l OBVIOUS
  <2>1. PICK s, t : s = m.at /\ t = l.at OBVIOUS
  <2>2. s \in Nat /\ t \in Nat BY <1>1, <2>1
  <2>3. s = t BY <2>1, <2>2, TextByRank
  <2> QED BY <1>1, <2>1, <2>3
<1>7. \A m, l \in rows : ~Above(l, m) => m = l \/ Above(m, l)
  <2> SUFFICES ASSUME NEW m \in rows, NEW l \in rows, ~Above(l, m), m # l PROVE Above(m, l) OBVIOUS
  <2>1. PICK a, b, s, t : a = m.importance /\ b = l.importance /\ s = m.at /\ t = l.at OBVIOUS
  <2>2. a \in Nat /\ b \in Nat /\ s \in Nat /\ t \in Nat /\ s # t BY <1>1, <2>1
  <2>3. ~(b > a \/ (b = a /\ t > s)) BY <2>1 DEF Above
  <2>4. a > b \/ (a = b /\ s > t) BY <2>2, <2>3
  <2> QED BY <2>1, <2>4 DEF Above
<1>8. \A m, l \in rows : ~AboveText(l, m) => m = l \/ AboveText(m, l)
  <2> SUFFICES ASSUME NEW m \in rows, NEW l \in rows, ~AboveText(l, m), m # l PROVE AboveText(m, l) OBVIOUS
  <2>1. PICK a, b, s, t : a = m.importance /\ b = l.importance /\ s = TextRank(m.at) /\ t = TextRank(l.at)
    OBVIOUS
  <2>2. a \in Nat /\ b \in Nat /\ s \in Nat /\ t \in Nat /\ s # t BY <1>1, <1>2, <1>6, <2>1
  <2>3. ~(b > a \/ (b = a /\ t > s)) BY <2>1 DEF AboveText
  <2>4. a > b \/ (a = b /\ s > t) BY <2>2, <2>3
  <2> QED BY <2>1, <2>4 DEF AboveText
<1>9. \A m, l \in rows : ~Above(m, l) => m.importance <= l.importance BY <1>1 DEF Above
<1>10. \A m, l \in rows : ~AboveText(m, l) => m.importance <= l.importance BY <1>1 DEF AboveText
<1>11. StrictOrder(rows, I)
  <2>1. \A m \in rows : <<m, m>> \notin I BY <1>1, <1>4 DEF Above
  <2>2. ASSUME NEW m \in rows, NEW l \in rows, NEW k \in rows, <<m, l>> \in I, <<l, k>> \in I
        PROVE  <<m, k>> \in I
    <3>1. PICK a, b, c, r, s, t : /\ a = m.importance /\ b = l.importance /\ c = k.importance
                                  /\ r = m.at /\ s = l.at /\ t = k.at
      OBVIOUS
    <3>2. a \in Nat /\ b \in Nat /\ c \in Nat /\ r \in Nat /\ s \in Nat /\ t \in Nat BY <1>1, <3>1
    <3>3. (a > b \/ (a = b /\ r > s)) /\ (b > c \/ (b = c /\ s > t)) BY <1>4, <2>2, <3>1 DEF Above
    <3>4. a > c \/ (a = c /\ r > t) BY <3>2, <3>3
    <3> QED BY <1>4, <3>1, <3>4 DEF Above
  <2> QED BY <2>1, <2>2 DEF StrictOrder
<1>12. StrictOrder(rows, T)
  <2>1. \A m \in rows : <<m, m>> \notin T BY <1>1, <1>2, <1>5 DEF AboveText
  <2>2. ASSUME NEW m \in rows, NEW l \in rows, NEW k \in rows, <<m, l>> \in T, <<l, k>> \in T
        PROVE  <<m, k>> \in T
    <3>1. PICK a, b, c, r, s, t : /\ a = m.importance /\ b = l.importance /\ c = k.importance
                                  /\ r = TextRank(m.at) /\ s = TextRank(l.at) /\ t = TextRank(k.at)
      OBVIOUS
    <3>2. a \in Nat /\ b \in Nat /\ c \in Nat /\ r \in Nat /\ s \in Nat /\ t \in Nat BY <1>1, <1>2, <3>1
    <3>3. (a > b \/ (a = b /\ r > s)) /\ (b > c \/ (b = c /\ s > t)) BY <1>5, <2>2, <3>1 DEF AboveText
    <3>4. a > c \/ (a = c /\ r > t) BY <3>2, <3>3
    <3> QED BY <1>5, <3>1, <3>4 DEF AboveText
  <2> QED BY <2>1, <2>2 DEF StrictOrder
<1>13. Ranks(rows, I) BY <1>4, <1>9, <1>11 DEF Ranks
<1>14. Ranks(rows, T) BY <1>5, <1>10, <1>12 DEF Ranks
<1> QED BY <1>3, <1>4, <1>5, <1>7, <1>8, <1>13, <1>14

(* How the memories of two variants may differ.  What SQLite alone has was   *)
(* cut by the others for memories that are all above it; what SQLite cut     *)
(* went for memories whose text is above it, or that were written later and  *)
(* are as important.                                                        *)
Outranks(m, l) == AboveText(m, l) \/ (m.at > l.at /\ m.importance >= l.importance)
Parted(memory, sqlite) ==
  /\ \A l \in sqlite \ memory : Cardinality(memory) = PruneLimit /\ \A m \in memory : Above(m, l)
  /\ \A l \in memory \ sqlite : Cardinality(sqlite) = PruneLimit /\ \A m \in sqlite : Outranks(m, l)

\* An upsert and a prune of both leave them parted in this way only.
LEMMA PartedStays ==
  ASSUME NEW time \in Nat, NEW memory, Memories(memory, time), Cardinality(memory) <= PruneLimit,
         NEW sqlite, Memories(sqlite, time), Cardinality(sqlite) <= PruneLimit, Parted(memory, sqlite),
         NEW mem, mem.at = time, mem.near \in Nat, mem.importance = ImportanceOf(mem.source)
  PROVE  Parted(Top(Upserted(memory, mem), ByImportance(Upserted(memory, mem))),
                Top(Upserted(sqlite, mem), ByText(Upserted(sqlite, mem))))
<1>1. PICK M1, S1, I, T : /\ M1 = Upserted(memory, mem) /\ S1 = Upserted(sqlite, mem)
                          /\ I = ByImportance(M1) /\ T = ByText(S1)
  OBVIOUS
<1>2. PICK M2, S2 : M2 = Top(M1, I) /\ S2 = Top(S1, T) OBVIOUS
<1>3. /\ Memories(M1, time + 1) /\ mem \in M1 /\ M1 \subseteq memory \cup {mem}
      /\ \A m \in memory : m \notin M1 => Key(m) = Key(mem)
  BY <1>1, UpsertedMemories
<1>4. /\ Memories(S1, time + 1) /\ mem \in S1 /\ S1 \subseteq sqlite \cup {mem}
      /\ \A m \in sqlite : m \notin S1 => Key(m) = Key(mem)
  BY <1>1, UpsertedMemories
<1>5. time + 1 \in Nat OBVIOUS
<1>6. Ranks(M1, I) /\ \A m, l \in M1 : m # l /\ <<l, m>> \notin I => Above(m, l)
  BY <1>1, <1>3, <1>5, PruneOrders
<1>7. Ranks(S1, T) /\ \A m, l \in S1 : m # l /\ <<l, m>> \notin T => AboveText(m, l)
  BY <1>1, <1>4, <1>5, PruneOrders
<1>8. Stays(memory, mem, M2) BY <1>1, <1>2, <1>6, PruneStays
<1>9. Stays(sqlite, mem, S2) BY <1>1, <1>2, <1>7, PruneStays
<1>10. M2 \subseteq M1 /\ \A m \in M2, l \in M1 \ M2 : <<l, m>> \notin I
  <2>1. IsFiniteSet(M1) /\ StrictOrder(M1, I) BY <1>3, <1>6 DEF Memories, Ranks
  <2> QED BY <1>2, <2>1, TopKeeps
<1>11. S2 \subseteq S1 /\ \A m \in S2, l \in S1 \ S2 : <<l, m>> \notin T
  <2>1. IsFiniteSet(S1) /\ StrictOrder(S1, T) BY <1>4, <1>7 DEF Memories, Ranks
  <2> QED BY <1>2, <2>1, TopKeeps
<1>12. mem.importance \in Nat /\ \A m \in memory \cup sqlite : m.at \in Nat /\ m.at < time /\ m.importance \in Nat
  BY DEF Memories, ImportanceOf
<1>13. ASSUME NEW l \in S2, l \notin M2
       PROVE  Cardinality(M2) = PruneLimit /\ \A m \in M2 : Above(m, l)
  <2>1. CASE l \in M1
    <3>1. l \in memory \/ l = mem BY <1>3, <2>1
    <3>2. Cardinality(M2) = PruneLimit BY <1>1, <1>8, <1>13, <2>1, <3>1 DEF Stays
    <3>3. \A m \in M2 : Above(m, l) BY <1>6, <1>10, <1>13, <2>1
    <3> QED BY <3>2, <3>3
  <2>2. CASE l \notin M1
    <3>1. l \in sqlite /\ l # mem BY <1>3, <1>4, <1>11, <2>2
    <3>2. l \notin memory
      <4> SUFFICES ASSUME l \in memory PROVE FALSE OBVIOUS
      <4>1. Key(l) = Key(mem) BY <1>3, <2>2
      <4>2. l \in Upserted(sqlite, mem) BY <1>1, <1>11
      <4> QED BY <3>1, <4>1, <4>2 DEF Upserted
    <3>3. Cardinality(memory) = PruneLimit /\ \A m \in memory : Above(m, l) BY <3>1, <3>2 DEF Parted
    <3>4. Cardinality(M2) = PruneLimit /\ (mem \in M2 => \E m \in memory : m.importance <= mem.importance)
      BY <1>8, <3>3 DEF Stays
    <3>5. ASSUME NEW m \in M2 PROVE Above(m, l)
      <4>1. CASE m \in memory BY <3>3, <4>1
      <4>2. CASE m = mem
        <5>1. PICK k \in memory : k.importance <= mem.importance BY <3>4, <3>5, <4>2
        <5>2. Above(k, l) BY <3>3, <5>1
        <5>3. PICK a, b, c, s : a = mem.importance /\ b = k.importance /\ c = l.importance /\ s = l.at
          OBVIOUS
        <5>4. a \in Nat /\ b \in Nat /\ c \in Nat /\ s \in Nat /\ s < time BY <1>12, <3>1, <5>1, <5>3
        <5>5. b <= a BY <5>1, <5>3
        <5>6. b > c \/ b = c BY <5>2, <5>3 DEF Above
        <5>7. a > c \/ (a = c /\ time > s) BY <5>4, <5>5, <5>6
        <5> QED BY <4>2, <5>3, <5>7 DEF Above
      <4> QED BY <1>3, <1>10, <3>5, <4>1, <4>2
    <3> QED BY <3>4, <3>5
  <2> QED BY <2>1, <2>2
<1>14. ASSUME NEW l \in M2, l \notin S2
       PROVE  Cardinality(S2) = PruneLimit /\ \A m \in S2 : Outranks(m, l)
  <2>1. CASE l \in S1
    <3>1. l \in sqlite \/ l = mem BY <1>4, <2>1
    <3>2. Cardinality(S2) = PruneLimit BY <1>1, <1>9, <1>14, <2>1, <3>1 DEF Stays
    <3>3. \A m \in S2 : AboveText(m, l) BY <1>7, <1>11, <1>14, <2>1
    <3> QED BY <3>2, <3>3 DEF Outranks
  <2>2. CASE l \notin S1
    <3>1. l \in memory /\ l # mem BY <1>3, <1>4, <1>10, <2>2
    <3>2. l \notin sqlite
      <4> SUFFICES ASSUME l \in sqlite PROVE FALSE OBVIOUS
      <4>1. Key(l) = Key(mem) BY <1>4, <2>2
      <4>2. l \in Upserted(memory, mem) BY <1>1, <1>10
      <4> QED BY <3>1, <4>1, <4>2 DEF Upserted
    <3>3. Cardinality(sqlite) = PruneLimit /\ \A m \in sqlite : Outranks(m, l) BY <3>1, <3>2 DEF Parted
    <3>4. Cardinality(S2) = PruneLimit /\ (mem \in S2 => \E m \in sqlite : m.importance <= mem.importance)
      BY <1>9, <3>3 DEF Stays
    <3>5. ASSUME NEW m \in S2 PROVE Outranks(m, l)
      <4>1. CASE m \in sqlite BY <3>3, <4>1
      <4>2. CASE m = mem
        <5>1. PICK k \in sqlite : k.importance <= mem.importance BY <3>4, <3>5, <4>2
        <5>2. Outranks(k, l) BY <3>3, <5>1
        <5>3. PICK a, b, c, s : a = mem.importance /\ b = k.importance /\ c = l.importance /\ s = l.at
          OBVIOUS
        <5>4. a \in Nat /\ b \in Nat /\ c \in Nat /\ s \in Nat /\ s < time BY <1>12, <3>1, <5>1, <5>3
        <5>5. b <= a BY <5>1, <5>3
        <5>6. b > c \/ b = c \/ b >= c BY <5>2, <5>3 DEF Outranks, AboveText
        <5>7. a >= c /\ time > s BY <5>4, <5>5, <5>6
        <5> QED BY <4>2, <5>3, <5>7 DEF Outranks
      <4> QED BY <1>4, <1>11, <3>5, <4>1, <4>2
    <3> QED BY <3>4, <3>5
  <2> QED BY <2>1, <2>2
<1>15. Parted(M2, S2) BY <1>13, <1>14 DEF Parted
<1> QED BY <1>1, <1>2, <1>15

\* Where no two times are misordered they are not parted at all.
LEMMA InOrderNotParted ==
  ASSUME NEW time \in Nat, NEW memory, Memories(memory, time), Cardinality(memory) <= PruneLimit,
         NEW sqlite, Memories(sqlite, time), Cardinality(sqlite) <= PruneLimit, Parted(memory, sqlite),
         InTextOrder(memory \cup sqlite)
  PROVE  memory = sqlite
<1>1. /\ IsFiniteSet(memory) /\ IsFiniteSet(sqlite)
      /\ \A m \in memory \cup sqlite : m.at \in Nat /\ m.importance \in Nat
  BY DEF Memories, ImportanceOf
<1>2. ASSUME NEW l \in sqlite, l \notin memory, NEW k \in memory, k \notin sqlite PROVE FALSE
  <2>1. Above(k, l) /\ Outranks(l, k) BY <1>2 DEF Parted
  <2>2. PICK a, b, s, t : a = k.importance /\ b = l.importance /\ s = k.at /\ t = l.at OBVIOUS
  <2>3. a \in Nat /\ b \in Nat /\ s \in Nat /\ t \in Nat BY <1>1, <2>2
  <2>4. a > b \/ (a = b /\ s > t) BY <2>1, <2>2 DEF Above
  <2>5. (b > a \/ (b = a /\ TextRank(t) > TextRank(s))) \/ (t > s /\ b >= a)
    BY <2>1, <2>2 DEF Outranks, AboveText
  <2>6. s > t /\ TextRank(t) > TextRank(s) BY <2>3, <2>4, <2>5
  <2>7. ~Misordered(t, s) BY <2>2 DEF InTextOrder
  <2>8. ~TextAbove(formatSQLiteTime(t), formatSQLiteTime(s)) BY <2>3, <2>6, <2>7 DEF Misordered
  <2> QED BY <2>3, <2>6, <2>8, TextByRank
<1>3. Cardinality(memory) \in Nat /\ Cardinality(sqlite) \in Nat /\ PruneLimit \in Nat
  BY <1>1, FS_CardinalityType, ChatAssumption
<1>4. ASSUME NEW l \in sqlite, l \notin memory PROVE FALSE
  <2>1. Cardinality(memory) = PruneLimit BY <1>4 DEF Parted
  <2>2. memory \subseteq sqlite BY <1>2, <1>4
  <2>3. memory = sqlite
    <3>1. Cardinality(memory) <= Cardinality(sqlite) BY <1>1, <2>2, FS_Subset
    <3>2. Cardinality(memory) = Cardinality(sqlite) BY <1>3, <2>1, <3>1
    <3> QED BY <1>1, <2>2, <3>2, FS_Subset
  <2> QED BY <1>4, <2>3
<1>5. ASSUME NEW k \in memory, k \notin sqlite PROVE FALSE
  <2>1. Cardinality(sqlite) = PruneLimit BY <1>5 DEF Parted
  <2>2. sqlite \subseteq memory BY <1>4
  <2>3. memory = sqlite
    <3>1. Cardinality(sqlite) <= Cardinality(memory) BY <1>1, <2>2, FS_Subset
    <3>2. Cardinality(memory) = Cardinality(sqlite) BY <1>3, <2>1, <3>1
    <3> QED BY <1>1, <2>2, <3>2, FS_Subset
  <2> QED BY <1>5, <2>3
<1> QED BY <1>4, <1>5

-----------------------------------------------------------------------------
(* The memories of the memory variant are a slice of the rows of the tables. *)
Slice(s, rows) ==
  /\ s \in Seq(rows) /\ Held(s) = rows
  /\ \A i, j \in DOMAIN s : s[i] = s[j] => i = j

\* A slice is as long as it holds rows.
LEMMA SliceLength ==
  ASSUME NEW rows, NEW s, Slice(s, rows)
  PROVE  Len(s) \in Nat /\ DOMAIN s = 1..Len(s) /\ Cardinality(rows) = Len(s)
<1> DEFINE n == Len(s)
<1>1. n \in Nat /\ DOMAIN s = 1..n /\ s \in [1..n -> rows] BY DEF Slice
<1>2. \A r \in rows : \E i \in 1..n : s[i] = r
  <2>1. \A r \in Held(s) : \E i \in 1..n : s[i] = r BY <1>1 DEF Held
  <2> QED BY <2>1 DEF Slice
<1>3. \A i, j \in 1..n : s[i] = s[j] => i = j BY <1>1 DEF Slice
<1> HIDE DEF n
<1>4. s \in Surjection(1..n, rows) BY <1>1, <1>2 DEF Surjection
<1>5. s \in Injection(1..n, rows) BY <1>1, <1>3 DEF Injection, IsInjective
<1>6. IsFiniteSet(1..n) /\ Cardinality(1..n) = n
  <2>1. 1 \in Int /\ n \in Int BY <1>1
  <2>2. IsFiniteSet(1..n) /\ Cardinality(1..n) = IF 1 > n THEN 0 ELSE n - 1 + 1 BY <2>1, FS_Interval
  <2> QED BY <1>1, <2>2
<1>7. Cardinality(rows) = n BY <1>4, <1>5, <1>6, FS_Surjection
<1> QED BY <1>1, <1>7 DEF n

\* Replacing in place and appending leave a slice of the rows upserted.
LEMMA SliceUpserted ==
  ASSUME NEW rows, NEW s, Slice(s, rows), NEW mem,
         \A m, l \in rows : Key(m) = Key(l) => m = l
  PROVE  Slice(MemoryUpsert(s, mem), Upserted(rows, mem))
<1> DEFINE n == Len(s)
<1>1. PICK all, t : all = Upserted(rows, mem) /\ t = MemoryUpsert(s, mem) OBVIOUS
<1>2. n \in Nat /\ DOMAIN s = 1..n /\ s \in [1..n -> rows] BY DEF Slice
<1>3. \A r : r \in rows <=> \E i \in 1..n : s[i] = r
  <2>1. \A r : r \in Held(s) <=> \E i \in 1..n : s[i] = r BY <1>2 DEF Held
  <2> QED BY <2>1 DEF Slice
<1>4. \A i, j \in 1..n : s[i] = s[j] => i = j BY <1>2 DEF Slice
<1>5. \A r : r \in all <=> r = mem \/ \E i \in 1..n : s[i] = r /\ Key(r) # Key(mem)
  BY <1>1, <1>3 DEF Upserted
<1> HIDE DEF n
<1>6. CASE \E i \in 1..n : Key(s[i]) = Key(mem)
  <2>1. PICK p \in 1..n : Key(s[p]) = Key(mem) BY <1>6
  <2>2. \A i \in 1..n : Key(s[i]) = Key(mem) => i = p BY <1>2, <1>4, <2>1
  <2>3. t = [i \in 1..n |-> IF Key(s[i]) = Key(mem) THEN mem ELSE s[i]]
    BY <1>1, <1>2, <2>1 DEF MemoryUpsert
  <2>4. t[p] = mem /\ \A i \in 1..n : i # p => t[i] = s[i] /\ Key(s[i]) # Key(mem) BY <2>1, <2>2, <2>3
  <2>5. \A i \in 1..n : t[i] \in all BY <1>5, <2>4
  <2>6. t \in Seq(all) /\ DOMAIN t = 1..n BY <1>2, <2>3, <2>5
  <2>7. \A r \in all : \E i \in 1..n : t[i] = r
    <3> SUFFICES ASSUME NEW r \in all, r # mem PROVE \E i \in 1..n : t[i] = r BY <2>1, <2>4
    <3>1. PICK i \in 1..n : s[i] = r /\ Key(r) # Key(mem) BY <1>5
    <3>2. t[i] = r BY <2>1, <2>4, <3>1
    <3> QED BY <3>2
  <2>8. Held(t) = all BY <2>5, <2>6, <2>7 DEF Held
  <2>9. ASSUME NEW i \in 1..n, NEW j \in 1..n, t[i] = t[j] PROVE i = j
    <3>1. i = p <=> j = p BY <2>4, <2>9
    <3> QED BY <1>4, <2>4, <2>9, <3>1
  <2> QED BY <1>1, <2>6, <2>8, <2>9 DEF Slice
<1>7. CASE ~\E i \in 1..n : Key(s[i]) = Key(mem)
  <2>1. t = Append(s, mem) BY <1>1, <1>2, <1>7 DEF MemoryUpsert
  <2>2. s \in Seq(rows) /\ Len(s) = n BY DEF n, Slice
  <2>3. s \in Seq(rows \cup {mem}) BY <1>2, <2>2
  <2>4. /\ t \in Seq(rows \cup {mem}) /\ DOMAIN t = 1..(n + 1) /\ Len(t) = n + 1
        /\ (\A i \in 1..n : t[i] = s[i]) /\ t[n + 1] = mem
    BY <1>2, <2>1, <2>2, <2>3
  <2>5. \A i \in 1..(n + 1) : i \in 1..n \/ i = n + 1 BY <1>2
  <2>6. n + 1 \in 1..(n + 1) /\ \A i \in 1..n : i \in 1..(n + 1) BY <1>2
  <2>7. \A i \in 1..(n + 1) : t[i] \in all BY <1>5, <1>7, <2>4, <2>5
  <2>8. t \in Seq(all) BY <2>4, <2>7
  <2>9. \A r \in all : \E i \in 1..(n + 1) : t[i] = r BY <1>5, <2>4, <2>6
  <2>10. Held(t) = all BY <2>4, <2>7, <2>9 DEF Held
  <2>11. ASSUME NEW i \in 1..(n + 1), NEW j \in 1..(n + 1), t[i] = t[j] PROVE i = j
    <3>1. i = n + 1 <=> j = n + 1 BY <1>7, <2>4, <2>5, <2>11
    <3> QED BY <1>4, <2>4, <2>5, <2>11, <3>1
  <2> QED BY <1>1, <2>4, <2>8, <2>10, <2>11 DEF Slice
<1> QED BY <1>6, <1>7

\* The prune of the slice leaves a slice of the rows that the table keeps.
LEMMA SlicePruned ==
  ASSUME NEW time \in Nat, NEW rows, Memories(rows, time), NEW s, Slice(s, rows)
  PROVE  Slice(MemoryPrune(s), Top(rows, ByImportance(rows)))
<1>1. PICK I : I = ByImportance(rows) OBVIOUS
<1>2. IsFiniteSet(rows) /\ StrictOrder(rows, I) BY <1>1, PruneOrders DEF Memories, Ranks
<1>3. PICK p : p = Prefix(Sorted(rows, I), PruneLimit) OBVIOUS
<1>4. /\ Cardinality(rows) <= PruneLimit => Top(rows, I) = rows
      /\ \A i, j \in DOMAIN p : i # j => p[i] # p[j]
      /\ p \in Seq(rows)
  BY <1>2, <1>3, TopKeeps
<1>5. Cardinality(rows) = Len(s) /\ Held(s) = rows BY SliceLength DEF Slice
<1>6. Important(rows) = Sorted(rows, I) BY <1>1 DEF Important, ByImportance
<1>7. CASE Len(s) <= PruneLimit
  <2>1. MemoryPrune(s) = s BY <1>7 DEF MemoryPrune
  <2>2. Top(rows, I) = rows BY <1>4, <1>5, <1>7
  <2> QED BY <1>1, <2>1, <2>2
<1>8. CASE ~(Len(s) <= PruneLimit)
  <2>1. MemoryPrune(s) = p BY <1>3, <1>5, <1>6, <1>8 DEF MemoryPrune
  <2>2. Held(p) = Top(rows, I) BY <1>3 DEF Top
  <2>3. p \in Seq(Held(p))
    <3>1. \A i \in DOMAIN p : p[i] \in Held(p) BY DEF Held
    <3>2. Len(p) \in Nat /\ p \in [1..Len(p) -> rows] BY <1>4
    <3>3. p \in [1..Len(p) -> Held(p)] BY <3>1, <3>2
    <3> QED BY <3>2, <3>3
  <2> QED BY <1>1, <1>4, <2>1, <2>2, <2>3 DEF Slice
<1> QED BY <1>7, <1>8

(* The memories of the three variants. *)
ChatMemInv ==
  /\ chatTime \in Nat
  /\ Slice(memoryMems, postgresMems) /\ Memories(postgresMems, chatTime) /\ Memories(sqliteMems, chatTime)
  /\ Cardinality(postgresMems) <= PruneLimit /\ Cardinality(sqliteMems) <= PruneLimit
  /\ Parted(postgresMems, sqliteMems)

\* A later time changes nothing for the memories stored.
LEMMA MemoriesLater ==
  ASSUME NEW rows, NEW time \in Nat, Memories(rows, time), NEW later \in Nat, time <= later
  PROVE  Memories(rows, later)
BY DEF Memories

\* An upsert and a prune keep the memories alike.
LEMMA StoreMemoryKeeps ==
  ASSUME ChatMemInv, MemoryNext
  PROVE  ChatMemInv'
<1>1. chatTime \in Nat /\ chatTime' \in Nat /\ chatTime + 1 <= chatTime'
  BY DEF ChatMemInv, MemoryNext, ChatTick
<1>2. PICK source \in {"qa_turn", "summary"}, content \in Contents, vector \in Embeddings :
        StoreMemory(source, content, vector)
  BY DEF MemoryNext
<1>3. PICK mem : mem = [source |-> source, content |-> content,
                        near |-> vector.near, close |-> vector.close, embedded |-> vector.near > 0,
                        importance |-> IF source = "summary" THEN 1 ELSE 0, at |-> chatTime]
  OBVIOUS
<1>4. PICK s, P, S, t : s = memoryMems /\ P = postgresMems /\ S = sqliteMems /\ t = chatTime OBVIOUS
<1>5. t \in Nat /\ mem.at = t /\ mem.near \in Nat /\ mem.importance = ImportanceOf(mem.source)
  <2>1. vector.near \in Nat BY ChatAssumption
  <2> QED BY <1>1, <1>3, <1>4, <2>1 DEF ImportanceOf
<1>6. /\ Slice(s, P) /\ Memories(P, t) /\ Memories(S, t) /\ Parted(P, S)
      /\ Cardinality(P) <= PruneLimit /\ Cardinality(S) <= PruneLimit
  BY <1>4 DEF ChatMemInv
<1>7. PICK P1, S1 : P1 = Upserted(P, mem) /\ S1 = Upserted(S, mem) OBVIOUS
<1>8. PICK P2, S2 : P2 = Top(P1, ByImportance(P1)) /\ S2 = Top(S1, ByText(S1)) OBVIOUS
<1>9. memoryMems' = MemoryPrune(MemoryUpsert(s, mem)) /\ postgresMems' = P2 /\ sqliteMems' = S2
  <2>1. /\ memoryMems' = MemoryPrune(MemoryUpsert(s, mem))
        /\ sqliteMems' = SqlitePrune(SqliteUpsert(S, mem))
        /\ postgresMems' = PostgresPrune(PostgresUpsert(P, mem))
    BY <1>2, <1>3, <1>4 DEF StoreMemory
  <2>2. SqlitePrune(S1) = S2 BY <1>8 DEF SqlitePrune, Top, ByText
  <2>3. PostgresPrune(P1) = P2 BY <1>8 DEF PostgresPrune, Important, Top, ByImportance
  <2> QED BY <1>7, <2>1, <2>2, <2>3 DEF SqliteUpsert, PostgresUpsert
<1>10. Memories(P1, t + 1) /\ Memories(S1, t + 1) BY <1>5, <1>6, <1>7, UpsertedMemories
<1>11. Ranks(P1, ByImportance(P1)) /\ Ranks(S1, ByText(S1))
  <2>1. t + 1 \in Nat BY <1>5
  <2> QED BY <1>10, <2>1, PruneOrders
<1>12. Memories(P2, t + 1) /\ Cardinality(P2) <= PruneLimit BY <1>5, <1>6, <1>7, <1>8, <1>11, PruneStays
<1>13. Memories(S2, t + 1) /\ Cardinality(S2) <= PruneLimit BY <1>5, <1>6, <1>7, <1>8, <1>11, PruneStays
<1>14. Parted(P2, S2) BY <1>5, <1>6, <1>7, <1>8, PartedStays
<1>15. Slice(MemoryPrune(MemoryUpsert(s, mem)), P2)
  <2>1. \A m, l \in P : Key(m) = Key(l) => m = l BY <1>6 DEF Memories
  <2>2. Slice(MemoryUpsert(s, mem), P1) BY <1>6, <1>7, <2>1, SliceUpserted
  <2>3. PICK u : u = MemoryUpsert(s, mem) OBVIOUS
  <2>4. t + 1 \in Nat BY <1>5
  <2> QED BY <1>8, <1>10, <2>2, <2>3, <2>4, SlicePruned
<1>16. PICK later : later = chatTime' OBVIOUS
<1>17. Memories(P2, later) /\ Memories(S2, later)
  <2>1. t + 1 \in Nat /\ later \in Nat /\ t + 1 <= later BY <1>1, <1>4, <1>16
  <2> QED BY <1>12, <1>13, <2>1, MemoriesLater
<1> QED BY <1>1, <1>9, <1>12, <1>13, <1>14, <1>15, <1>16, <1>17 DEF ChatMemInv

\* What a question finds of the memories is equally near in every variant.
LEMMA MemoriesHold == ChatMemInv => MemoriesAgree
<1> SUFFICES ASSUME ChatMemInv PROVE MemoriesAgree OBVIOUS
<1>1. PICK P, S, t : P = postgresMems /\ S = sqliteMems /\ t = chatTime OBVIOUS
<1>2. /\ t \in Nat /\ Held(memoryMems) = P /\ Memories(P, t) /\ Memories(S, t) /\ Parted(P, S)
      /\ Cardinality(P) <= PruneLimit /\ Cardinality(S) <= PruneLimit
  BY <1>1 DEF ChatMemInv, Slice
<1>3. MemorySearchMems(memoryMems) = Prefix(Nearest(Embedded(P)), MemTopK) BY <1>2 DEF MemorySearchMems
<1>6. ASSUME RankedAlike(Embedded(P)) PROVE MemorySearchMems(memoryMems) = PostgresSearchMems(P)
  BY <1>3, <1>6, DistanceSorts DEF PostgresSearchMems
<1>4. ASSUME InTextOrder(P \cup S) PROVE P = S BY <1>2, <1>4, InOrderNotParted
<1>5. Nears(MemorySearchMems(memoryMems)) = Nears(SqliteSearchMems(P))
  <2> DEFINE E == Embedded(P)
             a == Sorted(E, NearestFirst(E))
             b == Sorted(E, NearestNewestFirst(E))
             n == Cardinality(E)
             used == IF n > MemTopK THEN MemTopK ELSE n
             same == [r \in E |-> r]
  <2>1. Nearest(E) = a /\ NearestNewest(E) = b
    BY DEF Nearest, NearestNewest, NearestFirst, NearestNewestFirst
  <2>2. IsFiniteSet(E) /\ \A r \in E : r.near \in Nat /\ r.at \in Nat
    <3>1. E \subseteq P BY DEF Embedded
    <3> QED BY <1>2, <3>1, FS_Subset DEF Memories
  <2>3. MemorySearchMems(memoryMems) = Prefix(a, MemTopK) /\ SqliteSearchMems(P) = Prefix(b, MemTopK)
    BY <1>3, <2>1 DEF SqliteSearchMems
  <2> HIDE DEF E
  <2>4. StrictOrder(E, NearestFirst(E)) BY <2>2 DEF StrictOrder, NearestFirst
  <2>5. StrictOrder(E, NearestNewestFirst(E)) BY <2>2 DEF StrictOrder, NearestNewestFirst
  <2>6. NearOf(E) \in [E -> Int] BY <2>2 DEF NearOf
  <2>7. Follows(NearestFirst(E), E, NearOf(E)) BY DEF Follows, NearestFirst, NearOf
  <2>8. Follows(NearestNewestFirst(E), E, NearOf(E)) BY DEF Follows, NearestNewestFirst, NearOf
  <2>9. Arranges(a, E, NearestFirst(E)) BY <2>2, <2>4, SortedArranges
  <2>10. Arranges(b, E, NearestNewestFirst(E)) BY <2>2, <2>5, SortedArranges
  <2>11. Pairs(same, E, NearOf(E), E, NearOf(E)) BY DEF Pairs
  <2> HIDE DEF a, b, same
  <2>12. \A i \in 1..n : NearOf(E)[a[i]] = NearOf(E)[b[i]]
    BY <2>2, <2>6, <2>7, <2>8, <2>9, <2>10, <2>11, SameKeys
  <2>13. \A i \in 1..n : a[i] \in E /\ b[i] \in E BY <2>9, <2>10 DEF Arranges
  <2>14. \A i \in 1..n : a[i].near = b[i].near BY <2>12, <2>13 DEF NearOf
  <2>15. MemTopK \in Nat BY ChatAssumption
  <2>16. Prefix(a, MemTopK) = [i \in 1..used |-> a[i]] BY <2>2, <2>9, <2>15, PrefixesShow
  <2>17. Prefix(b, MemTopK) = [i \in 1..used |-> b[i]] BY <2>2, <2>10, <2>15, PrefixesShow
  <2>18. \A i \in 1..used : i \in 1..n BY <2>2, <2>15, FS_CardinalityType
  <2> HIDE DEF n, used
  <2>19. Nears(Prefix(a, MemTopK)) = [i \in 1..used |-> a[i].near] BY <2>16 DEF Nears
  <2>20. Nears(Prefix(b, MemTopK)) = [i \in 1..used |-> b[i].near] BY <2>17 DEF Nears
  <2> QED BY <2>3, <2>14, <2>18, <2>19, <2>20
<1> QED BY <1>1, <1>2, <1>4, <1>5, <1>6 DEF MemoriesAgree

-----------------------------------------------------------------------------
ChatStoresInv == ChatLogInv /\ ChatMemInv

(* Whatever is appended and stored, the logs hold the same messages, and    *)
(* the memories that SQLite pruned otherwise are those whose text misled it. *)
THEOREM ChatStoresInvHolds == ChatStoreSpec => []ChatStoresInv
<1>1. ASSUME ChatInit PROVE ChatStoresInv
  <2>1. chatTime = 1 BY <1>1 DEF ChatInit
  <2>2. ChatLogInv BY <1>1, <2>1 DEF ChatInit, ChatLogInv, Logged, ImageOf
  <2>3. IsFiniteSet({}) /\ Cardinality({}) = 0 BY FS_EmptySet
  <2>4. Memories({}, 1) BY <2>3 DEF Memories
  <2>5. Slice(<< >>, {}) BY DEF Slice, Held
  <2>6. 0 <= PruneLimit BY ChatAssumption
  <2>7. Parted({}, {}) BY DEF Parted
  <2>8. ChatMemInv BY <1>1, <2>1, <2>3, <2>4, <2>5, <2>6, <2>7 DEF ChatInit, ChatMemInv
  <2> QED BY <2>2, <2>8 DEF ChatStoresInv
<1>2. ASSUME ChatStoresInv, LogNext PROVE ChatStoresInv'
  <2>1. ChatLogInv /\ ChatMemInv BY <1>2 DEF ChatStoresInv
  <2>2. ChatLogInv' BY <1>2, <2>1, AppendMessagesKeeps
  <2>3. UNCHANGED <<memoryMems, sqliteMems, postgresMems>> BY <1>2 DEF LogNext, AppendMessages
  <2>4. chatTime \in Nat /\ chatTime' \in Nat /\ chatTime <= chatTime'
    BY <1>2, <2>1 DEF ChatMemInv, LogNext, ChatTick
  <2>5. PICK P, S, t, u : P = postgresMems /\ S = sqliteMems /\ t = chatTime /\ u = chatTime' OBVIOUS
  <2>6. Memories(P, t) /\ Memories(S, t) BY <2>1, <2>5 DEF ChatMemInv
  <2>7. Memories(P, u) /\ Memories(S, u) BY <2>4, <2>5, <2>6, MemoriesLater
  <2>8. ChatMemInv' BY <2>1, <2>3, <2>4, <2>5, <2>7 DEF ChatMemInv
  <2> QED BY <2>2, <2>8 DEF ChatStoresInv
<1>3. ASSUME ChatStoresInv, MemoryNext PROVE ChatStoresInv'
  <2>1. ChatLogInv /\ ChatMemInv BY <1>3 DEF ChatStoresInv
  <2>2. ChatMemInv' BY <1>3, <2>1, StoreMemoryKeeps
  <2>3. UNCHANGED <<memoryLog, sqliteLog, postgresLog>> BY <1>3 DEF MemoryNext, StoreMemory
  <2>4. chatTime \in Nat /\ chatTime' \in Nat /\ chatTime <= chatTime'
    BY <1>3, <2>1 DEF ChatMemInv, MemoryNext, ChatTick
  <2>5. PICK m, s, p, t, u : /\ m = memoryLog /\ s = sqliteLog /\ p = postgresLog
                             /\ t = chatTime /\ u = chatTime'
    OBVIOUS
  <2>6. Logged(m, s, p, t) BY <2>1, <2>5 DEF ChatLogInv
  <2>7. Logged(m, s, p, u) BY <2>4, <2>5, <2>6, LoggedLater
  <2>8. ChatLogInv' BY <2>3, <2>4, <2>5, <2>7 DEF ChatLogInv
  <2> QED BY <2>2, <2>8 DEF ChatStoresInv
<1>4. ASSUME ChatStoresInv, UNCHANGED chatVars PROVE ChatStoresInv'
  BY <1>4 DEF ChatStoresInv, ChatLogInv, ChatMemInv, chatVars
<1> QED BY <1>1, <1>2, <1>3, <1>4, PTL DEF ChatStoreSpec

(* A question is asked with the same history and finds equally near         *)
(* memories, whichever variant of the message log and of the memories was   *)
(* wired, for any calls in any number.                                      *)
THEOREM ConversationStoresAgreeHolds == ChatStoreSpec => []ConversationStoresAgree
<1>1. ChatStoresInv => ConversationStoresAgree
  BY HistoryHolds, MemoriesHold DEF ChatStoresInv, ConversationStoresAgree
<1> QED BY <1>1, ChatStoresInvHolds, PTL

-----------------------------------------------------------------------------
(* The variants of the user repository *)

Tokens == RefreshTokens \cup {NoToken}
Identity == [user : Nat, subject : GoogleAccounts, email : Addresses, token : Tokens]

\* The tables of the memory variant, which the others are compared with.
Users == memoryUsers.users
EmailIndex == memoryUsers.emailIndex
Identities == memoryUsers.identities
UserIndex == memoryUsers.userIndex

User == [id : Nat, email : Addresses]
Database == [users : SUBSET User, identities : SUBSET Identity, seq : Nat]

\* Each variant has its tables.
TablesInv ==
  /\ memoryUsers = [users |-> Users, emailIndex |-> EmailIndex, identities |-> Identities,
                    userIndex |-> UserIndex, seq |-> memoryUsers.seq]
  /\ memoryUsers.seq \in Nat
  /\ sqliteUsers \in Database /\ postgresUsers \in Database

\* Memory has one user to an email and finds it there, and SQLite has the same users.
UsersInv ==
  /\ \A n \in DOMAIN Users :
       /\ n \in 1..memoryUsers.seq
       /\ Users[n] = [id |-> n, email |-> Users[n].email]
       /\ Users[n].email \in DOMAIN EmailIndex
       /\ EmailIndex[Users[n].email] = n
  /\ \A e \in DOMAIN EmailIndex :
       e \in Addresses /\ EmailIndex[e] \in DOMAIN Users /\ Users[EmailIndex[e]].email = e
  /\ sqliteUsers.seq = memoryUsers.seq
  /\ sqliteUsers.users = {Users[n] : n \in DOMAIN Users}

\* Postgres has a user for the same emails, under an id of its own.
PostgresUsersInv ==
  /\ \A u \in postgresUsers.users : u.id \in 1..postgresUsers.seq
  /\ \A u, v \in postgresUsers.users : u.id = v.id \/ u.email = v.email => u = v
  /\ \A e \in Addresses :
       e \in DOMAIN EmailIndex <=> \E u \in postgresUsers.users : u.email = e

\* Memory finds an identity by its user as by its subject, and SQLite has the same.
IdentitiesInv ==
  /\ \A s \in DOMAIN Identities :
       /\ Identities[s] \in Identity /\ Identities[s].subject = s
       /\ Identities[s].user \in DOMAIN Users \cap DOMAIN UserIndex
       /\ UserIndex[Identities[s].user] = Identities[s]
  /\ \A n \in DOMAIN UserIndex :
       /\ UserIndex[n].user = n /\ UserIndex[n].subject \in DOMAIN Identities
       /\ Identities[UserIndex[n].subject] = UserIndex[n]
  /\ sqliteUsers.identities = {Identities[s] : s \in DOMAIN Identities}

\* Postgres links the same subjects to the same accounts, and what it can read of
\* them is the same.
PostgresIdentitiesInv ==
  /\ \A i \in postgresUsers.identities :
       /\ i.subject \in DOMAIN Identities
       /\ \E u \in postgresUsers.users :
            u.id = i.user /\ u.email = Users[Identities[i.subject].user].email
       /\ i.token # NoToken =>
            i.email = Identities[i.subject].email /\ i.token = Identities[i.subject].token
  /\ \A i, j \in postgresUsers.identities : i.subject = j.subject \/ i.user = j.user => i = j
  /\ \A s \in DOMAIN Identities : \E i \in postgresUsers.identities : i.subject = s

OutcomeInv ==
  /\ userOutcome.memory = userOutcome.sqlite
  /\ userOutcome.memory = userOutcome.postgres
       \/ \E i \in postgresUsers.identities : i.token = NoToken

StoresInv ==
  /\ TablesInv /\ UsersInv /\ PostgresUsersInv /\ IdentitiesInv /\ PostgresIdentitiesInv
  /\ OutcomeInv

\* Every table is empty in the beginning.
LEMMA InitStoresInv == UserInit => StoresInv
<1> SUFFICES ASSUME UserInit PROVE StoresInv
  OBVIOUS
<1>1. DOMAIN << >> = {}
  OBVIOUS
<1>2. TablesInv
  BY DEF UserInit, TablesInv, Database, Users, EmailIndex, Identities, UserIndex
<1>3. UsersInv /\ PostgresUsersInv
  BY <1>1 DEF UserInit, UsersInv, PostgresUsersInv, Users, EmailIndex
<1>4. IdentitiesInv /\ PostgresIdentitiesInv /\ OutcomeInv
  BY <1>1 DEF UserInit, IdentitiesInv, PostgresIdentitiesInv, OutcomeInv, Identities, UserIndex
<1> QED
  BY <1>2, <1>3, <1>4 DEF StoresInv

\* The tables after the insert of a user.
LEMMA UserRowAdded ==
  ASSUME NEW db \in Database, NEW n, NEW row
  PROVE  [db EXCEPT !.seq = n, !.users = @ \cup {row}] =
           [users |-> db.users \cup {row}, identities |-> db.identities, seq |-> n]
<1> DEFINE next == [db EXCEPT !.seq = n]
<1>1. db = [users |-> db.users, identities |-> db.identities, seq |-> db.seq]
  BY DEF Database
<1>2. next = [users |-> db.users, identities |-> db.identities, seq |-> n]
  BY <1>1
<1>3. [db EXCEPT !.seq = n, !.users = @ \cup {row}] = [next EXCEPT !.users = db.users \cup {row}]
  BY <1>2
<1> HIDE DEF next
<1>4. [next EXCEPT !.users = db.users \cup {row}] =
        [users |-> db.users \cup {row}, identities |-> db.identities, seq |-> n]
  BY <1>2
<1> QED
  BY <1>3, <1>4

\* A taken email creates a user in no variant, another one in each of them.
LEMMA CreateKeepsStoresInv ==
  ASSUME StoresInv, NEW e \in Addresses, CreateUser(e)
  PROVE  StoresInv'
<1> USE DEF StoresInv
<1> DEFINE m == memoryUsers.seq + 1
           p == postgresUsers.seq + 1
           taken == e \in DOMAIN EmailIndex
<1>0. m \in Nat /\ m \notin DOMAIN Users /\ p \in Nat /\ \A u \in postgresUsers.users : u.id # p
  BY DEF TablesInv, Database, UsersInv, PostgresUsersInv
<1>1. /\ taken => memoryUsers' = memoryUsers
      /\ ~taken => memoryUsers' = [users |-> Put(Users, m, [id |-> m, email |-> e]),
                                   emailIndex |-> Put(EmailIndex, e, m),
                                   identities |-> Identities, userIndex |-> UserIndex, seq |-> m]
  BY DEF CreateUser, MemoryCreateUser, TablesInv, Users, EmailIndex, Identities, UserIndex
<1>2. taken <=> \E u \in sqliteUsers.users : u.email = e
  BY DEF UsersInv
<1>3. sqliteUsers' = IF taken THEN sqliteUsers
                     ELSE [users |-> sqliteUsers.users \cup {[id |-> m, email |-> e]},
                           identities |-> sqliteUsers.identities, seq |-> m]
  <2>1. Clashes(sqliteUsers.users, [id |-> sqliteUsers.seq + 1, email |-> e], {{"email"}}) <=> taken
    BY <1>2 DEF Clashes
  <2>2. sqliteUsers.seq + 1 = m
    BY DEF UsersInv
  <2>3. sqliteUsers' = IF taken THEN sqliteUsers
                       ELSE [sqliteUsers EXCEPT !.seq = m, !.users = @ \cup {[id |-> m, email |-> e]}]
    BY <2>1, <2>2 DEF CreateUser, SqliteCreateUser
  <2>4. sqliteUsers \in Database
    BY DEF TablesInv
  <2> QED
    BY <2>3, <2>4, UserRowAdded
<1>4. postgresUsers' = [users |-> IF taken THEN postgresUsers.users
                                  ELSE postgresUsers.users \cup {[id |-> p, email |-> e]},
                        identities |-> postgresUsers.identities, seq |-> p]
  <2>1. taken <=> \E u \in postgresUsers.users : u.email = e
    BY DEF PostgresUsersInv
  <2>2. Clashes(postgresUsers.users, [id |-> p, email |-> e], {{"email"}}) <=> taken
    BY <2>1 DEF Clashes
  <2> QED
    BY <2>2 DEF CreateUser, PostgresCreateUser, TablesInv, Database
<1>5. OutcomeInv'
  <2>1. /\ (MemoryGetByEmail(memoryUsers, e) = {}) <=> ~taken
        /\ (SqliteGetByEmail(sqliteUsers, e) = {}) <=> ~taken
        /\ (PostgresGetByEmail(postgresUsers, e) = {}) <=> ~taken
    BY <1>2 DEF MemoryGetByEmail, SqliteGetByEmail, PostgresGetByEmail, PostgresUsersInv, EmailIndex
  <2> QED
    BY <2>1 DEF CreateUser, Outcome, OutcomeInv
<1>6. CASE taken
  <2>1. /\ UNCHANGED <<memoryUsers, sqliteUsers>> /\ postgresUsers'.users = postgresUsers.users
        /\ postgresUsers'.identities = postgresUsers.identities /\ postgresUsers'.seq = p
        /\ UNCHANGED <<Users, EmailIndex, Identities, UserIndex>>
    BY <1>1, <1>3, <1>4, <1>6 DEF Users, EmailIndex, Identities, UserIndex
  <2>2. TablesInv' /\ UsersInv' /\ IdentitiesInv'
    BY <1>0, <1>4, <1>6, <2>1 DEF TablesInv, Database, UsersInv, IdentitiesInv
  <2>3. PostgresUsersInv' /\ PostgresIdentitiesInv'
    BY <1>0, <2>1 DEF TablesInv, Database, PostgresUsersInv, PostgresIdentitiesInv
  <2> QED
    BY <1>5, <2>2, <2>3
<1>7. CASE ~taken
  <2>1. /\ Users' = Put(Users, m, [id |-> m, email |-> e])
        /\ EmailIndex' = Put(EmailIndex, e, m)
        /\ UNCHANGED <<Identities, UserIndex, sqliteUsers.identities, postgresUsers.identities>>
        /\ memoryUsers'.seq = m /\ sqliteUsers'.seq = m /\ postgresUsers'.seq = p
        /\ sqliteUsers'.users = sqliteUsers.users \cup {[id |-> m, email |-> e]}
        /\ postgresUsers'.users = postgresUsers.users \cup {[id |-> p, email |-> e]}
    BY <1>1, <1>3, <1>4, <1>7 DEF Users, EmailIndex, Identities, UserIndex
  <2>2. /\ DOMAIN Users' = DOMAIN Users \cup {m} /\ Users'[m] = [id |-> m, email |-> e]
        /\ \A n \in DOMAIN Users : Users'[n] = Users[n]
        /\ DOMAIN EmailIndex' = DOMAIN EmailIndex \cup {e} /\ EmailIndex'[e] = m
        /\ \A f \in DOMAIN EmailIndex : EmailIndex'[f] = EmailIndex[f]
    BY <1>0, <1>7, <2>1 DEF Put
  <2>3. TablesInv'
    BY <1>0, <1>1, <1>3, <1>4, <1>7, <2>1
       DEF TablesInv, Database, User, Users, EmailIndex, Identities, UserIndex
  <2>4. UsersInv'
    BY <1>0, <1>7, <2>1, <2>2 DEF UsersInv, TablesInv
  <2>5. PostgresUsersInv'
    <3>1. \A u \in postgresUsers'.users :
            u \in postgresUsers.users \/ u = [id |-> p, email |-> e]
      BY <2>1
    <3>2. \A u \in postgresUsers.users : u.id # p /\ u.email # e
      BY <1>0, <1>7 DEF PostgresUsersInv
    <3>3. \A u \in postgresUsers'.users : u.id \in 1..postgresUsers'.seq
      BY <1>0, <2>1, <3>1 DEF PostgresUsersInv, TablesInv, Database
    <3>4. \A u, v \in postgresUsers'.users : u.id = v.id \/ u.email = v.email => u = v
      BY <3>1, <3>2 DEF PostgresUsersInv
    <3>5. \A f \in Addresses :
            f \in DOMAIN EmailIndex' <=> \E u \in postgresUsers'.users : u.email = f
      <4>1. [id |-> p, email |-> e] \in postgresUsers'.users /\ [id |-> p, email |-> e].email = e
        BY <2>1
      <4>2. postgresUsers.users \subseteq postgresUsers'.users
        BY <2>1
      <4>3. \A f \in Addresses :
              f \in DOMAIN EmailIndex <=> \E u \in postgresUsers.users : u.email = f
        BY DEF PostgresUsersInv
      <4>4. DOMAIN EmailIndex' = DOMAIN EmailIndex \cup {e}
        BY <2>2
      <4> QED
        BY <3>1, <4>1, <4>2, <4>3, <4>4
    <3> QED
      BY <3>3, <3>4, <3>5 DEF PostgresUsersInv
  <2>6. IdentitiesInv'
    BY <2>1, <2>2 DEF IdentitiesInv
  <2>7. PostgresIdentitiesInv'
    BY <2>1, <2>2 DEF PostgresIdentitiesInv, IdentitiesInv
  <2> QED
    BY <1>5, <2>3, <2>4, <2>5, <2>6, <2>7
<1> QED
  BY <1>6, <1>7

\* The identity that a later sign-in leaves.
LEMMA UpdatedIdentity ==
  ASSUME NEW old \in Identity, NEW new, new.token # NoToken
  PROVE  [old EXCEPT !.token = IF new.token # NoToken THEN new.token ELSE @, !.email = new.email] =
           [user |-> old.user, subject |-> old.subject, email |-> new.email, token |-> new.token]
<1> DEFINE next == [old EXCEPT !.token = new.token]
<1>1. old = [user |-> old.user, subject |-> old.subject, email |-> old.email, token |-> old.token]
  BY DEF Identity
<1>2. next = [user |-> old.user, subject |-> old.subject, email |-> old.email, token |-> new.token]
  BY <1>1
<1>3. [old EXCEPT !.token = IF new.token # NoToken THEN new.token ELSE @, !.email = new.email]
        = [next EXCEPT !.email = new.email]
  BY <1>2
<1> HIDE DEF next
<1>4. [next EXCEPT !.email = new.email] =
        [user |-> old.user, subject |-> old.subject, email |-> new.email, token |-> new.token]
  BY <1>2
<1> QED
  BY <1>3, <1>4

\* The same, with the email set first.
LEMMA RefreshedIdentity ==
  ASSUME NEW old \in Identity, NEW e, NEW given
  PROVE  [old EXCEPT !.email = e, !.token = given] =
           [user |-> old.user, subject |-> old.subject, email |-> e, token |-> given]
<1> DEFINE next == [old EXCEPT !.email = e]
<1>1. old = [user |-> old.user, subject |-> old.subject, email |-> old.email, token |-> old.token]
  BY DEF Identity
<1>2. next = [user |-> old.user, subject |-> old.subject, email |-> e, token |-> old.token]
  BY <1>1
<1>3. [old EXCEPT !.email = e, !.token = given] = [next EXCEPT !.token = given]
  BY <1>2
<1> HIDE DEF next
<1>4. [next EXCEPT !.token = given] =
        [user |-> old.user, subject |-> old.subject, email |-> e, token |-> given]
  BY <1>2
<1> QED
  BY <1>3, <1>4

\* The tables of memory after an upsert that stores row.
LEMMA MemoryUpserts ==
  ASSUME TablesInv, NEW new, NEW row,
         row = IF new.subject \in DOMAIN Identities
               THEN [Identities[new.subject] EXCEPT
                       !.token = IF new.token # NoToken THEN new.token ELSE @, !.email = new.email]
               ELSE new
  PROVE  MemoryUpsertIdentity(memoryUsers, new) =
           [users |-> Users, emailIndex |-> EmailIndex,
            identities |-> Put(Identities, row.subject, row),
            userIndex |-> Put(UserIndex, row.user, row), seq |-> memoryUsers.seq]
<1>1. MemoryUpsertIdentity(memoryUsers, new) =
        [memoryUsers EXCEPT !.identities = Put(@, row.subject, row),
                            !.userIndex = Put(@, row.user, row)]
  BY DEF MemoryUpsertIdentity, Identities
<1> QED
  BY <1>1 DEF TablesInv, Users, EmailIndex, Identities, UserIndex

\* The row is a first identity of its user, or follows the one that has its subject.
Fits(row) ==
  /\ row \in Identity /\ row.user \in DOMAIN Users
  /\ \/ row.subject \notin DOMAIN Identities /\ row.user \notin DOMAIN UserIndex
     \/ row.subject \in DOMAIN Identities /\ Identities[row.subject].user = row.user

\* Memory and SQLite store the row.
Stored(row) ==
  /\ memoryUsers' = [users |-> Users, emailIndex |-> EmailIndex,
                     identities |-> Put(Identities, row.subject, row),
                     userIndex |-> Put(UserIndex, row.user, row), seq |-> memoryUsers.seq]
  /\ sqliteUsers' = [sqliteUsers EXCEPT !.identities =
                       {i \in @ : i.subject # row.subject} \cup {row}]

\* What the tables of memory are then.
LEMMA StoredTables ==
  ASSUME NEW row, Stored(row)
  PROVE  /\ UNCHANGED <<Users, EmailIndex>>
         /\ DOMAIN Identities' = DOMAIN Identities \cup {row.subject}
         /\ Identities'[row.subject] = row
         /\ \A s \in DOMAIN Identities \ {row.subject} : Identities'[s] = Identities[s]
         /\ DOMAIN UserIndex' = DOMAIN UserIndex \cup {row.user}
         /\ UserIndex'[row.user] = row
         /\ \A n \in DOMAIN UserIndex \ {row.user} : UserIndex'[n] = UserIndex[n]
<1>1. /\ Users' = Users /\ EmailIndex' = EmailIndex
      /\ Identities' = Put(Identities, row.subject, row)
      /\ UserIndex' = Put(UserIndex, row.user, row)
  BY DEF Stored, Users, EmailIndex, Identities, UserIndex
<1> QED
  BY <1>1 DEF Put

\* Memory and SQLite have the same identities again.
LEMMA StoredKeepsIdentitiesInv ==
  ASSUME StoresInv, NEW row, Fits(row), Stored(row)
  PROVE  /\ memoryUsers'.seq = memoryUsers.seq /\ sqliteUsers' \in Database
         /\ memoryUsers' = [users |-> Users', emailIndex |-> EmailIndex',
                             identities |-> Identities', userIndex |-> UserIndex',
                             seq |-> memoryUsers'.seq]
         /\ UsersInv' /\ IdentitiesInv'
<1> USE DEF StoresInv
<1>0. /\ UNCHANGED <<Users, EmailIndex>>
      /\ DOMAIN Identities' = DOMAIN Identities \cup {row.subject}
      /\ Identities'[row.subject] = row
      /\ \A s \in DOMAIN Identities \ {row.subject} : Identities'[s] = Identities[s]
      /\ DOMAIN UserIndex' = DOMAIN UserIndex \cup {row.user}
      /\ UserIndex'[row.user] = row
      /\ \A n \in DOMAIN UserIndex \ {row.user} : UserIndex'[n] = UserIndex[n]
  BY StoredTables
<1>1. /\ memoryUsers'.seq = memoryUsers.seq
      /\ memoryUsers' = [users |-> Users', emailIndex |-> EmailIndex',
                          identities |-> Identities', userIndex |-> UserIndex',
                          seq |-> memoryUsers'.seq]
  BY DEF Stored, Users, EmailIndex, Identities, UserIndex
<1>2. /\ sqliteUsers' = [users |-> sqliteUsers.users,
                         identities |-> {i \in sqliteUsers.identities : i.subject # row.subject}
                                        \cup {row},
                         seq |-> sqliteUsers.seq]
      /\ sqliteUsers' \in Database
  <2>1. sqliteUsers = [users |-> sqliteUsers.users, identities |-> sqliteUsers.identities,
                       seq |-> sqliteUsers.seq]
    BY DEF TablesInv, Database
  <2>2. sqliteUsers' = [users |-> sqliteUsers.users,
                        identities |-> {i \in sqliteUsers.identities : i.subject # row.subject}
                                       \cup {row},
                        seq |-> sqliteUsers.seq]
    BY <2>1 DEF Stored
  <2>3. sqliteUsers.users \subseteq User /\ sqliteUsers.identities \subseteq Identity
        /\ sqliteUsers.seq \in Nat
    BY DEF TablesInv, Database
  <2> QED
    BY <2>2, <2>3 DEF Database, Fits
<1>3. UsersInv'
  <2>1. Users' = Users /\ EmailIndex' = EmailIndex
    BY <1>0
  <2>2. sqliteUsers'.users = sqliteUsers.users /\ sqliteUsers'.seq = sqliteUsers.seq
    BY <1>2
  <2> QED
    BY <1>1, <2>1, <2>2 DEF UsersInv
<1>4. \A t \in DOMAIN Identities : Identities[t].user = row.user => t = row.subject
  BY DEF Fits, IdentitiesInv
<1>5. \A n \in DOMAIN UserIndex : UserIndex[n].subject = row.subject => n = row.user
  BY DEF Fits, IdentitiesInv
<1>6. \A t \in DOMAIN Identities' :
        /\ Identities'[t] \in Identity /\ Identities'[t].subject = t
        /\ Identities'[t].user \in DOMAIN Users' \cap DOMAIN UserIndex'
        /\ UserIndex'[Identities'[t].user] = Identities'[t]
  <2> TAKE t \in DOMAIN Identities'
  <2>1. CASE t = row.subject
    BY <2>1, <1>0 DEF Fits
  <2>2. CASE t # row.subject
    <3>1. t \in DOMAIN Identities /\ Identities'[t] = Identities[t]
      BY <2>2, <1>0
    <3>2. /\ Identities[t] \in Identity /\ Identities[t].subject = t
          /\ Identities[t].user \in DOMAIN Users \cap DOMAIN UserIndex
          /\ UserIndex[Identities[t].user] = Identities[t]
      BY <3>1 DEF IdentitiesInv
    <3>3. Identities[t].user # row.user
      BY <1>4, <2>2, <3>1
    <3> QED
      BY <3>1, <3>2, <3>3, <1>0
  <2> QED
    BY <2>1, <2>2
<1>7. \A n \in DOMAIN UserIndex' :
        /\ UserIndex'[n].user = n /\ UserIndex'[n].subject \in DOMAIN Identities'
        /\ Identities'[UserIndex'[n].subject] = UserIndex'[n]
  <2> TAKE n \in DOMAIN UserIndex'
  <2>1. CASE n = row.user
    BY <2>1, <1>0
  <2>2. CASE n # row.user
    <3>1. n \in DOMAIN UserIndex /\ UserIndex'[n] = UserIndex[n]
      BY <2>2, <1>0
    <3>2. /\ UserIndex[n].user = n /\ UserIndex[n].subject \in DOMAIN Identities
          /\ Identities[UserIndex[n].subject] = UserIndex[n]
      BY <3>1 DEF IdentitiesInv
    <3>3. UserIndex[n].subject # row.subject
      BY <1>5, <2>2, <3>1
    <3> QED
      BY <3>1, <3>2, <3>3, <1>0
  <2> QED
    BY <2>1, <2>2
<1>8. sqliteUsers'.identities = {Identities'[t] : t \in DOMAIN Identities'}
  <2>1. sqliteUsers'.identities =
          {i \in sqliteUsers.identities : i.subject # row.subject} \cup {row}
    BY <1>2
  <2>2. sqliteUsers.identities = {Identities[t] : t \in DOMAIN Identities}
        /\ \A t \in DOMAIN Identities : Identities[t].subject = t
    BY DEF IdentitiesInv
  <2>3. {i \in sqliteUsers.identities : i.subject # row.subject} =
          {Identities[t] : t \in DOMAIN Identities \ {row.subject}}
    BY <2>2
  <2>4. {Identities[t] : t \in DOMAIN Identities \ {row.subject}} =
          {Identities'[t] : t \in DOMAIN Identities \ {row.subject}}
    BY <1>0
  <2>5. {Identities'[t] : t \in DOMAIN Identities'} =
          {Identities'[t] : t \in DOMAIN Identities \ {row.subject}} \cup {row}
    BY <1>0
  <2> QED
    BY <2>1, <2>3, <2>4, <2>5
<1> QED
  BY <1>1, <1>2, <1>3, <1>6, <1>7, <1>8 DEF IdentitiesInv

\* The owner of an identity has this email in Postgres.
OwnedBy(i, e) == \E u \in postgresUsers.users : u.id = i.user /\ u.email = e

\* Postgres stores what memory does, under its own id of the user, or cannot read
\* the row it has.
Followed(row) ==
  \/ /\ UNCHANGED postgresUsers
     /\ \E i \in postgresUsers.identities : i.subject = row.subject /\ i.token = NoToken
     /\ row.subject \in DOMAIN Identities
  \/ \E copy \in Identity :
       /\ postgresUsers' = [postgresUsers EXCEPT !.identities =
                              {i \in @ : i.subject # copy.subject} \cup {copy}]
       /\ copy = [row EXCEPT !.user = copy.user]
       /\ OwnedBy(copy, Users[row.user].email)
       /\ \A i \in postgresUsers.identities :
            i.subject # copy.subject => i.user # copy.user

\* Postgres agrees with memory again.
LEMMA FollowedKeepsPostgresInv ==
  ASSUME StoresInv, NEW row, Fits(row), Stored(row), Followed(row)
  PROVE  postgresUsers' \in Database /\ PostgresUsersInv' /\ PostgresIdentitiesInv'
<1> USE DEF StoresInv
<1>0. /\ UNCHANGED <<Users, EmailIndex>>
      /\ DOMAIN Identities' = DOMAIN Identities \cup {row.subject}
      /\ Identities'[row.subject] = row
      /\ \A s \in DOMAIN Identities \ {row.subject} : Identities'[s] = Identities[s]
  BY StoredTables
<1>1. postgresUsers \in Database
  BY DEF TablesInv
<1>2. CASE /\ UNCHANGED postgresUsers
           /\ \E i \in postgresUsers.identities : i.subject = row.subject /\ i.token = NoToken
           /\ row.subject \in DOMAIN Identities
  <2>1. PostgresUsersInv'
    BY <1>0, <1>2 DEF PostgresUsersInv
  <2>2. Users[Identities[row.subject].user].email = Users[row.user].email
    BY <1>2 DEF Fits
  <2>3. \A i \in postgresUsers.identities : i.subject = row.subject => i.token = NoToken
    BY <1>2 DEF PostgresIdentitiesInv
  <2>4. PostgresIdentitiesInv'
    BY <1>0, <1>2, <2>2, <2>3 DEF PostgresIdentitiesInv
  <2> QED
    BY <1>1, <1>2, <2>1, <2>4
<1>3. ASSUME NEW copy \in Identity,
             postgresUsers' = [postgresUsers EXCEPT !.identities =
                                {i \in @ : i.subject # copy.subject} \cup {copy}],
             copy = [row EXCEPT !.user = copy.user],
             OwnedBy(copy, Users[row.user].email),
             \A i \in postgresUsers.identities : i.subject # copy.subject => i.user # copy.user
      PROVE  postgresUsers' \in Database /\ PostgresUsersInv' /\ PostgresIdentitiesInv'
  <2> DEFINE others == {i \in postgresUsers.identities : i.subject # copy.subject}
  <2>1. /\ copy.subject = row.subject /\ copy.email = row.email /\ copy.token = row.token
    <3>1. row = [user |-> row.user, subject |-> row.subject, email |-> row.email,
                 token |-> row.token]
      BY DEF Fits, Identity
    <3>2. copy = [user |-> copy.user, subject |-> row.subject, email |-> row.email,
                  token |-> row.token]
      BY <1>3, <3>1
    <3> QED
      BY <3>2
  <2>2. postgresUsers' = [users |-> postgresUsers.users, identities |-> others \cup {copy},
                          seq |-> postgresUsers.seq]
    <3>1. postgresUsers = [users |-> postgresUsers.users, identities |-> postgresUsers.identities,
                           seq |-> postgresUsers.seq]
      BY <1>1 DEF Database
    <3> QED
      BY <1>3, <3>1
  <2>3. /\ postgresUsers'.users = postgresUsers.users /\ postgresUsers'.seq = postgresUsers.seq
        /\ postgresUsers'.identities = others \cup {copy}
    BY <2>2
  <2>4. postgresUsers' \in Database
    BY <1>1, <1>3, <2>2 DEF Database
  <2>5. PostgresUsersInv'
    BY <1>0, <2>3 DEF PostgresUsersInv
  <2>6. ASSUME NEW i \in postgresUsers'.identities
        PROVE  /\ i.subject \in DOMAIN Identities'
               /\ OwnedBy(i, Users[Identities'[i.subject].user].email)
               /\ i.token # NoToken =>
                    i.email = Identities'[i.subject].email /\ i.token = Identities'[i.subject].token
    <3>1. CASE i = copy
      BY <1>0, <1>3, <2>1, <3>1
    <3>2. CASE i \in others
      <4>1. i.subject \in DOMAIN Identities \ {row.subject}
        BY <2>1, <3>2 DEF PostgresIdentitiesInv
      <4>2. OwnedBy(i, Users[Identities[i.subject].user].email)
            /\ (i.token # NoToken =>
                  i.email = Identities[i.subject].email /\ i.token = Identities[i.subject].token)
        BY <3>2 DEF PostgresIdentitiesInv, OwnedBy
      <4> QED
        BY <1>0, <4>1, <4>2
    <3> QED
      BY <2>3, <3>1, <3>2
  <2>7. \A i, j \in postgresUsers'.identities : i.subject = j.subject \/ i.user = j.user => i = j
    BY <1>3, <2>3 DEF PostgresIdentitiesInv
  <2>8. \A s \in DOMAIN Identities' : \E i \in postgresUsers'.identities : i.subject = s
    BY <1>0, <2>1, <2>3 DEF PostgresIdentitiesInv
  <2>9. PostgresIdentitiesInv'
    BY <1>0, <2>3, <2>6, <2>7, <2>8 DEF PostgresIdentitiesInv, OwnedBy
  <2> QED
    BY <2>4, <2>5, <2>9
<1> QED
  BY <1>2, <1>3 DEF Followed

\* A first sign-in stores an identity in each variant.
LEMMA LinkKeepsStoresInv ==
  ASSUME StoresInv, NEW e \in Addresses, NEW s \in GoogleAccounts, NEW given \in Tokens,
         LinkIdentity(e, s, given)
  PROVE  StoresInv'
<1> USE DEF StoresInv
<1> DEFINE n == EmailIndex[e]
           row == [user |-> n, subject |-> s, email |-> e, token |-> given]
<1>1. e \in DOMAIN EmailIndex /\ n \in DOMAIN Users /\ Users[n].email = e /\ Users[n].id = n
      /\ n \in Nat
  BY DEF LinkIdentity, MemoryGetByEmail, EmailIndex, UsersInv, TablesInv
<1>2. MemoryGetByEmail(memoryUsers, e) = {Users[n]} /\ SqliteGetByEmail(sqliteUsers, e) = {Users[n]}
  <2>1. MemoryGetByEmail(memoryUsers, e) = {Users[n]}
    BY <1>1 DEF MemoryGetByEmail, Users, EmailIndex
  <2>2. sqliteUsers.users = {Users[k] : k \in DOMAIN Users}
        /\ \A k \in DOMAIN Users : Users[k].email = e => k = n
    BY DEF UsersInv
  <2>3. SqliteGetByEmail(sqliteUsers, e) = {Users[n]}
    BY <1>1, <2>2 DEF SqliteGetByEmail
  <2> QED
    BY <2>1, <2>3
<1>3. n \notin DOMAIN UserIndex /\ s \notin DOMAIN Identities
  BY <1>1, <1>2 DEF LinkIdentity, MemoryGetIdentityByUser, MemoryGetIdentity, UserIndex, Identities
<1>4. IdentityOf({Users[n]}, e, s, given) = row
  BY <1>1 DEF IdentityOf
<1>5. row \in Identity
  BY <1>1 DEF Identity
<1>6. Fits(row)
  BY <1>1, <1>3, <1>5 DEF Fits
<1>7. memoryUsers' = [users |-> Users, emailIndex |-> EmailIndex,
                      identities |-> Put(Identities, row.subject, row),
                      userIndex |-> Put(UserIndex, row.user, row), seq |-> memoryUsers.seq]
  <2>1. memoryUsers' = MemoryUpsertIdentity(memoryUsers, row)
    BY <1>2, <1>4 DEF LinkIdentity
  <2> QED
    BY <1>3, <2>1, MemoryUpserts
<1>8. sqliteUsers' = [sqliteUsers EXCEPT !.identities =
                       {i \in @ : i.subject # row.subject} \cup {row}]
  <2>1. sqliteUsers' = SqliteUpsertIdentity(sqliteUsers, row)
    BY <1>2, <1>4 DEF LinkIdentity
  <2>2. \A i \in sqliteUsers.identities : i.subject # s /\ i.user # n
    BY <1>3 DEF IdentitiesInv
  <2>3. SqliteGetIdentity(sqliteUsers, row.subject) = {}
    BY <2>2 DEF SqliteGetIdentity
  <2>4. ~Clashes(sqliteUsers.identities, row, IdentityKeys)
    BY <2>2 DEF Clashes, IdentityKeys
  <2>5. sqliteUsers' = [sqliteUsers EXCEPT !.identities = @ \cup {row}]
    BY <2>1, <2>3, <2>4 DEF SqliteUpsertIdentity
  <2>6. {i \in sqliteUsers.identities : i.subject # row.subject} = sqliteUsers.identities
    BY <2>2
  <2> QED
    BY <2>5, <2>6
<1>9. PICK u \in postgresUsers.users : u.email = e
  BY <1>1 DEF PostgresUsersInv
<1> DEFINE copy == [user |-> u.id, subject |-> s, email |-> e, token |-> given]
<1>10. copy \in Identity
  BY <1>9 DEF Identity, TablesInv, Database, User
<1>11. IdentityOf(PostgresGetByEmail(postgresUsers, e), e, s, given) = copy
  <2>1. PostgresGetByEmail(postgresUsers, e) = {u}
    BY <1>9 DEF PostgresGetByEmail, PostgresUsersInv
  <2> QED
    BY <2>1 DEF IdentityOf
<1>12. \A i \in postgresUsers.identities : i.subject # s /\ i.user # u.id
  <2> SUFFICES ASSUME NEW i \in postgresUsers.identities PROVE i.subject # s /\ i.user # u.id
    OBVIOUS
  <2>1. i.subject \in DOMAIN Identities
    BY DEF PostgresIdentitiesInv
  <2>2. Identities[i.subject].user \in DOMAIN Users /\ Identities[i.subject].user # n
    BY <1>3, <2>1 DEF IdentitiesInv
  <2>3. Users[Identities[i.subject].user].email # e
    BY <2>2 DEF UsersInv
  <2>4. PICK v \in postgresUsers.users :
          v.id = i.user /\ v.email = Users[Identities[i.subject].user].email
    BY DEF PostgresIdentitiesInv
  <2>5. i.user # u.id
    BY <1>9, <2>3, <2>4 DEF PostgresUsersInv
  <2> QED
    BY <1>3, <2>1, <2>5
<1>13. postgresUsers' = [postgresUsers EXCEPT !.identities =
                          {i \in @ : i.subject # copy.subject} \cup {copy}]
  <2>1. postgresUsers' = PostgresUpsertIdentity(postgresUsers, copy)
    BY <1>11 DEF LinkIdentity
  <2>2. PostgresGetIdentity(postgresUsers, copy.subject) = {}
    BY <1>12 DEF PostgresGetIdentity
  <2>3. ~Clashes(postgresUsers.identities, copy, IdentityKeys)
    BY <1>12 DEF Clashes, IdentityKeys
  <2>4. postgresUsers' = [postgresUsers EXCEPT !.identities = @ \cup {copy}]
    BY <2>1, <2>2, <2>3 DEF PostgresUpsertIdentity
  <2>5. {i \in postgresUsers.identities : i.subject # copy.subject} = postgresUsers.identities
    BY <1>12
  <2> QED
    BY <2>4, <2>5
<1>14. OwnedBy(copy, Users[row.user].email)
  BY <1>1, <1>9 DEF OwnedBy
<1>15. Stored(row)
  BY <1>7, <1>8 DEF Stored
<1>16. copy = [row EXCEPT !.user = copy.user]
  OBVIOUS
<1>17. Followed(row)
  BY <1>10, <1>12, <1>13, <1>14, <1>16 DEF Followed
<1>18. OutcomeInv'
  <2>1. /\ userOutcome'.memory = "ok" /\ userOutcome'.sqlite = "ok"
        /\ given # NoToken => userOutcome'.postgres = "ok"
    BY <1>11 DEF LinkIdentity, Outcome, scanIdentityFails
  <2>2. copy \in postgresUsers'.identities
    BY <1>13 DEF TablesInv, Database
  <2> QED
    BY <2>1, <2>2 DEF OutcomeInv
<1> HIDE DEF row, copy
<1> QED
  BY <1>6, <1>15, <1>17, <1>18, StoredKeepsIdentitiesInv, FollowedKeepsPostgresInv, StoredTables
     DEF TablesInv

\* A later sign-in replaces the identity in each variant that can read it.
LEMMA RefreshKeepsStoresInv ==
  ASSUME StoresInv, NEW e \in Addresses, NEW s \in GoogleAccounts, NEW given \in Tokens,
         RefreshIdentity(e, s, given)
  PROVE  StoresInv'
<1> USE DEF StoresInv
<1> DEFINE old == Identities[s]
           row == [user |-> old.user, subject |-> s, email |-> e, token |-> given]
<1>1. s \in DOMAIN Identities /\ given # NoToken
  BY DEF RefreshIdentity, MemoryGetIdentity, Identities
<1>2. old \in Identity /\ old.subject = s /\ old.user \in DOMAIN Users
  BY <1>1 DEF IdentitiesInv
<1>3. row \in Identity /\ Fits(row)
  BY <1>1, <1>2 DEF Identity, Fits
<1>4. MemoryGetIdentity(memoryUsers, s) = {old} /\ SqliteGetIdentity(sqliteUsers, s) = {old}
  <2>1. MemoryGetIdentity(memoryUsers, s) = {old}
    BY <1>1 DEF MemoryGetIdentity, Identities
  <2>2. sqliteUsers.identities = {Identities[t] : t \in DOMAIN Identities}
        /\ \A t \in DOMAIN Identities : Identities[t].subject = t
    BY DEF IdentitiesInv
  <2>3. SqliteGetIdentity(sqliteUsers, s) = {old}
    BY <1>1, <2>2 DEF SqliteGetIdentity
  <2> QED
    BY <2>1, <2>3
<1>5. \A i \in Identity : [(CHOOSE j \in {i} : TRUE) EXCEPT !.email = e, !.token = given] =
        [user |-> i.user, subject |-> i.subject, email |-> e, token |-> given]
  <2> TAKE i \in Identity
  <2>1. (CHOOSE j \in {i} : TRUE) = i
    OBVIOUS
  <2> QED
    BY <2>1, RefreshedIdentity
<1>6. [(CHOOSE j \in {old} : TRUE) EXCEPT !.email = e, !.token = given] = row
  BY <1>2, <1>5
<1>7. [old EXCEPT !.token = IF row.token # NoToken THEN row.token ELSE @, !.email = row.email] = row
  <2>1. row.token # NoToken /\ old \in Identity
    BY <1>1, <1>2
  <2>2. row = [user |-> old.user, subject |-> old.subject, email |-> row.email, token |-> row.token]
    BY <1>2
  <2> HIDE DEF row, old
  <2> QED
    BY <2>1, <2>2, UpdatedIdentity
<1>8. memoryUsers' = [users |-> Users, emailIndex |-> EmailIndex,
                      identities |-> Put(Identities, row.subject, row),
                      userIndex |-> Put(UserIndex, row.user, row), seq |-> memoryUsers.seq]
  <2>1. memoryUsers' = MemoryUpsertIdentity(memoryUsers, row)
    BY <1>4, <1>6 DEF RefreshIdentity
  <2> QED
    BY <1>1, <1>7, <2>1, MemoryUpserts DEF TablesInv
<1>9. sqliteUsers' = [sqliteUsers EXCEPT !.identities =
                       {i \in @ : i.subject # row.subject} \cup {row}]
  <2>1. sqliteUsers' = SqliteUpsertIdentity(sqliteUsers, row)
    BY <1>4, <1>6 DEF RefreshIdentity
  <2>2. SqliteGetIdentity(sqliteUsers, row.subject) = {old}
    BY <1>4
  <2>3. {[o EXCEPT !.token = IF row.token # NoToken THEN row.token ELSE @, !.email = row.email] :
           o \in {old}} = {row}
    BY <1>7
  <2>4. sqliteUsers' = [sqliteUsers EXCEPT !.identities = (@ \ {old}) \cup {row}]
    BY <2>1, <2>2, <2>3 DEF SqliteUpsertIdentity
  <2>5. sqliteUsers.identities \ {old} = {i \in sqliteUsers.identities : i.subject # row.subject}
    BY <1>4 DEF SqliteGetIdentity
  <2> QED
    BY <2>4, <2>5
<1>10. PICK i \in postgresUsers.identities : i.subject = s
  BY <1>1 DEF PostgresIdentitiesInv
<1>11. PostgresGetIdentity(postgresUsers, s) = {i} /\ i \in Identity
  BY <1>10 DEF PostgresGetIdentity, PostgresIdentitiesInv, TablesInv, Database
<1>12. scanIdentityFails(PostgresGetIdentity(postgresUsers, s)) <=> i.token = NoToken
  BY <1>11 DEF scanIdentityFails
<1>13. OwnedBy(i, Users[old.user].email)
  BY <1>10 DEF PostgresIdentitiesInv, OwnedBy
<1>14. Followed(row)
  <2>1. CASE i.token = NoToken
    BY <1>1, <1>10, <1>12, <2>1 DEF RefreshIdentity, Followed
  <2>2. CASE i.token # NoToken
    <3> DEFINE copy == [user |-> i.user, subject |-> s, email |-> e, token |-> given]
    <3>1. copy \in Identity
      BY <1>11 DEF Identity
    <3>2. [(CHOOSE j \in {i} : TRUE) EXCEPT !.email = e, !.token = given] = copy
      BY <1>5, <1>10, <1>11
    <3>3. postgresUsers' = PostgresUpsertIdentity(postgresUsers, copy)
      BY <1>11, <1>12, <2>2, <3>2 DEF RefreshIdentity
    <3>4. PostgresGetIdentity(postgresUsers, copy.subject) = {i}
      BY <1>11
    <3>5. [i EXCEPT !.token = IF copy.token # NoToken THEN copy.token ELSE @, !.email = copy.email]
            = copy
      <4>1. copy.token # NoToken /\ copy.token = given /\ copy.email = e /\ i \in Identity
        BY <1>1, <1>11
      <4>2. copy = [user |-> i.user, subject |-> i.subject, email |-> copy.email,
                    token |-> copy.token]
        BY <1>10
      <4> HIDE DEF copy
      <4> QED
        BY <4>1, <4>2, UpdatedIdentity
    <3>6. {[o EXCEPT !.token = IF copy.token # NoToken THEN copy.token ELSE @,
                     !.email = copy.email] : o \in {i}} = {copy}
      BY <3>5
    <3>7. postgresUsers' = [postgresUsers EXCEPT !.identities = (@ \ {i}) \cup {copy}]
      BY <3>3, <3>4, <3>6 DEF PostgresUpsertIdentity
    <3>8. postgresUsers.identities \ {i} =
            {j \in postgresUsers.identities : j.subject # copy.subject}
      BY <1>11 DEF PostgresGetIdentity
    <3>9. copy = [row EXCEPT !.user = copy.user] /\ OwnedBy(copy, Users[row.user].email)
      BY <1>13 DEF OwnedBy
    <3>10. \A j \in postgresUsers.identities : j.subject # copy.subject => j.user # copy.user
      BY <1>10 DEF PostgresIdentitiesInv
    <3> HIDE DEF copy
    <3>11. postgresUsers' = [postgresUsers EXCEPT !.identities =
                              {j \in @ : j.subject # copy.subject} \cup {copy}]
      BY <3>7, <3>8
    <3> QED
      BY <3>1, <3>9, <3>10, <3>11 DEF Followed
  <2> QED
    BY <2>1, <2>2
<1>15. Stored(row)
  BY <1>8, <1>9 DEF Stored
<1>16. OutcomeInv'
  <2>1. /\ userOutcome'.memory = "ok" /\ userOutcome'.sqlite = "ok"
        /\ i.token # NoToken => userOutcome'.postgres = "ok"
        /\ i.token = NoToken => postgresUsers' = postgresUsers
    BY <1>12 DEF RefreshIdentity, Outcome
  <2> QED
    BY <2>1 DEF OutcomeInv
<1> HIDE DEF row
<1> QED
  BY <1>3, <1>14, <1>15, <1>16, StoredKeepsIdentitiesInv, FollowedKeepsPostgresInv, StoredTables
     DEF TablesInv

\* The variants agree in every reachable state.
THEOREM StoresInvHolds == UserSpec => []StoresInv
<1>1. ASSUME StoresInv, [UserNext]_userVars PROVE StoresInv'
  <2>1. CASE UNCHANGED userVars
    BY <1>1, <2>1 DEF userVars, StoresInv, TablesInv, UsersInv, PostgresUsersInv, IdentitiesInv,
         PostgresIdentitiesInv, OutcomeInv, Users, EmailIndex, Identities, UserIndex
  <2>2. CASE UserNext
    BY <1>1, <2>2, CreateKeepsStoresInv, LinkKeepsStoresInv, RefreshKeepsStoresInv
       DEF UserNext, Tokens
  <2> QED
    BY <1>1, <2>1, <2>2
<1> QED
  BY <1>1, InitStoresInv, PTL DEF UserSpec

\* An account answers the same from memory, SQLite and Postgres, but for the subject
\* that Postgres stored without a refresh token, for any emails, Google accounts and
\* number of calls.
THEOREM UserStoresAgreeHolds == UserSpec => []UserStoresAgree
<1>1. StoresInv => UserStoresAgree
  <2> SUFFICES ASSUME StoresInv PROVE UserStoresAgree
    OBVIOUS
  <2> USE DEF StoresInv
  <2> DEFINE unreadable(s) == scanIdentityFails(PostgresGetIdentity(postgresUsers, s))
             Memory(s) == Seen(MemoryGetIdentity(memoryUsers, s),
                               LAMBDA id : MemoryGetByID(memoryUsers, id))
             Sqlite(s) == Seen(SqliteGetIdentity(sqliteUsers, s),
                               LAMBDA id : SqliteGetByID(sqliteUsers, id))
             Postgres(s) == Seen(PostgresGetIdentity(postgresUsers, s),
                                 LAMBDA id : PostgresGetByID(postgresUsers, id))
             View(e, i) == [owner |-> {e}, subject |-> i.subject, email |-> i.email, token |-> i.token]
  <2>1. \A e \in Addresses :
          /\ MemoryGetByEmail(memoryUsers, e) = SqliteGetByEmail(sqliteUsers, e)
          /\ (MemoryGetByEmail(memoryUsers, e) = {}) <=> (PostgresGetByEmail(postgresUsers, e) = {})
    <3> TAKE e \in Addresses
    <3>1. sqliteUsers.users = {Users[k] : k \in DOMAIN Users}
      BY DEF UsersInv
    <3>2. CASE e \in DOMAIN EmailIndex
      <4>1. MemoryGetByEmail(memoryUsers, e) = {Users[EmailIndex[e]]}
        BY <3>2 DEF MemoryGetByEmail, Users, EmailIndex
      <4>2. /\ EmailIndex[e] \in DOMAIN Users /\ Users[EmailIndex[e]].email = e
            /\ \A k \in DOMAIN Users : Users[k].email = e => k = EmailIndex[e]
        BY <3>2 DEF UsersInv
      <4>3. SqliteGetByEmail(sqliteUsers, e) = {Users[EmailIndex[e]]}
        BY <3>1, <4>2 DEF SqliteGetByEmail
      <4>4. PostgresGetByEmail(postgresUsers, e) # {}
        BY <3>2 DEF PostgresGetByEmail, PostgresUsersInv
      <4> QED
        BY <4>1, <4>3, <4>4
    <3>3. CASE e \notin DOMAIN EmailIndex
      <4>1. MemoryGetByEmail(memoryUsers, e) = {}
        BY <3>3 DEF MemoryGetByEmail, EmailIndex
      <4>2. \A k \in DOMAIN Users : Users[k].email # e
        BY <3>3 DEF UsersInv
      <4>3. SqliteGetByEmail(sqliteUsers, e) = {}
        BY <3>1, <4>2 DEF SqliteGetByEmail
      <4>4. PostgresGetByEmail(postgresUsers, e) = {}
        BY <3>3 DEF PostgresGetByEmail, PostgresUsersInv
      <4> QED
        BY <4>1, <4>3, <4>4
    <3> QED
      BY <3>2, <3>3
  <2>2. \A s \in DOMAIN Identities :
          LET owner == Users[Identities[s].user].email
          IN  /\ Memory(s) = {View(owner, Identities[s])}
              /\ Sqlite(s) = {View(owner, Identities[s])}
              /\ unreadable(s) \/ Postgres(s) = {View(owner, Identities[s])}
    <3> TAKE s \in DOMAIN Identities
    <3> DEFINE old == Identities[s]
               owner == Users[old.user].email
    <3>1. /\ old \in Identity /\ old.subject = s /\ old.user \in DOMAIN Users
      BY DEF IdentitiesInv
    <3>2. MemoryGetIdentity(memoryUsers, s) = {old}
      BY DEF MemoryGetIdentity, Identities
    <3>3. MemoryGetByID(memoryUsers, old.user) = {Users[old.user]}
      BY <3>1 DEF MemoryGetByID, Users
    <3>4. Memory(s) = {View(owner, old)}
      BY <3>2, <3>3 DEF Seen
    <3>5. SqliteGetIdentity(sqliteUsers, s) = {old}
      <4>1. sqliteUsers.identities = {Identities[t] : t \in DOMAIN Identities}
            /\ \A t \in DOMAIN Identities : Identities[t].subject = t
        BY DEF IdentitiesInv
      <4> QED
        BY <4>1 DEF SqliteGetIdentity
    <3>6. SqliteGetByID(sqliteUsers, old.user) = {Users[old.user]}
      <4>1. sqliteUsers.users = {Users[k] : k \in DOMAIN Users}
            /\ \A k \in DOMAIN Users : Users[k].id = k
        BY DEF UsersInv
      <4> QED
        BY <3>1, <4>1 DEF SqliteGetByID
    <3>7. Sqlite(s) = {View(owner, old)}
      BY <3>5, <3>6 DEF Seen
    <3>8. PICK i \in postgresUsers.identities : i.subject = s
      BY DEF PostgresIdentitiesInv
    <3>9. PostgresGetIdentity(postgresUsers, s) = {i}
      BY <3>8 DEF PostgresGetIdentity, PostgresIdentitiesInv
    <3>10. PICK u \in postgresUsers.users : u.id = i.user /\ u.email = owner
      BY <3>8 DEF PostgresIdentitiesInv
    <3>11. PostgresGetByID(postgresUsers, i.user) = {u}
      BY <3>10 DEF PostgresGetByID, PostgresUsersInv
    <3>12. i.token # NoToken => i.email = old.email /\ i.token = old.token
      BY <3>8 DEF PostgresIdentitiesInv
    <3>13. Postgres(s) = {View(owner, i)}
      BY <3>9, <3>10, <3>11 DEF Seen
    <3>14. unreadable(s) \/ View(owner, i) = View(owner, old)
      BY <3>1, <3>8, <3>9, <3>12 DEF scanIdentityFails
    <3> HIDE DEF Memory, Sqlite, Postgres, unreadable, View
    <3> QED
      BY <3>4, <3>7, <3>13, <3>14
  <2>3. \A s \in GoogleAccounts \ DOMAIN Identities :
          Memory(s) = {} /\ Sqlite(s) = {} /\ Postgres(s) = {}
    <3> TAKE s \in GoogleAccounts \ DOMAIN Identities
    <3>1. MemoryGetIdentity(memoryUsers, s) = {}
      BY DEF MemoryGetIdentity, Identities
    <3>2. SqliteGetIdentity(sqliteUsers, s) = {}
      <4>1. sqliteUsers.identities = {Identities[t] : t \in DOMAIN Identities}
            /\ \A t \in DOMAIN Identities : Identities[t].subject = t
        BY DEF IdentitiesInv
      <4> QED
        BY <4>1 DEF SqliteGetIdentity
    <3>3. PostgresGetIdentity(postgresUsers, s) = {}
      BY DEF PostgresGetIdentity, PostgresIdentitiesInv
    <3> QED
      BY <3>1, <3>2, <3>3 DEF Seen
  <2>4. \A u \in sqliteUsers.users :
          MemoryGetIdentityByUser(memoryUsers, u.id) = SqliteGetIdentityByUser(sqliteUsers, u.id)
    <3> TAKE u \in sqliteUsers.users
    <3> DEFINE n == u.id
    <3>1. sqliteUsers.identities = {Identities[t] : t \in DOMAIN Identities}
      BY DEF IdentitiesInv
    <3>2. CASE n \in DOMAIN UserIndex
      <4>1. MemoryGetIdentityByUser(memoryUsers, n) = {UserIndex[n]}
        BY <3>2 DEF MemoryGetIdentityByUser, UserIndex
      <4>2. /\ UserIndex[n].user = n /\ UserIndex[n].subject \in DOMAIN Identities
            /\ Identities[UserIndex[n].subject] = UserIndex[n]
            /\ \A t \in DOMAIN Identities : Identities[t].user = n => Identities[t] = UserIndex[n]
        BY <3>2 DEF IdentitiesInv
      <4>3. SqliteGetIdentityByUser(sqliteUsers, n) = {UserIndex[n]}
        BY <3>1, <4>2 DEF SqliteGetIdentityByUser
      <4> QED
        BY <4>1, <4>3
    <3>3. CASE n \notin DOMAIN UserIndex
      <4>1. MemoryGetIdentityByUser(memoryUsers, n) = {}
        BY <3>3 DEF MemoryGetIdentityByUser, UserIndex
      <4>2. \A t \in DOMAIN Identities : Identities[t].user # n
        BY <3>3 DEF IdentitiesInv
      <4>3. SqliteGetIdentityByUser(sqliteUsers, n) = {}
        BY <3>1, <4>2 DEF SqliteGetIdentityByUser
      <4> QED
        BY <4>1, <4>3
    <3> QED
      BY <3>2, <3>3
  <2>5. \A u \in postgresUsers.users :
          Cardinality(PostgresGetIdentityByUser(postgresUsers, u.id)) <= 1
    <3> TAKE u \in postgresUsers.users
    <3> DEFINE own == PostgresGetIdentityByUser(postgresUsers, u.id)
    <3>1. \A i, j \in own : i = j
      BY DEF PostgresGetIdentityByUser, PostgresIdentitiesInv
    <3> HIDE DEF own
    <3>2. Cardinality(own) <= 1
      <4>1. CASE own = {}
        BY <4>1, FS_EmptySet
      <4>2. CASE own # {}
        <5>1. PICK i \in own : own = {i}
          BY <3>1, <4>2
        <5> QED
          BY <5>1, FS_Singleton
      <4> QED
        BY <4>1, <4>2
    <3> QED
      BY <3>2 DEF own
  <2>6. userOutcome.memory = userOutcome.sqlite
    BY DEF OutcomeInv
  <2>7. userOutcome.memory = userOutcome.postgres \/ \E s \in GoogleAccounts : unreadable(s)
    <3>1. ASSUME NEW i \in postgresUsers.identities, i.token = NoToken
          PROVE  i.subject \in GoogleAccounts /\ unreadable(i.subject)
      <4>1. i \in Identity
        BY DEF TablesInv, Database
      <4>2. i \in PostgresGetIdentity(postgresUsers, i.subject)
        BY DEF PostgresGetIdentity
      <4> QED
        BY <3>1, <4>1, <4>2 DEF Identity, scanIdentityFails
    <3> QED
      BY <3>1 DEF OutcomeInv
  <2> HIDE DEF Memory, Sqlite, Postgres, unreadable, View
  <2>8. \A s \in GoogleAccounts :
          /\ Memory(s) = Sqlite(s)
          /\ Memory(s) = Postgres(s) \/ (unreadable(s) /\ Memory(s) # {})
    BY <2>2, <2>3
  <2> QED
    BY <2>1, <2>4, <2>5, <2>6, <2>7, <2>8 DEF UserStoresAgree, Memory, Sqlite, Postgres, unreadable
<1> QED
  BY <1>1, StoresInvHolds, PTL


-----------------------------------------------------------------------------
(* The variants of the question repository *)

Records == memoryFaq.records
Question == [text : Questions, hash : Hashes, point : Points]

\* The row of a record of memory, and the first record of a hash.
RowOf(n) ==
  [id |-> n, text |-> Records[n].text, hash |-> Records[n].hash, point |-> Records[n].point]
FirstOfHash(n) == \A m \in DOMAIN Records : Records[m].hash = Records[n].hash => n <= m
Copies(r, n) ==
  r.text = Records[n].text /\ r.hash = Records[n].hash /\ r.point = Records[n].point

\* Memory numbers its records from one on, none with the text of another, and its
\* indexes lead to a record of the text and of the hash.
RecordsInv ==
  /\ memoryFaq.nextID \in Nat \ {0}
  /\ DOMAIN Records = 1..(memoryFaq.nextID - 1)
  /\ \A n \in DOMAIN Records :
       /\ Records[n] \in Question
       /\ Records[n].text \in DOMAIN memoryFaq.byText
       /\ memoryFaq.byText[Records[n].text] = n
       /\ Records[n].hash \in DOMAIN memoryFaq.byHash
  /\ \A t \in DOMAIN memoryFaq.byText :
       memoryFaq.byText[t] \in DOMAIN Records /\ Records[memoryFaq.byText[t]].text = t
  /\ \A h \in DOMAIN memoryFaq.byHash :
       memoryFaq.byHash[h] \in DOMAIN Records /\ Records[memoryFaq.byHash[h]].hash = h

\* SQLite has the same rows.
RowsInv ==
  /\ sqliteFaq = {RowOf(n) : n \in DOMAIN Records}
  /\ IsFiniteSet(sqliteFaq) /\ Cardinality(sqliteFaq) = memoryFaq.nextID - 1

\* Postgres has the first question of each hash.
PostgresRowsInv ==
  /\ \A r \in postgresFaq : \E n \in DOMAIN Records : FirstOfHash(n) /\ Copies(r, n)
  /\ \A n \in DOMAIN Records :
       /\ FirstOfHash(n) => \E r \in postgresFaq : Copies(r, n)
       /\ \E r \in postgresFaq : r.hash = Records[n].hash

QuestionsInv == RecordsInv /\ RowsInv /\ PostgresRowsInv

\* No repository has a question in the beginning.
LEMMA InitQuestionsInv == FaqStoreInit => QuestionsInv
<1> SUFFICES ASSUME FaqStoreInit PROVE QuestionsInv
  OBVIOUS
<1>1. DOMAIN << >> = {} /\ 1..0 = {}
  OBVIOUS
<1>2. RecordsInv
  BY <1>1 DEF FaqStoreInit, RecordsInv, Records
<1>3. sqliteFaq = {} /\ postgresFaq = {} /\ DOMAIN Records = {} /\ memoryFaq.nextID = 1
  BY <1>1 DEF FaqStoreInit, Records
<1>4. RowsInv
  <2>1. {RowOf(n) : n \in {}} = {}
    OBVIOUS
  <2> QED
    BY <1>3, <2>1, FS_EmptySet DEF RowsInv
<1>5. PostgresRowsInv
  BY <1>3 DEF PostgresRowsInv
<1> QED
  BY <1>2, <1>4, <1>5 DEF QuestionsInv

\* A question that is not found by its text is one record and one row more;
\* Postgres refuses it when it has the hash of another.
LEMMA AddKeepsQuestionsInv ==
  ASSUME QuestionsInv, NEW t \in Questions, NEW h \in Hashes, NEW p \in Points, AddQuestion(t, h, p)
  PROVE  QuestionsInv'
<1>0. PICK n : n = memoryFaq.nextID
  OBVIOUS
<1> DEFINE q == [text |-> t, hash |-> h, point |-> p]
           row == [id |-> n, text |-> t, hash |-> h, point |-> p]
<1>1. /\ n \in Nat \ {0} /\ DOMAIN Records = 1..(n - 1) /\ n \notin DOMAIN Records
      /\ DOMAIN Records \cup {n} = 1..n
  BY <1>0 DEF QuestionsInv, RecordsInv
<1>2. t \notin DOMAIN memoryFaq.byText
  BY DEF AddQuestion, MemoryFindExact
<1>3. \A m \in DOMAIN Records : Records[m].text # t
  BY <1>2 DEF QuestionsInv, RecordsInv
<1>4. memoryFaq' = [nextID |-> n + 1, records |-> Put(Records, n, q),
                    byText |-> Put(memoryFaq.byText, t, n), byHash |-> Put(memoryFaq.byHash, h, n)]
  BY <1>0 DEF AddQuestion, MemoryInsertQuestion, Records
<1>5. /\ memoryFaq.nextID' = n + 1 /\ Records' = Put(Records, n, q)
      /\ memoryFaq.byText' = Put(memoryFaq.byText, t, n)
      /\ memoryFaq.byHash' = Put(memoryFaq.byHash, h, n)
  BY <1>4 DEF Records
<1> HIDE DEF q
<1>6. /\ DOMAIN Records' = 1..n /\ Records'[n] = q
      /\ \A m \in DOMAIN Records : Records'[m] = Records[m]
  BY <1>1, <1>5 DEF Put
<1>7. /\ memoryFaq.byText'[t] = n
      /\ DOMAIN memoryFaq.byText' = DOMAIN memoryFaq.byText \cup {t}
      /\ \A s \in DOMAIN memoryFaq.byText : memoryFaq.byText'[s] = memoryFaq.byText[s]
  BY <1>2, <1>5 DEF Put
<1>8. /\ memoryFaq.byHash'[h] = n
      /\ DOMAIN memoryFaq.byHash' = DOMAIN memoryFaq.byHash \cup {h}
      /\ \A s \in DOMAIN memoryFaq.byHash : s # h => memoryFaq.byHash'[s] = memoryFaq.byHash[s]
  BY <1>5 DEF Put
<1>9. q \in Question /\ q.text = t /\ q.hash = h /\ q.point = p
  BY DEF q, Question
<1>10. RecordsInv'
  <2>1. /\ memoryFaq.nextID' \in Nat \ {0}
        /\ DOMAIN Records' = 1..(memoryFaq.nextID' - 1)
    BY <1>1, <1>5, <1>6
  <2>2. ASSUME NEW m \in DOMAIN Records'
        PROVE  /\ Records'[m] \in Question
               /\ Records'[m].text \in DOMAIN memoryFaq.byText'
               /\ memoryFaq.byText'[Records'[m].text] = m
               /\ Records'[m].hash \in DOMAIN memoryFaq.byHash'
    <3>1. CASE m = n
      BY <1>6, <1>7, <1>8, <1>9, <3>1
    <3>2. CASE m # n
      <4>1. m \in DOMAIN Records /\ Records'[m] = Records[m]
        BY <1>1, <1>6, <3>2
      <4>2. PICK r : r = Records[m]
        OBVIOUS
      <4>3. /\ r \in Question /\ r.text \in DOMAIN memoryFaq.byText
            /\ memoryFaq.byText[r.text] = m /\ r.hash \in DOMAIN memoryFaq.byHash
        BY <4>1, <4>2 DEF QuestionsInv, RecordsInv
      <4>4. r.text \in DOMAIN memoryFaq.byText' /\ memoryFaq.byText'[r.text] = m
        BY <1>7, <4>3
      <4>5. r.hash \in DOMAIN memoryFaq.byHash'
        BY <1>8, <4>3
      <4> QED
        BY <4>1, <4>2, <4>3, <4>4, <4>5
    <3> QED
      BY <3>1, <3>2
  <2>3. ASSUME NEW s \in DOMAIN memoryFaq.byText'
        PROVE  memoryFaq.byText'[s] \in DOMAIN Records' /\ Records'[memoryFaq.byText'[s]].text = s
    <3>1. CASE s = t
      BY <1>1, <1>6, <1>7, <1>9, <3>1
    <3>2. CASE s # t
      <4>1. s \in DOMAIN memoryFaq.byText /\ memoryFaq.byText'[s] = memoryFaq.byText[s]
        BY <1>7, <3>2
      <4>2. memoryFaq.byText[s] \in DOMAIN Records /\ Records[memoryFaq.byText[s]].text = s
        BY <4>1 DEF QuestionsInv, RecordsInv
      <4> QED
        BY <1>1, <1>6, <4>1, <4>2
    <3> QED
      BY <3>1, <3>2
  <2>4. ASSUME NEW s \in DOMAIN memoryFaq.byHash'
        PROVE  memoryFaq.byHash'[s] \in DOMAIN Records' /\ Records'[memoryFaq.byHash'[s]].hash = s
    <3>1. CASE s = h
      BY <1>1, <1>6, <1>8, <1>9, <3>1
    <3>2. CASE s # h
      <4>1. s \in DOMAIN memoryFaq.byHash /\ memoryFaq.byHash'[s] = memoryFaq.byHash[s]
        BY <1>8, <3>2
      <4>2. memoryFaq.byHash[s] \in DOMAIN Records /\ Records[memoryFaq.byHash[s]].hash = s
        BY <4>1 DEF QuestionsInv, RecordsInv
      <4> QED
        BY <1>1, <1>6, <4>1, <4>2
    <3> QED
      BY <3>1, <3>2
  <2> QED
    BY <2>1, <2>2, <2>3, <2>4 DEF RecordsInv
<1>11. \A m \in DOMAIN Records : m # n /\ RowOf(m)' = RowOf(m)
  BY <1>1, <1>6 DEF RowOf
<1>12. RowOf(n)' = row
  BY <1>6, <1>9 DEF RowOf
<1>13. RowsInv'
  <2>1. /\ sqliteFaq = {RowOf(m) : m \in DOMAIN Records} /\ IsFiniteSet(sqliteFaq)
        /\ Cardinality(sqliteFaq) = n - 1
    BY <1>0 DEF QuestionsInv, RowsInv
  <2>2. \A r \in sqliteFaq : r.text # t /\ r.id # n
    BY <1>1, <1>3, <2>1 DEF RowOf
  <2>3. Numbered(sqliteFaq, q) = row
    BY <1>1, <1>9, <2>1 DEF Numbered
  <2>4. ~Clashes(sqliteFaq, q, {{"text"}})
    BY <1>9, <2>2 DEF Clashes
  <2>5. sqliteFaq' = sqliteFaq \cup {row}
    BY <2>3, <2>4 DEF AddQuestion, SqliteInsertQuestion, q
  <2>6. row \notin sqliteFaq
    BY <2>2
  <2>7. IsFiniteSet(sqliteFaq') /\ Cardinality(sqliteFaq') = n
    <3>1. IsFiniteSet(sqliteFaq \cup {row}) /\ Cardinality(sqliteFaq \cup {row}) = Cardinality(sqliteFaq) + 1
      <4> HIDE DEF row
      <4> QED
        BY <2>1, <2>6, FS_AddElement
    <3> QED
      BY <1>1, <2>1, <2>5, <3>1
  <2>8. sqliteFaq' = {RowOf(m)' : m \in DOMAIN Records'}
    <3>1. \A r \in sqliteFaq' : \E m \in DOMAIN Records' : r = RowOf(m)'
      BY <1>1, <1>6, <1>11, <1>12, <2>1, <2>5
    <3>2. \A m \in DOMAIN Records' : RowOf(m)' \in sqliteFaq'
      BY <1>1, <1>6, <1>11, <1>12, <2>1, <2>5
    <3> QED
      BY <3>1, <3>2
  <2> QED
    BY <1>1, <1>5, <2>7, <2>8 DEF RowsInv
<1>14. PostgresRowsInv'
  <2>1. \A r \in postgresFaq : r.text # t
    BY <1>3 DEF QuestionsInv, PostgresRowsInv, Copies
  <2>2. (\E r \in postgresFaq : r.hash = h) <=> (\E m \in DOMAIN Records : Records[m].hash = h)
    BY DEF QuestionsInv, PostgresRowsInv, Copies
  <2>3. PostgresRefuses(postgresFaq, q) <=> \E r \in postgresFaq : r.hash = h
    BY <1>9, <2>1 DEF PostgresRefuses, Clashes
  <2>4. \A m \in DOMAIN Records : FirstOfHash(m) <=> FirstOfHash(m)'
    BY <1>1, <1>6 DEF FirstOfHash
  <2>5. FirstOfHash(n)' <=> ~(\E m \in DOMAIN Records : Records[m].hash = h)
    BY <1>1, <1>6, <1>9 DEF FirstOfHash
  <2>6. ASSUME NEW r, NEW m \in DOMAIN Records
        PROVE  Copies(r, m)' <=> Copies(r, m)
    BY <1>6 DEF Copies
  <2>7. DOMAIN Records' = DOMAIN Records \cup {n} /\ Records'[n].hash = h
    BY <1>1, <1>6, <1>9
  <2>8. CASE \E r \in postgresFaq : r.hash = h
    <3>1. postgresFaq' = postgresFaq
      BY <2>3, <2>8 DEF AddQuestion, PostgresInsertQuestion, q
    <3>2. ~FirstOfHash(n)'
      BY <2>2, <2>5, <2>8
    <3>3. \A r \in postgresFaq' : \E m \in DOMAIN Records' : FirstOfHash(m)' /\ Copies(r, m)'
      BY <2>4, <2>6, <2>7, <3>1 DEF QuestionsInv, PostgresRowsInv
    <3>4. \A m \in DOMAIN Records' :
            /\ FirstOfHash(m)' => \E r \in postgresFaq' : Copies(r, m)'
            /\ \E r \in postgresFaq' : r.hash = Records'[m].hash
      BY <1>6, <2>4, <2>6, <2>7, <2>8, <3>1, <3>2 DEF QuestionsInv, PostgresRowsInv
    <3> QED
      BY <3>3, <3>4 DEF PostgresRowsInv
  <2>9. CASE ~\E r \in postgresFaq : r.hash = h
    <3>0. PICK new : new = Numbered(postgresFaq, q)
      OBVIOUS
    <3>1. postgresFaq' = postgresFaq \cup {new}
      BY <2>3, <2>9, <3>0 DEF AddQuestion, PostgresInsertQuestion, q
    <3>2. new.text = t /\ new.hash = h /\ new.point = p
      BY <1>9, <3>0 DEF Numbered
    <3>3. FirstOfHash(n)' /\ Copies(new, n)'
      BY <1>6, <1>9, <2>2, <2>5, <2>9, <3>2 DEF Copies
    <3>4. \A r \in postgresFaq' : \E m \in DOMAIN Records' : FirstOfHash(m)' /\ Copies(r, m)'
      BY <2>4, <2>6, <2>7, <3>1, <3>3 DEF QuestionsInv, PostgresRowsInv
    <3>5. \A m \in DOMAIN Records' :
            /\ FirstOfHash(m)' => \E r \in postgresFaq' : Copies(r, m)'
            /\ \E r \in postgresFaq' : r.hash = Records'[m].hash
      BY <1>6, <2>4, <2>6, <2>7, <3>1, <3>2, <3>3 DEF QuestionsInv, PostgresRowsInv
    <3> QED
      BY <3>4, <3>5 DEF PostgresRowsInv
  <2> QED
    BY <2>8, <2>9
<1> QED
  BY <1>10, <1>13, <1>14 DEF QuestionsInv

\* Of some records of memory there is a first.
LEMMA FirstExists ==
  ASSUME QuestionsInv, NEW S, S \subseteq DOMAIN Records, S # {}
  PROVE  \E n \in S : \A m \in S : n <= m
<1> DEFINE R == {ss \in Nat \X Nat : ss[1] < ss[2]}
<1>1. IsWellFoundedOn(R, Nat)
  BY NatLessThanWellFounded DEF OpToRel
<1>2. S \subseteq Nat
  BY DEF QuestionsInv, RecordsInv
<1>3. PICK n \in S : \A m \in S : <<m, n>> \notin R
  <2> HIDE DEF R
  <2> QED
    BY <1>1, <1>2, WFMin
<1>4. ASSUME NEW m \in S
      PROVE  n <= m
  <2>1. m \in Nat /\ n \in Nat
    BY <1>2, <1>3
  <2>2. ~(m < n)
    BY <1>3, <2>1
  <2> QED
    BY <2>1, <2>2
<1> QED
  BY <1>4

\* One row to a hash means one record to it.
LEMMA OneEachIsOne ==
  ASSUME QuestionsInv, NEW h \in Hashes, Cardinality(Sharing(h)) <= 1,
         NEW n \in DOMAIN Records, NEW m \in DOMAIN Records,
         Records[n].hash = h, Records[m].hash = h
  PROVE  n = m
<1>1. sqliteFaq = {RowOf(k) : k \in DOMAIN Records} /\ IsFiniteSet(sqliteFaq)
  BY DEF QuestionsInv, RowsInv
<1>2. RowOf(n) \in Sharing(h) /\ RowOf(m) \in Sharing(h)
  BY <1>1 DEF Sharing, RowOf
<1>3. IsFiniteSet(Sharing(h))
  BY <1>1, FS_Subset DEF Sharing
<1>4. SUFFICES ASSUME RowOf(n) # RowOf(m) PROVE FALSE
  BY DEF RowOf
<1>5. IsFiniteSet({RowOf(n)}) /\ Cardinality({RowOf(n)}) = 1
  BY FS_Singleton
<1>6. Cardinality({RowOf(n)} \cup {RowOf(m)}) = 2
  BY <1>4, <1>5, FS_AddElement
<1>7. Cardinality({RowOf(n)} \cup {RowOf(m)}) <= Cardinality(Sharing(h))
  BY <1>2, <1>3, FS_Subset
<1>8. Cardinality(Sharing(h)) \in Nat
  BY <1>3, FS_CardinalityType
<1> QED
  BY <1>6, <1>7, <1>8

\* A question is found by its text in memory as in SQLite, and in Postgres if it is
\* the first of its hash.
LEMMA FoundByText ==
  ASSUME QuestionsInv, NEW t \in Questions
  PROVE  /\ TextsOf(MemoryFindExact(memoryFaq, t)) = TextsOf(SqliteFindExact(sqliteFaq, t))
         /\ (\A n \in DOMAIN Records : FirstOfHash(n)) =>
              TextsOf(SqliteFindExact(sqliteFaq, t)) = TextsOf(PostgresFindExact(postgresFaq, t))
<1> DEFINE Named == {n \in DOMAIN Records : Records[n].text = t}
<1>1. TextsOf(MemoryFindExact(memoryFaq, t)) = {t : n \in Named}
  <2>1. t \in DOMAIN memoryFaq.byText => /\ memoryFaq.byText[t] \in Named
                                         /\ MemoryFindExact(memoryFaq, t) = {Records[memoryFaq.byText[t]]}
    BY DEF QuestionsInv, RecordsInv, MemoryFindExact, Records
  <2>2. t \notin DOMAIN memoryFaq.byText => Named = {} /\ MemoryFindExact(memoryFaq, t) = {}
    BY DEF QuestionsInv, RecordsInv, MemoryFindExact
  <2> QED
    BY <2>1, <2>2 DEF TextsOf
<1>2. TextsOf(SqliteFindExact(sqliteFaq, t)) = {t : n \in Named}
  <2>1. sqliteFaq = {RowOf(n) : n \in DOMAIN Records}
    BY DEF QuestionsInv, RowsInv
  <2>2. SqliteFindExact(sqliteFaq, t) = {RowOf(n) : n \in Named}
    BY <2>1 DEF SqliteFindExact, RowOf
  <2>3. (SqliteFindExact(sqliteFaq, t) = {}) <=> Named = {}
    BY <2>2
  <2>4. \A row \in SqliteFindExact(sqliteFaq, t) : row.text = t
    BY DEF SqliteFindExact
  <2> QED
    BY <2>3, <2>4 DEF TextsOf
<1>3. ASSUME \A n \in DOMAIN Records : FirstOfHash(n)
      PROVE  TextsOf(PostgresFindExact(postgresFaq, t)) = {t : n \in Named}
  <2>1. (PostgresFindExact(postgresFaq, t) = {}) <=> Named = {}
    BY <1>3 DEF QuestionsInv, PostgresRowsInv, Copies, PostgresFindExact
  <2>2. \A r \in PostgresFindExact(postgresFaq, t) : r.text = t
    BY DEF PostgresFindExact
  <2> QED
    BY <2>1, <2>2 DEF TextsOf
<1> QED
  BY <1>1, <1>2, <1>3

\* By a hash SQLite and Postgres find the first question, memory the only one.
LEMMA FoundByHash ==
  ASSUME QuestionsInv, NEW h \in Hashes
  PROVE  /\ TextsOf(SqliteFindByHash(sqliteFaq, h)) = TextsOf(PostgresFindByHash(postgresFaq, h))
         /\ Cardinality(Sharing(h)) <= 1 =>
              TextsOf(MemoryFindByHash(memoryFaq, h)) = TextsOf(SqliteFindByHash(sqliteFaq, h))
<1> DEFINE Hashed == {n \in DOMAIN Records : Records[n].hash = h}
           FirstTexts == {Records[n].text : n \in {m \in Hashed : FirstOfHash(m)}}
<1>1. TextsOf(SqliteFindByHash(sqliteFaq, h)) = FirstTexts
  <2>1. sqliteFaq = {RowOf(n) : n \in DOMAIN Records}
    BY DEF QuestionsInv, RowsInv
  <2>2. {r \in sqliteFaq : r.hash = h} = {RowOf(n) : n \in Hashed}
    BY <2>1 DEF RowOf
  <2>3. SqliteFindByHash(sqliteFaq, h) = {RowOf(n) : n \in {m \in Hashed : FirstOfHash(m)}}
    <3>1. SqliteFindByHash(sqliteFaq, h) = First({RowOf(n) : n \in Hashed})
      BY <2>2 DEF SqliteFindByHash
    <3>2. \A n \in Hashed : FirstOfHash(n) <=> \A m \in Hashed : n <= m
      BY DEF FirstOfHash
    <3>3. \A n : RowOf(n).id = n
      BY DEF RowOf
    <3> HIDE DEF Hashed
    <3>4. First({RowOf(n) : n \in Hashed}) =
            {r \in {RowOf(n) : n \in Hashed} : \A m \in Hashed : r.id <= m}
      BY <3>3 DEF First
    <3> QED
      BY <3>1, <3>2, <3>3, <3>4
  <2>4. \A n : RowOf(n).text = Records[n].text
    BY DEF RowOf
  <2> HIDE DEF Hashed
  <2>5. \A r \in SqliteFindByHash(sqliteFaq, h) : r.text \in FirstTexts
    BY <2>3, <2>4
  <2>6. \A m \in Hashed : FirstOfHash(m) =>
          \E r \in SqliteFindByHash(sqliteFaq, h) : r.text = Records[m].text
    BY <2>3, <2>4
  <2> QED
    BY <2>5, <2>6 DEF TextsOf
<1>2. TextsOf(PostgresFindByHash(postgresFaq, h)) = FirstTexts
  <2>1. \A r \in PostgresFindByHash(postgresFaq, h) : r.text \in FirstTexts
    BY DEF QuestionsInv, PostgresRowsInv, Copies, PostgresFindByHash
  <2>2. \A n \in Hashed : FirstOfHash(n) =>
          \E r \in PostgresFindByHash(postgresFaq, h) : r.text = Records[n].text
    BY DEF QuestionsInv, PostgresRowsInv, Copies, PostgresFindByHash
  <2> QED
    BY <2>1, <2>2 DEF TextsOf
<1>3. ASSUME Cardinality(Sharing(h)) <= 1
      PROVE  TextsOf(MemoryFindByHash(memoryFaq, h)) = FirstTexts
  <2>1. \A n, m \in Hashed : n = m
    BY <1>3, OneEachIsOne
  <2>2. \A n \in Hashed : FirstOfHash(n)
    BY <2>1 DEF FirstOfHash, QuestionsInv, RecordsInv
  <2>3. h \in DOMAIN memoryFaq.byHash =>
          /\ memoryFaq.byHash[h] \in Hashed
          /\ MemoryFindByHash(memoryFaq, h) = {Records[memoryFaq.byHash[h]]}
    BY DEF QuestionsInv, RecordsInv, MemoryFindByHash, Records
  <2>4. h \notin DOMAIN memoryFaq.byHash => Hashed = {} /\ MemoryFindByHash(memoryFaq, h) = {}
    BY DEF QuestionsInv, RecordsInv, MemoryFindByHash
  <2> HIDE DEF Hashed
  <2> QED
    BY <2>1, <2>2, <2>3, <2>4 DEF TextsOf
<1> QED
  BY <1>1, <1>2, <1>3

\* The nearest are equally far in every repository.
LEMMA FoundNear ==
  ASSUME QuestionsInv, NEW p \in Points
  PROVE  /\ MemoryNearest(memoryFaq, p) = SqliteNearest(sqliteFaq, p)
         /\ (\A n \in DOMAIN Records : FirstOfHash(n)) =>
              MemoryNearest(memoryFaq, p) = PostgresNearest(postgresFaq, p)
<1> DEFINE Far(n) == Apart(p, Records[n].point)
           Closest == {n \in DOMAIN Records : \A m \in DOMAIN Records : Far(n) <= Far(m)}
<1>1. \A n \in DOMAIN Records : Far(n) \in Int
  <2>1. \A n \in DOMAIN Records : Records[n].point \in Int
    BY PointAssumption DEF QuestionsInv, RecordsInv, Question
  <2>2. p \in Int
    BY PointAssumption
  <2> QED
    BY <2>1, <2>2 DEF Apart
<1>2. MemoryNearest(memoryFaq, p) = {Far(n) : n \in Closest}
  BY DEF MemoryNearest, Records
<1>3. \A n, m \in Closest : Far(n) = Far(m)
  BY <1>1
<1>4. SqliteNearest(sqliteFaq, p) = {Far(n) : n \in Closest}
  <2>1. sqliteFaq = {RowOf(n) : n \in DOMAIN Records} /\ \A n : RowOf(n).id = n /\ RowOf(n).point = Records[n].point
    BY DEF QuestionsInv, RowsInv, RowOf
  <2> DEFINE near == {s \in sqliteFaq : \A k \in sqliteFaq : Apart(p, s.point) <= Apart(p, k.point)}
  <2>2. near = {RowOf(n) : n \in Closest}
    BY <2>1
  <2>3. SqliteNearest(sqliteFaq, p) = {Apart(p, r.point) : r \in First(near)}
    BY DEF SqliteNearest
  <2>4. \A r \in First(near) : \E n \in Closest : Apart(p, r.point) = Far(n)
    BY <2>1, <2>2 DEF First
  <2>5. ASSUME NEW m \in Closest
        PROVE  \E r \in First(near) : Apart(p, r.point) = Far(m)
    <3>1. PICK n \in Closest : \A k \in Closest : n <= k
      BY FirstExists
    <3>2. RowOf(n) \in First(near)
      <4>1. \A s \in near : \E k \in Closest : s = RowOf(k) /\ s.id = k BY <2>1, <2>2
      <4>2. RowOf(n) \in near /\ RowOf(n).id = n BY <2>1, <2>2
      <4> HIDE DEF near, Closest
      <4> QED BY <3>1, <4>1, <4>2 DEF First
    <3>3. Apart(p, RowOf(n).point) = Far(n) BY <2>1
    <3>4. Far(n) = Far(m) BY <1>3
    <3> QED BY <3>2, <3>3, <3>4
  <2>6. PICK f, s : f = First(near) /\ s = SqliteNearest(sqliteFaq, p) OBVIOUS
  <2>7. /\ s = {Apart(p, r.point) : r \in f} /\ \A r \in f : \E n \in Closest : Apart(p, r.point) = Far(n)
        /\ \A m \in Closest : \E r \in f : Apart(p, r.point) = Far(m)
    BY <2>3, <2>4, <2>5, <2>6
  <2> HIDE DEF Closest, Far
  <2> QED
    BY <2>6, <2>7
<1>5. ASSUME \A n \in DOMAIN Records : FirstOfHash(n)
      PROVE  PostgresNearest(postgresFaq, p) = {Far(n) : n \in Closest}
  <2>1. \A r \in postgresFaq : \E n \in DOMAIN Records : Apart(p, r.point) = Far(n)
    BY DEF QuestionsInv, PostgresRowsInv, Copies
  <2>2. \A n \in DOMAIN Records : \E r \in postgresFaq : Apart(p, r.point) = Far(n)
    BY <1>5 DEF QuestionsInv, PostgresRowsInv, Copies
  <2> DEFINE near == {s \in postgresFaq : \A k \in postgresFaq : Apart(p, s.point) <= Apart(p, k.point)}
  <2>3. \A r \in near : \E n \in Closest : Apart(p, r.point) = Far(n)
    BY <2>1, <2>2
  <2>4. \A n \in Closest : \E r \in near : Apart(p, r.point) = Far(n)
    BY <2>1, <2>2
  <2>5. PostgresNearest(postgresFaq, p) = {Apart(p, r.point) : r \in near}
    BY DEF PostgresNearest
  <2> HIDE DEF near
  <2> QED
    BY <2>3, <2>4, <2>5
<1> QED
  BY <1>2, <1>4, <1>5

\* After any inserts a question is found the same in memory, SQLite and Postgres
\* (internal/infra/faqrepo), as long as no two questions share a hash; two that do
\* are told apart by memory alone, which finds the last.
THEOREM QuestionsAgreeHolds == FaqStoreSpec => []QuestionsAgree
<1>1. ASSUME QuestionsInv, [QuestionNext \/ CacheNext]_faqStoreVars
      PROVE  QuestionsInv'
  <2>1. CASE UNCHANGED questionVars
    <3>1. memoryFaq' = memoryFaq /\ sqliteFaq' = sqliteFaq /\ postgresFaq' = postgresFaq
      BY <2>1 DEF questionVars
    <3>2. Records' = Records
      BY <3>1 DEF Records
    <3>3. RecordsInv'
      BY <1>1, <3>1, <3>2 DEF QuestionsInv, RecordsInv
    <3>4. RowsInv'
      BY <1>1, <3>1, <3>2 DEF QuestionsInv, RowsInv, RowOf
    <3>5. PostgresRowsInv'
      BY <1>1, <3>1, <3>2 DEF QuestionsInv, PostgresRowsInv, FirstOfHash, Copies
    <3> QED
      BY <3>3, <3>4, <3>5 DEF QuestionsInv
  <2>2. CASE QuestionNext
    BY <1>1, <2>2, AddKeepsQuestionsInv DEF QuestionNext
  <2>3. CacheNext => UNCHANGED questionVars
    BY DEF CacheNext, AnswerQuestion, CountQuery, FaqTick
  <2> QED
    BY <1>1, <2>1, <2>2, <2>3 DEF faqStoreVars
<1>2. ASSUME QuestionsInv
      PROVE  QuestionsAgree
  <2>1. (\A h \in Hashes : Cardinality(Sharing(h)) <= 1) => \A n \in DOMAIN Records : FirstOfHash(n)
    <3> SUFFICES ASSUME \A h \in Hashes : Cardinality(Sharing(h)) <= 1,
                        NEW n \in DOMAIN Records, NEW m \in DOMAIN Records,
                        Records[m].hash = Records[n].hash
                 PROVE  n <= m
      BY DEF FirstOfHash
    <3>1. Records[n].hash \in Hashes /\ n \in Nat
      BY <1>2 DEF QuestionsInv, RecordsInv, Question
    <3> QED
      BY <1>2, <3>1, OneEachIsOne
  <2> QED
    BY <1>2, <2>1, FoundByText, FoundByHash, FoundNear DEF QuestionsAgree
<1> QED
  BY <1>1, <1>2, InitQuestionsInv, PTL DEF FaqStoreSpec


-----------------------------------------------------------------------------
(* The caches hold the same answers, Valkey for as long when the TTL is a   *)
(* whole number of seconds, and the same counts and spellings.              *)
Entry == [answer : 1..2, expires : Nat]
AnswersInv ==
  /\ cacheTtl \in CacheTtls /\ faqTime \in Nat
  /\ DOMAIN memoryCache.answers \subseteq 1..2
  /\ memoryCache.answers \in [DOMAIN memoryCache.answers -> Entry]
  /\ sqliteCache.answers =
       {[question |-> q, answer |-> memoryCache.answers[q].answer,
         expires |-> memoryCache.answers[q].expires] : q \in DOMAIN memoryCache.answers}
  /\ cacheTtl % Second = 0 => valkeyCache.answers = memoryCache.answers
TrendingInv ==
  /\ DOMAIN memoryCache.trending \subseteq Canonicals
  /\ memoryCache.trending \in [DOMAIN memoryCache.trending -> Nat]
  /\ DOMAIN memoryCache.displays = DOMAIN memoryCache.trending
  /\ memoryCache.displays = [c \in DOMAIN memoryCache.trending |-> memoryCache.displays[c]]
  /\ \A c \in DOMAIN memoryCache.trending : memoryCache.displays[c] \in DisplaysOf(c)
  /\ sqliteCache.trending =
       {[canonical |-> c, display |-> memoryCache.displays[c], count |-> memoryCache.trending[c]]
          : c \in DOMAIN memoryCache.trending}
  /\ valkeyCache.trending = memoryCache.trending
  /\ valkeyCache.displays = memoryCache.displays
CacheRecords ==
  /\ memoryCache = [answers |-> memoryCache.answers, trending |-> memoryCache.trending,
                    displays |-> memoryCache.displays]
  /\ sqliteCache = [answers |-> sqliteCache.answers, trending |-> sqliteCache.trending]
  /\ valkeyCache = [answers |-> valkeyCache.answers, trending |-> valkeyCache.trending,
                    displays |-> valkeyCache.displays]
CachesInv == AnswersInv /\ TrendingInv /\ CacheRecords

\* Empty caches are alike.
LEMMA InitCachesInv == FaqStoreInit => CachesInv
<1> SUFFICES ASSUME FaqStoreInit PROVE CachesInv OBVIOUS
<1>1. /\ memoryCache = [answers |-> << >>, trending |-> << >>, displays |-> << >>]
      /\ valkeyCache = [answers |-> << >>, trending |-> << >>, displays |-> << >>]
      /\ sqliteCache = [answers |-> {}, trending |-> {}]
      /\ cacheTtl \in CacheTtls /\ faqTime = 1
  BY DEF FaqStoreInit
<1>2. DOMAIN << >> = {} OBVIOUS
<1>3. memoryCache.answers = << >> /\ memoryCache.trending = << >> /\ memoryCache.displays = << >>
      /\ valkeyCache.answers = << >> /\ valkeyCache.trending = << >> /\ valkeyCache.displays = << >>
      /\ sqliteCache.answers = {} /\ sqliteCache.trending = {}
  BY <1>1
<1>4. << >> \in [{} -> Entry] /\ << >> \in [{} -> Nat] /\ << >> = [c \in {} |-> << >>[c]] OBVIOUS
<1>5. AnswersInv BY <1>1, <1>2, <1>3, <1>4 DEF AnswersInv
<1>6. TrendingInv BY <1>2, <1>3, <1>4 DEF TrendingInv
<1>7. CacheRecords BY <1>1, <1>3 DEF CacheRecords
<1> QED BY <1>5, <1>6, <1>7 DEF CachesInv

(* A TTL of whole seconds is kept by Valkey as it is.                       *)
LEMMA WholeSeconds ==
  ASSUME CachesInv
  PROVE  /\ Expires(cacheTtl) \in Nat
         /\ cacheTtl % Second = 0 => ValkeySetString(cacheTtl) = Expires(cacheTtl)
<1>1. cacheTtl \in Nat /\ Second \in Nat \ {0} /\ faqTime \in Nat
  BY TtlAssumption DEF CachesInv, AnswersInv
<1>2. Expires(cacheTtl) \in Nat BY <1>1 DEF Expires, Never
<1>3. ASSUME cacheTtl % Second = 0 PROVE ValkeySetString(cacheTtl) = Expires(cacheTtl)
  <2>1. CASE cacheTtl = 0 BY <2>1, <1>1 DEF Expires, ValkeySetString, Never
  <2>2. CASE cacheTtl # 0
    <3>1. ~(cacheTtl < Second)
      <4> SUFFICES ASSUME cacheTtl < Second PROVE FALSE OBVIOUS
      <4>1. cacheTtl % Second = cacheTtl BY <1>1
      <4> QED BY <4>1, <1>3, <2>2
    <3>2. (cacheTtl \div Second) * Second = cacheTtl
      <4>1. cacheTtl = Second * (cacheTtl \div Second) + (cacheTtl % Second) BY <1>1
      <4>2. cacheTtl \div Second \in Int BY <1>1
      <4> QED BY <4>1, <4>2, <1>1, <1>3
    <3> QED BY <3>1, <3>2, <2>2, <1>1 DEF Expires, ValkeySetString, Never
  <2> QED BY <2>1, <2>2
<1> QED BY <1>2, <1>3

\* An answer goes into every cache.
LEMMA AnswerKeepsCachesInv ==
  ASSUME CachesInv, NEW q \in 1..2, NEW a \in 1..2, AnswerQuestion(q, a), UNCHANGED cacheTtl
  PROVE  CachesInv'
<1> DEFINE missed == MemoryGetAnswer(memoryCache, q) = {}
           M == memoryCache.answers
           new == [answer |-> a, expires |-> Expires(cacheTtl)]
           dropped == IF q \in DOMAIN M /\ Expired(M[q].expires)
                      THEN [r \in DOMAIN M \ {q} |-> M[r]] ELSE M
           left == IF q \in DOMAIN M /\ Expired(M[q].expires)
                   THEN {r \in sqliteCache.answers : ~(r.question = q /\ Expired(r.expires))}
                   ELSE sqliteCache.answers
<1>1. /\ faqTime' = faqTime /\ cacheTtl' = cacheTtl
      /\ ~missed => UNCHANGED cacheVars
      /\ missed => /\ memoryCache' = MemorySaveAnswer(MemoryDropExpired(memoryCache, q), q, a)
                   /\ sqliteCache' = SqliteSaveAnswer(SqliteDropExpired(sqliteCache, q), q, a)
                   /\ valkeyCache' = ValkeySaveAnswer(valkeyCache, q, a)
  BY DEF AnswerQuestion, cacheVars
<1>2. CASE ~missed
  BY <1>1, <1>2 DEF CachesInv, AnswersInv, TrendingInv, CacheRecords, cacheVars
<1>3. CASE missed
  <2>1. /\ memoryCache = [answers |-> M, trending |-> memoryCache.trending, displays |-> memoryCache.displays]
        /\ sqliteCache = [answers |-> sqliteCache.answers, trending |-> sqliteCache.trending]
        /\ valkeyCache = [answers |-> valkeyCache.answers, trending |-> valkeyCache.trending,
                          displays |-> valkeyCache.displays]
    BY DEF CachesInv, CacheRecords
  <2>2. memoryCache' = [answers |-> Put(dropped, q, new), trending |-> memoryCache.trending,
                        displays |-> memoryCache.displays]
    <3>1. MemoryDropExpired(memoryCache, q)
            = [answers |-> dropped, trending |-> memoryCache.trending, displays |-> memoryCache.displays]
      BY <2>1 DEF MemoryDropExpired
    <3> HIDE DEF dropped
    <3> QED BY <1>1, <1>3, <3>1 DEF MemorySaveAnswer
  <2>3. sqliteCache' = [answers |-> {r \in sqliteCache.answers : r.question # q}
                                    \cup {[question |-> q, answer |-> a, expires |-> Expires(cacheTtl)]},
                        trending |-> sqliteCache.trending]
    <3> DEFINE kept == {r \in sqliteCache.answers : ~(r.question = q /\ Expired(r.expires))}
    <3>1. SqliteDropExpired(sqliteCache, q) = [answers |-> kept, trending |-> sqliteCache.trending]
      BY <2>1 DEF SqliteDropExpired
    <3>2. {r \in kept : r.question # q} = {r \in sqliteCache.answers : r.question # q} OBVIOUS
    <3> HIDE DEF kept
    <3> QED BY <1>1, <1>3, <3>1, <3>2 DEF SqliteSaveAnswer
  <2>4. valkeyCache' = [answers |-> Put(valkeyCache.answers, q,
                                         [answer |-> a, expires |-> ValkeySetString(cacheTtl)]),
                        trending |-> valkeyCache.trending, displays |-> valkeyCache.displays]
    BY <1>1, <1>3, <2>1 DEF ValkeySaveAnswer
  <2>5. Put(dropped, q, new) = Put(M, q, new)
    <3>1. DOMAIN dropped \cup {q} = DOMAIN M \cup {q}
      OBVIOUS
    <3>2. \A x \in DOMAIN M \ {q} : dropped[x] = M[x] OBVIOUS
    <3> HIDE DEF dropped, new, M
    <3> QED BY <3>1, <3>2 DEF Put
  <2>6. /\ memoryCache.answers' = Put(M, q, new)
        /\ memoryCache.trending' = memoryCache.trending /\ memoryCache.displays' = memoryCache.displays
        /\ sqliteCache.trending' = sqliteCache.trending
        /\ sqliteCache.answers' = {r \in sqliteCache.answers : r.question # q}
                                  \cup {[question |-> q, answer |-> a, expires |-> Expires(cacheTtl)]}
        /\ valkeyCache.trending' = valkeyCache.trending /\ valkeyCache.displays' = valkeyCache.displays
        /\ valkeyCache.answers' = Put(valkeyCache.answers, q,
                                      [answer |-> a, expires |-> ValkeySetString(cacheTtl)])
    <3> HIDE DEF M, new, dropped
    <3> QED BY <2>2, <2>3, <2>4, <2>5
  <2>7. CacheRecords'
    <3> HIDE DEF M, new, dropped
    <3> QED BY <2>2, <2>3, <2>4, <2>5, <2>6 DEF CacheRecords
  <2>8. TrendingInv'
    <3> HIDE DEF M, new, dropped
    <3> QED BY <2>6 DEF CachesInv, TrendingInv
  <2>9. AnswersInv'
    <3> DEFINE N == Put(M, q, new)
    <3>1. DOMAIN M \subseteq 1..2 /\ M \in [DOMAIN M -> Entry] /\ new \in Entry
      BY WholeSeconds DEF CachesInv, AnswersInv, Entry
    <3>2. DOMAIN N = DOMAIN M \cup {q} /\ N[q] = new /\ \A x \in DOMAIN M \ {q} : N[x] = M[x]
      BY DEF Put
    <3>3. N \in [DOMAIN N -> Entry] /\ DOMAIN N \subseteq 1..2
      <4>1. \A x \in DOMAIN N : N[x] \in Entry
        <5> HIDE DEF new, M, N
        <5> QED BY <3>1, <3>2
      <4>2. N = [x \in DOMAIN M \cup {q} |-> N[x]] BY DEF Put
      <4> HIDE DEF new, M, N
      <4> QED BY <3>1, <3>2, <4>1, <4>2
    <3>4. sqliteCache.answers = {[question |-> p, answer |-> M[p].answer, expires |-> M[p].expires] : p \in DOMAIN M}
      BY DEF CachesInv, AnswersInv
    <3>5. {r \in sqliteCache.answers : r.question # q}
            \cup {[question |-> q, answer |-> a, expires |-> Expires(cacheTtl)]}
          = {[question |-> p, answer |-> N[p].answer, expires |-> N[p].expires] : p \in DOMAIN N}
      <4>1. N[q].answer = a /\ N[q].expires = Expires(cacheTtl) BY <3>2
      <4> HIDE DEF new, M, N
      <4> QED BY <3>2, <3>4, <4>1
    <3>6. cacheTtl % Second = 0 =>
            Put(valkeyCache.answers, q, [answer |-> a, expires |-> ValkeySetString(cacheTtl)]) = N
      BY WholeSeconds DEF CachesInv, AnswersInv
    <3>7. cacheTtl \in CacheTtls /\ faqTime \in Nat BY DEF CachesInv, AnswersInv
    <3>8. memoryCache.answers' = N BY <2>6
    <3> HIDE DEF N, M, new
    <3> QED BY <1>1, <2>6, <3>3, <3>5, <3>6, <3>7, <3>8 DEF AnswersInv
  <2> QED BY <2>7, <2>8, <2>9 DEF CachesInv
<1> QED BY <1>2, <1>3

\* The two maps of a counted question, as the memory and Valkey stores write them.
LEMMA CountedMaps ==
  ASSUME NEW A, NEW T, NEW D, NEW c, NEW d,
         NEW db, db = [answers |-> A, trending |-> T, displays |-> D]
  PROVE  LET counted == [answers |-> A, trending |-> Put(T, c, IF c \in DOMAIN T THEN T[c] + 1 ELSE 1),
                         displays |-> IF c \in DOMAIN D THEN D ELSE Put(D, c, d)]
         IN  MemoryIncrement(db, c, d) = counted /\ ValkeyIncrement(db, c, d) = counted
<1> DEFINE T2 == Put(T, c, IF c \in DOMAIN T THEN T[c] + 1 ELSE 1)
           D2 == IF c \in DOMAIN D THEN D ELSE Put(D, c, d)
           next == [db EXCEPT !.trending = T2]
<1>1. MemoryIncrement(db, c, d) = [next EXCEPT !.displays = D2]
      /\ ValkeyIncrement(db, c, d) = [next EXCEPT !.displays = D2]
  <2>1. db.trending = T /\ db.displays = D OBVIOUS
  <2> QED BY <2>1 DEF MemoryIncrement, ValkeyIncrement
<1> HIDE DEF T2, D2
<1>2. next = [answers |-> A, trending |-> T2, displays |-> D] OBVIOUS
<1>3. [next EXCEPT !.displays = D2] = [answers |-> A, trending |-> T2, displays |-> D2]
  <2> HIDE DEF next
  <2> QED BY <1>2
<1> QED BY <1>1, <1>3 DEF T2, D2

\* A count goes up in every cache, and the first spelling stays.
LEMMA CountKeepsCachesInv ==
  ASSUME CachesInv, NEW c \in Canonicals, NEW d \in DisplaysOf(c), CountQuery(c, d), UNCHANGED cacheTtl
  PROVE  CachesInv'
<1> DEFINE T == memoryCache.trending
           D == memoryCache.displays
           T2 == Put(T, c, IF c \in DOMAIN T THEN T[c] + 1 ELSE 1)
           D2 == IF c \in DOMAIN D THEN D ELSE Put(D, c, d)
           Row(f, g, x) == [canonical |-> x, display |-> g[x], count |-> f[x]]
           more == IF \E r \in sqliteCache.trending : r.canonical = c
                   THEN {IF r.canonical = c THEN [r EXCEPT !.count = @ + 1] ELSE r
                           : r \in sqliteCache.trending}
                   ELSE sqliteCache.trending \cup {[canonical |-> c, display |-> d, count |-> 1]}
<1>1. /\ memoryCache = [answers |-> memoryCache.answers, trending |-> T, displays |-> D]
      /\ sqliteCache = [answers |-> sqliteCache.answers, trending |-> sqliteCache.trending]
      /\ valkeyCache = [answers |-> valkeyCache.answers, trending |-> valkeyCache.trending,
                        displays |-> valkeyCache.displays]
  BY DEF CachesInv, CacheRecords
<1>2. /\ DOMAIN T \subseteq Canonicals /\ T \in [DOMAIN T -> Nat] /\ DOMAIN D = DOMAIN T
      /\ D = [x \in DOMAIN T |-> D[x]]
      /\ \A x \in DOMAIN T : D[x] \in DisplaysOf(x)
      /\ sqliteCache.trending = {Row(T, D, x) : x \in DOMAIN T}
      /\ valkeyCache.trending = T /\ valkeyCache.displays = D
  BY DEF CachesInv, TrendingInv
<1>3. /\ memoryCache' = [answers |-> memoryCache.answers, trending |-> T2, displays |-> D2]
      /\ valkeyCache' = [answers |-> valkeyCache.answers, trending |-> T2, displays |-> D2]
      /\ sqliteCache' = [answers |-> sqliteCache.answers, trending |-> more]
      /\ faqTime' = faqTime /\ cacheTtl' = cacheTtl
  <2>1. memoryCache' = [answers |-> memoryCache.answers, trending |-> T2, displays |-> D2]
    <3>1. memoryCache' = MemoryIncrement(memoryCache, c, d) BY DEF CountQuery
    <3> HIDE DEF T, D
    <3>2. PICK db, A, t, e : db = memoryCache /\ A = memoryCache.answers /\ t = T /\ e = D OBVIOUS
    <3>3. db = [answers |-> A, trending |-> t, displays |-> e] BY <1>1, <3>2
    <3>4. MemoryIncrement(db, c, d)
            = [answers |-> A, trending |-> Put(t, c, IF c \in DOMAIN t THEN t[c] + 1 ELSE 1),
               displays |-> IF c \in DOMAIN e THEN e ELSE Put(e, c, d)]
      BY <3>3, CountedMaps
    <3> QED BY <3>1, <3>2, <3>4
  <2>2. valkeyCache' = [answers |-> valkeyCache.answers, trending |-> T2, displays |-> D2]
    <3>1. valkeyCache' = ValkeyIncrement(valkeyCache, c, d) BY DEF CountQuery
    <3>2. valkeyCache = [answers |-> valkeyCache.answers, trending |-> T, displays |-> D] BY <1>1, <1>2
    <3> HIDE DEF T, D
    <3>3. PICK db, A, t, e : db = valkeyCache /\ A = valkeyCache.answers /\ t = T /\ e = D OBVIOUS
    <3>4. db = [answers |-> A, trending |-> t, displays |-> e] BY <3>2, <3>3
    <3>5. ValkeyIncrement(db, c, d)
            = [answers |-> A, trending |-> Put(t, c, IF c \in DOMAIN t THEN t[c] + 1 ELSE 1),
               displays |-> IF c \in DOMAIN e THEN e ELSE Put(e, c, d)]
      BY <3>4, CountedMaps
    <3> QED BY <3>1, <3>3, <3>5
  <2>3. sqliteCache' = [answers |-> sqliteCache.answers, trending |-> more]
    <3>1. sqliteCache' = SqliteIncrement(sqliteCache, c, d) BY DEF CountQuery
    <3> QED BY <1>1, <3>1 DEF SqliteIncrement
  <2>4. faqTime' = faqTime BY DEF CountQuery
  <2> QED BY <2>1, <2>2, <2>3, <2>4
<1>4. DOMAIN T2 = DOMAIN T \cup {c} /\ (\A x \in DOMAIN T \ {c} : T2[x] = T[x])
      /\ T2[c] = (IF c \in DOMAIN T THEN T[c] + 1 ELSE 1)
      /\ T2 = [x \in DOMAIN T \cup {c} |-> T2[x]]
  BY DEF Put
<1>5. DOMAIN D2 = DOMAIN T \cup {c} /\ (\A x \in DOMAIN T : D2[x] = D[x])
      /\ (c \notin DOMAIN T => D2[c] = d)
      /\ D2 = [x \in DOMAIN T \cup {c} |-> D2[x]]
  <2> HIDE DEF T, D
  <2>1. CASE c \in DOMAIN T
    <3>1. DOMAIN T \cup {c} = DOMAIN T /\ D2 = D BY <1>2, <2>1
    <3> HIDE DEF D2
    <3> QED BY <1>2, <2>1, <3>1
  <2>2. CASE c \notin DOMAIN T
    <3>1. D2 = Put(D, c, d) BY <1>2, <2>2
    <3> QED BY <1>2, <2>2, <3>1 DEF Put
  <2> QED BY <2>1, <2>2
<1> HIDE DEF T2, D2
<1>6. more = {Row(T2, D2, x) : x \in DOMAIN T \cup {c}}
  <2> HIDE DEF T, D
  <2>1. CASE c \in DOMAIN T
    <3>1. \E r \in sqliteCache.trending : r.canonical = c
      <4>1. Row(T, D, c) \in sqliteCache.trending BY <1>2, <2>1
      <4>2. Row(T, D, c).canonical = c OBVIOUS
      <4> QED BY <4>1, <4>2
    <3>2. more = {IF r.canonical = c THEN [r EXCEPT !.count = @ + 1] ELSE r : r \in sqliteCache.trending}
      BY <3>1
    <3>3. \A x \in DOMAIN T : (IF Row(T, D, x).canonical = c THEN [Row(T, D, x) EXCEPT !.count = @ + 1] ELSE Row(T, D, x))
                                = Row(T2, D2, x)
      BY <1>4, <1>5, <2>1
    <3> HIDE DEF Row, more
    <3>4. {IF r.canonical = c THEN [r EXCEPT !.count = @ + 1] ELSE r : r \in sqliteCache.trending}
            = {Row(T2, D2, x) : x \in DOMAIN T}
      <4> DEFINE Bumped(r) == IF r.canonical = c THEN [r EXCEPT !.count = @ + 1] ELSE r
      <4>1. \A x \in DOMAIN T : Bumped(Row(T, D, x)) = Row(T2, D2, x) BY <3>3
      <4>2. sqliteCache.trending = {Row(T, D, x) : x \in DOMAIN T} BY <1>2
      <4> HIDE DEF Bumped
      <4>3. {Bumped(r) : r \in sqliteCache.trending} = {Row(T2, D2, x) : x \in DOMAIN T} BY <4>1, <4>2
      <4> QED BY <4>3 DEF Bumped
    <3> QED BY <3>2, <3>4, <2>1
  <2>2. CASE c \notin DOMAIN T
    <3>1. ~\E r \in sqliteCache.trending : r.canonical = c BY <1>2, <2>2
    <3>2. more = sqliteCache.trending \cup {[canonical |-> c, display |-> d, count |-> 1]} BY <3>1
    <3>3. \A x \in DOMAIN T : Row(T, D, x) = Row(T2, D2, x) BY <1>4, <1>5, <2>2
    <3>4. Row(T2, D2, c) = [canonical |-> c, display |-> d, count |-> 1] BY <1>4, <1>5, <2>2
    <3> HIDE DEF Row, more
    <3> QED BY <1>2, <3>2, <3>3, <3>4
  <2> QED BY <2>1, <2>2
<1>7. T2 \in [DOMAIN T2 -> Nat] /\ DOMAIN T2 \subseteq Canonicals
  <2>1. \A x \in DOMAIN T \cup {c} : T2[x] \in Nat
    <3> HIDE DEF T
    <3> QED BY <1>2, <1>4
  <2> HIDE DEF T
  <2> QED BY <1>2, <1>4, <2>1
<1>8. \A x \in DOMAIN T \cup {c} : D2[x] \in DisplaysOf(x)
  <2> HIDE DEF T, D
  <2> QED BY <1>2, <1>5
<1> HIDE DEF T, D, more
<1>9. memoryCache.trending' = T2 /\ memoryCache.displays' = D2 /\ sqliteCache.trending' = more
      /\ valkeyCache.trending' = T2 /\ valkeyCache.displays' = D2
      /\ memoryCache.answers' = memoryCache.answers /\ sqliteCache.answers' = sqliteCache.answers
      /\ valkeyCache.answers' = valkeyCache.answers
  BY <1>3
<1>10. TrendingInv'
  <2>1. DOMAIN D2 = DOMAIN T2 /\ D2 = [x \in DOMAIN T2 |-> D2[x]] BY <1>4, <1>5
  <2>2. \A x \in DOMAIN T2 : D2[x] \in DisplaysOf(x) BY <1>4, <1>8
  <2>3. more = {[canonical |-> x, display |-> D2[x], count |-> T2[x]] : x \in DOMAIN T2} BY <1>4, <1>6
  <2> QED BY <1>7, <1>9, <2>1, <2>2, <2>3 DEF TrendingInv
<1>11. AnswersInv' BY <1>3, <1>9 DEF AnswersInv, CachesInv
<1>12. CacheRecords' BY <1>3, <1>9 DEF CacheRecords
<1> QED BY <1>10, <1>11, <1>12 DEF CachesInv

\* The caches hold the same answers and counts after any calls.
THEOREM CachesInvHolds == FaqStoreSpec => []CachesInv
<1>1. FaqStoreInit => CachesInv BY InitCachesInv
<1>2. CachesInv /\ [QuestionNext \/ CacheNext]_faqStoreVars => CachesInv'
  <2> SUFFICES ASSUME CachesInv, [QuestionNext \/ CacheNext]_faqStoreVars PROVE CachesInv'
    OBVIOUS
  <2>1. CASE QuestionNext
    <3>1. UNCHANGED <<cacheVars, cacheTtl, faqTime>> BY <2>1 DEF QuestionNext, FaqCall, AddQuestion
    <3> QED BY <3>1 DEF CachesInv, AnswersInv, TrendingInv, CacheRecords, cacheVars
  <2>2. CASE CacheNext
    <3>1. UNCHANGED cacheTtl BY <2>2 DEF CacheNext, FaqCall
    <3>2. ASSUME NEW q \in 1..2, NEW a \in 1..2, AnswerQuestion(q, a) PROVE CachesInv'
      BY <3>1, <3>2, AnswerKeepsCachesInv
    <3>3. ASSUME NEW c \in Canonicals, NEW d \in DisplaysOf(c), CountQuery(c, d) PROVE CachesInv'
      BY <3>1, <3>3, CountKeepsCachesInv
    <3>4. CASE FaqTick
      <4>1. UNCHANGED cacheVars /\ faqTime' = faqTime + 1 BY <3>4 DEF FaqTick
      <4> QED BY <3>1, <4>1 DEF CachesInv, AnswersInv, TrendingInv, CacheRecords, cacheVars
    <3> QED BY <2>2, <3>2, <3>3, <3>4 DEF CacheNext
  <2>3. CASE UNCHANGED faqStoreVars
    BY <2>3 DEF CachesInv, AnswersInv, TrendingInv, CacheRecords, cacheVars, faqStoreVars
  <2> QED BY <2>1, <2>2, <2>3
<1> QED BY <1>1, <1>2, PTL DEF FaqStoreSpec

(* The rows of the trending questions, as the maps and the table hold them  *)
(* and as Valkey ranks them.                                                *)
Shown(K, T, D) == {[display |-> D[c], count |-> T[c]] : c \in K}
Ranked(K, T) == {[canonical |-> c, count |-> T[c]] : c \in K}
ShownFirst(rows) ==
  {p \in rows \X rows : \/ p[1].count > p[2].count
                        \/ p[1].count = p[2].count /\ p[1].display < p[2].display}
RankedFirst(rows) ==
  {p \in rows \X rows : \/ p[1].count > p[2].count
                        \/ p[1].count = p[2].count /\ p[1].canonical > p[2].canonical}

\* Ties aside, the two orders of the trending list show the same counts.
LEMMA TopsHaveTheSameCounts ==
  ASSUME NEW K, K \subseteq Canonicals, NEW T \in [K -> Nat], NEW D,
         \A c \in K : D[c] \in DisplaysOf(c)
  PROVE  LET shown == Shown(K, T, D)
             ranked == Ranked(K, T)
             m == Sorted(shown, ShownFirst(shown))
             v == Sorted(ranked, RankedFirst(ranked))
         IN  /\ IsFiniteSet(ranked) /\ Cardinality(shown) = Cardinality(ranked)
             /\ Cardinality(ranked) <= Cardinality(Canonicals)
             /\ Arranges(m, shown, ShownFirst(shown)) /\ Arranges(v, ranked, RankedFirst(ranked))
             /\ \A i \in 1..Cardinality(ranked) : v[i].count = m[i].count
<1> DEFINE shown == Shown(K, T, D)
           ranked == Ranked(K, T)
           m == Sorted(shown, ShownFirst(shown))
           v == Sorted(ranked, RankedFirst(ranked))
<1>1. /\ IsFiniteSet(K) /\ K \subseteq Int /\ \A c \in K : D[c] \in Int /\ T[c] \in Nat
      /\ Cardinality(K) <= Cardinality(Canonicals)
  BY SpellingAssumption, FS_Subset
<1>2. /\ \A r \in shown : r.display \in Int /\ r.count \in Nat
      /\ \A r \in ranked : r.canonical \in K /\ r.count \in Nat /\ r.count = T[r.canonical]
                           /\ r = [canonical |-> r.canonical, count |-> T[r.canonical]]
  BY <1>1 DEF Shown, Ranked
<1>3. IsFiniteSet(shown) /\ IsFiniteSet(ranked) /\ Cardinality(ranked) <= Cardinality(K)
  <2>1. [c \in K |-> [display |-> D[c], count |-> T[c]]] \in Surjection(K, shown) BY DEF Surjection, Shown
  <2>2. [c \in K |-> [canonical |-> c, count |-> T[c]]] \in Surjection(K, ranked) BY DEF Surjection, Ranked
  <2> HIDE DEF shown, ranked
  <2> QED BY <2>1, <2>2, <1>1, FS_Surjection
<1>4. StrictOrder(shown, ShownFirst(shown))
  <2> HIDE DEF shown
  <2> QED BY <1>2 DEF StrictOrder, ShownFirst
<1>5. StrictOrder(ranked, RankedFirst(ranked))
  <2>1. \A r \in ranked : r.canonical \in Int BY <1>1, <1>2
  <2> HIDE DEF ranked
  <2> QED BY <1>2, <2>1 DEF StrictOrder, RankedFirst
<1>6. Arranges(m, shown, ShownFirst(shown)) /\ Arranges(v, ranked, RankedFirst(ranked))
  <2> HIDE DEF shown, ranked
  <2> QED BY <1>3, <1>4, <1>5, SortedArranges
<1> DEFINE kv == [r \in ranked |-> r.count]
           km == [r \in shown |-> r.count]
           f == [r \in ranked |-> [display |-> D[r.canonical], count |-> r.count]]
<1>7. kv \in [ranked -> Int] /\ km \in [shown -> Int] BY <1>2
<1>8. f \in [ranked -> shown] /\ (\A r \in ranked : km[f[r]] = kv[r])
  <2>1. \A r \in ranked : [display |-> D[r.canonical], count |-> r.count] \in shown
    BY <1>2 DEF Shown
  <2>2. \A r \in ranked : [display |-> D[r.canonical], count |-> r.count].count = r.count OBVIOUS
  <2> HIDE DEF shown, ranked
  <2> QED BY <2>1, <2>2
<1>9. \A r, q \in ranked : f[r] = f[q] => r = q
  <2> SUFFICES ASSUME NEW r \in ranked, NEW q \in ranked, f[r] = f[q] PROVE r = q OBVIOUS
  <2>1. r.canonical \in K /\ q.canonical \in K /\ r = [canonical |-> r.canonical, count |-> T[r.canonical]]
        /\ q = [canonical |-> q.canonical, count |-> T[q.canonical]]
    BY <1>2
  <2>2. D[r.canonical] = D[q.canonical]
    <3>1. f[r] = [display |-> D[r.canonical], count |-> r.count]
          /\ f[q] = [display |-> D[q.canonical], count |-> q.count]
      <4> HIDE DEF ranked
      <4> QED OBVIOUS
    <3>2. f[r].display = D[r.canonical] /\ f[q].display = D[q.canonical] BY <3>1
    <3> QED BY <3>2
  <2>3. D[r.canonical] \in DisplaysOf(r.canonical) \cap DisplaysOf(q.canonical) BY <2>1, <2>2
  <2>4. r.canonical = q.canonical BY <2>1, <2>3, SpellingAssumption
  <2> QED BY <2>1, <2>4
<1>10. \A s \in shown : \E r \in ranked : f[r] = s
  <2> SUFFICES ASSUME NEW s \in shown PROVE \E r \in ranked : f[r] = s OBVIOUS
  <2>0. PICK c \in K : s = [display |-> D[c], count |-> T[c]] BY DEF Shown
  <2>1. [canonical |-> c, count |-> T[c]] \in ranked BY DEF Ranked
  <2>2. f[[canonical |-> c, count |-> T[c]]] = [display |-> D[c], count |-> T[c]] BY <2>1
  <2> HIDE DEF f, ranked
  <2> QED BY <2>0, <2>1, <2>2
<1>11. \A a, b \in ranked : kv[a] > kv[b] => <<a, b>> \in RankedFirst(ranked)
  <2> HIDE DEF ranked
  <2> QED BY DEF RankedFirst
<1>12. \A a, b \in shown : km[a] > km[b] => <<a, b>> \in ShownFirst(shown)
  <2> HIDE DEF shown
  <2> QED BY DEF ShownFirst
<1>13. Cardinality(ranked) = Cardinality(shown) /\ \A i \in 1..Cardinality(ranked) : kv[v[i]] = km[m[i]]
  <2> HIDE DEF shown, ranked, m, v, f, kv, km
  <2>1. Pairs(f, ranked, kv, shown, km) BY <1>8, <1>9, <1>10 DEF Pairs
  <2>2. Follows(RankedFirst(ranked), ranked, kv) BY <1>11 DEF Follows
  <2>3. Follows(ShownFirst(shown), shown, km) BY <1>12 DEF Follows
  <2> QED BY <2>1, <2>2, <2>3, <1>3, <1>6, <1>7, SameKeys
<1>14. \A i \in 1..Cardinality(ranked) : v[i] \in ranked /\ m[i] \in shown
  <2> HIDE DEF shown, ranked, m, v, f, kv, km
  <2> QED BY <1>6, <1>13 DEF Arranges
<1>15. \A i \in 1..Cardinality(ranked) : v[i].count = m[i].count
  <2> HIDE DEF shown, ranked, m, v, f
  <2> QED BY <1>13, <1>14
<1>16. Cardinality(ranked) <= Cardinality(Canonicals)
  <2>1. Cardinality(ranked) \in Nat /\ Cardinality(K) \in Nat /\ Cardinality(Canonicals) \in Nat
    <3> HIDE DEF ranked
    <3> QED BY <1>1, <1>3, SpellingAssumption, FS_CardinalityType
  <2> HIDE DEF ranked
  <2> QED BY <2>1, <1>1, <1>3
<1> QED
  <2> HIDE DEF shown, ranked
  <2>1. /\ IsFiniteSet(ranked) /\ Cardinality(shown) = Cardinality(ranked)
        /\ Cardinality(ranked) <= Cardinality(Canonicals)
        /\ Arranges(m, shown, ShownFirst(shown)) /\ Arranges(v, ranked, RankedFirst(ranked))
        /\ \A i \in 1..Cardinality(ranked) : v[i].count = m[i].count
    BY <1>3, <1>6, <1>13, <1>15, <1>16
  <2> QED BY <2>1 DEF shown, ranked

\* Caches that hold the same give the same answers and the same counts.
LEMMA CachesInvAgrees == CachesInv => CachesAgree
<1> SUFFICES ASSUME CachesInv PROVE CachesAgree OBVIOUS
<1> DEFINE M == memoryCache.answers
           T == memoryCache.trending
           D == memoryCache.displays
           K == DOMAIN T
           shown == Shown(K, T, D)
           ranked == Ranked(K, T)
           m == Sorted(shown, ShownFirst(shown))
           v == Sorted(ranked, RankedFirst(ranked))
           all == Cardinality(Canonicals)
<1>1. ASSUME NEW q \in 1..2
      PROVE  /\ MemoryGetAnswer(memoryCache, q) = SqliteGetAnswer(sqliteCache, q)
             /\ cacheTtl % Second = 0 => MemoryGetAnswer(memoryCache, q) = ValkeyGetAnswer(valkeyCache, q)
  <2>1. sqliteCache.answers = {[question |-> p, answer |-> M[p].answer, expires |-> M[p].expires] : p \in DOMAIN M}
    BY DEF CachesInv, AnswersInv
  <2>2. cacheTtl % Second = 0 => valkeyCache.answers = M BY DEF CachesInv, AnswersInv
  <2>3. MemoryGetAnswer(memoryCache, q) = SqliteGetAnswer(sqliteCache, q)
    <3> DEFINE Row(p) == [question |-> p, answer |-> M[p].answer, expires |-> M[p].expires]
               found == {s \in sqliteCache.answers : s.question = q /\ ~Expired(s.expires)}
    <3>1. \A p \in DOMAIN M : Row(p).question = p /\ Row(p).answer = M[p].answer /\ Row(p).expires = M[p].expires
      OBVIOUS
    <3>2. sqliteCache.answers = {Row(p) : p \in DOMAIN M} BY <2>1
    <3>3. MemoryGetAnswer(memoryCache, q)
            = IF q \in DOMAIN M /\ ~Expired(M[q].expires) THEN {M[q].answer} ELSE {}
      BY DEF MemoryGetAnswer
    <3>4. SqliteGetAnswer(sqliteCache, q) = {r.answer : r \in found} BY DEF SqliteGetAnswer
    <3> HIDE DEF M, Row
    <3>5. CASE q \in DOMAIN M /\ ~Expired(M[q].expires)
      <4>1. found = {Row(q)} BY <3>1, <3>2, <3>5
      <4> HIDE DEF found
      <4> QED BY <3>1, <3>3, <3>4, <3>5, <4>1
    <3>6. CASE ~(q \in DOMAIN M /\ ~Expired(M[q].expires))
      <4>1. found = {} BY <3>1, <3>2, <3>6
      <4> HIDE DEF found
      <4> QED BY <3>3, <3>4, <3>6, <4>1
    <3> QED BY <3>5, <3>6
  <2>4. cacheTtl % Second = 0 => MemoryGetAnswer(memoryCache, q) = ValkeyGetAnswer(valkeyCache, q)
    BY <2>2 DEF MemoryGetAnswer, ValkeyGetAnswer
  <2> QED BY <2>3, <2>4
<1>2. /\ K \subseteq Canonicals /\ T \in [K -> Nat] /\ \A c \in K : D[c] \in DisplaysOf(c)
      /\ sqliteCache.trending = {[canonical |-> c, display |-> D[c], count |-> T[c]] : c \in K}
      /\ valkeyCache.trending = T /\ valkeyCache.displays = D
  BY DEF CachesInv, TrendingInv
<1>3. \A limit : MemoryTop(memoryCache, limit) = Limited(m, limit)
  BY DEF MemoryTop, ByCount, Shown, ShownFirst
<1>4. \A limit : MemoryTop(memoryCache, limit) = SqliteTop(sqliteCache, limit)
  <2> DEFINE Row(c) == [canonical |-> c, display |-> D[c], count |-> T[c]]
  <2>1. sqliteCache.trending = {Row(c) : c \in K} BY <1>2
  <2> DEFINE Shape(r) == [display |-> r.display, count |-> r.count]
  <2>2. \A c \in K : Shape(Row(c)) = [display |-> D[c], count |-> T[c]]
    OBVIOUS
  <2>3. {[display |-> r.display, count |-> r.count] : r \in sqliteCache.trending}
          = {[display |-> memoryCache.displays[c], count |-> memoryCache.trending[c]]
               : c \in DOMAIN memoryCache.trending}
    <3> HIDE DEF Row, Shape
    <3>1. {Shape(r) : r \in sqliteCache.trending} = {[display |-> D[c], count |-> T[c]] : c \in K}
      BY <2>1, <2>2
    <3> QED BY <3>1 DEF Shape
  <2> QED BY <2>3 DEF MemoryTop, SqliteTop
<1>5. /\ IsFiniteSet(shown) /\ IsFiniteSet(ranked) /\ Cardinality(shown) = Cardinality(ranked)
      /\ Cardinality(ranked) <= all /\ all \in Nat
      /\ Arranges(m, shown, ShownFirst(shown)) /\ Arranges(v, ranked, RankedFirst(ranked))
      /\ \A i \in 1..Cardinality(ranked) : v[i].count = m[i].count
  <2>1. PICK k, t, d : k = K /\ t = T /\ d = D OBVIOUS
  <2>2. k \subseteq Canonicals /\ t \in [k -> Nat] /\ \A c \in k : d[c] \in DisplaysOf(c) BY <1>2, <2>1
  <2>3. IsFiniteSet(Shown(k, t, d))
    <3>1. [c \in k |-> [display |-> d[c], count |-> t[c]]] \in Surjection(k, Shown(k, t, d))
      BY DEF Surjection, Shown
    <3>2. IsFiniteSet(k) BY <2>2, SpellingAssumption, FS_Subset
    <3> QED BY <3>1, <3>2, FS_Surjection
  <2>4. all \in Nat BY SpellingAssumption, FS_CardinalityType
  <2> HIDE DEF all
  <2>5. LET sh == Shown(k, t, d)
            ra == Ranked(k, t)
            a == Sorted(sh, ShownFirst(sh))
            b == Sorted(ra, RankedFirst(ra))
        IN  /\ IsFiniteSet(ra) /\ Cardinality(sh) = Cardinality(ra)
            /\ Cardinality(ra) <= Cardinality(Canonicals)
            /\ Arranges(a, sh, ShownFirst(sh)) /\ Arranges(b, ra, RankedFirst(ra))
            /\ \A i \in 1..Cardinality(ra) : b[i].count = a[i].count
    BY <2>2, TopsHaveTheSameCounts
  <2> QED BY <2>1, <2>3, <2>4, <2>5 DEF all
<1>6. \A limit : ValkeyTop(valkeyCache, limit)
        = [i \in DOMAIN Prefix(v, ValkeyLimit(limit)) |->
             [display |-> D[Prefix(v, ValkeyLimit(limit))[i].canonical],
              count |-> Prefix(v, ValkeyLimit(limit))[i].count]]
  BY <1>2 DEF ValkeyTop, Ranked, RankedFirst
<1> HIDE DEF m, v, shown, ranked, T, D, K, all
<1> DEFINE n == Cardinality(ranked)
<1>7. n \in Nat /\ all \in Nat /\ n <= all BY <1>5, FS_CardinalityType
<1> DEFINE Cut(k) == IF n > k THEN k ELSE n
<1>8. ASSUME NEW limit, NEW k \in Nat, ValkeyLimit(limit) = k
      PROVE  /\ Prefix(m, k) = [i \in 1..Cut(k) |-> m[i]]
             /\ ValkeyTop(valkeyCache, limit)
                  = [i \in 1..Cut(k) |-> [display |-> D[v[i].canonical], count |-> v[i].count]]
  <2>1. Prefix(m, k) = [i \in 1..Cut(k) |-> m[i]] /\ Prefix(v, k) = [i \in 1..Cut(k) |-> v[i]]
    BY <1>5, PrefixesShow
  <2>2. PICK p : p = Prefix(v, k) OBVIOUS
  <2> HIDE DEF Cut
  <2>3. DOMAIN p = 1..Cut(k) /\ \A i \in 1..Cut(k) : p[i] = v[i] BY <2>1, <2>2
  <2>4. ValkeyTop(valkeyCache, limit)
          = [i \in DOMAIN p |-> [display |-> D[p[i].canonical], count |-> p[i].count]]
    BY <1>6, <1>8, <2>2
  <2>5. [i \in DOMAIN p |-> [display |-> D[p[i].canonical], count |-> p[i].count]]
          = [i \in 1..Cut(k) |-> [display |-> D[v[i].canonical], count |-> v[i].count]]
    BY <2>3
  <2> QED BY <2>1, <2>4, <2>5
<1>9. ASSUME NEW limit \in Recommended
      PROVE  Counts(ValkeyTop(valkeyCache, limit))
               = Counts(MemoryTop(memoryCache, IF limit = 0 THEN DefaultTop ELSE limit))
  <2>1. PICK k \in Nat : k = (IF limit = 0 THEN DefaultTop ELSE limit) /\ k > 0 /\ ValkeyLimit(limit) = k
    BY TopAssumption DEF ValkeyLimit
  <2>2. MemoryTop(memoryCache, k) = Prefix(m, k)
    <3>1. MemoryTop(memoryCache, k) = Limited(m, k) BY <1>3
    <3> QED BY <2>1, <3>1 DEF Limited
  <2>3. /\ Prefix(m, k) = [i \in 1..Cut(k) |-> m[i]]
        /\ ValkeyTop(valkeyCache, limit)
             = [i \in 1..Cut(k) |-> [display |-> D[v[i].canonical], count |-> v[i].count]]
    BY <1>8, <2>1
  <2>4. \A i \in 1..Cut(k) : v[i].count = m[i].count
    <3>1. \A i \in 1..Cut(k) : i \in 1..n BY <1>7
    <3> QED BY <1>5, <3>1
  <2> HIDE DEF Cut
  <2>5. Counts(MemoryTop(memoryCache, k)) = [i \in 1..Cut(k) |-> m[i].count] BY <2>2, <2>3 DEF Counts
  <2>6. Counts(ValkeyTop(valkeyCache, limit)) = [i \in 1..Cut(k) |-> v[i].count] BY <2>3 DEF Counts
  <2> QED BY <2>1, <2>4, <2>5, <2>6
<1> DEFINE room == all + 1
<1>10. Items(ValkeyTop(valkeyCache, room)) = Items(MemoryTop(memoryCache, 0))
  <2>1. room \in Nat /\ ValkeyLimit(room) = room /\ Cut(room) = n BY <1>7 DEF ValkeyLimit
  <2>2. ValkeyTop(valkeyCache, room)
          = [i \in 1..Cut(room) |-> [display |-> D[v[i].canonical], count |-> v[i].count]]
    BY <1>8, <2>1
  <2> HIDE DEF Cut, room
  <2>3. Items(ValkeyTop(valkeyCache, room)) = {[display |-> D[v[i].canonical], count |-> v[i].count] : i \in 1..n}
    <3> HIDE DEF n
    <3> QED BY <2>1, <2>2 DEF Items
  <2>8. Items(MemoryTop(memoryCache, 0)) = {m[i] : i \in 1..n}
    <3>1. MemoryTop(memoryCache, 0) = m BY <1>3 DEF Limited
    <3>2. DOMAIN m = 1..n
      <4>1. m \in [1..n -> shown] BY <1>5 DEF Arranges
      <4> HIDE DEF n
      <4> QED BY <4>1
    <3> HIDE DEF n
    <3> QED BY <3>1, <3>2 DEF Items
  <2>4. {m[i] : i \in 1..n} = shown
    <3>1. m \in [1..n -> shown] /\ \A r \in shown : \E i \in 1..n : m[i] = r BY <1>5 DEF Arranges
    <3> HIDE DEF n
    <3> QED BY <3>1
  <2>5. {v[i] : i \in 1..n} = ranked
    <3>1. v \in [1..n -> ranked] /\ \A r \in ranked : \E i \in 1..n : v[i] = r BY <1>5 DEF Arranges
    <3> HIDE DEF n
    <3> QED BY <3>1
  <2>6. {[display |-> D[v[i].canonical], count |-> v[i].count] : i \in 1..n}
          = {[display |-> D[r.canonical], count |-> r.count] : r \in ranked}
    <3> HIDE DEF n
    <3> QED BY <2>5
  <2>7. {[display |-> D[r.canonical], count |-> r.count] : r \in ranked} = shown
    <3> DEFINE Rank(c) == [canonical |-> c, count |-> T[c]]
    <3>1. ranked = {Rank(c) : c \in K} BY DEF ranked, Ranked
    <3>2. shown = {[display |-> D[c], count |-> T[c]] : c \in K} BY DEF shown, Shown
    <3>3. \A c \in K : Rank(c).canonical = c /\ Rank(c).count = T[c] OBVIOUS
    <3> HIDE DEF Rank
    <3> QED BY <3>1, <3>2, <3>3
  <2> QED BY <2>3, <2>4, <2>6, <2>7, <2>8
<1> QED BY <1>1, <1>4, <1>9, <1>10 DEF CachesAgree, all, room

\* What a user gets from the answer cache and from the trending list does not
\* depend on the variant that was wired, after any calls.
THEOREM CachesAgreeHolds == FaqStoreSpec => []CachesAgree
BY CachesInvHolds, CachesInvAgrees, PTL
=============================================================================
