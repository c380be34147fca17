---------------------------- MODULE ScreenProofs ----------------------------
(***************************************************************************)
(* Screen for any items, relevance, lists, limits and bounds.              *)
(*                                                                         *)
(* Lists by key: a run of rows Fits between two cursors when the rows that *)
(* kept their place are in it once and between them, and no item that has  *)
(* been in the list all along is missing from between them.  A page fits,  *)
(* two runs that meet fit as one, and rows that moved are excused, so what *)
(* is on screen fits between the top and the cursor it ends with           *)
(* (ScreenFits) as long as what is appended starts where the first page    *)
(* ends.  That is all both properties of these lists need.                 *)
(*                                                                         *)
(* The search pages by depth instead, so what is on screen is a beginning  *)
(* of one ordered list of matches (SearchReaches) while none joins it.     *)
(***************************************************************************)
EXTENDS Screen, FiniteSetTheorems, SequenceTheorems, TLAPS

Triples == Int \X Int \X Int

-----------------------------------------------------------------------------
(* The order of a list.                                                    *)

LEMMA BeforeOrders ==
  ASSUME NEW a \in Triples, NEW b \in Triples, NEW c \in Triples
  PROVE  /\ ~ Before(a, a)
         /\ Before(a, b) /\ Before(b, c) => Before(a, c)
         /\ a[3] # b[3] => Before(a, b) \/ Before(b, a)
         /\ Before(a, b) => ~ Before(b, a)
  BY DEF Triples, Before

\* How many rows a row has above it tells it from every other, and orders them.
LEMMA AboveOrders ==
  ASSUME NEW D, IsFiniteSet(D), NEW keys \in [D -> Triples],
         \A i, j \in D : i # j => keys[i][3] # keys[j][3]
  PROVE  /\ Cardinality(D) \in Nat
         /\ \A i \in D : Cardinality(Above(keys, i)) \in 0 .. Cardinality(D) - 1
         /\ \A i, j \in D : Before(keys[i], keys[j])
                              => Cardinality(Above(keys, j)) < Cardinality(Above(keys, i))
         /\ \A i, j \in D : i # j => Cardinality(Above(keys, i)) # Cardinality(Above(keys, j))
<1>1. Cardinality(D) \in Nat
  BY FS_CardinalityType
<1>2. ASSUME NEW i \in D
      PROVE  /\ Above(keys, i) \subseteq D /\ i \notin Above(keys, i)
             /\ IsFiniteSet(Above(keys, i)) /\ Cardinality(Above(keys, i)) \in Nat
             /\ Cardinality(Above(keys, i)) < Cardinality(D)
  <2>1. Above(keys, i) \subseteq D
    BY DEF Above
  <2>2. keys[i] \in Triples
    OBVIOUS
  <2>3. i \notin Above(keys, i)
    BY <2>2, BeforeOrders DEF Above
  <2>4. /\ IsFiniteSet(Above(keys, i)) /\ Cardinality(Above(keys, i)) <= Cardinality(D)
        /\ Cardinality(D) = Cardinality(Above(keys, i)) => D = Above(keys, i)
    BY <2>1, FS_Subset
  <2>5. Cardinality(Above(keys, i)) \in Nat
    BY <2>4, FS_CardinalityType
  <2> QED BY <1>1, <2>1, <2>3, <2>4, <2>5
<1>3. ASSUME NEW i \in D, NEW j \in D, Before(keys[i], keys[j])
      PROVE  Cardinality(Above(keys, j)) < Cardinality(Above(keys, i))
  <2>1. j \in Above(keys, i) /\ j \notin Above(keys, j)
    BY <1>2, <1>3 DEF Above
  <2>2. ASSUME NEW k \in Above(keys, j) PROVE k \in Above(keys, i)
    <3>1. k \in D /\ Before(keys[j], keys[k])
      BY <2>2 DEF Above
    <3>2. keys[i] \in Triples /\ keys[j] \in Triples /\ keys[k] \in Triples
      BY <3>1
    <3>3. Before(keys[i], keys[k])
      BY <1>3, <3>1, <3>2, BeforeOrders
    <3> QED BY <3>1, <3>3 DEF Above
  <2>3. Above(keys, j) \in SUBSET Above(keys, i) /\ Above(keys, j) # Above(keys, i)
    BY <2>1, <2>2
  <2>4. IsFiniteSet(Above(keys, i))
    BY <1>2
  <2>5. /\ Cardinality(Above(keys, j)) <= Cardinality(Above(keys, i))
        /\ Cardinality(Above(keys, i)) # Cardinality(Above(keys, j))
    BY <2>3, <2>4, FS_Subset
  <2> QED BY <1>2, <2>5
<1>4. ASSUME NEW i \in D, NEW j \in D, i # j
      PROVE  Cardinality(Above(keys, i)) # Cardinality(Above(keys, j))
  <2>1. keys[i] \in Triples /\ keys[j] \in Triples /\ keys[i][3] # keys[j][3]
    BY <1>4
  <2>2. Before(keys[i], keys[j]) \/ Before(keys[j], keys[i])
    BY <2>1, BeforeOrders
  <2> QED BY <2>2, <1>2, <1>3
<1> QED BY <1>1, <1>2, <1>3, <1>4

\* The rows of D, each of them once, those that come first above.
InOrder(s, D, keys) ==
  /\ s \in Seq(D) /\ Len(s) \in Nat /\ Len(s) = Cardinality(D)
  /\ \A n \in 1 .. Len(s) : s[n] \in D /\ Cardinality(Above(keys, s[n])) = n - 1
  /\ \A i \in D : \E n \in 1 .. Len(s) : s[n] = i
  /\ \A m, n \in 1 .. Len(s) : m < n => Before(keys[s[n]], keys[s[m]]) /\ s[m] # s[n]

Keyed(D, keys) ==
  /\ keys \in [D -> Triples]
  /\ \A i, j \in D : i # j => keys[i][3] # keys[j][3]

\* A ranking has every row in order.
LEMMA RankedOrders ==
  ASSUME NEW D, IsFiniteSet(D), NEW keys, Keyed(D, keys)
  PROVE  InOrder(Ranked(keys), D, keys)
<1> DEFINE C == Cardinality(D)
           R == [i \in D |-> Cardinality(Above(keys, i))]
           s == Ranked(keys)
<1>0. /\ keys \in [D -> Triples]
      /\ \A i, j \in D : i # j => keys[i][3] # keys[j][3]
  BY DEF Keyed
<1>1. /\ C \in Nat
      /\ \A i \in D : R[i] \in 0 .. C - 1 /\ R[i] = Cardinality(Above(keys, i))
      /\ \A i, j \in D : Before(keys[i], keys[j]) => R[j] < R[i]
      /\ \A i, j \in D : i # j => R[i] # R[j]
  BY <1>0, AboveOrders
<1>2. R \in [D -> 0 .. C - 1]
  BY <1>1
<1>3. R \in Injection(D, 0 .. C - 1)
  BY <1>1, <1>2 DEF Injection, IsInjective
<1>4. IsFiniteSet(0 .. C - 1) /\ Cardinality(0 .. C - 1) = C
  BY <1>1, FS_Interval
<1>5. R \in Surjection(D, 0 .. C - 1)
  BY <1>3, <1>4, FS_Injection
<1>6. \A k \in 0 .. C - 1 : \E i \in D : R[i] = k
  BY <1>5 DEF Surjection
<1>7. DOMAIN keys = D
  BY <1>0
<1>8. s = [n \in 1 .. C |-> CHOOSE i \in D : Cardinality(Above(keys, i)) = n - 1]
  BY <1>7 DEF Ranked
<1>9. ASSUME NEW n \in 1 .. C
      PROVE  s[n] \in D /\ R[s[n]] = n - 1
  <2>1. n - 1 \in 0 .. C - 1
    BY <1>1
  <2>2. PICK i \in D : R[i] = n - 1
    BY <1>6, <2>1
  <2>3. Cardinality(Above(keys, i)) = n - 1
    BY <1>1, <2>2
  <2>4. s[n] = CHOOSE j \in D : Cardinality(Above(keys, j)) = n - 1
    BY <1>8
  <2>5. s[n] \in D /\ Cardinality(Above(keys, s[n])) = n - 1
    BY <2>3, <2>4
  <2> QED BY <1>1, <2>5
<1>10. s \in Seq(D) /\ Len(s) = C
  <2>1. s \in [1 .. C -> D]
    BY <1>8, <1>9
  <2> QED BY <1>1, <2>1
<1> HIDE DEF C, R, s
<1>11. ASSUME NEW i \in D PROVE \E n \in 1 .. C : s[n] = i
  <2>1. R[i] + 1 \in 1 .. C
    BY <1>1
  <2>2. s[R[i] + 1] \in D /\ R[s[R[i] + 1]] = R[i]
    BY <1>1, <1>9, <2>1
  <2> QED BY <1>1, <2>1, <2>2
<1>12. ASSUME NEW m \in 1 .. C, NEW n \in 1 .. C, m < n
       PROVE  Before(keys[s[n]], keys[s[m]]) /\ s[m] # s[n]
  <2>1. s[m] \in D /\ s[n] \in D /\ R[s[m]] < R[s[n]]
    BY <1>9, <1>12
  <2>2. s[m] # s[n]
    BY <1>1, <2>1
  <2>3. keys[s[m]] \in Triples /\ keys[s[n]] \in Triples /\ keys[s[n]][3] # keys[s[m]][3]
    BY <1>0, <2>1, <2>2
  <2>4. ~ Before(keys[s[m]], keys[s[n]])
    BY <1>1, <2>1
  <2> QED BY <2>2, <2>3, <2>4, BeforeOrders
<1>13. \A n \in 1 .. C : Cardinality(Above(keys, s[n])) = n - 1
  BY <1>1, <1>9
<1>14. Cardinality(D) = C
  BY DEF C
<1>15. InOrder(s, D, keys)
  BY <1>1, <1>9, <1>10, <1>11, <1>12, <1>13, <1>14 DEF InOrder
<1> QED BY <1>15 DEF s
-----------------------------------------------------------------------------
(* A page.                                                                 *)

RowsTyped ==
  /\ now \in Nat /\ Held \subseteq Ids
  /\ \A i \in Held : rows[i] \in [seen : Nat, published : Int]

LEMMA CursorsDiffer ==
  ASSUME NEW c \in Triples
  PROVE  c # Top /\ c # End
  BY DEF Triples, Top, End

LEMMA ListedHeld ==
  ASSUME RowsTyped, NEW l
  PROVE  Listed(l) \subseteq Held /\ IsFiniteSet(Held) /\ Held \subseteq Nat
  BY RiverAssumption, FS_Subset DEF Listed, RowsTyped

\* The key of a row ends with its id, and a list by key cuts on the key it is sorted by.
LEMMA KeysTyped ==
  ASSUME RowsTyped, NEW l \in Lists, NEW i \in Held
  PROVE  /\ Keys(l, i) \in Triples /\ Keys(l, i)[3] = i
         /\ l # "search" => Values(l, i) = Keys(l, i)
<1>1. i \in Nat /\ SlowestPoll \in Nat /\ Relevance[i] \in Nat
  BY RiverAssumption DEF RowsTyped
<1>2. rows[i].seen \in Int /\ rows[i].published \in Int
  BY DEF RowsTyped
<1>3. Dated(i) \in Int /\ Placed(i) \in Int
  BY <1>1, <1>2 DEF Dated, Placed, Larger
<1>4. CASE l \in {"river", "section"}
  <2>1. Keys(l, i) = <<Placed(i), rows[i].seen, i>>
    BY <1>4 DEF Keys
  <2>2. Values(l, i) = Keys(l, i)
    BY <1>4, <2>1 DEF Values, Placed, Dated
  <2> QED BY <1>1, <1>2, <1>3, <2>1, <2>2 DEF Triples
<1>5. CASE l = "archive"
  <2>1. Keys(l, i) = <<Dated(i), rows[i].seen, i>>
    BY <1>5 DEF Keys
  <2>2. Values(l, i) = Keys(l, i)
    BY <1>5, <2>1 DEF Values, Dated
  <2> QED BY <1>1, <1>2, <1>3, <2>1, <2>2 DEF Triples
<1>6. CASE l = "search"
  <2>1. Keys(l, i) = <<Relevance[i], rows[i].seen, i>>
    BY <1>6 DEF Keys
  <2> QED BY <1>1, <1>2, <1>6, <2>1 DEF Triples
<1> QED BY <1>4, <1>5, <1>6 DEF Lists

\* Some items of a list in order: each of them once, by key.
LEMMA OrderedRows ==
  ASSUME RowsTyped, NEW l \in Lists, NEW S, S \subseteq Held
  PROVE  /\ InOrder(Ordered(l, S), S, KeysOf(l, S))
         /\ \A i \in S : KeysOf(l, S)[i] = Keys(l, i) /\ Keys(l, i) \in Triples
<1>1. IsFiniteSet(S)
  BY ListedHeld, FS_Subset
<1>2. \A i \in S : Keys(l, i) \in Triples /\ Keys(l, i)[3] = i
  BY KeysTyped
<1>3. Keyed(S, KeysOf(l, S))
  BY <1>2 DEF Keyed, KeysOf
<1>4. InOrder(Ranked(KeysOf(l, S)), S, KeysOf(l, S))
  BY <1>1, <1>3, RankedOrders
<1> QED BY <1>2, <1>4 DEF Ordered, KeysOf

\* The keys a page stands for: below where it was asked from, not below where it ends.
Within(k, after, cursor) ==
  /\ after = Top \/ Before(k, after)
  /\ cursor = End \/ ~ Before(k, cursor)

\* A page is the rows of the list within it, each once.
LEMMA PageCuts ==
  ASSUME RowsTyped, NEW l \in Lists \ {"search"}, NEW after, after = Top \/ after \in Triples,
         NEW L, L = Page(l, after)
  PROVE  /\ L.entries \in Seq(Listed(l)) /\ Len(L.entries) <= Limit
         /\ L.cursor \in Triples \cup {End}
         /\ L.cursor # End => L.entries # <<>> /\ (after = Top \/ Before(L.cursor, after))
         /\ \A m, n \in DOMAIN L.entries : m # n => L.entries[m] # L.entries[n]
         /\ \A n \in DOMAIN L.entries : Within(Keys(l, L.entries[n]), after, L.cursor)
         /\ \A i \in Listed(l) : Within(Keys(l, i), after, L.cursor)
                                   => \E n \in DOMAIN L.entries : L.entries[n] = i
<1> DEFINE S == {i \in Listed(l) : after = Top \/ Before(Keys(l, i), after)}
<1>1. S \subseteq Held /\ S \subseteq Listed(l)
  BY ListedHeld
<1>2. PICK s : s = Ordered(l, S)
  OBVIOUS
<1>3. PICK k : k = Smaller(Limit, Len(s))
  OBVIOUS
<1>4. PICK e : e = SubSeq(s, 1, k)
  OBVIOUS
<1>5. L = [entries |-> e, cursor |-> IF Len(s) > Limit THEN Values(l, Last(e)) ELSE End]
  BY <1>2, <1>3, <1>4 DEF Page
<1>6. L.entries = e /\ L.cursor = IF Len(s) > Limit THEN Values(l, Last(e)) ELSE End
  BY <1>5
<1>7. \A i \in S : i \in Listed(l) /\ (after = Top \/ Before(Keys(l, i), after))
  OBVIOUS
<1>8. \A i \in Listed(l) : (after = Top \/ Before(Keys(l, i), after)) => i \in S
  OBVIOUS
<1> HIDE DEF S
<1>9. /\ s \in Seq(S) /\ Len(s) \in Nat
      /\ \A n \in 1 .. Len(s) : s[n] \in S
      /\ \A i \in S : \E n \in 1 .. Len(s) : s[n] = i
      /\ \A m, n \in 1 .. Len(s) :
           m < n => Before(Keys(l, s[n]), Keys(l, s[m])) /\ s[m] # s[n]
  <2>1. /\ InOrder(s, S, KeysOf(l, S))
        /\ \A i \in S : KeysOf(l, S)[i] = Keys(l, i)
    BY <1>1, <1>2, OrderedRows
  <2> QED BY <2>1 DEF InOrder
<1>10. Limit \in Nat /\ Limit > 0
  BY RiverAssumption
<1>11. k \in 0 .. Len(s) /\ k <= Limit /\ (k < Len(s) => k = Limit) /\ (Len(s) > Limit => k = Limit)
  BY <1>3, <1>9, <1>10 DEF Smaller
<1>12. \A n \in 1 .. k : s[n] \in Listed(l)
  BY <1>1, <1>9, <1>11
<1>13. e \in Seq(Listed(l)) /\ Len(e) = k /\ DOMAIN e = 1 .. k /\ \A n \in 1 .. k : e[n] = s[n]
  <2>1. 1 \in Int /\ k \in Int
    BY <1>11
  <2>2. /\ e \in Seq(Listed(l)) /\ Len(e) = IF 1 <= k THEN k - 1 + 1 ELSE 0
        /\ \A n \in 1 .. k - 1 + 1 : e[n] = s[1 + n - 1]
    BY <2>1, <1>4, <1>12, SubSeqProperties
  <2>3. Len(e) = k
    BY <1>11, <2>2
  <2>4. DOMAIN e = 1 .. k
    BY <2>2, <2>3
  <2>5. \A n \in 1 .. k : e[n] = s[n]
    BY <1>11, <2>2
  <2> QED BY <2>2, <2>3, <2>4, <2>5
<1>14. \A n \in 1 .. Len(s) : Keys(l, s[n]) \in Triples
  BY <1>1, <1>9, KeysTyped
<1>15. ASSUME NEW m \in 1 .. k, NEW n \in 1 .. k, m # n PROVE e[m] # e[n]
  <2>1. m \in 1 .. Len(s) /\ n \in 1 .. Len(s) /\ (m < n \/ n < m)
    BY <1>11, <1>15
  <2> QED BY <1>9, <1>13, <1>15, <2>1
<1>16. CASE Len(s) > Limit
  <2>1. k = Limit /\ k \in 1 .. Len(s)
    BY <1>10, <1>11, <1>16
  <2>2. Last(e) = s[k]
    BY <1>13, <2>1 DEF Last
  <2>3. s[k] \in Held
    BY <1>1, <1>9, <2>1
  <2>4. L.cursor = Keys(l, s[k])
    BY <1>6, <1>16, <2>2, <2>3, KeysTyped
  <2>5. L.cursor \in Triples /\ L.cursor # End
    BY <1>14, <2>1, <2>4, CursorsDiffer
  <2>6. e # <<>>
    BY <1>13, <2>1
  <2>7. after = Top \/ Before(L.cursor, after)
    BY <1>7, <1>9, <2>1, <2>4
  <2>8. ASSUME NEW n \in 1 .. k PROVE Within(Keys(l, e[n]), after, L.cursor)
    <3>1. n \in 1 .. Len(s) /\ e[n] = s[n] /\ s[n] \in S
      BY <1>9, <1>11, <1>13
    <3>2. after = Top \/ Before(Keys(l, e[n]), after)
      BY <1>7, <3>1
    <3>3. CASE n = k
      <4>1. ~ Before(Keys(l, e[n]), L.cursor)
        BY <1>14, <2>4, <3>1, <3>3, BeforeOrders
      <4> QED BY <3>2, <4>1 DEF Within
    <3>4. CASE n < k
      <4>1. Before(L.cursor, Keys(l, e[n]))
        BY <1>9, <2>1, <2>4, <3>1, <3>4
      <4>2. ~ Before(Keys(l, e[n]), L.cursor)
        BY <1>14, <2>5, <3>1, <4>1, BeforeOrders
      <4> QED BY <3>2, <4>2 DEF Within
    <3> QED BY <3>3, <3>4, <2>1
  <2>9. ASSUME NEW i \in Listed(l), Within(Keys(l, i), after, L.cursor)
        PROVE  \E n \in 1 .. k : e[n] = i
    <3>1. i \in S /\ ~ Before(Keys(l, i), L.cursor)
      BY <1>8, <2>5, <2>9 DEF Within
    <3>2. PICK n \in 1 .. Len(s) : s[n] = i
      BY <1>9, <3>1
    <3>3. ASSUME k < n PROVE FALSE
      <4>1. Before(Keys(l, s[n]), Keys(l, s[k]))
        BY <1>9, <2>1, <3>2, <3>3
      <4> QED BY <2>4, <3>1, <3>2, <4>1
    <3>4. n \in 1 .. k
      BY <1>9, <1>11, <3>3
    <3> QED BY <1>13, <3>2, <3>4
  <2> QED BY <1>6, <1>11, <1>13, <1>15, <2>5, <2>6, <2>7, <2>8, <2>9
<1>17. CASE ~ (Len(s) > Limit)
  <2>1. k = Len(s) /\ L.cursor = End
    BY <1>6, <1>9, <1>10, <1>11, <1>17
  <2>2. ASSUME NEW n \in 1 .. k PROVE Within(Keys(l, e[n]), after, L.cursor)
    BY <1>7, <1>9, <1>13, <2>1 DEF Within
  <2>3. ASSUME NEW i \in Listed(l), Within(Keys(l, i), after, L.cursor)
        PROVE  \E n \in 1 .. k : e[n] = i
    <3>1. i \in S
      BY <1>8, <2>3 DEF Within
    <3> QED BY <1>9, <1>13, <2>1, <3>1
  <2> QED BY <1>6, <1>11, <1>13, <1>15, <2>1, <2>2, <2>3
<1> QED BY <1>16, <1>17
\* What a listing asked for at `after` still owes the reader: the rows that kept their place
\* once each and within it, and every item that has been in the list all along within it.
Fits(L, after) ==
  /\ L.cursor \in Triples \cup {End}
  /\ L.cursor # End => after = Top \/ Before(L.cursor, after)
  /\ \A m, n \in DOMAIN L.entries :
       m # n /\ L.entries[m] = L.entries[n] => L.entries[m] \in moved
  /\ \A n \in DOMAIN L.entries :
       L.entries[n] \notin moved => Within(Keys(list, L.entries[n]), after, L.cursor)
  /\ \A i \in steady : Within(Keys(list, i), after, L.cursor)
                         => \E n \in DOMAIN L.entries : L.entries[n] = i

LEMMA Joining ==
  ASSUME NEW S, NEW p \in Seq(S), NEW q \in Seq(S)
  PROVE  /\ p \o q \in Seq(S)
         /\ DOMAIN (p \o q) = 1 .. Len(p) + Len(q)
         /\ DOMAIN p = 1 .. Len(p) /\ DOMAIN q = 1 .. Len(q) /\ Len(p) \in Nat /\ Len(q) \in Nat
         /\ \A n \in DOMAIN p : n \in DOMAIN (p \o q) /\ (p \o q)[n] = p[n]
         /\ \A n \in DOMAIN q : Len(p) + n \in DOMAIN (p \o q) /\ (p \o q)[Len(p) + n] = q[n]
         /\ \A n \in DOMAIN (p \o q) :
              \/ n \in DOMAIN p /\ (p \o q)[n] = p[n]
              \/ n - Len(p) \in DOMAIN q /\ (p \o q)[n] = q[n - Len(p)]
<1>1. /\ p \o q \in Seq(S) /\ Len(p \o q) = Len(p) + Len(q)
      /\ \A i \in 1 .. Len(p) + Len(q) : (p \o q)[i] = IF i <= Len(p) THEN p[i] ELSE q[i - Len(p)]
  BY ConcatProperties
<1>2. /\ DOMAIN p = 1 .. Len(p) /\ DOMAIN q = 1 .. Len(q) /\ Len(p) \in Nat /\ Len(q) \in Nat
      /\ DOMAIN (p \o q) = 1 .. Len(p) + Len(q)
  BY <1>1
<1> QED BY <1>1, <1>2

\* Two listings, the second asked for where the first ends, are one.
LEMMA Joined ==
  ASSUME RowsTyped, list \in Lists, steady \subseteq Held,
         NEW after, after = Top \/ after \in Triples,
         NEW L, Fits(L, after), L.entries \in Seq(Held), L.cursor \in Triples,
         NEW M, Fits(M, L.cursor), M.entries \in Seq(Held),
         NEW N, N.entries = L.entries \o M.entries, N.cursor = M.cursor
  PROVE  Fits(N, after) /\ N.entries \in Seq(Held)
<1> DEFINE p == L.entries
           q == M.entries
           r == N.entries
           c == L.cursor
           d == M.cursor
<1>1. /\ c # Top /\ c # End /\ c \in Triples
  BY CursorsDiffer
<1>2. /\ after = Top \/ Before(c, after)
      /\ \A m, n \in DOMAIN p : m # n /\ p[m] = p[n] => p[m] \in moved
      /\ \A n \in DOMAIN p : p[n] \notin moved => Within(Keys(list, p[n]), after, c)
      /\ \A i \in steady : Within(Keys(list, i), after, c) => \E n \in DOMAIN p : p[n] = i
  BY <1>1 DEF Fits
<1>3. /\ d \in Triples \cup {End} /\ (d # End => Before(d, c))
      /\ \A m, n \in DOMAIN q : m # n /\ q[m] = q[n] => q[m] \in moved
      /\ \A n \in DOMAIN q : q[n] \notin moved => Within(Keys(list, q[n]), c, d)
      /\ \A i \in steady : Within(Keys(list, i), c, d) => \E n \in DOMAIN q : q[n] = i
  BY <1>1 DEF Fits
<1>4. r = p \o q /\ N.cursor = d
  OBVIOUS
<1>5. p \in Seq(Held) /\ q \in Seq(Held)
  OBVIOUS
<1> HIDE DEF p, q, r, c, d
<1>6. /\ r \in Seq(Held)
      /\ \A n \in DOMAIN p : n \in DOMAIN r /\ r[n] = p[n]
      /\ \A n \in DOMAIN q : Len(p) + n \in DOMAIN r /\ r[Len(p) + n] = q[n]
      /\ \A n \in DOMAIN r :
           \/ n \in DOMAIN p /\ r[n] = p[n]
           \/ n - Len(p) \in DOMAIN q /\ r[n] = q[n - Len(p)]
  BY <1>4, <1>5, Joining
<1>7. \A n \in DOMAIN p : p[n] \in Held
  BY <1>5
<1>8. \A n \in DOMAIN q : q[n] \in Held
  BY <1>5
<1>9. \A i \in Held : Keys(list, i) \in Triples
  BY KeysTyped
<1>10. d # End => after = Top \/ Before(d, after)
  BY <1>1, <1>2, <1>3, BeforeOrders
<1>11. ASSUME NEW k \in Triples, Within(k, after, c) PROVE Within(k, after, d)
  <2>1. (after = Top \/ Before(k, after)) /\ ~ Before(k, c)
    BY <1>1, <1>11 DEF Within
  <2>2. d = End \/ ~ Before(k, d)
    BY <1>1, <1>3, <2>1, BeforeOrders
  <2> QED BY <2>1, <2>2 DEF Within
<1>12. ASSUME NEW k \in Triples, Within(k, c, d) PROVE Within(k, after, d) /\ Before(k, c)
  <2>1. Before(k, c) /\ (d = End \/ ~ Before(k, d))
    BY <1>1, <1>12 DEF Within
  <2>2. after = Top \/ Before(k, after)
    BY <1>1, <1>2, <2>1, BeforeOrders
  <2> QED BY <2>1, <2>2 DEF Within
<1>13. ASSUME NEW k \in Triples, Within(k, after, d)
       PROVE  Within(k, after, c) \/ Within(k, c, d)
  BY <1>1, <1>13 DEF Within
<1>14. ASSUME NEW n \in DOMAIN p, p[n] \notin moved PROVE ~ Before(Keys(list, p[n]), c)
  BY <1>1, <1>2, <1>14 DEF Within
<1>15. ASSUME NEW n \in DOMAIN q, q[n] \notin moved PROVE Before(Keys(list, q[n]), c)
  BY <1>1, <1>3, <1>15 DEF Within
<1>16. ASSUME NEW m \in DOMAIN r, NEW n \in DOMAIN r, m # n, r[m] = r[n], r[m] \notin moved
       PROVE  FALSE
  <2>1. CASE m \in DOMAIN p /\ r[m] = p[m] /\ n \in DOMAIN p /\ r[n] = p[n]
    BY <1>2, <1>16, <2>1
  <2>2. CASE m \in DOMAIN p /\ r[m] = p[m] /\ n - Len(p) \in DOMAIN q /\ r[n] = q[n - Len(p)]
    <3>1. ~ Before(Keys(list, r[m]), c)
      BY <1>14, <1>16, <2>2
    <3>2. Before(Keys(list, r[n]), c)
      BY <1>15, <1>16, <2>2
    <3> QED BY <1>16, <3>1, <3>2
  <2>3. CASE m - Len(p) \in DOMAIN q /\ r[m] = q[m - Len(p)] /\ n \in DOMAIN p /\ r[n] = p[n]
    <3>1. ~ Before(Keys(list, r[n]), c)
      BY <1>14, <1>16, <2>3
    <3>2. Before(Keys(list, r[m]), c)
      BY <1>15, <1>16, <2>3
    <3> QED BY <1>16, <3>1, <3>2
  <2>4. CASE /\ m - Len(p) \in DOMAIN q /\ r[m] = q[m - Len(p)]
             /\ n - Len(p) \in DOMAIN q /\ r[n] = q[n - Len(p)]
    <3>1. m \in Int /\ n \in Int /\ Len(p) \in Nat
      BY <1>5, <1>6
    <3>2. m - Len(p) # n - Len(p)
      BY <1>16, <3>1
    <3>3. q[m - Len(p)] = q[n - Len(p)] /\ q[m - Len(p)] \notin moved
      BY <1>16, <2>4
    <3> QED BY <1>3, <2>4, <3>2, <3>3
  <2> QED BY <1>6, <2>1, <2>2, <2>3, <2>4
<1>17. ASSUME NEW n \in DOMAIN r, r[n] \notin moved
       PROVE  Within(Keys(list, r[n]), after, d)
  <2>1. CASE n \in DOMAIN p /\ r[n] = p[n]
    BY <1>2, <1>7, <1>9, <1>11, <1>17, <2>1
  <2>2. CASE n - Len(p) \in DOMAIN q /\ r[n] = q[n - Len(p)]
    BY <1>3, <1>8, <1>9, <1>12, <1>17, <2>2
  <2> QED BY <1>6, <2>1, <2>2
<1>18. ASSUME NEW i \in steady, Within(Keys(list, i), after, d)
       PROVE  \E n \in DOMAIN r : r[n] = i
  <2>1. Keys(list, i) \in Triples
    BY <1>9
  <2>2. CASE Within(Keys(list, i), after, c)
    <3>1. PICK n \in DOMAIN p : p[n] = i
      BY <1>2, <2>2
    <3> QED BY <1>6, <3>1
  <2>3. CASE Within(Keys(list, i), c, d)
    <3>1. PICK n \in DOMAIN q : q[n] = i
      BY <1>3, <2>3
    <3> QED BY <1>6, <3>1
  <2> QED BY <1>13, <1>18, <2>1, <2>2, <2>3
<1>19. Fits(N, after)
  BY <1>3, <1>4, <1>10, <1>16, <1>17, <1>18 DEF Fits, r
<1> QED BY <1>6, <1>19 DEF r
-----------------------------------------------------------------------------
(* A search, by depth.                                                     *)

Depths == {<<d>> : d \in Nat}
Matches == Ordered("search", Listed("search"))

\* What is on screen is what matches best, down to where the next page begins.
Reached(entries, cursor) ==
  \E to \in Nat :
    /\ entries = SubSeq(Matches, 1, Smaller(to, Len(Matches)))
    /\ cursor = IF Len(Matches) > to /\ to <= MaxDepth THEN <<to>> ELSE End

LEMMA DepthsDiffer ==
  ASSUME NEW d \in Nat
  PROVE  <<d>> # Top /\ <<d>> # End /\ <<d>> \in Depths /\ <<d>>[1] = d
  BY DEF Depths, Top, End

LEMMA MatchesInOrder ==
  ASSUME RowsTyped
  PROVE  /\ Matches \in Seq(Listed("search")) /\ Len(Matches) \in Nat
         /\ Listed("search") \subseteq Held
         /\ \A n \in 1 .. Len(Matches) :
              /\ Matches[n] \in Listed("search")
              /\ Cardinality(Above(KeysOf("search", Listed("search")), Matches[n])) = n - 1
         /\ \A i \in Listed("search") : \E n \in 1 .. Len(Matches) : Matches[n] = i
         /\ \A m, n \in 1 .. Len(Matches) : m < n => Matches[m] # Matches[n]
<1>1. Listed("search") \subseteq Held /\ "search" \in Lists
  BY ListedHeld DEF Lists
<1>2. InOrder(Matches, Listed("search"), KeysOf("search", Listed("search")))
  BY <1>1, OrderedRows DEF Matches
<1> QED BY <1>1, <1>2 DEF InOrder

LEMMA DeepCuts ==
  ASSUME RowsTyped, NEW d \in Nat, NEW after, after = <<d>> \/ (after = Top /\ d = 0)
  PROVE  /\ Deep(after).entries = SubSeq(Matches, d + 1, Smaller(d + Limit, Len(Matches)))
         /\ Deep(after).cursor = IF Len(Matches) > d + Limit /\ d + Limit <= MaxDepth
                                 THEN <<d + Limit>> ELSE End
<1>1. (IF after = Top THEN 0 ELSE after[1]) = d
  BY DepthsDiffer
<1> QED BY <1>1 DEF Deep, Matches

LEMMA DeepListing ==
  ASSUME RowsTyped, NEW after, after = Top \/ after \in Depths
  PROVE  IsListing(Deep(after)) /\ Deep(after).cursor \in Depths \cup {End}
<1>1. PICK d \in Nat : after = <<d>> \/ (after = Top /\ d = 0)
  BY DEF Depths
<1>2. PICK F : F = Matches
  OBVIOUS
<1>3. PICK k : k = Smaller(d + Limit, Len(F))
  OBVIOUS
<1>4. /\ F \in Seq(Listed("search")) /\ Len(F) \in Nat /\ Listed("search") \subseteq Held
      /\ \A n \in 1 .. Len(F) : F[n] \in Listed("search")
  BY <1>2, MatchesInOrder
<1>5. Limit \in Nat /\ Limit > 0
  BY RiverAssumption
<1>6. k \in Nat /\ k <= Len(F) /\ k <= d + Limit /\ (Len(F) > d + Limit => k = d + Limit)
  BY <1>3, <1>4, <1>5 DEF Smaller
<1>7. /\ Deep(after).entries = SubSeq(F, d + 1, k)
      /\ Deep(after).cursor = IF Len(F) > d + Limit /\ d + Limit <= MaxDepth
                              THEN <<d + Limit>> ELSE End
  BY <1>1, <1>2, <1>3, DeepCuts
<1>8. \A n \in d + 1 .. k : F[n] \in Held
  BY <1>4, <1>6
<1>9. /\ SubSeq(F, d + 1, k) \in Seq(Held)
      /\ Len(SubSeq(F, d + 1, k)) = IF d + 1 <= k THEN k - (d + 1) + 1 ELSE 0
  <2>1. d + 1 \in Int /\ k \in Int
    BY <1>6
  <2> QED BY <1>8, <2>1, SubSeqProperties
<1>10. Len(SubSeq(F, d + 1, k)) <= Limit
  BY <1>5, <1>6, <1>9
<1>11. Deep(after).cursor # End => SubSeq(F, d + 1, k) # <<>>
  BY <1>5, <1>6, <1>7, <1>9
<1>12. Deep(after).cursor \in Depths \cup {End}
  BY <1>5, <1>7 DEF Depths
<1> QED BY <1>7, <1>9, <1>10, <1>11, <1>12 DEF IsListing

LEMMA DeepReaches ==
  ASSUME RowsTyped
  PROVE  Reached(Deep(Top).entries, Deep(Top).cursor)
<1>1. Limit \in Nat /\ 0 + 1 = 1 /\ 0 + Limit = Limit
  BY RiverAssumption
<1>2. /\ Deep(Top).entries = SubSeq(Matches, 0 + 1, Smaller(0 + Limit, Len(Matches)))
      /\ Deep(Top).cursor = IF Len(Matches) > 0 + Limit /\ 0 + Limit <= MaxDepth
                            THEN <<0 + Limit>> ELSE End
  BY DeepCuts
<1>3. /\ Deep(Top).entries = SubSeq(Matches, 1, Smaller(Limit, Len(Matches)))
      /\ Deep(Top).cursor = IF Len(Matches) > Limit /\ Limit <= MaxDepth
                            THEN <<Limit>> ELSE End
  BY <1>1, <1>2
<1> QED BY <1>1, <1>3 DEF Reached

LEMMA DeepJoins ==
  ASSUME RowsTyped, NEW e, NEW c, Reached(e, c), c # End
  PROVE  c \in Depths /\ Reached(e \o Deep(c).entries, Deep(c).cursor)
<1>1. PICK F : F = Matches
  OBVIOUS
<1>2. PICK d \in Nat : /\ e = SubSeq(F, 1, Smaller(d, Len(F)))
                       /\ c = IF Len(F) > d /\ d <= MaxDepth THEN <<d>> ELSE End
  BY <1>1 DEF Reached
<1>3. c = <<d>> /\ Len(F) > d
  BY <1>2
<1>4. F \in Seq(Listed("search")) /\ Len(F) \in Nat
  BY <1>1, MatchesInOrder
<1>5. Limit \in Nat
  BY RiverAssumption
<1>6. PICK k : k = Smaller(d + Limit, Len(F))
  OBVIOUS
<1>7. k \in d .. Len(F) /\ Smaller(d, Len(F)) = d
  BY <1>3, <1>4, <1>5, <1>6 DEF Smaller
<1>8. /\ Deep(c).entries = SubSeq(F, d + 1, k)
      /\ Deep(c).cursor = IF Len(F) > d + Limit /\ d + Limit <= MaxDepth
                          THEN <<d + Limit>> ELSE End
  BY <1>1, <1>3, <1>6, DeepCuts
<1>9. e \o Deep(c).entries = SubSeq(F, 1, k)
  <2>1. 1 \in 1 .. Len(F) + 1 /\ d \in 1 - 1 .. Len(F) /\ k \in d .. Len(F)
    BY <1>3, <1>4, <1>7
  <2>2. SubSeq(F, 1, d) \o SubSeq(F, d + 1, k) = SubSeq(F, 1, k)
    BY <1>4, <2>1, ConcatAdjacentSubSeq
  <2> QED BY <1>2, <1>7, <1>8, <2>2
<1>10. d + Limit \in Nat
  BY <1>5
<1> QED BY <1>1, <1>3, <1>6, <1>8, <1>9, <1>10, DepthsDiffer DEF Reached

LEMMA ReachedWhole ==
  ASSUME RowsTyped, NEW e, NEW c, Reached(e, c)
  PROVE  /\ \A m, n \in DOMAIN e : m # n => e[m] # e[n]
         /\ c = End => \A i \in Listed("search") :
              \/ \E n \in DOMAIN e : e[n] = i
              \/ Cardinality(Above(KeysOf("search", Listed("search")), i)) > MaxDepth
<1>1. PICK F : F = Matches
  OBVIOUS
<1>2. PICK d \in Nat : /\ e = SubSeq(F, 1, Smaller(d, Len(F)))
                       /\ c = IF Len(F) > d /\ d <= MaxDepth THEN <<d>> ELSE End
  BY <1>1 DEF Reached
<1>3. PICK k : k = Smaller(d, Len(F))
  OBVIOUS
<1>4. /\ F \in Seq(Listed("search")) /\ Len(F) \in Nat
      /\ \A n \in 1 .. Len(F) :
           /\ F[n] \in Listed("search")
           /\ Cardinality(Above(KeysOf("search", Listed("search")), F[n])) = n - 1
      /\ \A i \in Listed("search") : \E n \in 1 .. Len(F) : F[n] = i
      /\ \A m, n \in 1 .. Len(F) : m < n => F[m] # F[n]
  BY <1>1, MatchesInOrder
<1>5. k \in 0 .. Len(F) /\ (k < Len(F) => k = d) /\ (d < Len(F) => k = d)
  BY <1>3, <1>4 DEF Smaller
<1>6. DOMAIN e = 1 .. k /\ \A n \in 1 .. k : e[n] = F[n]
  <2>1. 1 \in Int /\ k \in Int /\ \A n \in 1 .. k : F[n] \in Held \cup Listed("search")
    BY <1>4, <1>5
  <2>2. /\ e \in Seq(Held \cup Listed("search"))
        /\ Len(e) = IF 1 <= k THEN k - 1 + 1 ELSE 0
        /\ \A n \in 1 .. k - 1 + 1 : e[n] = F[1 + n - 1]
    BY <1>2, <1>3, <2>1, SubSeqProperties
  <2>3. Len(e) = k
    BY <1>5, <2>2
  <2>4. DOMAIN e = 1 .. k
    BY <2>2, <2>3
  <2>5. \A n \in 1 .. k : e[n] = F[n]
    BY <1>5, <2>2
  <2> QED BY <2>4, <2>5
<1>7. ASSUME NEW m \in DOMAIN e, NEW n \in DOMAIN e, m # n PROVE e[m] # e[n]
  <2>1. m \in 1 .. Len(F) /\ n \in 1 .. Len(F) /\ (m < n \/ n < m)
    BY <1>5, <1>6, <1>7
  <2> QED BY <1>4, <1>6, <2>1
<1>8. ASSUME c = End, NEW i \in Listed("search"), ~ \E n \in DOMAIN e : e[n] = i
      PROVE  Cardinality(Above(KeysOf("search", Listed("search")), i)) > MaxDepth
  <2>1. PICK n \in 1 .. Len(F) : F[n] = i
    BY <1>4
  <2>2. n \notin 1 .. k
    BY <1>6, <1>8, <2>1
  <2>3. k = d /\ Len(F) > d /\ n > d
    BY <1>5, <2>2
  <2>4. ~ (d <= MaxDepth)
    BY <1>2, <1>8, <2>3, DepthsDiffer
  <2>5. MaxDepth \in Nat
    BY RiverAssumption
  <2>6. Cardinality(Above(KeysOf("search", Listed("search")), i)) = n - 1
    BY <1>4, <2>1
  <2> QED BY <2>3, <2>4, <2>5, <2>6
<1> QED BY <1>7, <1>8
-----------------------------------------------------------------------------
(* Types.                                                                  *)

Ends(l) == {End} \cup (IF l = "search" THEN Depths ELSE Triples)

Typed ==
  /\ RowsTyped /\ list \in Lists /\ view \in Nat
  /\ IsListing(page) /\ page.cursor \in Ends(list)
  /\ appended.entries \in Seq(Held) /\ appended.of \in Int /\ appended.of <= view
  /\ appended.of = view => appended.cursor \in Ends(list)
  /\ fresh # Nothing =>
       /\ IsListing(fresh.answer) /\ fresh.of \in Int /\ fresh.of <= view
       /\ fresh.of = view => list # "search" /\ fresh.answer.cursor \in Ends(list)
  /\ more # Nothing =>
       /\ IsListing(more.answer) /\ more.of \in Int /\ more.of <= view
       /\ more.of = view => more.answer.cursor \in Ends(list)
  /\ steady \subseteq Listed(list) /\ moved \subseteq Held
  /\ stirred \in BOOLEAN /\ crossed \in BOOLEAN

LEMMA ListingTyped ==
  ASSUME RowsTyped, NEW l \in Lists, NEW after, after = Top \/ (after \in Ends(l) /\ after # End)
  PROVE  IsListing(Listing(l, after)) /\ Listing(l, after).cursor \in Ends(l)
<1>1. CASE l = "search"
  <2>1. after = Top \/ after \in Depths
    BY <1>1 DEF Ends
  <2> QED BY <1>1, <2>1, DeepListing DEF Listing, Ends
<1>2. CASE l # "search"
  <2>1. after = Top \/ after \in Triples
    BY <1>2 DEF Ends
  <2>2. PICK L : L = Page(l, after)
    OBVIOUS
  <2>3. /\ L.entries \in Seq(Listed(l)) /\ Len(L.entries) <= Limit
        /\ L.cursor \in Triples \cup {End}
        /\ L.cursor # End => L.entries # <<>>
    BY <1>2, <2>1, <2>2, PageCuts
  <2>4. L.entries \in Seq(Held)
    BY <2>3, ListedHeld
  <2>5. Listing(l, after) = L
    BY <1>2, <2>2 DEF Listing
  <2> QED BY <1>2, <2>3, <2>4, <2>5 DEF IsListing, Ends
<1> QED BY <1>1, <1>2

LEMMA SameArchive ==
  ASSUME UNCHANGED archive, NEW l
  PROVE  /\ Held' = Held /\ (RowsTyped' <=> RowsTyped)
         /\ Listed(l)' = Listed(l) /\ (IsListing(l)' <=> IsListing(l))
         /\ \A i : Keys(l, i)' = Keys(l, i)
<1>1. rows' = rows /\ now' = now /\ blocked' = blocked /\ left' = left
  BY DEF archive
<1>2. Held' = Held /\ (RowsTyped' <=> RowsTyped)
  BY <1>1 DEF Held, RowsTyped
<1>3. \A i : Dated(i)' = Dated(i)
  BY <1>1 DEF Dated
<1>4. \A i : Unexpired(i)' = Unexpired(i) /\ Placed(i)' = Placed(i)
  BY <1>1, <1>3 DEF Unexpired, Placed
<1>5. Listed(l)' = Listed(l)
  BY <1>1, <1>2, <1>4 DEF Listed
<1>6. IsListing(l)' <=> IsListing(l)
  BY <1>2 DEF IsListing
<1>7. \A i : Keys(l, i)' = Keys(l, i)
  BY <1>1, <1>3, <1>4 DEF Keys
<1> QED BY <1>2, <1>5, <1>6, <1>7

\* What a change leaves of the rows.
LEMMA RowsKept ==
  ASSUME RowsTyped, ArchiveNext
  PROVE  /\ RowsTyped' /\ Held \subseteq Held'
         /\ \A i \in Held : rows'[i].seen = rows[i].seen
<1>1. CASE Tick
  <2>1. RowsTyped' /\ Held' = Held /\ rows' = rows
    BY <1>1 DEF Tick, RowsTyped, Held
  <2> QED BY <2>1
<1>2. ASSUME NEW i \in Ids \ Held, Arrive(i)
      PROVE  /\ RowsTyped' /\ Held \subseteq Held'
             /\ \A j \in Held : rows'[j].seen = rows[j].seen
  <2>1. PICK date \in Dates :
          rows' = [j \in Held \cup {i} |->
                     IF j = i THEN [seen |-> now, published |-> date] ELSE rows[j]]
    BY <1>2 DEF Arrive
  <2>2. now' = now
    BY <1>2 DEF Arrive
  <2>3. Held' = Held \cup {i}
    BY <2>1 DEF Held
  <2>4. date \in Int /\ now \in Nat
    BY DEF Dates, None, RowsTyped
  <2>5. \A j \in Held : rows'[j] = rows[j]
    BY <2>1
  <2>6. rows'[i] = [seen |-> now, published |-> date]
    BY <2>1
  <2>7. rows'[i] \in [seen : Nat, published : Int]
    BY <2>4, <2>6
  <2>8. RowsTyped'
    BY <2>2, <2>3, <2>5, <2>7 DEF RowsTyped
  <2> QED BY <2>3, <2>5, <2>8
<1>3. ASSUME NEW i \in Held, Edit(i)
      PROVE  /\ RowsTyped' /\ Held \subseteq Held'
             /\ \A j \in Held : rows'[j].seen = rows[j].seen
  <2>1. PICK date \in Dates : rows' = [rows EXCEPT ![i].published = date]
    BY <1>3 DEF Edit
  <2>2. now' = now
    BY <1>3 DEF Edit
  <2>3. date \in Int /\ rows[i] \in [seen : Nat, published : Int]
    BY DEF Dates, None, RowsTyped
  <2>4. Held' = Held /\ \A j \in Held \ {i} : rows'[j] = rows[j]
    BY <2>1 DEF Held
  <2>5. rows'[i] = [rows[i] EXCEPT !.published = date]
    BY <2>1 DEF Held
  <2>6. rows'[i] \in [seen : Nat, published : Int] /\ rows'[i].seen = rows[i].seen
    BY <2>3, <2>5
  <2>7. RowsTyped'
    BY <2>2, <2>4, <2>6 DEF RowsTyped
  <2> QED BY <2>4, <2>6, <2>7
<1>4. ASSUME NEW i \in Held, Turn(i)
      PROVE  RowsTyped' /\ Held' = Held /\ rows' = rows
  BY <1>4 DEF Turn, RowsTyped, Held
<1> QED BY <1>1, <1>2, <1>3, <1>4 DEF ArchiveNext

LEMMA Wider ==
  ASSUME NEW S, NEW T, S \subseteq T, NEW s \in Seq(S)
  PROVE  s \in Seq(T)
  OBVIOUS

LEMMA ListingKept ==
  ASSUME Held \subseteq Held', NEW L, IsListing(L)
  PROVE  IsListing(L)'
  BY Wider DEF IsListing

LEMMA CursorTyped ==
  ASSUME Typed
  PROVE  Cursor \in Ends(list)
  BY DEF Typed, Cursor, Beyond

LEMMA TypedInit == Init => Typed
<1> SUFFICES ASSUME Init PROVE Typed
  OBVIOUS
<1>1. Held = {} /\ now = 0 /\ RowsTyped
  BY DEF Init, ArchiveInit, RowsTyped, Held
<1>2. list \in Lists /\ view = 0
  BY ScreenAssumption DEF Init
<1>3. IsListing(page) /\ page.cursor \in Ends(list)
  BY RiverAssumption DEF Init, IsListing, Ends
<1>4. appended.entries \in Seq(Held) /\ appended.of = -1
  BY DEF Init, None
<1>5. fresh = Nothing /\ more = Nothing /\ steady = {} /\ moved = {}
      /\ stirred = FALSE /\ crossed = FALSE
  BY DEF Init
<1>6. appended.of \in Int /\ appended.of < view /\ view \in Nat
  BY <1>2, <1>4
<1>7. steady \subseteq Listed(list) /\ moved \subseteq Held
  BY <1>5
<1>8. stirred \in BOOLEAN /\ crossed \in BOOLEAN
  BY <1>5
<1> QED BY <1>1, <1>2, <1>3, <1>4, <1>5, <1>6, <1>7, <1>8 DEF Typed
LEMMA TypedChange ==
  ASSUME Typed, Change
  PROVE  Typed'
<1>1. RowsTyped' /\ Held \subseteq Held'
  BY RowsKept DEF Typed, Change
<1>2. /\ view' = view /\ list' = list /\ page' = page /\ appended' = appended
      /\ fresh' = fresh /\ more' = more /\ crossed' = crossed
  BY DEF Change, screen
<1>3. PICK p, f, m : p = page /\ f = fresh.answer /\ m = more.answer
  OBVIOUS
<1>4. IsListing(p) /\ (fresh # Nothing => IsListing(f)) /\ (more # Nothing => IsListing(m))
  BY <1>3 DEF Typed
<1>5. IsListing(p)' /\ (fresh # Nothing => IsListing(f)') /\ (more # Nothing => IsListing(m)')
  BY <1>1, <1>4, ListingKept
<1>6. /\ IsListing(page)' /\ (fresh' # Nothing => IsListing(fresh.answer)')
      /\ (more' # Nothing => IsListing(more.answer)')
  BY <1>2, <1>3, <1>5 DEF IsListing
<1>7. appended'.entries \in Seq(Held')
  BY <1>1, <1>2, Wider DEF Typed
<1>8. steady' \subseteq Listed(list)'
  BY DEF Change
<1>9. moved' \subseteq Held'
  BY <1>1 DEF Change, Typed
<1>10. stirred' \in BOOLEAN /\ crossed' \in BOOLEAN
  BY DEF Change, Typed
<1> QED BY <1>1, <1>2, <1>6, <1>7, <1>8, <1>9, <1>10 DEF Typed, Ends

\* Over an archive that keeps still, types are of the screen and the requests.
LEMMA TypedStill ==
  ASSUME Typed, UNCHANGED <<archive, list>>,
         view' = view, steady' = steady, moved' = moved, stirred' = stirred,
         NEW p, NEW a, NEW f, NEW m,
         page' = p, IsListing(p), p.cursor \in Ends(list),
         appended' = a, a.entries \in Seq(Held), a.of \in Int, a.of <= view,
         a.of = view => a.cursor \in Ends(list),
         fresh' = f,
         f # Nothing => /\ IsListing(f.answer) /\ f.of \in Int /\ f.of <= view
                        /\ f.of = view => list # "search" /\ f.answer.cursor \in Ends(list),
         more' = m,
         m # Nothing => /\ IsListing(m.answer) /\ m.of \in Int /\ m.of <= view
                        /\ m.of = view => m.answer.cursor \in Ends(list),
         crossed' \in BOOLEAN
  PROVE  Typed'
<1>1. PICK l, b, c : l = list /\ b = f.answer /\ c = m.answer
  OBVIOUS
<1>2. /\ Held' = Held /\ RowsTyped' /\ Listed(l)' = Listed(l)
      /\ (IsListing(p)' <=> IsListing(p))
      /\ (IsListing(b)' <=> IsListing(b)) /\ (IsListing(c)' <=> IsListing(c))
  BY SameArchive DEF Typed
<1>3. list' = l
  BY <1>1
<1>4. IsListing(page)' /\ page'.cursor \in Ends(list)'
  BY <1>1, <1>2, <1>3 DEF IsListing, Ends
<1>5. /\ fresh' # Nothing => IsListing(fresh.answer)'
      /\ more' # Nothing => IsListing(more.answer)'
  BY <1>1, <1>2 DEF IsListing
<1>6. steady' \subseteq Listed(list)'
  <2>1. Listed(list)' = Listed(l)'
    BY <1>3 DEF Listed
  <2> QED BY <1>1, <1>2, <2>1 DEF Typed
<1>7. Ends(list)' = Ends(list)
  BY DEF Ends
<1>8. moved' \subseteq Held'
  BY <1>2 DEF Typed
<1>9. list' \in Lists /\ view' \in Nat /\ stirred' \in BOOLEAN
  BY DEF Typed
<1>10. appended'.entries \in Seq(Held') /\ appended'.of \in Int /\ appended'.of <= view'
  BY <1>2
<1> QED BY <1>1, <1>2, <1>4, <1>5, <1>6, <1>7, <1>8, <1>9, <1>10 DEF Typed

LEMMA TypedNavigate ==
  ASSUME Typed, NEW l \in ShownLists, Navigate(l)
  PROVE  Typed'
<1>1. /\ UNCHANGED archive /\ view' = view + 1 /\ list' = l /\ page' = Listing(l, Top)
      /\ steady' = Listed(l) /\ moved' = {} /\ stirred' = FALSE /\ crossed' = FALSE
      /\ appended' = appended /\ fresh' = fresh /\ more' = more
  BY DEF Navigate, Load
<1>2. l \in Lists
  BY ScreenAssumption
<1>3. PICK p, f, m : p = page' /\ f = fresh.answer /\ m = more.answer
  OBVIOUS
<1>4. IsListing(p) /\ p.cursor \in Ends(l)
  BY <1>1, <1>2, <1>3, ListingTyped DEF Typed
<1>5. /\ Held' = Held /\ RowsTyped' /\ Listed(l)' = Listed(l) /\ IsListing(p)'
      /\ (fresh # Nothing => IsListing(f)') /\ (more # Nothing => IsListing(m)')
  BY <1>1, <1>3, <1>4, SameArchive DEF Typed
<1>6. /\ IsListing(page)' /\ page'.cursor \in Ends(list)'
      /\ (fresh' # Nothing => IsListing(fresh.answer)')
      /\ (more' # Nothing => IsListing(more.answer)')
  BY <1>1, <1>3, <1>4, <1>5 DEF IsListing, Ends
<1>7. steady' \subseteq Listed(list)'
  <2>1. Listed(list)' = Listed(l)'
    BY <1>1 DEF Listed
  <2> QED BY <1>1, <1>5, <2>1
<1>8. view \in Nat /\ view' \in Nat /\ view < view'
  BY <1>1 DEF Typed
<1>9. appended'.entries \in Seq(Held') /\ appended'.of \in Int /\ appended'.of < view'
  BY <1>1, <1>5, <1>8 DEF Typed
<1>10. /\ fresh' # Nothing => fresh'.of \in Int /\ fresh'.of < view'
       /\ more' # Nothing => more'.of \in Int /\ more'.of < view'
  BY <1>1, <1>8 DEF Typed
<1>11. moved' \subseteq Held' /\ stirred' \in BOOLEAN /\ crossed' \in BOOLEAN /\ list' \in Lists
  BY <1>1, <1>2
<1> QED BY <1>5, <1>6, <1>7, <1>8, <1>9, <1>10, <1>11 DEF Typed

\* The page that lands, behind what is on screen.
LEMMA LandedTyped ==
  ASSUME Typed, more # Nothing
  PROVE  /\ (IF Beyond THEN appended.entries ELSE <<>>) \in Seq(Held)
         /\ (IF Beyond THEN appended.entries ELSE <<>>) \o more.answer.entries \in Seq(Held)
<1>1. <<>> \in Seq(Held)
  OBVIOUS
<1>2. (IF Beyond THEN appended.entries ELSE <<>>) \in Seq(Held)
  BY <1>1 DEF Typed
<1>3. more.answer.entries \in Seq(Held)
  BY DEF Typed, IsListing
<1> QED BY <1>2, <1>3, ConcatProperties

LEMMA TypedNext ==
  ASSUME Typed, [Next]_vars
  PROVE  Typed'
<1> DEFINE OfScreen == IsListing(page) /\ page.cursor \in Ends(list)
           OfAppended == /\ appended.entries \in Seq(Held) /\ appended.of \in Int
                         /\ appended.of <= view
                         /\ appended.of = view => appended.cursor \in Ends(list)
           OfFresh == fresh # Nothing =>
                        /\ IsListing(fresh.answer) /\ fresh.of \in Int /\ fresh.of <= view
                        /\ fresh.of = view => list # "search" /\ fresh.answer.cursor \in Ends(list)
           OfMore == more # Nothing =>
                       /\ IsListing(more.answer) /\ more.of \in Int /\ more.of <= view
                       /\ more.of = view => more.answer.cursor \in Ends(list)
<1>1. /\ OfScreen /\ OfAppended /\ OfFresh /\ OfMore /\ crossed \in BOOLEAN
      /\ RowsTyped /\ list \in Lists /\ view \in Nat
  BY DEF Typed
<1>2. PICK a, p, f, m : a = appended /\ p = page /\ f = fresh /\ m = more
  OBVIOUS
<1>3. CASE Change
  BY <1>3, TypedChange
<1>4. ASSUME NEW l \in ShownLists, Navigate(l) PROVE Typed'
  BY <1>4, TypedNavigate
<1>5. CASE AskFresh
  <2>1. PICK L : L = Listing(list, Top)
    OBVIOUS
  <2>2. /\ UNCHANGED <<archive, list>> /\ view' = view /\ page' = p /\ appended' = a /\ more' = m
        /\ steady' = steady /\ moved' = moved /\ stirred' = stirred /\ crossed' = crossed
        /\ fresh' = [of |-> view, answer |-> L] /\ list # "search"
    BY <1>2, <1>5, <2>1 DEF AskFresh, screen, ghosts
  <2>3. IsListing(L) /\ L.cursor \in Ends(list)
    BY <1>1, <2>1, ListingTyped
  <2>4. PICK g : g = [of |-> view, answer |-> L]
    OBVIOUS
  <2>5. g.of = view /\ g.answer = L /\ fresh' = g
    BY <2>2, <2>4
  <2> QED BY <1>1, <1>2, <2>2, <2>3, <2>5, TypedStill
<1>6. CASE LandFresh
  <2>1. /\ UNCHANGED <<archive, list>> /\ view' = view /\ appended' = a /\ more' = m
        /\ steady' = steady /\ moved' = moved /\ stirred' = stirred
        /\ fresh # Nothing /\ fresh' = Nothing
    BY <1>2, <1>6 DEF LandFresh
  <2>2. CASE fresh.of = view
    <3>1. PICK L : L = fresh.answer
      OBVIOUS
    <3>2. page' = L /\ crossed' \in BOOLEAN
      BY <1>1, <1>6, <2>2, <3>1 DEF LandFresh
    <3>3. IsListing(L) /\ L.cursor \in Ends(list)
      BY <1>1, <2>1, <2>2, <3>1
    <3> QED BY <1>1, <1>2, <2>1, <3>2, <3>3, TypedStill
  <2>3. CASE fresh.of # view
    <3>1. page' = p /\ crossed' = crossed
      BY <1>2, <1>6, <2>3 DEF LandFresh
    <3> QED BY <1>1, <1>2, <2>1, <3>1, TypedStill
  <2> QED BY <2>2, <2>3
<1>7. CASE AskMore
  <2>1. PICK c : c = Cursor
    OBVIOUS
  <2>2. PICK L : L = Listing(list, c)
    OBVIOUS
  <2>3. PICK g : g = [of |-> view, behind |-> page.cursor, answer |-> L]
    OBVIOUS
  <2>4. /\ UNCHANGED <<archive, list>> /\ view' = view /\ page' = p /\ appended' = a /\ fresh' = f
        /\ steady' = steady /\ moved' = moved /\ stirred' = stirred /\ crossed' = crossed
        /\ more' = g /\ c # End
    BY <1>2, <1>7, <2>1, <2>2, <2>3 DEF AskMore, screen, ghosts
  <2>5. IsListing(L) /\ L.cursor \in Ends(list)
    BY <1>1, <2>1, <2>2, <2>4, CursorTyped, ListingTyped
  <2>6. g.of = view /\ g.answer = L
    BY <2>3
  <2> QED BY <1>1, <1>2, <2>4, <2>5, <2>6, TypedStill
<1>8. CASE LandMore
  <2>1. PICK g : g = [of |-> more.of, behind |-> more.behind,
                      entries |-> (IF Beyond THEN appended.entries ELSE <<>>) \o more.answer.entries,
                      cursor |-> more.answer.cursor]
    OBVIOUS
  <2>2. /\ UNCHANGED <<archive, list>> /\ view' = view /\ page' = p /\ fresh' = f
        /\ steady' = steady /\ moved' = moved /\ stirred' = stirred /\ crossed' = crossed
        /\ appended' = g /\ more # Nothing /\ more' = Nothing
    BY <1>2, <1>8, <2>1 DEF LandMore, ghosts
  <2>3. g.entries \in Seq(Held)
    BY <2>1, <2>2, LandedTyped
  <2>4. g.of = more.of /\ g.cursor = more.answer.cursor
    BY <2>1
  <2> QED BY <1>1, <1>2, <2>2, <2>3, <2>4, TypedStill
<1>9. CASE Fail
  <2>1. /\ UNCHANGED <<archive, list>> /\ view' = view /\ page' = p /\ appended' = a
        /\ steady' = steady /\ moved' = moved /\ stirred' = stirred /\ crossed' = crossed
        /\ (fresh' = f \/ fresh' = Nothing) /\ (more' = m \/ more' = Nothing)
    BY <1>2, <1>9 DEF Fail, screen, ghosts
  <2>2. PICK g, n : g = fresh' /\ n = more'
    OBVIOUS
  <2> QED BY <1>1, <1>2, <2>1, <2>2, TypedStill
<1>10. CASE UNCHANGED vars
  <2>1. /\ UNCHANGED <<archive, list>> /\ view' = view /\ page' = p /\ appended' = a
        /\ steady' = steady /\ moved' = moved /\ stirred' = stirred /\ crossed' = crossed
        /\ fresh' = f /\ more' = m
    BY <1>2, <1>10 DEF vars, screen, ghosts
  <2> QED BY <1>1, <1>2, <2>1, TypedStill
<1> QED BY <1>3, <1>4, <1>5, <1>6, <1>7, <1>8, <1>9, <1>10 DEF Next
-----------------------------------------------------------------------------
(* The lists by key.                                                       *)

\* The first page, and a refresh of it, start at the top; what is appended starts where it was
\* asked for, and so does a page on its way, which is where the list on screen ends.
ScreenFits ==
  ByKey =>
    /\ Fits(page, Top)
    /\ fresh # Nothing /\ fresh.of = view => Fits(fresh.answer, Top)
    /\ ~ crossed /\ appended.of = view =>
         appended.behind \in Triples /\ Fits(appended, appended.behind)
    /\ ~ crossed /\ more # Nothing /\ more.of = view =>
         more.behind = page.cursor /\ Cursor \in Triples /\ Fits(more.answer, Cursor)

\* A change moves the rows whose key it changes, and the rest fit as before.
LEMMA FitsKept ==
  ASSUME Typed, Change, NEW L, NEW after, L.entries \in Seq(Held), Fits(L, after)
  PROVE  Fits(L, after)'
<1>1. list' = list
  BY DEF Change, screen
<1>2. PICK l : l = list
  OBVIOUS
<1>3. /\ \A i \in steady' : i \in steady /\ Keys(list, i)' = Keys(l, i)
      /\ moved \subseteq moved'
      /\ \A i \in Held \ moved' : Keys(list, i)' = Keys(l, i)
  BY <1>2 DEF Change
<1>4. \A n \in DOMAIN L.entries : L.entries[n] \in Held
  OBVIOUS
<1>5. \A n \in DOMAIN L.entries :
        L.entries[n] \notin moved' => Within(Keys(list, L.entries[n])', after, L.cursor)
  BY <1>2, <1>3, <1>4 DEF Fits
<1>6. \A i \in steady' : Within(Keys(list, i)', after, L.cursor)
                           => \E n \in DOMAIN L.entries : L.entries[n] = i
  BY <1>2, <1>3 DEF Fits
<1>7. \A m, n \in DOMAIN L.entries :
        m # n /\ L.entries[m] = L.entries[n] => L.entries[m] \in moved'
  BY <1>3 DEF Fits
<1> QED BY <1>5, <1>6, <1>7 DEF Fits

LEMMA FitsStill ==
  ASSUME UNCHANGED <<archive, list>>, steady' = steady, moved' = moved,
         NEW L, NEW after, Fits(L, after)
  PROVE  Fits(L, after)'
<1>1. PICK l : l = list
  OBVIOUS
<1>2. \A i : Keys(l, i)' = Keys(l, i)
  BY SameArchive
<1>3. \A i : Keys(list, i)' = Keys(list, i)
  <2>1. list' = l
    BY <1>1
  <2>2. \A i : Keys(list, i)' = Keys(l, i)'
    BY <2>1 DEF Keys
  <2> QED BY <1>1, <1>2, <2>2
<1> QED BY <1>3 DEF Fits

\* A page fits, whoever asks for it.
LEMMA PageFits ==
  ASSUME RowsTyped, list \in Lists \ {"search"}, steady \subseteq Listed(list),
         NEW after, after = Top \/ after \in Triples,
         NEW L, L = Page(list, after)
  PROVE  Fits(L, after)
  BY PageCuts DEF Fits

\* So does the first of a new view.
LEMMA LoadFits ==
  ASSUME Typed, NEW l \in Lists \ {"search"}, UNCHANGED archive, Load(view + 1, l)
  PROVE  Fits(page, Top)'
<1>1. page' = Page(l, Top) /\ list' = l /\ steady' = Listed(l) /\ moved' = {}
  BY DEF Load, Listing
<1>2. PICK L : L = Page(l, Top)
  OBVIOUS
<1>3. /\ L.cursor \in Triples \cup {End}
      /\ \A m, n \in DOMAIN L.entries : m # n => L.entries[m] # L.entries[n]
      /\ \A n \in DOMAIN L.entries : Within(Keys(l, L.entries[n]), Top, L.cursor)
      /\ \A i \in Listed(l) : Within(Keys(l, i), Top, L.cursor)
                                => \E n \in DOMAIN L.entries : L.entries[n] = i
  BY <1>2, PageCuts DEF Typed
<1>4. \A i : Keys(list, i)' = Keys(l, i)
  <2>1. \A i : Keys(list, i)' = Keys(l, i)'
    BY <1>1 DEF Keys
  <2> QED BY <2>1, SameArchive
<1> QED BY <1>1, <1>2, <1>3, <1>4 DEF Fits

\* The state of the requests, carried over a step that leaves what fits fitting.
LEMMA FitsCarried ==
  ASSUME Typed, ScreenFits,
         \A L, after : L.entries \in Seq(Held) /\ Fits(L, after) => Fits(L, after)',
         list' = list, view' = view,
         page' = page, appended' = appended, crossed' = crossed,
         fresh' = fresh \/ fresh' = Nothing, more' = more \/ more' = Nothing
  PROVE  ScreenFits'
<1> SUFFICES ASSUME ByKey' PROVE ScreenFits'
  BY DEF ScreenFits
<1>1. ByKey
  BY DEF ByKey
<1>2. PICK p, f, a, b, m, c : /\ p = page /\ f = fresh.answer /\ a = appended
                              /\ b = appended.behind /\ m = more.answer /\ c = Cursor
  OBVIOUS
<1>3. /\ p.entries \in Seq(Held) /\ a.entries \in Seq(Held)
      /\ fresh # Nothing => f.entries \in Seq(Held)
      /\ more # Nothing => m.entries \in Seq(Held)
  BY <1>2 DEF Typed, IsListing
<1>4. /\ Fits(p, Top)
      /\ fresh # Nothing /\ fresh.of = view => Fits(f, Top)
      /\ ~ crossed /\ appended.of = view => b \in Triples /\ Fits(a, b)
      /\ ~ crossed /\ more # Nothing /\ more.of = view =>
           more.behind = page.cursor /\ c \in Triples /\ Fits(m, c)
  BY <1>1, <1>2 DEF ScreenFits
<1>5. Cursor' = c
  BY <1>2 DEF Cursor, Beyond
<1>6. Fits(page, Top)'
  <2>1. Fits(p, Top)'
    BY <1>3, <1>4
  <2> QED BY <1>2, <2>1 DEF Fits
<1>7. ASSUME fresh' # Nothing, fresh'.of = view' PROVE Fits(fresh.answer, Top)'
  <2>1. fresh' = fresh /\ Fits(f, Top)'
    BY <1>3, <1>4, <1>7
  <2> QED BY <1>2, <2>1 DEF Fits
<1>8. ASSUME ~ crossed', appended'.of = view'
      PROVE  appended'.behind \in Triples /\ Fits(appended, appended.behind)'
  <2>1. b \in Triples /\ Fits(a, b)'
    BY <1>3, <1>4, <1>8
  <2> QED BY <1>2, <2>1 DEF Fits
<1>9. ASSUME ~ crossed', more' # Nothing, more'.of = view'
      PROVE  more'.behind = page'.cursor /\ Cursor' \in Triples /\ Fits(more.answer, Cursor)'
  <2>1. more' = more /\ more.behind = page.cursor /\ c \in Triples /\ Fits(m, c)'
    BY <1>3, <1>4, <1>9
  <2> QED BY <1>2, <1>5, <2>1 DEF Fits
<1> QED BY <1>6, <1>7, <1>8, <1>9 DEF ScreenFits
\* A page that lands is joined to what it was asked behind.
LEMMA LandedFits ==
  ASSUME Typed, ScreenFits, ByKey, ~ crossed, more # Nothing, more.of = view,
         NEW N, N.entries = (IF Beyond THEN appended.entries ELSE <<>>) \o more.answer.entries,
         N.cursor = more.answer.cursor
  PROVE  more.behind \in Triples /\ Fits(N, more.behind)
<1>1. more.behind = page.cursor /\ Cursor \in Triples /\ Fits(more.answer, Cursor)
  BY DEF ScreenFits
<1>2. /\ more.answer.entries \in Seq(Held) /\ appended.entries \in Seq(Held)
      /\ RowsTyped /\ list \in Lists /\ steady \subseteq Held
  BY ListedHeld DEF Typed, IsListing
<1>3. CASE Beyond
  <2>1. appended.behind = page.cursor /\ appended.of = view /\ Cursor = appended.cursor
    BY <1>3 DEF Beyond, Cursor
  <2>2. appended.behind \in Triples /\ Fits(appended, appended.behind)
    BY <2>1 DEF ScreenFits
  <2>3. N.entries = appended.entries \o more.answer.entries
    BY <1>3
  <2>4. PICK L, M, b : L = appended /\ M = more.answer /\ b = appended.behind
    OBVIOUS
  <2>5. Fits(N, b)
    BY <1>1, <1>2, <2>1, <2>2, <2>3, <2>4, Joined
  <2> QED BY <1>1, <2>1, <2>2, <2>4, <2>5
<1>4. CASE ~ Beyond
  <2>1. Cursor = page.cursor
    BY <1>4 DEF Cursor
  <2>2. N.entries = more.answer.entries
    BY <1>2, <1>4, ConcatEmptySeq
  <2>3. Fits(N, Cursor)
    BY <1>1, <2>2 DEF Fits
  <2> QED BY <1>1, <2>1, <2>3
<1> QED BY <1>3, <1>4

LEMMA ScreenFitsNext ==
  ASSUME Typed, ScreenFits, [Next]_vars
  PROVE  ScreenFits'
<1>1. /\ RowsTyped /\ list \in Lists /\ view \in Nat /\ steady \subseteq Listed(list)
  BY DEF Typed
<1>2. CASE Change
  <2>1. \A L, after : L.entries \in Seq(Held) /\ Fits(L, after) => Fits(L, after)'
    BY <1>2, FitsKept
  <2>2. /\ list' = list /\ view' = view /\ page' = page /\ appended' = appended
        /\ crossed' = crossed /\ fresh' = fresh /\ more' = more
    BY <1>2 DEF Change, screen
  <2> QED BY <2>1, <2>2, FitsCarried
<1>3. ASSUME NEW l \in ShownLists, Navigate(l) PROVE ScreenFits'
  <2>1. /\ UNCHANGED archive /\ Load(view + 1, l) /\ list' = l /\ view' = view + 1
        /\ appended' = appended /\ fresh' = fresh /\ more' = more
    BY <1>3 DEF Navigate, Load
  <2>2. CASE l = "search"
    BY <2>1, <2>2 DEF ScreenFits, ByKey
  <2>3. CASE l # "search"
    <3>1. l \in Lists \ {"search"}
      BY <2>3, ScreenAssumption
    <3>2. Fits(page, Top)'
      BY <2>1, <3>1, LoadFits
    <3>3. /\ appended'.of # view'
          /\ fresh' # Nothing => fresh'.of # view'
          /\ more' # Nothing => more'.of # view'
      <4>1. /\ appended.of < view + 1
            /\ fresh # Nothing => fresh.of < view + 1
            /\ more # Nothing => more.of < view + 1
        BY DEF Typed
      <4> QED BY <2>1, <4>1
    <3> QED BY <3>2, <3>3 DEF ScreenFits
  <2> QED BY <2>2, <2>3
<1>4. ASSUME UNCHANGED <<archive, list>>, steady' = steady, moved' = moved
      PROVE  /\ \A L, after : Fits(L, after) => Fits(L, after)'
             /\ ByKey' <=> ByKey
  BY <1>4, FitsStill DEF ByKey
<1>5. CASE AskFresh
  <2>1. /\ UNCHANGED <<archive, list>> /\ steady' = steady /\ moved' = moved /\ view' = view
        /\ page' = page /\ appended' = appended /\ more' = more /\ crossed' = crossed
        /\ fresh' = [of |-> view, answer |-> Listing(list, Top)] /\ list # "search"
    BY <1>5 DEF AskFresh, screen, ghosts
  <2>2. PICK L : L = Page(list, Top)
    OBVIOUS
  <2>3. Fits(L, Top)'
    BY <1>1, <1>4, <2>1, <2>2, PageFits
  <2>4. fresh'.answer = L
    BY <2>1, <2>2 DEF Listing
  <2>5. Fits(fresh.answer, Top)'
    BY <2>3, <2>4 DEF Fits
  <2>6. PICK p, a, b, m, c : /\ p = page /\ a = appended /\ b = appended.behind
                             /\ m = more.answer /\ c = Cursor
    OBVIOUS
  <2>7. ByKey
    BY <2>1 DEF ByKey
  <2>8. /\ Fits(p, Top)'
        /\ ~ crossed /\ appended.of = view => b \in Triples /\ Fits(a, b)'
        /\ ~ crossed /\ more # Nothing /\ more.of = view =>
             more.behind = page.cursor /\ c \in Triples /\ Fits(m, c)'
    BY <1>4, <2>1, <2>6, <2>7 DEF ScreenFits
  <2>9. Cursor' = c
    BY <2>1, <2>6 DEF Cursor, Beyond
  <2>10. Fits(page, Top)'
    BY <2>1, <2>6, <2>8 DEF Fits
  <2>11. ASSUME ~ crossed', appended'.of = view'
         PROVE  appended'.behind \in Triples /\ Fits(appended, appended.behind)'
    BY <2>1, <2>6, <2>8, <2>11 DEF Fits
  <2>12. ASSUME ~ crossed', more' # Nothing, more'.of = view'
         PROVE  /\ more'.behind = page'.cursor /\ Cursor' \in Triples
                /\ Fits(more.answer, Cursor)'
    BY <2>1, <2>6, <2>8, <2>9, <2>12 DEF Fits
  <2> QED BY <2>5, <2>10, <2>11, <2>12 DEF ScreenFits
<1>6. CASE LandFresh
  <2>1. /\ UNCHANGED <<archive, list>> /\ steady' = steady /\ moved' = moved /\ view' = view
        /\ appended' = appended /\ more' = more /\ fresh # Nothing /\ fresh' = Nothing
    BY <1>6 DEF LandFresh
  <2>2. CASE fresh.of = view
    <3>1. page' = fresh.answer /\ (crossed' <=> (crossed \/ more # Nothing))
      BY <1>6, <2>2 DEF LandFresh
    <3> SUFFICES ASSUME ByKey PROVE ScreenFits'
      BY <1>4, <2>1 DEF ScreenFits
    <3>2. PICK p, a, b : p = fresh.answer /\ a = appended /\ b = appended.behind
      OBVIOUS
    <3>3. Fits(p, Top)'
      BY <1>4, <2>1, <2>2, <3>2 DEF ScreenFits
    <3>4. Fits(page, Top)'
      BY <3>1, <3>2, <3>3 DEF Fits
    <3>5. ASSUME ~ crossed', appended'.of = view'
          PROVE  appended'.behind \in Triples /\ Fits(appended, appended.behind)'
      <4>1. b \in Triples /\ Fits(a, b)'
        BY <1>4, <2>1, <3>1, <3>2, <3>5 DEF ScreenFits
      <4> QED BY <2>1, <3>2, <4>1 DEF Fits
    <3>6. ~ crossed' => more' = Nothing
      BY <2>1, <3>1
    <3> QED BY <2>1, <3>4, <3>5, <3>6 DEF ScreenFits
  <2>3. CASE fresh.of # view
    <3>1. page' = page /\ crossed' = crossed
      BY <1>6, <2>3 DEF LandFresh
    <3> QED BY <1>4, <2>1, <3>1, FitsCarried
  <2> QED BY <2>2, <2>3
<1>7. CASE AskMore
  <2>1. PICK c : c = Cursor
    OBVIOUS
  <2>2. /\ UNCHANGED <<archive, list>> /\ steady' = steady /\ moved' = moved /\ view' = view
        /\ page' = page /\ appended' = appended /\ fresh' = fresh /\ crossed' = crossed
        /\ more' = [of |-> view, behind |-> page.cursor, answer |-> Listing(list, c)]
        /\ c # End
    BY <1>7, <2>1 DEF AskMore, screen, ghosts
  <2> SUFFICES ASSUME ByKey PROVE ScreenFits'
    BY <1>4, <2>2 DEF ScreenFits
  <2>3. c \in Triples /\ list \in Lists \ {"search"}
    BY <1>1, <2>1, <2>2, CursorTyped DEF Ends, ByKey
  <2>4. PICK L : L = Page(list, c)
    OBVIOUS
  <2>5. Fits(L, c)'
    BY <1>1, <1>4, <2>2, <2>3, <2>4, PageFits
  <2>6. Cursor' = c
    BY <2>1, <2>2 DEF Cursor, Beyond
  <2>7. more'.answer = L /\ more'.behind = page.cursor
    BY <2>2, <2>3, <2>4 DEF Listing
  <2>8. Fits(more.answer, Cursor)'
    BY <2>5, <2>6, <2>7 DEF Fits
  <2>9. PICK p, f, a, b : /\ p = page /\ f = fresh.answer /\ a = appended
                          /\ b = appended.behind
    OBVIOUS
  <2>10. /\ Fits(p, Top)'
         /\ fresh # Nothing /\ fresh.of = view => Fits(f, Top)'
         /\ ~ crossed /\ appended.of = view => b \in Triples /\ Fits(a, b)'
    BY <1>4, <2>2, <2>9 DEF ScreenFits
  <2>11. Fits(page, Top)'
    BY <2>2, <2>9, <2>10 DEF Fits
  <2>12. fresh' # Nothing /\ fresh'.of = view' => Fits(fresh.answer, Top)'
    BY <2>2, <2>9, <2>10 DEF Fits
  <2>13. ASSUME ~ crossed', appended'.of = view'
         PROVE  appended'.behind \in Triples /\ Fits(appended, appended.behind)'
    BY <2>2, <2>9, <2>10, <2>13 DEF Fits
  <2>14. more'.behind = page'.cursor /\ Cursor' \in Triples
    BY <2>2, <2>3, <2>6, <2>7
  <2> QED BY <2>8, <2>11, <2>12, <2>13, <2>14 DEF ScreenFits
<1>8. CASE LandMore
  <2>1. /\ UNCHANGED <<archive, list>> /\ steady' = steady /\ moved' = moved /\ view' = view
        /\ page' = page /\ fresh' = fresh /\ crossed' = crossed
        /\ more # Nothing /\ more' = Nothing
    BY <1>8 DEF LandMore, ghosts
  <2>2. PICK N : N = [of |-> more.of, behind |-> more.behind,
                      entries |-> (IF Beyond THEN appended.entries ELSE <<>>) \o more.answer.entries,
                      cursor |-> more.answer.cursor]
    OBVIOUS
  <2>3. appended' = N
    BY <1>8, <2>2 DEF LandMore
  <2> SUFFICES ASSUME ByKey PROVE ScreenFits'
    BY <1>4, <2>1 DEF ScreenFits
  <2>4. PICK p, f, b : p = page /\ f = fresh.answer /\ b = more.behind
    OBVIOUS
  <2>5. Fits(p, Top)' /\ (fresh # Nothing /\ fresh.of = view => Fits(f, Top)')
    BY <1>4, <2>1, <2>4 DEF ScreenFits
  <2>6. Fits(page, Top)'
    BY <2>1, <2>4, <2>5 DEF Fits
  <2>7. fresh' # Nothing /\ fresh'.of = view' => Fits(fresh.answer, Top)'
    BY <2>1, <2>4, <2>5 DEF Fits
  <2>8. ASSUME ~ crossed', appended'.of = view'
        PROVE  appended'.behind \in Triples /\ Fits(appended, appended.behind)'
    <3>1. ~ crossed /\ more.of = view
      BY <2>1, <2>2, <2>3, <2>8
    <3>2. /\ N.entries = (IF Beyond THEN appended.entries ELSE <<>>) \o more.answer.entries
          /\ N.cursor = more.answer.cursor /\ N.behind = b
      BY <2>2, <2>4
    <3>3. b \in Triples /\ Fits(N, b)
      BY <2>1, <2>4, <3>1, <3>2, LandedFits
    <3>4. Fits(N, b)'
      BY <1>4, <2>1, <3>3
    <3> QED BY <2>3, <3>2, <3>3, <3>4 DEF Fits
  <2> QED BY <2>1, <2>6, <2>7, <2>8 DEF ScreenFits
<1>9. CASE Fail
  <2>1. /\ UNCHANGED <<archive, list>> /\ steady' = steady /\ moved' = moved /\ view' = view
        /\ page' = page /\ appended' = appended /\ crossed' = crossed
        /\ (fresh' = fresh \/ fresh' = Nothing) /\ (more' = more \/ more' = Nothing)
    BY <1>9 DEF Fail, screen, ghosts
  <2> QED BY <1>4, <2>1, FitsCarried
<1>10. CASE UNCHANGED vars
  <2>1. /\ UNCHANGED <<archive, list>> /\ steady' = steady /\ moved' = moved /\ view' = view
        /\ page' = page /\ appended' = appended /\ crossed' = crossed
        /\ fresh' = fresh /\ more' = more
    BY <1>10 DEF vars, screen, ghosts
  <2> QED BY <1>4, <2>1, FitsCarried
<1> QED BY <1>2, <1>3, <1>5, <1>6, <1>7, <1>8, <1>9, <1>10 DEF Next
-----------------------------------------------------------------------------
(* The search.                                                             *)

\* Nothing is between the first page and what is appended, or the page on its way, and all of
\* it is cut from the same matches.
SearchReaches ==
  list = "search" /\ view # 0 /\ ~ stirred =>
    /\ Reached(page.entries, page.cursor)
    /\ Reached(Entries, Cursor)
    /\ appended.of = view => appended.behind = page.cursor
    /\ more # Nothing /\ more.of = view =>
         more.behind = page.cursor /\ Cursor # End /\ more.answer = Deep(Cursor)

\* Matches keep while no item joins or leaves them: neither their relevance nor when they were
\* seen ever changes.
LEMMA MatchesKept ==
  ASSUME RowsTyped, Listed("search")' = Listed("search"),
         \A i \in Held : rows'[i].seen = rows[i].seen
  PROVE  Matches' = Matches
<1>1. \A i : Keys("search", i) = <<Relevance[i], rows[i].seen, i>>
  BY DEF Keys
<1>2. \A i : Keys("search", i)' = <<Relevance[i], rows'[i].seen, i>>
  BY DEF Keys
<1>3. Listed("search") \subseteq Held
  BY ListedHeld
<1>4. \A i \in Listed("search") : Keys("search", i)' = Keys("search", i)
  BY <1>1, <1>2, <1>3
<1>5. KeysOf("search", Listed("search"))' = [i \in Listed("search")' |-> Keys("search", i)']
  BY DEF KeysOf
<1>6. KeysOf("search", Listed("search"))' = KeysOf("search", Listed("search"))
  BY <1>4, <1>5 DEF KeysOf
<1>7. PICK k : k = KeysOf("search", Listed("search"))
  OBVIOUS
<1>8. Matches = Ranked(k) /\ Matches' = Ranked(k)
  BY <1>6, <1>7 DEF Matches, Ordered
<1> QED BY <1>8

LEMMA DeepKept ==
  ASSUME Matches' = Matches, NEW c, NEW e
  PROVE  Deep(c)' = Deep(c) /\ (Reached(e, c)' <=> Reached(e, c))
<1>1. Deep(c)' = Deep(c)
  BY DEF Deep, Matches
<1>2. Reached(e, c)' <=> Reached(e, c)
  BY DEF Reached
<1> QED BY <1>1, <1>2

\* The matches of a search on screen, from one state to the next.
LEMMA SearchStill ==
  ASSUME Typed, [Next]_vars, list' = "search", list = list', ~ stirred',
         view' = view
  PROVE  Matches' = Matches
<1>1. CASE Change
  <2>1. \A i \in Held : rows'[i].seen = rows[i].seen
    BY <1>1, RowsKept DEF Typed, Change
  <2>2. Listed(list)' = Listed(list)
    BY <1>1 DEF Change
  <2>3. Listed(list)' = Listed("search")' /\ Listed(list) = Listed("search")
    BY DEF Listed
  <2> QED BY <2>1, <2>2, <2>3, MatchesKept DEF Typed
<1>2. CASE UNCHANGED archive
  <2>1. Listed("search")' = Listed("search") /\ rows' = rows
    BY <1>2, SameArchive DEF archive
  <2> QED BY <2>1, MatchesKept DEF Typed
<1> QED BY <1>1, <1>2 DEF Next, Navigate, AskFresh, LandFresh, AskMore, LandMore, Fail, vars

LEMMA SearchLoads ==
  ASSUME Typed, UNCHANGED archive, Load(view + 1, "search")
  PROVE  Reached(page.entries, page.cursor)'
<1>1. page' = Deep(Top)
  BY DEF Load, Listing
<1>2. Matches' = Matches
  <2>1. Listed("search")' = Listed("search") /\ rows' = rows
    BY SameArchive DEF archive
  <2> QED BY <2>1, MatchesKept DEF Typed
<1>3. PICK e, c : e = Deep(Top).entries /\ c = Deep(Top).cursor
  OBVIOUS
<1>4. Reached(e, c)
  BY <1>3, DeepReaches DEF Typed
<1>5. Reached(e, c)'
  BY <1>2, <1>4, DeepKept
<1> QED BY <1>1, <1>3, <1>5 DEF Reached

LEMMA SearchLands ==
  ASSUME Typed, SearchReaches, list = "search", view # 0, ~ stirred,
         more # Nothing, more.of = view, LandMore
  PROVE  /\ appended'.of = view /\ appended'.behind = page.cursor
         /\ Reached(Entries', Cursor')
<1>1. /\ Reached(Entries, Cursor) /\ more.behind = page.cursor /\ Cursor # End
      /\ more.answer = Deep(Cursor)
  BY DEF SearchReaches
<1>2. /\ appended'.of = more.of /\ appended'.behind = more.behind /\ view' = view /\ page' = page
      /\ appended'.entries = (IF Beyond THEN appended.entries ELSE <<>>) \o more.answer.entries
      /\ appended'.cursor = more.answer.cursor
  BY DEF LandMore
<1>3. Beyond'
  BY <1>1, <1>2 DEF Beyond
<1>4. PICK p, a, q : /\ p = page.entries /\ q = more.answer.entries
                     /\ a = IF Beyond THEN appended.entries ELSE <<>>
  OBVIOUS
<1>5. p \in Seq(Held) /\ q \in Seq(Held) /\ a \in Seq(Held)
  BY <1>4, LandedTyped DEF Typed, IsListing
<1>6. Entries = p \o a
  BY <1>4 DEF Entries
<1>7. Entries' = p \o (a \o q) /\ Cursor' = more.answer.cursor
  BY <1>2, <1>3, <1>4 DEF Entries, Cursor
<1>8. Entries' = Entries \o Deep(Cursor).entries /\ Cursor' = Deep(Cursor).cursor
  <2>1. (p \o a) \o q = p \o (a \o q)
    BY <1>5, ConcatAssociative
  <2> QED BY <1>1, <1>4, <1>6, <1>7, <2>1
<1>9. Reached(Entries \o Deep(Cursor).entries, Deep(Cursor).cursor)
  BY <1>1, DeepJoins DEF Typed
<1> QED BY <1>1, <1>2, <1>8, <1>9

LEMMA SearchReachesNext ==
  ASSUME Typed, SearchReaches, [Next]_vars
  PROVE  SearchReaches'
<1> SUFFICES ASSUME list' = "search", view' # 0, ~ stirred' PROVE SearchReaches'
  BY DEF SearchReaches
<1>1. ASSUME NEW l \in ShownLists, Navigate(l) PROVE SearchReaches'
  <2>1. /\ UNCHANGED archive /\ Load(view + 1, "search") /\ view' = view + 1
        /\ appended' = appended /\ more' = more
    BY <1>1 DEF Navigate, Load
  <2>2. Reached(page.entries, page.cursor)'
    BY <2>1, SearchLoads
  <2>3. appended'.of # view' /\ (more' # Nothing => more'.of # view')
    <3>1. appended.of < view + 1 /\ (more # Nothing => more.of < view + 1)
      BY DEF Typed
    <3> QED BY <2>1, <3>1
  <2>4. ~ Beyond'
    BY <2>3 DEF Beyond
  <2>5. page'.entries \in Seq(Held')
    <3>1. Typed'
      BY TypedNext
    <3> QED BY <3>1 DEF Typed, IsListing
  <2>6. Entries' = page'.entries /\ Cursor' = page'.cursor
    BY <2>4, <2>5, ConcatEmptySeq DEF Entries, Cursor
  <2>7. Reached(Entries, Cursor)'
    BY <2>2, <2>6 DEF Reached
  <2> QED BY <2>2, <2>3, <2>7 DEF SearchReaches
<1>2. ASSUME list' = list, view' = view, stirred' = stirred \/ ~ stirred
      PROVE  /\ Matches' = Matches
             /\ Reached(page.entries, page.cursor) /\ Reached(Entries, Cursor)
             /\ appended.of = view => appended.behind = page.cursor
             /\ more # Nothing /\ more.of = view =>
                  more.behind = page.cursor /\ Cursor # End /\ more.answer = Deep(Cursor)
  <2>1. list = "search" /\ view # 0 /\ ~ stirred
    BY <1>2
  <2> QED BY <1>2, <2>1, SearchStill DEF SearchReaches
<1>3. PICK pe, pc, e, c, d : /\ pe = page.entries /\ pc = page.cursor
                             /\ e = Entries /\ c = Cursor /\ d = Deep(Cursor)
  OBVIOUS
<1>4. ASSUME list' = list, view' = view, stirred' = stirred \/ ~ stirred
      PROVE  Reached(pe, pc)' /\ Reached(e, c)' /\ Deep(c)' = d
  BY <1>2, <1>3, <1>4, DeepKept
<1>5. ASSUME list' = list, view' = view, stirred' = stirred \/ ~ stirred,
             page' = page, appended' = appended, more' = more \/ more' = Nothing
      PROVE  SearchReaches'
  <2>1. Entries' = e /\ Cursor' = c
    BY <1>3, <1>5 DEF Entries, Cursor, Beyond
  <2>2. Reached(pe, pc)' /\ Reached(e, c)' /\ Deep(c)' = d
    BY <1>4, <1>5
  <2>3. Reached(page.entries, page.cursor)' /\ Reached(Entries, Cursor)'
    BY <1>3, <1>5, <2>1, <2>2 DEF Reached
  <2>4. Deep(Cursor)' = Deep(c)'
    BY <2>1 DEF Deep
  <2>5. appended'.of = view' => appended'.behind = page'.cursor
    BY <1>2, <1>5
  <2>6. more' # Nothing /\ more'.of = view' =>
          more'.behind = page'.cursor /\ Cursor' # End /\ more'.answer = Deep(Cursor)'
    BY <1>2, <1>3, <1>5, <2>1, <2>2, <2>4
  <2> QED BY <2>3, <2>5, <2>6 DEF SearchReaches
<1>6. CASE Change
  <2>1. /\ list' = list /\ view' = view /\ page' = page /\ appended' = appended /\ more' = more
        /\ ~ stirred
    BY <1>6 DEF Change, screen
  <2> QED BY <1>5, <2>1
<1>7. CASE AskFresh
  BY <1>5, <1>7 DEF AskFresh, screen, ghosts
<1>8. CASE LandFresh
  <2>1. list' = list /\ view' = view /\ stirred' = stirred /\ appended' = appended /\ more' = more
    BY <1>8 DEF LandFresh
  <2>2. fresh.of # view
    BY <1>8, <2>1 DEF Typed, LandFresh
  <2>3. page' = page
    BY <1>8, <2>2 DEF LandFresh
  <2> QED BY <1>5, <2>1, <2>3
<1>9. CASE AskMore
  <2>1. /\ list' = list /\ view' = view /\ stirred' = stirred /\ appended' = appended /\ page' = page
        /\ more' = [of |-> view, behind |-> pc, answer |-> Listing(list, c)] /\ c # End
    BY <1>3, <1>9 DEF AskMore, screen, ghosts
  <2>2. Entries' = e /\ Cursor' = c
    BY <1>3, <2>1 DEF Entries, Cursor, Beyond
  <2>3. Reached(pe, pc)' /\ Reached(e, c)' /\ Deep(c)' = d
    BY <1>4, <2>1
  <2>4. Reached(page.entries, page.cursor)' /\ Reached(Entries, Cursor)'
    BY <1>3, <2>1, <2>2, <2>3 DEF Reached
  <2>5. Deep(Cursor)' = Deep(c)'
    BY <2>2 DEF Deep
  <2>6. more'.answer = Deep(c) /\ more'.behind = pc
    BY <2>1 DEF Listing
  <2>7. d = Deep(c)
    BY <1>3
  <2>8. appended'.of = view' => appended'.behind = page'.cursor
    BY <1>2, <2>1
  <2> QED BY <1>3, <2>1, <2>2, <2>3, <2>4, <2>5, <2>6, <2>7, <2>8 DEF SearchReaches
<1>10. CASE LandMore
  <2>1. /\ list' = list /\ view' = view /\ stirred' = stirred /\ page' = page
        /\ more # Nothing /\ more' = Nothing /\ appended'.of = more.of
    BY <1>10 DEF LandMore, ghosts
  <2>2. Matches' = Matches /\ Reached(pe, pc)'
    BY <1>2, <1>4, <2>1
  <2>3. Reached(page.entries, page.cursor)'
    BY <1>3, <2>1, <2>2 DEF Reached
  <2>4. CASE more.of = view
    <3>1. list = "search" /\ view # 0 /\ ~ stirred
      BY <2>1
    <3>2. /\ appended'.of = view /\ appended'.behind = page.cursor
          /\ Reached(Entries', Cursor')
      BY <1>10, <2>1, <2>4, <3>1, SearchLands
    <3>3. PICK f, g : f = Entries' /\ g = Cursor'
      OBVIOUS
    <3>4. Reached(f, g)'
      BY <2>2, <3>2, <3>3, DeepKept
    <3>5. Reached(Entries, Cursor)'
      BY <3>3, <3>4 DEF Reached
    <3> QED BY <2>1, <2>3, <3>2, <3>5 DEF SearchReaches
  <2>5. CASE more.of # view
    <3>1. ~ Beyond'
      BY <2>1, <2>5 DEF Beyond
    <3>2. pe \in Seq(Held)
      BY <1>3 DEF Typed, IsListing
    <3>3. Entries' = pe /\ Cursor' = pc
      BY <1>3, <2>1, <3>1, <3>2, ConcatEmptySeq DEF Entries, Cursor
    <3>4. Reached(Entries, Cursor)'
      BY <2>2, <3>3 DEF Reached
    <3> QED BY <2>1, <2>3, <2>5, <3>4 DEF SearchReaches
  <2> QED BY <2>4, <2>5
<1>11. CASE Fail
  BY <1>5, <1>11 DEF Fail, screen, ghosts
<1>12. CASE UNCHANGED vars
  BY <1>5, <1>12 DEF vars, screen, ghosts
<1> QED BY <1>1, <1>6, <1>7, <1>8, <1>9, <1>10, <1>11, <1>12 DEF Next
-----------------------------------------------------------------------------
(* The theorems.                                                           *)

IInv == Typed /\ ScreenFits /\ SearchReaches

LEMMA Invariant == Spec => []IInv
<1>1. Init => IInv
  <2> SUFFICES ASSUME Init PROVE IInv
    OBVIOUS
  <2>1. Typed
    BY TypedInit
  <2>2. /\ view = 0 /\ page = [entries |-> <<>>, cursor |-> End] /\ appended.of = -1
        /\ fresh = Nothing /\ more = Nothing /\ steady = {}
    BY DEF Init, None
  <2>3. Fits(page, Top)
    BY <2>2 DEF Fits
  <2>4. ScreenFits /\ SearchReaches
    BY <2>2, <2>3 DEF ScreenFits, SearchReaches
  <2> QED BY <2>1, <2>4 DEF IInv
<1>2. IInv /\ [Next]_vars => IInv'
  BY TypedNext, ScreenFitsNext, SearchReachesNext DEF IInv
<1> QED BY <1>1, <1>2, PTL DEF Spec

\* Types.  A page never has more rows than it was asked for, and one that says there is more
\* has shown a row, whichever list it is of (entries.py page, search.py deep).
THEOREM TypesHold == Spec => []TypeOK
<1>1. IInv => TypeOK
  <2> SUFFICES ASSUME IInv PROVE TypeOK
    OBVIOUS
  <2>1. Typed
    BY DEF IInv
  <2>2. steady \subseteq Held
    BY <2>1, ListedHeld DEF Typed
  <2> QED BY <2>1, <2>2 DEF TypeOK, Typed
<1> QED BY <1>1, Invariant, PTL

\* The rows on screen, of a list by key, are one listing from the top.
LEMMA ScreenJoined ==
  ASSUME IInv, ByKey, ~ crossed,
         NEW N, N.entries = Entries, N.cursor = Cursor
  PROVE  Fits(N, Top) /\ N.entries \in Seq(Held)
<1>1. /\ page.entries \in Seq(Held) /\ appended.entries \in Seq(Held)
      /\ RowsTyped /\ list \in Lists /\ steady \subseteq Held
  BY ListedHeld DEF IInv, Typed, IsListing
<1>2. Fits(page, Top)
  BY DEF IInv, ScreenFits
<1>3. CASE Beyond
  <2>1. appended.behind = page.cursor /\ appended.of = view
    BY <1>3 DEF Beyond
  <2>2. page.cursor \in Triples /\ Fits(appended, page.cursor)
    BY <2>1 DEF IInv, ScreenFits
  <2>3. N.entries = page.entries \o appended.entries /\ N.cursor = appended.cursor
    BY <1>3 DEF Entries, Cursor
  <2>4. PICK L, M : L = page /\ M = appended
    OBVIOUS
  <2> QED BY <1>1, <1>2, <2>2, <2>3, <2>4, Joined
<1>4. CASE ~ Beyond
  <2>1. N.entries = page.entries /\ N.cursor = page.cursor
    BY <1>1, <1>4, ConcatEmptySeq DEF Entries, Cursor
  <2> QED BY <1>1, <1>2, <2>1 DEF Fits
<1> QED BY <1>3, <1>4

\* No row that kept its place is on the screen twice, whatever arrives, leaves or expires
\* between its pages, as long as no first page landed while another was on its way.
THEOREM SteadyRowsOnce == Spec => []SteadyRowsShownOnce
<1>1. IInv => SteadyRowsShownOnce
  <2> SUFFICES ASSUME IInv, ByKey, ~ crossed, NEW i \in Held \ moved, Twice(i)
               PROVE  FALSE
    BY DEF SteadyRowsShownOnce
  <2>1. PICK N : N = [entries |-> Entries, cursor |-> Cursor]
    OBVIOUS
  <2>2. Fits(N, Top) /\ N.entries = Entries
    BY <2>1, ScreenJoined
  <2>3. PICK a, b \in DOMAIN Entries : a # b /\ Entries[a] = i /\ Entries[b] = i
    BY DEF Twice
  <2> QED BY <2>2, <2>3 DEF Fits
<1> QED BY <1>1, Invariant, PTL

\* Once the list says it has no more, every item that has been in it all along is on the
\* screen, as long as no first page landed while another was on its way (ui/cursor.py).
THEOREM KeysetSkipsNothing == Spec => []NothingSkipped
<1>1. IInv => NothingSkipped
  <2> SUFFICES ASSUME IInv, ByKey, ~ crossed, Cursor = End, NEW i \in steady
               PROVE  i \in OnScreen
    BY DEF NothingSkipped
  <2>1. PICK N : N = [entries |-> Entries, cursor |-> Cursor]
    OBVIOUS
  <2>2. Fits(N, Top) /\ N.entries = Entries /\ N.cursor = End
    BY <2>1, ScreenJoined
  <2>3. Within(Keys(list, i), Top, End)
    BY DEF Within
  <2>4. PICK n \in DOMAIN Entries : Entries[n] = i
    BY <2>2, <2>3 DEF Fits
  <2> QED BY <2>4 DEF OnScreen, Range
<1> QED BY <1>1, Invariant, PTL

\* A search of an archive that keeps still shows every item it reaches, once, as far down as a
\* search may be paged (ui/search.py deep).
THEOREM SearchShowsAll == Spec => []SearchWhole
<1>1. IInv => SearchWhole
  <2> SUFFICES ASSUME IInv, list = "search", view # 0, ~ stirred PROVE SearchWhole
    BY DEF SearchWhole
  <2>1. Reached(Entries, Cursor) /\ Typed
    BY DEF IInv, SearchReaches
  <2>2. PICK e, c : e = Entries /\ c = Cursor
    OBVIOUS
  <2>3. /\ \A m, n \in DOMAIN e : m # n => e[m] # e[n]
        /\ c = End => \A i \in Listed("search") :
             \/ \E n \in DOMAIN e : e[n] = i
             \/ Cardinality(Above(KeysOf("search", Listed("search")), i)) > MaxDepth
    BY <2>1, <2>2, ReachedWhole DEF Typed
  <2>4. ASSUME NEW i \in Held PROVE ~ Twice(i)
    BY <2>2, <2>3 DEF Twice
  <2>5. ASSUME Cursor = End, NEW i \in steady PROVE i \in OnScreen \/ Rank(i) > MaxDepth
    <3>1. i \in Listed("search")
      BY <2>1 DEF Typed
    <3>2. CASE \E n \in DOMAIN e : e[n] = i
      BY <2>2, <3>2 DEF OnScreen, Range
    <3>3. CASE Cardinality(Above(KeysOf("search", Listed("search")), i)) > MaxDepth
      BY <3>3 DEF Rank
    <3> QED BY <2>2, <2>3, <2>5, <3>1, <3>2, <3>3
  <2> QED BY <2>4, <2>5 DEF SearchWhole
<1> QED BY <1>1, Invariant, PTL
=============================================================================
