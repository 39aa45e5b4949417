-------------------------- MODULE FlowPagingProofs --------------------------
(* That stepping through a session's flows by cursors neither skips nor       *)
(* repeats one, and that pages say of themselves what is so: for any number   *)
(* of flows, any page size, filter and window, while the session grows and is *)
(* flushed between pages.                                                     *)
EXTENDS FlowPaging, FiniteSetTheorems, SequenceTheorems, WellFoundedInduction, TLAPS

-----------------------------------------------------------------------------
(* Sets in order.                                                            *)

Total(S, R) ==
    /\ \A f, g \in S : f = g \/ <<f, g>> \in R \/ <<g, f>> \in R
    /\ \A f \in S : <<f, f>> \notin R
    /\ \A f, g, h \in S : <<f, g>> \in R /\ <<g, h>> \in R => <<f, h>> \in R

Ordering(s, n, T, R) ==
    s \in [1..n -> T] /\ \A i, j \in 1..n : i < j => <<s[i], s[j]>> \in R

\* Of n flows of a set there is an ordering.
HasOrderings(c, n, x) ==
    \A T \in SUBSET c.S : Cardinality(T) = n => \E s : Ordering(s, n, T, c.R)
Grow(c, a, e) == a
Growing == INSTANCE FoldFacts WITH Op <- Grow, Inv <- HasOrderings

\* A nonempty finite set in order has a last element: of the sets of elements past a given
\* one, some is least.
LEMMA LastOf ==
    ASSUME NEW T, IsFiniteSet(T), T # {}, NEW R, Total(T, R)
    PROVE  \E m \in T : \A f \in T \ {m} : <<f, m>> \in R
<1> DEFINE past(x) == {f \in T : <<x, f>> \in R}
           less == StrictSubsetOrdering(T)
<1>1. IsWellFoundedOn(less, SUBSET T)
  BY FS_StrictSubsetOrderingWellFounded, FS_FiniteSubsetsOfFinite
<1>2. PICK F : F = {past(x) : x \in T}
  OBVIOUS
<1>3. F \subseteq SUBSET T /\ F # {}
  BY <1>2
<1>4. PICK p \in F : \A q \in F : <<q, p>> \notin less
  <2> HIDE DEF less
  <2> QED BY <1>1, <1>3, WFMin
<1>5. PICK m \in T : p = past(m)
  BY <1>2
<1>6. ASSUME NEW f \in T, <<m, f>> \in R PROVE FALSE
  <2>1. past(f) \in F /\ f \in past(m)
    BY <1>2, <1>6
  <2>2. f \notin past(f)
    BY DEF Total
  <2>3. ASSUME NEW g \in past(f) PROVE g \in past(m)
    BY <1>6, <2>3 DEF Total
  <2> HIDE DEF past
  <2>4. past(f) \in SUBSET T /\ past(m) \in SUBSET T /\ past(f) \subseteq past(m) /\ past(f) # past(m)
    BY <1>3, <1>5, <2>1, <2>2, <2>3
  <2>5. <<past(f), past(m)>> \in less
    <3> DEFINE y == past(f)
               x == past(m)
    <3>1. y \in SUBSET T /\ x \in SUBSET T /\ y \subseteq x /\ y # x
      BY <2>4
    <3> HIDE DEF x, y
    <3>2. <<y, x>> \in (SUBSET T) \X (SUBSET T) /\ <<y, x>>[1] = y /\ <<y, x>>[2] = x
      BY <3>1
    <3>3. <<y, x>> \in less
      BY <3>1, <3>2 DEF StrictSubsetOrdering
    <3> QED BY <3>3 DEF x, y
  <2> QED BY <1>4, <1>5, <2>1, <2>5
<1>7. ASSUME NEW f \in T \ {m} PROVE <<f, m>> \in R
  BY <1>6, <1>7 DEF Total
<1> QED BY <1>7

LEMMA OrderingExists ==
    ASSUME NEW S, IsFiniteSet(S), NEW R, Total(S, R)
    PROVE  \E s : Ordering(s, Cardinality(S), S, R)
<1> DEFINE c == [S |-> S, R |-> R]
<1>1. HasOrderings(c, 0, {})
  <2> SUFFICES ASSUME NEW T \in SUBSET S, Cardinality(T) = 0
               PROVE  \E s : Ordering(s, 0, T, R)
    BY DEF HasOrderings
  <2> DEFINE s == [i \in 1..0 |-> i]
  <2>1. s \in [1..0 -> T]
    OBVIOUS
  <2>2. \A i, j \in 1..0 : FALSE
    OBVIOUS
  <2> HIDE DEF s
  <2>3. Ordering(s, 0, T, R)
    BY ONLY <2>1, <2>2 DEF Ordering
  <2> QED BY <2>3
<1>2. ASSUME NEW n \in Nat, HasOrderings(c, n, {}) PROVE HasOrderings(c, n + 1, {})
  <2> SUFFICES ASSUME NEW T \in SUBSET S, Cardinality(T) = n + 1
               PROVE  \E s : Ordering(s, n + 1, T, R)
    BY DEF HasOrderings
  <2>1. IsFiniteSet(T) /\ T # {} /\ Total(T, R)
    <3>1. IsFiniteSet(T)
      BY FS_Subset
    <3>2. T # {}
      BY FS_EmptySet
    <3> QED BY <3>1, <3>2 DEF Total
  <2>2. PICK m \in T : \A f \in T \ {m} : <<f, m>> \in R
    <3>1. \E m \in T : \A f \in T \ {m} : <<f, m>> \in R
      BY ONLY <2>1, LastOf
    <3> QED BY <3>1
  <2>3. T \ {m} \in SUBSET S /\ Cardinality(T \ {m}) = n
    <3>1. Cardinality(T \ {m}) = Cardinality(T) - 1
      BY <2>1, FS_RemoveElement
    <3> QED BY <3>1
  <2>4. PICK s : Ordering(s, n, T \ {m}, R)
    BY <1>2, <2>3 DEF HasOrderings
  <2> DEFINE t == [i \in 1..n + 1 |-> IF i = n + 1 THEN m ELSE s[i]]
  <2>5. t \in [1..n + 1 -> T] /\ t[n + 1] = m /\ \A i \in 1..n : t[i] = s[i] /\ s[i] \in T \ {m}
    BY <2>4 DEF Ordering
  <2> HIDE DEF t
  <2>6. ASSUME NEW i \in 1..n + 1, NEW j \in 1..n + 1, i < j PROVE <<t[i], t[j]>> \in R
    <3>1. i \in 1..n
      BY <2>6
    <3>2. CASE j = n + 1
      BY <2>2, <2>5, <3>1, <3>2
    <3>3. CASE j # n + 1
      <4>1. j \in 1..n
        BY <3>3
      <4> QED BY <2>4, <2>5, <2>6, <3>1, <4>1 DEF Ordering
    <3> QED BY <3>2, <3>3
  <2> QED BY <2>5, <2>6 DEF Ordering
<1>3. \A n \in Nat : HasOrderings(c, n, {})
  <2> HIDE DEF c
  <2> QED BY ONLY <1>1, <1>2, Growing!Induct
<1>4. Cardinality(S) \in Nat /\ S \in SUBSET S
  BY FS_CardinalityType
<1> QED BY <1>3, <1>4 DEF HasOrderings

\* What putting a set in order gives: each of its elements once.
LEMMA InOrder ==
    ASSUME NEW S \in SUBSET Flows, NEW R, Total(S, R)
    PROVE  /\ inOrder(S, R) \in Seq(S) /\ Len(inOrder(S, R)) = Cardinality(S)
           /\ \A i, j \in 1..Len(inOrder(S, R)) :
                 i < j => <<inOrder(S, R)[i], inOrder(S, R)[j]>> \in R
           /\ Rows(inOrder(S, R)) = S
<1> DEFINE s == inOrder(S, R)
           n == Cardinality(S)
<1>1. IsFiniteSet(S) /\ n \in Nat
  <2>1. IsFiniteSet(Flows)
    BY PagingAssumption, FS_Interval DEF Flows
  <2> QED BY <2>1, FS_Subset, FS_CardinalityType
<1>2. Ordering(s, n, S, R)
  <2>1. \E t : Ordering(t, n, S, R)
    BY <1>1, OrderingExists
  <2>2. \E t \in [1..n -> S] : \A i, j \in 1..n : i < j => <<t[i], t[j]>> \in R
    BY <2>1 DEF Ordering
  <2> QED BY <2>2 DEF inOrder, Ordering
<1> HIDE DEF s
<1>3. s \in Seq(S) /\ Len(s) = n
  <2>1. s \in [1..n -> S]
    BY <1>2 DEF Ordering
  <2>2. s \in Seq(S)
    BY <1>1, <2>1, SeqDef
  <2>3. DOMAIN s = 1..n /\ DOMAIN s = 1..Len(s) /\ Len(s) \in Nat
    BY <2>1, <2>2, LenProperties
  <2> QED BY <1>1, <2>2, <2>3
<1>4. s \in Surjection(1..n, S)
  <2>1. s \in Injection(1..n, S)
    <3>1. ASSUME NEW i \in 1..n, NEW j \in 1..n, s[i] = s[j], i # j PROVE FALSE
      <4>1. s[i] \in S
        BY <1>2 DEF Ordering
      <4>2. i < j \/ j < i
        BY <1>1, <3>1
      <4> QED BY <1>2, <3>1, <4>1, <4>2 DEF Ordering, Total
    <3> QED BY <1>2, <3>1 DEF Injection, IsInjective, Ordering
  <2>2. IsFiniteSet(1..n) /\ Cardinality(1..n) = n
    BY <1>1, FS_Interval
  <2> QED BY <1>1, <2>1, <2>2, FS_Injection
<1>5. Rows(s) = S
  BY <1>3, <1>4 DEF Rows, Surjection
<1> QED BY <1>2, <1>3, <1>5 DEF Ordering, s

-----------------------------------------------------------------------------
(* Pages of a set of flows.                                                  *)

\* Keys identify flows and are in timeline order.
KeysRise == key \in [Flows -> 1..N] /\ \A f, g \in Flows : f < g => key[f] < key[g]

\* What a query finds in the session's variables.
Queried ==
    /\ KeysRise /\ limit \in Nat \ {0} /\ ScanCap >= N
    /\ bundle \subseteq Flows /\ tail \subseteq Flows /\ fits \subseteq Flows

\* The first flows of a set that a page has room for, and the last ones.
IsStart(s, S) ==
    /\ s \in Seq(S) /\ Ascending(s) /\ Len(s) <= limit
    /\ \A f \in S \ Rows(s) : Len(s) = limit /\ \A g \in Rows(s) : g < f
IsEnd(s, S) ==
    /\ s \in Seq(S) /\ Ascending(s) /\ Len(s) <= limit
    /\ \A f \in S \ Rows(s) : Len(s) = limit /\ \A g \in Rows(s) : f < g

\* As many rows of a list as a page has room for, from its start and from its end.
FirstRows(t, s) == t = SubSeq(s, 1, IF Len(s) < limit THEN Len(s) ELSE limit)
LastRows(t, s, n) ==
    /\ n = IF Len(s) <= limit THEN Len(s) ELSE limit
    /\ Len(t) = n /\ \A i \in 1..n : t[i] = s[Len(s) - n + i]

Descending(s) == \A i, j \in 1..Len(s) : i < j => s[i] > s[j]

\* A page with its cursors, walking forward and walking back.
StartPage(p, kind, S) ==
    /\ IsStart(p.rows, S)
    /\ p.next = IF S \subseteq Rows(p.rows) THEN 0 ELSE key[Last(p.rows)]
    /\ p.prev = IF kind = "first" \/ p.rows = << >> THEN 0 ELSE key[Head(p.rows)]
EndPage(p, kind, S) ==
    /\ IsEnd(p.rows, S)
    /\ p.next = IF kind = "last" \/ p.rows = << >> THEN 0 ELSE key[Last(p.rows)]
    /\ p.prev = IF S \subseteq Rows(p.rows) THEN 0 ELSE key[Head(p.rows)]

LEMMA FlowNumbers == Flows \subseteq Nat /\ IsFiniteSet(Flows) /\ Cardinality(Flows) = N /\ N \in Nat
  BY PagingAssumption, FS_Interval DEF Flows

LEMMA Orders ==
    ASSUME NEW S \in SUBSET Flows
    PROVE  /\ Total(S, earlier) /\ Total(S, later)
           /\ \A f, g \in S : <<f, g>> \in earlier => f < g
           /\ \A f, g \in S : <<f, g>> \in later => f > g
<1>1. \A f, g \in S : <<f, g>> \in Flows \X Flows /\ f \in Nat /\ g \in Nat
  BY FlowNumbers
<1>2. \A f, g \in S : (<<f, g>> \in earlier <=> f < g) /\ (<<f, g>> \in later <=> f > g)
  BY <1>1 DEF earlier, later
<1> QED BY <1>1, <1>2 DEF Total

LEMMA StableOrder ==
    ASSUME KeysRise, NEW S \in SUBSET Flows, NEW add
    PROVE  Total(S, stable(add)) /\ \A f, g \in S : <<f, g>> \in stable(add) => f < g
<1>1. \A f, g \in S : <<f, g>> \in Flows \X Flows /\ f \in Nat /\ g \in Nat
  BY FlowNumbers
<1>2. \A f, g \in S : key[f] \in Nat /\ (key[f] = key[g] => f = g)
                      /\ (key[f] < key[g] <=> f < g)
  <2> TAKE f, g \in S
  <2>1. key[f] \in Nat /\ key[g] \in Nat /\ f \in Nat /\ g \in Nat
    BY <1>1, FlowNumbers DEF KeysRise
  <2>2. (f < g => key[f] < key[g]) /\ (g < f => key[g] < key[f])
    BY DEF KeysRise
  <2>3. f < g \/ g < f \/ f = g
    BY <2>1
  <2> QED BY <2>1, <2>2, <2>3
<1>3. \A f, g \in S : <<f, g>> \in stable(add) <=> f < g
  BY <1>1, <1>2 DEF stable
<1> QED BY <1>1, <1>3 DEF Total

\* A set in timeline order, and backwards.
LEMMA InTimeline ==
    ASSUME NEW S \in SUBSET Flows
    PROVE  /\ inOrder(S, earlier) \in Seq(S) /\ Rows(inOrder(S, earlier)) = S
           /\ Ascending(inOrder(S, earlier))
           /\ Len(inOrder(S, earlier)) = Cardinality(S)
<1> DEFINE s == inOrder(S, earlier)
<1>1. Total(S, earlier)
  BY Orders
<1>2. /\ s \in Seq(S) /\ Len(s) = Cardinality(S) /\ Rows(s) = S
      /\ \A i, j \in 1..Len(s) : i < j => <<s[i], s[j]>> \in earlier
  BY <1>1, InOrder
<1> HIDE DEF s
<1>3. \A i \in 1..Len(s) : s[i] \in S
  BY <1>2, ElementOfSeq
<1>4. Ascending(s)
  BY <1>2, <1>3, Orders DEF Ascending
<1> QED BY <1>2, <1>4 DEF s

LEMMA InReverse ==
    ASSUME NEW S \in SUBSET Flows
    PROVE  /\ inOrder(S, later) \in Seq(S) /\ Rows(inOrder(S, later)) = S
           /\ Descending(inOrder(S, later))
           /\ Len(inOrder(S, later)) = Cardinality(S)
<1> DEFINE s == inOrder(S, later)
<1>1. Total(S, later)
  BY Orders
<1>2. /\ s \in Seq(S) /\ Len(s) = Cardinality(S) /\ Rows(s) = S
      /\ \A i, j \in 1..Len(s) : i < j => <<s[i], s[j]>> \in later
  BY <1>1, InOrder
<1> HIDE DEF s
<1>3. \A i \in 1..Len(s) : s[i] \in S
  BY <1>2, ElementOfSeq
<1>4. Descending(s)
  BY <1>2, <1>3, Orders DEF Descending
<1> QED BY <1>2, <1>4 DEF s

LEMMA Merged ==
    ASSUME KeysRise, NEW rows, NEW add, Rows(rows) \cup add \subseteq Flows
    PROVE  /\ merged(rows, add) \in Seq(Rows(rows) \cup add)
           /\ Rows(merged(rows, add)) = Rows(rows) \cup add
           /\ Ascending(merged(rows, add))
<1> DEFINE S == Rows(rows) \cup add
           s == inOrder(S, stable(add))
<1>0. S \in SUBSET Flows
  OBVIOUS
<1> HIDE DEF S
<1>1. Total(S, stable(add)) /\ \A f, g \in S : <<f, g>> \in stable(add) => f < g
  BY <1>0, StableOrder
<1>2. /\ s \in Seq(S) /\ Len(s) = Cardinality(S) /\ Rows(s) = S
      /\ \A i, j \in 1..Len(s) : i < j => <<s[i], s[j]>> \in stable(add)
  BY <1>0, <1>1, InOrder
<1> HIDE DEF s
<1>3. \A i \in 1..Len(s) : s[i] \in S
  BY <1>2, ElementOfSeq
<1>4. Ascending(s)
  BY <1>1, <1>2, <1>3 DEF Ascending
<1>5. s = merged(rows, add)
  BY DEF s, S, merged
<1> QED BY <1>2, <1>4, <1>5 DEF S

\* The first of a list, as many as there is room for.
LEMMA StartOf ==
    ASSUME limit \in Nat \ {0}, NEW S \in SUBSET Flows, NEW s \in Seq(S), Rows(s) = S, Ascending(s),
           NEW t, FirstRows(t, s)
    PROVE  /\ IsStart(t, S) /\ (S \subseteq Rows(t) <=> Len(s) <= limit)
           /\ t # << >> <=> s # << >>
<1> DEFINE n == IF Len(s) < limit THEN Len(s) ELSE limit
<1>0. Len(s) \in Nat /\ n \in Nat /\ n <= Len(s) /\ n <= limit /\ (Len(s) <= limit <=> n = Len(s))
      /\ (n < Len(s) => n = limit)
  BY LenProperties
<1>1. \A i \in 1..Len(s) : s[i] \in S /\ s[i] \in Nat
  BY ElementOfSeq, FlowNumbers
<1> HIDE DEF n
<1>2. t \in Seq(S) /\ Len(t) = n /\ \A i \in 1..n : t[i] = s[i]
  <2>1. t = SubSeq(s, 1, n)
    BY DEF n, FirstRows
  <2>2. \A i \in 1..n : s[i] \in S
    BY <1>0, <1>1
  <2>3. 1 \in Int /\ n \in Int
    BY <1>0
  <2>4. /\ SubSeq(s, 1, n) \in Seq(S)
        /\ Len(SubSeq(s, 1, n)) = IF 1 <= n THEN n - 1 + 1 ELSE 0
        /\ \A i \in 1..n - 1 + 1 : SubSeq(s, 1, n)[i] = s[1 + i - 1]
    BY ONLY <2>2, <2>3, SubSeqProperties
  <2> QED BY <1>0, <2>1, <2>4
<1>3. Ascending(t)
  <2> SUFFICES ASSUME NEW i \in 1..n, NEW j \in 1..n, i < j PROVE s[i] < s[j]
    BY <1>2 DEF Ascending
  <2>1. i \in 1..Len(s) /\ j \in 1..Len(s)
    BY <1>0
  <2> QED BY <2>1 DEF Ascending
<1>4. ASSUME NEW f \in S, f \notin Rows(t) PROVE n = limit /\ n < Len(s) /\ \A g \in Rows(t) : g < f
  <2>1. PICK k \in 1..Len(s) : f = s[k]
    BY DEF Rows
  <2>2. k \notin 1..n
    BY <1>2, <1>4, <2>1 DEF Rows
  <2>3. n < k
    BY <1>0, <2>2
  <2>4. n < Len(s) /\ n = limit
    BY <1>0, <2>3
  <2>5. ASSUME NEW g \in Rows(t) PROVE g < f
    <3>1. PICK i \in 1..n : g = s[i]
      BY <1>2 DEF Rows
    <3>2. i \in 1..Len(s) /\ i < k
      BY <1>0, <2>3
    <3> QED BY <2>1, <3>1, <3>2 DEF Ascending
  <2> QED BY <2>4, <2>5
<1>5. ASSUME n < Len(s) PROVE ~(S \subseteq Rows(t))
  <2>1. n + 1 \in 1..Len(s)
    BY <1>0, <1>5
  <2>2. ASSUME s[n + 1] \in Rows(t) PROVE FALSE
    <3>1. PICK i \in 1..n : s[n + 1] = s[i]
      BY <1>2, <2>2 DEF Rows
    <3>2. i \in 1..Len(s) /\ i < n + 1
      BY <1>0
    <3>3. s[i] < s[n + 1]
      BY <2>1, <3>2 DEF Ascending
    <3> QED BY <1>1, <2>1, <3>1, <3>2, <3>3
  <2> QED BY <1>1, <2>1, <2>2
<1>6. S \subseteq Rows(t) <=> Len(s) <= limit
  BY <1>0, <1>4, <1>5
<1>7. t # << >> <=> s # << >>
  <2>1. t = << >> <=> n = 0
    BY <1>2, EmptySeq
  <2>2. s = << >> <=> Len(s) = 0
    BY EmptySeq
  <2> QED BY <1>0, <2>1, <2>2
<1> QED BY <1>0, <1>2, <1>3, <1>4, <1>6, <1>7 DEF IsStart

\* The same from the end of a list.
LEMMA EndOf ==
    ASSUME limit \in Nat \ {0}, NEW S \in SUBSET Flows, NEW s \in Seq(S), Rows(s) = S, Ascending(s),
           NEW n, NEW t \in Seq(S), LastRows(t, s, n)
    PROVE  IsEnd(t, S) /\ (S \subseteq Rows(t) <=> Len(s) <= limit)
<1> DEFINE m == Len(s) - n
<1>0. Len(s) \in Nat /\ n \in Nat /\ n <= Len(s) /\ n <= limit /\ (Len(s) <= limit <=> n = Len(s))
      /\ (n < Len(s) => n = limit) /\ m \in Nat /\ m + n = Len(s) /\ Len(t) = n
  BY LenProperties DEF LastRows
<1>1. \A i \in 1..Len(s) : s[i] \in S /\ s[i] \in Nat
  BY ElementOfSeq, FlowNumbers
<1>2. /\ \A i \in 1..n : t[i] = s[m + i] /\ m + i \in 1..Len(s)
      /\ \A g \in Rows(t) : \E i \in 1..n : g = s[m + i]
  <2>1. \A i \in 1..n : t[i] = s[m + i]
    BY DEF LastRows
  <2> HIDE DEF m
  <2>2. \A i \in 1..n : m + i \in 1..Len(s)
    BY ONLY <1>0
  <2>3. ASSUME NEW g \in Rows(t) PROVE \E i \in 1..n : g = s[m + i]
    <3>1. \E i \in 1..n : g = t[i]
      BY ONLY <1>0, <2>3 DEF Rows
    <3> QED BY <2>1, <3>1
  <2> QED BY <2>1, <2>2, <2>3
<1> HIDE DEF m
<1>3. Ascending(t)
  <2>1. ASSUME NEW i \in 1..n, NEW j \in 1..n, i < j PROVE t[i] < t[j]
    <3>1. m + i \in 1..Len(s) /\ m + j \in 1..Len(s) /\ m + i < m + j
      BY ONLY <1>0, <2>1
    <3>2. s[m + i] < s[m + j]
      BY <3>1 DEF Ascending
    <3> QED BY <1>2, <3>2
  <2> QED BY ONLY <1>0, <2>1 DEF Ascending
<1>4. ASSUME NEW f \in S, f \notin Rows(t) PROVE n = limit /\ n < Len(s) /\ \A g \in Rows(t) : f < g
  <2>1. PICK k \in 1..Len(s) : f = s[k]
    BY DEF Rows
  <2>2. k <= m
    <3> SUFFICES ASSUME k > m PROVE FALSE
      BY <1>0
    <3>1. k - m \in 1..Len(t) /\ k - m \in 1..n /\ m + (k - m) = k
      BY <1>0
    <3>2. t[k - m] = f
      BY <1>2, <2>1, <3>1
    <3> QED BY <1>4, <3>1, <3>2 DEF Rows
  <2>3. n < Len(s) /\ n = limit
    BY <1>0, <2>2
  <2>4. ASSUME NEW g \in Rows(t) PROVE f < g
    <3>1. PICK i \in 1..n : g = s[m + i]
      BY <1>2
    <3>2. m + i \in 1..Len(s) /\ k < m + i
      BY <1>0, <1>2, <2>2
    <3> QED BY <2>1, <3>1, <3>2 DEF Ascending
  <2> QED BY <2>3, <2>4
<1>5. ASSUME n < Len(s) PROVE ~(S \subseteq Rows(t))
  <2>1. 1 \in 1..Len(s) /\ m >= 1
    BY <1>0, <1>5
  <2>2. ASSUME s[1] \in Rows(t) PROVE FALSE
    <3>1. PICK i \in 1..n : s[1] = s[m + i]
      BY <1>2, <2>2
    <3>2. m + i \in 1..Len(s) /\ 1 < m + i
      BY <1>0, <1>2, <2>1
    <3>3. s[1] < s[m + i]
      BY <2>1, <3>2 DEF Ascending
    <3> QED BY <1>1, <2>1, <3>1, <3>2, <3>3
  <2> QED BY <1>1, <2>1, <2>2
<1>6. S \subseteq Rows(t) <=> Len(s) <= limit
  BY <1>0, <1>4, <1>5
<1> QED BY <1>0, <1>3, <1>4, <1>6 DEF IsEnd

\* A backward scan is turned around.
LEMMA EndReversed ==
    ASSUME limit \in Nat \ {0}, NEW S \in SUBSET Flows, NEW s \in Seq(S), Rows(s) = S,
           Descending(s), NEW u, FirstRows(u, s)
    PROVE  /\ IsEnd(Reverse(u), S) /\ (S \subseteq Rows(Reverse(u)) <=> Len(s) <= limit)
           /\ u # << >> <=> s # << >>
           /\ u # << >> <=> Reverse(u) # << >>
           /\ u # << >> => Last(u) = Head(Reverse(u)) /\ Head(u) = Last(Reverse(u))
<1> DEFINE n == IF Len(s) <= limit THEN Len(s) ELSE limit
           r == [i \in 1..Len(s) |-> s[Len(s) - i + 1]]
           t == Reverse(u)
<1>0. Len(s) \in Nat /\ n \in Nat /\ n <= Len(s) /\ n = IF Len(s) < limit THEN Len(s) ELSE limit
  BY LenProperties
<1>1. \A i \in 1..Len(s) : s[i] \in S /\ Len(s) - i + 1 \in 1..Len(s)
  BY <1>0, ElementOfSeq
<1> HIDE DEF n
<1>2. u \in Seq(S) /\ Len(u) = n /\ \A i \in 1..n : u[i] = s[i]
  <2>1. u = SubSeq(s, 1, n)
    BY <1>0 DEF FirstRows
  <2>2. \A i \in 1..n : s[i] \in S
    BY <1>0, <1>1
  <2>3. 1 \in Int /\ n \in Int
    BY <1>0
  <2>4. /\ SubSeq(s, 1, n) \in Seq(S)
        /\ Len(SubSeq(s, 1, n)) = IF 1 <= n THEN n - 1 + 1 ELSE 0
        /\ \A i \in 1..n - 1 + 1 : SubSeq(s, 1, n)[i] = s[1 + i - 1]
    BY ONLY <2>2, <2>3, SubSeqProperties
  <2> QED BY <1>0, <2>1, <2>4
<1>3. r \in Seq(S) /\ Len(r) = Len(s) /\ \A i \in 1..Len(s) : r[i] = s[Len(s) - i + 1]
  <2>1. r \in [1..Len(s) -> S]
    BY <1>1
  <2> HIDE DEF r
  <2>2. r \in Seq(S) /\ DOMAIN r = 1..Len(s)
    BY <1>0, <2>1, SeqDef
  <2>3. Len(r) = Len(s)
    BY <1>0, <2>2, LenProperties
  <2> QED BY <2>2, <2>3 DEF r
<1>4. t \in Seq(S) /\ Len(t) = n /\ \A i \in 1..n : t[i] = u[n - i + 1]
  <2>0. t = [i \in 1..n |-> u[(n - i) + 1]]
    BY <1>2 DEF Reverse
  <2>1. t \in [1..n -> S]
    <3>1. \A i \in 1..n : (n - i) + 1 \in 1..n /\ u[(n - i) + 1] \in S
      BY <1>0, <1>2, ElementOfSeq
    <3> QED BY <2>0, <3>1
  <2> HIDE DEF t
  <2>2. t \in Seq(S) /\ DOMAIN t = 1..n
    BY <1>0, <2>1, SeqDef
  <2>3. Len(t) = n
    BY <1>0, <2>2, LenProperties
  <2> QED BY <2>0, <2>2, <2>3
<1> HIDE DEF r, t
<1>5. Rows(r) = S
  <2>1. ASSUME NEW f \in S PROVE f \in Rows(r)
    <3>1. PICK k \in 1..Len(s) : f = s[k]
      BY DEF Rows
    <3>2. Len(s) - k + 1 \in 1..Len(s) /\ Len(s) - (Len(s) - k + 1) + 1 = k
      BY <1>0
    <3>3. r[Len(s) - k + 1] = f
      BY <1>3, <3>1, <3>2
    <3> QED BY <1>3, <3>2, <3>3 DEF Rows
  <2>2. ASSUME NEW f \in Rows(r) PROVE f \in S
    BY <1>1, <1>3, <2>2 DEF Rows
  <2> QED BY <2>1, <2>2
<1>6. Ascending(r)
  <2> SUFFICES ASSUME NEW i \in 1..Len(s), NEW j \in 1..Len(s), i < j PROVE r[i] < r[j]
    BY <1>3 DEF Ascending
  <2>1. Len(s) - i + 1 \in 1..Len(s) /\ Len(s) - j + 1 \in 1..Len(s)
        /\ Len(s) - j + 1 < Len(s) - i + 1
    BY <1>0
  <2>2. s[Len(s) - j + 1] > s[Len(s) - i + 1]
    BY <2>1 DEF Descending
  <2>3. s[Len(s) - j + 1] \in Nat /\ s[Len(s) - i + 1] \in Nat
    BY <1>1, FlowNumbers
  <2> QED BY <1>3, <2>2, <2>3
<1>7. \A i \in 1..n : t[i] = r[Len(r) - n + i]
  <2> TAKE i \in 1..n
  <2>1. n - i + 1 \in 1..n /\ Len(s) - n + i \in 1..Len(s)
        /\ Len(s) - (Len(s) - n + i) + 1 = n - i + 1
    BY <1>0
  <2>2. t[i] = s[n - i + 1] /\ r[Len(s) - n + i] = s[n - i + 1]
    BY <1>2, <1>3, <1>4, <2>1
  <2> QED BY <1>3, <2>2
<1>8. IsEnd(t, S) /\ (S \subseteq Rows(t) <=> Len(r) <= limit)
  <2>1. n = IF Len(r) <= limit THEN Len(r) ELSE limit
    BY <1>3 DEF n
  <2>2. LastRows(t, r, n) /\ r \in Seq(S) /\ t \in Seq(S)
    BY <1>3, <1>4, <1>7, <2>1 DEF LastRows
  <2> QED BY ONLY limit \in Nat \ {0}, S \in SUBSET Flows, <1>5, <1>6, <2>2, EndOf
<1>9. (t = << >> <=> n = 0) /\ (u = << >> <=> n = 0) /\ (s = << >> <=> n = 0)
  <2>1. t = << >> <=> n = 0
    BY <1>4, EmptySeq
  <2>2. u = << >> <=> n = 0
    BY <1>2, EmptySeq
  <2>3. s = << >> <=> Len(s) = 0
    BY EmptySeq
  <2> QED BY <1>0, <2>1, <2>2, <2>3
<1>10. ASSUME u # << >> PROVE Last(u) = Head(t) /\ Head(u) = Last(t)
  <2>1. n \in 1..n /\ 1 \in 1..n /\ n - 1 + 1 = n /\ n - n + 1 = 1
    BY <1>0, <1>9, <1>10
  <2>2. t[1] = u[n] /\ t[n] = u[1]
    BY <1>4, <2>1
  <2>3. Head(u) = u[1] /\ Head(t) = t[1]
    BY <1>2, <1>4, <1>9, <1>10
  <2> QED BY <1>2, <1>4, <2>2, <2>3 DEF Last
<1> QED BY <1>8, <1>9, <1>10, <1>3 DEF t

-----------------------------------------------------------------------------
(* One page.                                                                 *)

\* What a query of the bundle may find.
Hits(kind, c) == whereClause(kind, c) \cap fits

\* A bundle no larger than the cap is scanned to its end.
LEMMA ScansAll ==
    ASSUME Queried, NEW kind, NEW c
    PROVE  LET range == scanOrder(kind, whereClause(kind, c))
           IN  Rows(Upto(range, ScanCap)) = whereClause(kind, c) /\ ~(Len(range) > ScanCap)
<1> DEFINE W == whereClause(kind, c)
           range == scanOrder(kind, W)
<1>1. W \in SUBSET Flows
  BY DEF Queried, whereClause
<1> HIDE DEF W
<1>2. range \in Seq(W) /\ Rows(range) = W /\ Len(range) = Cardinality(W)
  BY <1>1, InTimeline, InReverse DEF scanOrder
<1>3. Cardinality(W) <= N /\ Cardinality(W) \in Nat
  BY <1>1, FlowNumbers, FS_Subset, FS_CardinalityType
<1> HIDE DEF range
<1>4. ~(Len(range) > ScanCap) /\ (Len(range) < ScanCap \/ Len(range) = ScanCap)
  BY <1>2, <1>3, FlowNumbers, PagingAssumption DEF Queried
<1>5. Upto(range, ScanCap) = range
  <2>1. Upto(range, ScanCap) = SubSeq(range, 1, Len(range))
    BY <1>4 DEF Upto
  <2> QED BY <1>2, <2>1, SubSeqFull
<1> QED BY <1>2, <1>4, <1>5 DEF range, W

\* The page of the bundle, forward.
LEMMA StoreForward ==
    ASSUME Queried, NEW kind \in {"first", "after"}, NEW c
    PROVE  StartPage(storeQuery(kind, c), kind, Hits(kind, c))
<1> DEFINE W == whereClause(kind, c)
           range == scanOrder(kind, W)
           hits == scanOrder(kind, Rows(Upto(range, ScanCap)) \cap fits)
           ids == Upto(hits, limit)
           capped == (filtered \/ until # 0) /\ Len(range) > ScanCap
           S == Hits(kind, c)
           p == storeQuery(kind, c)
<1>0. ~backwards(kind) /\ kind # "last" /\ kind # "before" /\ (kind # "first" <=> kind = "after")
  BY DEF backwards
<1>1. hits = inOrder(S, earlier) /\ ~capped
  <2>1. Rows(Upto(range, ScanCap)) = W /\ ~(Len(range) > ScanCap)
    BY ScansAll
  <2> QED BY <1>0, <2>1 DEF scanOrder, Hits
<1>2. S \in SUBSET Flows /\ limit \in Nat \ {0}
  BY DEF Queried, Hits, whereClause
<1>3. hits \in Seq(S) /\ Rows(hits) = S /\ Ascending(hits)
  BY <1>1, <1>2, InTimeline
<1>4. /\ p.rows = ids
      /\ p.next = IF ids # << >> /\ cursorOwed(hits, capped) THEN key[Last(ids)] ELSE 0
      /\ p.prev = IF kind = "first" THEN 0 ELSE IF ids # << >> THEN key[Head(ids)] ELSE 0
  BY <1>0 DEF storeQuery
<1> HIDE DEF S, p, hits, capped
<1>5. /\ IsStart(ids, S) /\ (S \subseteq Rows(ids) <=> Len(hits) <= limit)
      /\ ids # << >> <=> hits # << >>
  <2>1. FirstRows(ids, hits)
    BY DEF Upto, FirstRows
  <2> HIDE DEF ids
  <2> QED BY ONLY <1>2, <1>3, <2>1, StartOf
<1> HIDE DEF ids
<1>6. ids # << >> /\ cursorOwed(hits, capped) <=> ~(S \subseteq Rows(ids))
  <2>1. Len(hits) \in Nat /\ (hits = << >> <=> Len(hits) = 0)
    BY <1>3, LenProperties, EmptySeq
  <2> QED BY <1>1, <1>2, <1>5, <2>1 DEF cursorOwed
<1> QED BY <1>4, <1>5, <1>6 DEF StartPage, S, p

\* The page of the bundle, back.
LEMMA StoreBackward ==
    ASSUME Queried, NEW kind \in {"last", "before"}, NEW c
    PROVE  EndPage(storeQuery(kind, c), kind, Hits(kind, c))
<1> DEFINE W == whereClause(kind, c)
           range == scanOrder(kind, W)
           hits == scanOrder(kind, Rows(Upto(range, ScanCap)) \cap fits)
           ids == Upto(hits, limit)
           capped == (filtered \/ until # 0) /\ Len(range) > ScanCap
           S == Hits(kind, c)
           p == storeQuery(kind, c)
<1>0. backwards(kind) /\ kind # "first" /\ kind # "after" /\ (kind # "last" <=> kind = "before")
  BY DEF backwards
<1>1. hits = inOrder(S, later) /\ ~capped
  <2>1. Rows(Upto(range, ScanCap)) = W /\ ~(Len(range) > ScanCap)
    BY ScansAll
  <2> QED BY <1>0, <2>1 DEF scanOrder, Hits
<1>2. S \in SUBSET Flows /\ limit \in Nat \ {0}
  BY DEF Queried, Hits, whereClause
<1>3. hits \in Seq(S) /\ Rows(hits) = S /\ Descending(hits)
  BY <1>1, <1>2, InReverse
<1>4. /\ p.rows = Reverse(ids)
      /\ p.prev = IF ids # << >> /\ cursorOwed(hits, capped) THEN key[Last(ids)] ELSE 0
      /\ p.next = IF kind = "last" THEN 0 ELSE IF ids # << >> THEN key[Head(ids)] ELSE 0
  BY <1>0 DEF storeQuery
<1> HIDE DEF S, p, hits, capped
<1>5. /\ IsEnd(Reverse(ids), S) /\ (S \subseteq Rows(Reverse(ids)) <=> Len(hits) <= limit)
      /\ ids # << >> <=> hits # << >>
      /\ ids # << >> <=> Reverse(ids) # << >>
      /\ ids # << >> => Last(ids) = Head(Reverse(ids)) /\ Head(ids) = Last(Reverse(ids))
  <2>1. FirstRows(ids, hits)
    BY DEF Upto, FirstRows
  <2> HIDE DEF ids
  <2> QED BY ONLY <1>2, <1>3, <2>1, EndReversed
<1> HIDE DEF ids
<1>6. ids # << >> /\ cursorOwed(hits, capped) <=> ~(S \subseteq Rows(Reverse(ids)))
  <2>1. Len(hits) \in Nat /\ (hits = << >> <=> Len(hits) = 0)
    BY <1>3, LenProperties, EmptySeq
  <2> QED BY <1>1, <1>2, <1>5, <2>1 DEF cursorOwed
<1> QED BY <1>4, <1>5, <1>6 DEF EndPage, S, p

\* A page of distinct rows is no longer than one that has them all, and shorter than one that
\* has another row besides.
Distinct(s) == \A i, j \in 1..Len(s) : s[i] = s[j] => i = j

LEMMA NotLonger ==
    ASSUME NEW r \in Seq(Flows), Distinct(r), NEW s \in Seq(Flows), Rows(r) \subseteq Rows(s)
    PROVE  Len(r) <= Len(s)
<1>1. Len(r) \in Nat /\ Len(s) \in Nat
  BY LenProperties
<1>2. \A f \in Rows(s) : \E k \in 1..Len(s) : s[k] = f
  BY DEF Rows
<1>3. \A i \in 1..Len(r) : r[i] \in Rows(s)
  BY DEF Rows
<1> DEFINE place == [i \in 1..Len(r) |-> CHOOSE k \in 1..Len(s) : s[k] = r[i]]
<1>4. \A i \in 1..Len(r) : place[i] \in 1..Len(s) /\ s[place[i]] = r[i]
  BY <1>2, <1>3
<1>5. place \in Injection(1..Len(r), 1..Len(s))
  <2>1. place \in [1..Len(r) -> 1..Len(s)]
    BY <1>4
  <2> HIDE DEF place
  <2> QED BY <1>4, <2>1 DEF Injection, IsInjective, Distinct
<1> HIDE DEF place
<1>6. /\ IsFiniteSet(1..Len(s)) /\ Cardinality(1..Len(s)) = Len(s)
      /\ Cardinality(1..Len(r)) = Len(r)
  <2>1. \A m \in Nat : IsFiniteSet(1..m) /\ Cardinality(1..m) = m
    BY FS_Interval
  <2> QED BY <1>1, <2>1
<1>7. Cardinality(1..Len(r)) <= Cardinality(1..Len(s))
  BY <1>5, <1>6, FS_Injection
<1> QED BY <1>1, <1>6, <1>7

LEMMA OneMore ==
    ASSUME NEW r \in Seq(Flows), Distinct(r), NEW s \in Seq(Flows), Rows(r) \subseteq Rows(s),
           NEW x \in Rows(s), x \notin Rows(r)
    PROVE  Len(r) < Len(s)
<1> DEFINE t == Append(r, x)
<1>0. x \in Flows
  BY ElementOfSeq DEF Rows
<1>1. /\ t \in Seq(Flows) /\ Len(t) = Len(r) + 1 /\ t[Len(r) + 1] = x
      /\ \A i \in 1..Len(r) : t[i] = r[i] /\ r[i] \in Rows(r)
      /\ Len(r) \in Nat /\ Len(s) \in Nat
  BY <1>0, AppendProperties, LenProperties DEF Rows
<1> HIDE DEF t
<1>2. Distinct(t)
  <2>1. ASSUME NEW i \in 1..Len(t), NEW j \in 1..Len(t), t[i] = t[j] PROVE i = j
    <3>1. CASE i = Len(t) \/ j = Len(t)
      <4>1. \A k \in 1..Len(t) : k = Len(t) \/ k \in 1..Len(r)
        BY <1>1
      <4>2. \A k \in 1..Len(t) : k = Len(t) \/ t[k] # x
        BY <1>1, <4>1
      <4> QED BY <1>1, <2>1, <3>1, <4>2
    <3>2. CASE i # Len(t) /\ j # Len(t)
      <4>1. i \in 1..Len(r) /\ j \in 1..Len(r)
        BY <1>1, <3>2
      <4> QED BY <1>1, <2>1, <4>1 DEF Distinct
    <3> QED BY <3>1, <3>2
  <2> QED BY <2>1 DEF Distinct
<1>3. Rows(t) \subseteq Rows(s)
  <2> SUFFICES ASSUME NEW k \in 1..Len(t) PROVE t[k] \in Rows(s)
    BY DEF Rows
  <2>1. k = Len(r) + 1 \/ k \in 1..Len(r)
    BY <1>1
  <2> QED BY <1>1, <2>1
<1>4. Len(t) <= Len(s)
  BY <1>1, <1>2, <1>3, NotLonger
<1> QED BY <1>1, <1>4

LEMMA AscendingDistinct ==
    ASSUME NEW s \in Seq(Flows), Ascending(s)
    PROVE  Distinct(s)
<1>1. \A k \in 1..Len(s) : s[k] \in Nat
  <2>1. \A k \in 1..Len(s) : s[k] \in Flows
    BY ElementOfSeq
  <2> QED BY <2>1, FlowNumbers
<1>2. ASSUME NEW i \in 1..Len(s), NEW j \in 1..Len(s), s[i] = s[j] PROVE i = j
  <2>1. ~(s[i] < s[j]) /\ ~(s[j] < s[i])
    BY <1>1, <1>2
  <2>2. ~(i < j) /\ ~(j < i)
    BY <1>2, <2>1 DEF Ascending
  <2> QED BY <1>1, <2>2
<1> QED BY <1>2 DEF Distinct

\* Rows that were added come into the page at their places: the page then starts, or ends,
\* all there is, and is all there is only if it holds what was merged.
KeepsRows(r, s, B, T) ==
    ~(T \subseteq Rows(r)) => (B \cup T \subseteq Rows(s) <=> Rows(r) \cup T \subseteq Rows(s))
LEMMA MergeStart ==
    ASSUME limit \in Nat \ {0}, NEW B \in SUBSET Flows, NEW T \in SUBSET Flows,
           NEW r, IsStart(r, B), NEW s, IsStart(s, Rows(r) \cup T)
    PROVE  IsStart(s, B \cup T) /\ KeepsRows(r, s, B, T)
<1>1. r \in Seq(B) /\ Ascending(r) /\ Rows(r) \subseteq B
  BY ElementOfSeq DEF IsStart, Rows
<1>2. s \in Seq(Rows(r) \cup T) /\ Ascending(s) /\ Len(s) <= limit /\ Rows(s) \subseteq Rows(r) \cup T
  BY ElementOfSeq DEF IsStart, Rows
<1>3. r \in Seq(Flows) /\ s \in Seq(Flows) /\ s \in Seq(B \cup T)
  <2>1. Rows(r) \cup T \subseteq Flows /\ Rows(r) \cup T \subseteq B \cup T
    BY <1>1
  <2>2. s \in Seq(Flows) /\ s \in Seq(B \cup T)
    BY <1>2, <2>1, SeqMonotonic
  <2> QED BY <1>1, <2>2, SeqMonotonic
<1>4. Len(r) \in Nat /\ Len(s) \in Nat /\ Distinct(r)
  BY <1>1, <1>3, LenProperties, AscendingDistinct
<1>5. ASSUME NEW f \in B, f \notin Rows(r), f \notin Rows(s)
      PROVE  /\ Len(s) = limit /\ \A g \in Rows(s) : g < f
             /\ ~(T \subseteq Rows(r)) => ~(Rows(r) \cup T \subseteq Rows(s))
  <2>1. Len(r) = limit /\ \A g \in Rows(r) : g < f
    BY <1>5 DEF IsStart
  <2>2. ASSUME NEW x \in Rows(s), x \notin Rows(r), Rows(r) \subseteq Rows(s) PROVE FALSE
    <3>1. Len(r) < Len(s)
      BY ONLY <1>3, <1>4, <2>2, OneMore
    <3> QED BY <1>2, <1>4, <2>1, <3>1
  <2>3. ASSUME NEW g \in Rows(s), ~(g < f) PROVE FALSE
    <3>1. g \notin Rows(r) /\ f \in Nat /\ g \in Nat /\ f # g
      BY <1>1, <1>2, <1>5, <2>1, <2>3, FlowNumbers
    <3>2. ASSUME NEW h \in Rows(r), h \notin Rows(s) PROVE FALSE
      <4>1. g < h
        BY <2>3, <3>2 DEF IsStart
      <4>2. h < f /\ h \in Nat
        BY <1>1, <2>1, <3>2, FlowNumbers
      <4> QED BY <2>3, <3>1, <4>1, <4>2
    <3> QED BY <2>2, <2>3, <3>1, <3>2
  <2>4. Len(s) = limit
    <3>1. CASE Rows(r) \subseteq Rows(s)
      <4>1. Len(r) <= Len(s)
        BY ONLY <1>3, <1>4, <3>1, NotLonger
      <4> QED BY <1>2, <1>4, <2>1, <4>1
    <3>2. CASE ~(Rows(r) \subseteq Rows(s))
      BY <3>2 DEF IsStart
    <3> QED BY <3>1, <3>2
  <2>5. ~(T \subseteq Rows(r)) => ~(Rows(r) \cup T \subseteq Rows(s))
    BY <2>2
  <2> QED BY <2>3, <2>4, <2>5
<1>6. ASSUME NEW f \in (B \cup T) \ Rows(s) PROVE Len(s) = limit /\ \A g \in Rows(s) : g < f
  <2>1. CASE f \in Rows(r) \cup T
    BY <1>6, <2>1 DEF IsStart
  <2>2. CASE f \notin Rows(r) \cup T
    BY <1>5, <1>6, <2>2
  <2> QED BY <2>1, <2>2
<1>7. IsStart(s, B \cup T)
  BY <1>2, <1>3, <1>6 DEF IsStart
<1>8. ASSUME ~(T \subseteq Rows(r)), Rows(r) \cup T \subseteq Rows(s) PROVE B \cup T \subseteq Rows(s)
  BY <1>5, <1>8
<1>9. ASSUME B \cup T \subseteq Rows(s) PROVE Rows(r) \cup T \subseteq Rows(s)
  BY <1>1, <1>9
<1> QED BY <1>7, <1>8, <1>9 DEF KeepsRows

LEMMA MergeEnd ==
    ASSUME limit \in Nat \ {0}, NEW B \in SUBSET Flows, NEW T \in SUBSET Flows,
           NEW r, IsEnd(r, B), NEW s, IsEnd(s, Rows(r) \cup T)
    PROVE  IsEnd(s, B \cup T) /\ KeepsRows(r, s, B, T)
<1>1. r \in Seq(B) /\ Ascending(r) /\ Rows(r) \subseteq B
  BY ElementOfSeq DEF IsEnd, Rows
<1>2. s \in Seq(Rows(r) \cup T) /\ Ascending(s) /\ Len(s) <= limit /\ Rows(s) \subseteq Rows(r) \cup T
  BY ElementOfSeq DEF IsEnd, Rows
<1>3. r \in Seq(Flows) /\ s \in Seq(Flows) /\ s \in Seq(B \cup T)
  <2>1. Rows(r) \cup T \subseteq Flows /\ Rows(r) \cup T \subseteq B \cup T
    BY <1>1
  <2>2. s \in Seq(Flows) /\ s \in Seq(B \cup T)
    BY <1>2, <2>1, SeqMonotonic
  <2> QED BY <1>1, <2>2, SeqMonotonic
<1>4. Len(r) \in Nat /\ Len(s) \in Nat /\ Distinct(r)
  BY <1>1, <1>3, LenProperties, AscendingDistinct
<1>5. ASSUME NEW f \in B, f \notin Rows(r), f \notin Rows(s)
      PROVE  /\ Len(s) = limit /\ \A g \in Rows(s) : f < g
             /\ ~(T \subseteq Rows(r)) => ~(Rows(r) \cup T \subseteq Rows(s))
  <2>1. Len(r) = limit /\ \A g \in Rows(r) : f < g
    BY <1>5 DEF IsEnd
  <2>2. ASSUME NEW x \in Rows(s), x \notin Rows(r), Rows(r) \subseteq Rows(s) PROVE FALSE
    <3>1. Len(r) < Len(s)
      BY ONLY <1>3, <1>4, <2>2, OneMore
    <3> QED BY <1>2, <1>4, <2>1, <3>1
  <2>3. ASSUME NEW g \in Rows(s), ~(f < g) PROVE FALSE
    <3>1. g \notin Rows(r) /\ f \in Nat /\ g \in Nat /\ f # g
      BY <1>1, <1>2, <1>5, <2>1, <2>3, FlowNumbers
    <3>2. ASSUME NEW h \in Rows(r), h \notin Rows(s) PROVE FALSE
      <4>1. h < g
        BY <2>3, <3>2 DEF IsEnd
      <4>2. f < h /\ h \in Nat
        BY <1>1, <2>1, <3>2, FlowNumbers
      <4> QED BY <2>3, <3>1, <4>1, <4>2
    <3> QED BY <2>2, <2>3, <3>1, <3>2
  <2>4. Len(s) = limit
    <3>1. CASE Rows(r) \subseteq Rows(s)
      <4>1. Len(r) <= Len(s)
        BY ONLY <1>3, <1>4, <3>1, NotLonger
      <4> QED BY <1>2, <1>4, <2>1, <4>1
    <3>2. CASE ~(Rows(r) \subseteq Rows(s))
      BY <3>2 DEF IsEnd
    <3> QED BY <3>1, <3>2
  <2>5. ~(T \subseteq Rows(r)) => ~(Rows(r) \cup T \subseteq Rows(s))
    BY <2>2
  <2> QED BY <2>3, <2>4, <2>5
<1>6. ASSUME NEW f \in (B \cup T) \ Rows(s) PROVE Len(s) = limit /\ \A g \in Rows(s) : f < g
  <2>1. CASE f \in Rows(r) \cup T
    BY <1>6, <2>1 DEF IsEnd
  <2>2. CASE f \notin Rows(r) \cup T
    BY <1>5, <1>6, <2>2
  <2> QED BY <2>1, <2>2
<1>7. IsEnd(s, B \cup T)
  BY <1>2, <1>3, <1>6 DEF IsEnd
<1>8. ASSUME ~(T \subseteq Rows(r)), Rows(r) \cup T \subseteq Rows(s) PROVE B \cup T \subseteq Rows(s)
  BY <1>5, <1>8
<1>9. ASSUME B \cup T \subseteq Rows(s) PROVE Rows(r) \cup T \subseteq Rows(s)
  BY <1>1, <1>9
<1> QED BY <1>7, <1>8, <1>9 DEF KeepsRows

\* The flows a query is about.
Found(kind, c) ==
    {f \in Matching : (kind = "after" => key[f] > c) /\ (kind = "before" => key[f] < c)}

\* The page with the tail's flows, forward.
LEMMA FitStart ==
    ASSUME limit \in Nat \ {0}, NEW S \in SUBSET Flows, NEW s \in Seq(S), Rows(s) = S, Ascending(s)
    PROVE  /\ IsStart(fit(s, FALSE), S) /\ (S \subseteq Rows(fit(s, FALSE)) <=> Len(s) <= limit)
           /\ fit(s, FALSE) # << >> <=> s # << >>
<1> DEFINE t == fit(s, FALSE)
<1>0. Len(s) \in Nat /\ limit \in Nat /\ SubSeq(s, 1, Len(s)) = s
  BY LenProperties, SubSeqFull
<1>1. FirstRows(t, s)
  <2>1. CASE Len(s) < limit
    BY <1>0, <2>1 DEF FirstRows, fit
  <2>2. CASE Len(s) = limit
    <3> DEFINE n == IF Len(s) < limit THEN Len(s) ELSE limit
    <3>1. t = s /\ n = Len(s)
      BY <1>0, <2>2 DEF fit
    <3> HIDE DEF t, n
    <3>2. t = SubSeq(s, 1, n)
      BY <1>0, <3>1
    <3> QED BY <3>2 DEF FirstRows, n
  <2>3. CASE Len(s) > limit
    BY <1>0, <2>3 DEF FirstRows, fit
  <2>4. Len(s) < limit \/ Len(s) = limit \/ Len(s) > limit
    BY LenProperties
  <2> HIDE DEF t
  <2> QED BY ONLY <2>1, <2>2, <2>3, <2>4
<1> HIDE DEF t
<1>2. /\ IsStart(t, S) /\ (S \subseteq Rows(t) <=> Len(s) <= limit)
      /\ t # << >> <=> s # << >>
  BY <1>1, StartOf
<1> QED BY <1>2 DEF t

LEMMA FitEnd ==
    ASSUME limit \in Nat \ {0}, NEW S \in SUBSET Flows, NEW s \in Seq(S), Rows(s) = S, Ascending(s)
    PROVE  /\ IsEnd(fit(s, TRUE), S) /\ (S \subseteq Rows(fit(s, TRUE)) <=> Len(s) <= limit)
           /\ fit(s, TRUE) # << >> <=> s # << >>
<1> DEFINE t == fit(s, TRUE)
           n == IF Len(s) <= limit THEN Len(s) ELSE limit
<1>0. Len(s) \in Nat /\ \A i \in 1..Len(s) : s[i] \in S
  BY LenProperties, ElementOfSeq
<1>1. t \in Seq(S) /\ LastRows(t, s, n)
  <2>1. CASE Len(s) <= limit
    <3>1. t = s /\ n = Len(s)
      BY <2>1 DEF fit
    <3> HIDE DEF t, n
    <3>2. \A i \in 1..n : s[i] = s[Len(s) - n + i]
      BY <1>0, <3>1
    <3> QED BY <2>1, <3>1, <3>2 DEF LastRows
  <2>2. CASE ~(Len(s) <= limit)
    <3> DEFINE m == Len(s) - limit + 1
    <3>1. t = SubSeq(s, m, Len(s)) /\ n = limit /\ n \in Nat /\ n > 0
      BY <2>2 DEF fit
    <3>2. m \in Int /\ Len(s) \in Int /\ m <= Len(s) /\ Len(s) - m + 1 = n /\ m \in Nat /\ m > 0
          /\ m = Len(s) - n + 1
      BY <1>0, <2>2
    <3> HIDE DEF t, n, m
    <3>3. \A i \in m..Len(s) : s[i] \in S
      BY <1>0, <3>2
    <3>4. /\ SubSeq(s, m, Len(s)) \in Seq(S)
          /\ Len(SubSeq(s, m, Len(s))) = IF m <= Len(s) THEN Len(s) - m + 1 ELSE 0
          /\ \A i \in 1..Len(s) - m + 1 : SubSeq(s, m, Len(s))[i] = s[m + i - 1]
      BY ONLY <3>2, <3>3, SubSeqProperties
    <3>5. t \in Seq(S) /\ Len(t) = n
      BY <3>1, <3>2, <3>4
    <3>6. ASSUME NEW i \in 1..n PROVE t[i] = s[Len(s) - n + i]
      <4>1. m + i - 1 = Len(s) - n + i
        BY <1>0, <3>1, <3>2
      <4>2. t[i] = s[m + i - 1]
        BY <3>1, <3>2, <3>4
      <4> QED BY <4>1, <4>2
    <3> QED BY <2>2, <3>1, <3>5, <3>6 DEF LastRows
  <2> QED BY <2>1, <2>2
<1>2. t # << >> <=> s # << >>
  <2>1. n \in Nat /\ Len(t) = n /\ (n = 0 <=> Len(s) = 0)
    <3>1. n \in Nat /\ (n = 0 <=> Len(s) = 0)
      BY <1>0
    <3> HIDE DEF t, n
    <3>2. Len(t) = n
      BY <1>1 DEF LastRows
    <3> QED BY <3>1, <3>2
  <2> HIDE DEF t, n
  <2>2. t = << >> <=> Len(t) = 0
    BY <1>1, EmptySeq
  <2>3. s = << >> <=> Len(s) = 0
    BY EmptySeq
  <2> QED BY <2>1, <2>2, <2>3
<1> HIDE DEF t, n
<1>3. IsEnd(t, S) /\ (S \subseteq Rows(t) <=> Len(s) <= limit)
  BY <1>1, EndOf
<1> QED BY <1>2, <1>3 DEF t

\* The tail's flows that a query is about.
TailHits(kind, c) ==
    {f \in tail \cap fits : (kind = "after" => key[f] > c) /\ (kind = "before" => ~(key[f] > c))}

LEMMA FoundWhere ==
    ASSUME Queried, tail # {} => until = 0, NEW kind, kind = "before" => tail = {}, NEW c
    PROVE  Found(kind, c) = Hits(kind, c) \cup TailHits(kind, c)
<1>1. \A f \in tail : inWindow(f)
  BY DEF inWindow
<1> QED BY <1>1 DEF Found, Matching, Hits, whereClause, TailHits

LEMMA ToAdd ==
    ASSUME Queried, NEW kind, NEW c, NEW rows
    PROVE  toAdd(kind, c, rows) = TailHits(kind, c) \ Rows(rows)
  BY DEF toAdd, TailHits

\* A merge that adds nothing, and one that adds something.
MergedPage(q, kind, S) ==
    /\ IF backwards(kind) THEN IsEnd(q.rows, S) ELSE IsStart(q.rows, S)
    /\ q.rows # << >>
    /\ q.next = IF (~(S \subseteq Rows(q.rows)) /\ ~backwards(kind)) \/ kind = "before"
                THEN key[Last(q.rows)] ELSE 0
    /\ q.prev = IF (~(S \subseteq Rows(q.rows)) /\ backwards(kind)) \/ kind = "after"
                THEN key[Head(q.rows)] ELSE 0
Merges(q, kind, p, T) ==
    IF T \subseteq Rows(p.rows) THEN q = p ELSE MergedPage(q, kind, Rows(p.rows) \cup T)

LEMMA MergeAdds ==
    ASSUME Queried, NEW kind, NEW c, NEW p, Rows(p.rows) \subseteq Flows
    PROVE  Merges(mergeUnflushed(kind, c, p), kind, p, TailHits(kind, c))
<1> DEFINE T == TailHits(kind, c)
           S == Rows(p.rows) \cup T
           q == mergeUnflushed(kind, c, p)
           add == toAdd(kind, c, p.rows)
           all == merged(p.rows, add)
           kept == fit(all, backwards(kind))
<1>1. add = T \ Rows(p.rows) /\ T \subseteq Flows
  BY ToAdd DEF TailHits, Queried
<1>2. CASE add = {}
  <2>1. q = p /\ T \subseteq Rows(p.rows)
    BY <1>1, <1>2 DEF mergeUnflushed
  <2> QED BY <2>1 DEF Merges
<1>3. CASE add # {}
  <2>1. S = Rows(p.rows) \cup add /\ S \in SUBSET Flows /\ limit \in Nat \ {0} /\ KeysRise
    BY <1>1 DEF Queried, TailHits
  <2>2. /\ q.rows = kept
        /\ q.next = IF nextOwed(kind, Len(all) > limit /\ ~backwards(kind)) THEN key[Last(kept)] ELSE 0
        /\ q.prev = IF (Len(all) > limit /\ backwards(kind)) \/ kind = "after"
                    THEN key[Head(kept)] ELSE 0
    BY <1>3 DEF mergeUnflushed
  <2> HIDE DEF add, S, q
  <2>3. all \in Seq(S) /\ Rows(all) = S /\ Ascending(all)
    BY <2>1, Merged
  <2> HIDE DEF all
  <2>4. backwards(kind) \in BOOLEAN
    BY DEF backwards
  <2>5. /\ IF backwards(kind) THEN IsEnd(kept, S) ELSE IsStart(kept, S)
        /\ S \subseteq Rows(kept) <=> Len(all) <= limit
        /\ kept # << >> <=> all # << >>
    <3>1. CASE backwards(kind)
      <4>1. kept = fit(all, TRUE)
        BY <2>4, <3>1
      <4> QED BY <2>1, <2>3, <3>1, <4>1, FitEnd
    <3>2. CASE ~backwards(kind)
      <4>1. kept = fit(all, FALSE)
        BY <2>4, <3>2
      <4> QED BY <2>1, <2>3, <3>2, <4>1, FitStart
    <3> QED BY <3>1, <3>2
  <2> HIDE DEF kept
  <2>6. all # << >> /\ Len(all) \in Nat
    <3>1. Len(all) \in Nat
      BY <2>3, LenProperties
    <3>2. Len(all) # 0
      <4>1. Rows(all) # {}
        BY <1>3, <2>1, <2>3
      <4> QED BY <4>1 DEF Rows
    <3> QED BY <2>3, <3>1, <3>2, EmptySeq
  <2>7. ~(S \subseteq Rows(kept)) <=> Len(all) > limit
    BY <2>1, <2>5, <2>6
  <2>8. ~(T \subseteq Rows(p.rows))
    BY <1>1, <1>3
  <2> HIDE DEF T, S, q
  <2>9. /\ q.next = IF \/ ~(S \subseteq Rows(q.rows)) /\ ~backwards(kind)
                       \/ kind = "before"
                    THEN key[Last(q.rows)] ELSE 0
        /\ q.prev = IF \/ ~(S \subseteq Rows(q.rows)) /\ backwards(kind)
                       \/ kind = "after"
                    THEN key[Head(q.rows)] ELSE 0
    BY <2>2, <2>7 DEF nextOwed
  <2>10. MergedPage(q, kind, S)
    BY <2>2, <2>5, <2>6, <2>9 DEF MergedPage
  <2> QED BY <2>8, <2>10 DEF Merges, T, S, q
<1> QED BY <1>2, <1>3

\* A page of flows in time forward, of a session that may have a tail.
LEMMA QueryForward ==
    ASSUME Queried, tail # {} => until = 0, NEW kind \in {"first", "after"}, NEW c
    PROVE  StartPage(QueryFlows(kind, c), kind, Found(kind, c))
<1> DEFINE p == storeQuery(kind, c)
           q == mergeUnflushed(kind, c, p)
           B == Hits(kind, c)
           T == TailHits(kind, c)
<1>1. StartPage(p, kind, B)
  BY StoreForward
<1>2. Found(kind, c) = B \cup T
  BY FoundWhere
<1>3. B \in SUBSET Flows /\ T \in SUBSET Flows /\ limit \in Nat \ {0}
  BY DEF Queried, Hits, whereClause, TailHits
<1>4. q = QueryFlows(kind, c) /\ ~backwards(kind) /\ kind # "before"
      /\ (kind = "after" <=> kind # "first")
  BY DEF QueryFlows, backwards
<1> HIDE DEF p, B, T
<1>5. IsStart(p.rows, B) /\ Rows(p.rows) \subseteq B
  BY <1>1, ElementOfSeq DEF StartPage, IsStart, Rows
<1>6. Merges(q, kind, p, T)
  <2>1. Rows(p.rows) \subseteq Flows
    BY <1>3, <1>5
  <2> QED BY <2>1, MergeAdds DEF T
<1>7. CASE T \subseteq Rows(p.rows)
  <2>1. B \cup T = B /\ q = p
    BY <1>5, <1>6, <1>7 DEF Merges
  <2> QED BY <1>1, <1>2, <1>4, <2>1
<1>8. CASE ~(T \subseteq Rows(p.rows))
  <2> HIDE DEF q
  <2>0. MergedPage(q, kind, Rows(p.rows) \cup T)
    BY <1>6, <1>8 DEF Merges
  <2>1. IsStart(q.rows, Rows(p.rows) \cup T)
    BY <1>4, <2>0 DEF MergedPage
  <2>2. /\ IsStart(q.rows, B \cup T)
        /\ B \cup T \subseteq Rows(q.rows) <=> Rows(p.rows) \cup T \subseteq Rows(q.rows)
    <3>1. IsStart(q.rows, B \cup T) /\ KeepsRows(p.rows, q.rows, B, T)
      BY ONLY <1>3, <1>5, <2>1, MergeStart
    <3> QED BY <1>8, <3>1 DEF KeepsRows
  <2>3. StartPage(q, kind, B \cup T)
    BY <1>4, <2>0, <2>2 DEF MergedPage, StartPage
  <2> QED BY <1>2, <1>4, <2>3
<1> QED BY <1>7, <1>8

\* The last page of a session that may have a tail, and a page back of one that has none.
LEMMA QueryBack ==
    ASSUME Queried, tail # {} => until = 0, NEW kind \in {"last", "before"}, NEW c,
           kind = "before" => tail = {}
    PROVE  EndPage(QueryFlows(kind, c), kind, Found(kind, c))
<1> DEFINE p == storeQuery(kind, c)
           q == mergeUnflushed(kind, c, p)
           B == Hits(kind, c)
           T == TailHits(kind, c)
<1>1. EndPage(p, kind, B)
  BY StoreBackward
<1>2. Found(kind, c) = B \cup T
  BY FoundWhere
<1>3. B \in SUBSET Flows /\ T \in SUBSET Flows /\ limit \in Nat \ {0}
  BY DEF Queried, Hits, whereClause, TailHits
<1>4. q = QueryFlows(kind, c) /\ backwards(kind) /\ kind # "after"
      /\ (kind = "before" <=> kind # "last") /\ (kind = "before" => T = {})
  BY DEF QueryFlows, backwards, TailHits
<1> HIDE DEF p, B, T
<1>5. IsEnd(p.rows, B) /\ Rows(p.rows) \subseteq B
  BY <1>1, ElementOfSeq DEF EndPage, IsEnd, Rows
<1>6. Merges(q, kind, p, T)
  <2>1. Rows(p.rows) \subseteq Flows
    BY <1>3, <1>5
  <2> QED BY <2>1, MergeAdds DEF T
<1>7. CASE T \subseteq Rows(p.rows)
  <2>1. B \cup T = B /\ q = p
    BY <1>5, <1>6, <1>7 DEF Merges
  <2> QED BY <1>1, <1>2, <1>4, <2>1
<1>8. CASE ~(T \subseteq Rows(p.rows))
  <2> HIDE DEF q
  <2>0. MergedPage(q, kind, Rows(p.rows) \cup T) /\ kind = "last"
    BY <1>4, <1>6, <1>8 DEF Merges
  <2>1. IsEnd(q.rows, Rows(p.rows) \cup T)
    BY <1>4, <2>0 DEF MergedPage
  <2>2. /\ IsEnd(q.rows, B \cup T)
        /\ B \cup T \subseteq Rows(q.rows) <=> Rows(p.rows) \cup T \subseteq Rows(q.rows)
    <3>1. IsEnd(q.rows, B \cup T) /\ KeepsRows(p.rows, q.rows, B, T)
      BY ONLY <1>3, <1>5, <2>1, MergeEnd
    <3> QED BY <1>8, <3>1 DEF KeepsRows
  <2>3. EndPage(q, kind, B \cup T)
    BY <1>4, <2>0, <2>2 DEF MergedPage, EndPage
  <2> QED BY <1>2, <1>4, <2>3
<1> QED BY <1>7, <1>8

\* What any page is, whatever the direction, cursor and tail.
IsPage(p) ==
    /\ p.rows \in Seq(Flows) /\ Len(p.rows) <= limit
    /\ p.next \in 0..N /\ p.prev \in 0..N

LEMMA EndsOfPage ==
    ASSUME KeysRise, NEW s \in Seq(Flows), s # << >>
    PROVE  /\ Head(s) = s[1] /\ Last(s) = s[Len(s)] /\ 1 \in 1..Len(s) /\ Len(s) \in 1..Len(s)
           /\ Head(s) \in Rows(s) /\ Last(s) \in Rows(s)
           /\ key[Head(s)] \in 1..N /\ key[Last(s)] \in 1..N
<1>1. Len(s) \in Nat /\ Len(s) # 0
  BY EmptySeq, LenProperties
<1>2. 1 \in 1..Len(s) /\ Len(s) \in 1..Len(s)
  BY <1>1
<1>3. Head(s) = s[1] /\ Last(s) = s[Len(s)]
  BY <1>1 DEF Last
<1>4. s[1] \in Flows /\ s[Len(s)] \in Flows /\ s[1] \in Rows(s) /\ s[Len(s)] \in Rows(s)
  BY <1>2, ElementOfSeq DEF Rows
<1>5. key[s[1]] \in 1..N /\ key[s[Len(s)]] \in 1..N
  BY <1>4 DEF KeysRise
<1> QED BY <1>2, <1>3, <1>4, <1>5

LEMMA EveryPage ==
    ASSUME Queried, NEW kind \in {"first", "after", "last", "before"}, NEW c
    PROVE  IsPage(QueryFlows(kind, c))
<1> DEFINE p == storeQuery(kind, c)
           q == mergeUnflushed(kind, c, p)
           T == TailHits(kind, c)
           S == Rows(p.rows) \cup T
           B == Hits(kind, c)
<1>0. /\ T \in SUBSET Flows /\ B \in SUBSET Flows /\ limit \in Nat \ {0} /\ q = QueryFlows(kind, c)
      /\ KeysRise
  BY DEF Queried, TailHits, Hits, whereClause, QueryFlows
<1>1. StartPage(p, kind, B) \/ EndPage(p, kind, B)
  BY StoreForward, StoreBackward
<1> HIDE DEF p, T, B
<1>2. p.rows \in Seq(Flows) /\ Len(p.rows) <= limit /\ Rows(p.rows) \subseteq Flows
      /\ (~(B \subseteq Rows(p.rows)) => Len(p.rows) = limit)
  <2>1. p.rows \in Seq(B) /\ Len(p.rows) <= limit /\ (~(B \subseteq Rows(p.rows)) => Len(p.rows) = limit)
    <3>1. IsStart(p.rows, B) \/ IsEnd(p.rows, B)
      BY <1>1 DEF StartPage, EndPage
    <3>2. CASE IsStart(p.rows, B)
      BY <3>2 DEF IsStart
    <3>3. CASE IsEnd(p.rows, B)
      BY <3>3 DEF IsEnd
    <3> QED BY <3>1, <3>2, <3>3
  <2>2. p.rows \in Seq(Flows)
    BY <1>0, <2>1, SeqMonotonic
  <2> QED BY <2>1, <2>2, ElementOfSeq DEF Rows
<1>3. IsPage(p)
  <2>1. 0 \in 0..N /\ 1..N \subseteq 0..N
    BY FlowNumbers
  <2>2. CASE p.rows = << >>
    <3>1. Len(p.rows) = 0
      BY <2>2, EmptySeq
    <3>2. B \subseteq Rows(p.rows)
      BY <1>0, <1>2, <3>1
    <3> QED BY <1>1, <1>2, <2>1, <2>2, <3>2 DEF IsPage, StartPage, EndPage
  <2>3. CASE p.rows # << >>
    <3>1. key[Head(p.rows)] \in 1..N /\ key[Last(p.rows)] \in 1..N
      BY <1>0, <1>2, <2>3, EndsOfPage
    <3> QED BY <1>1, <1>2, <2>1, <3>1 DEF IsPage, StartPage, EndPage
  <2> QED BY <2>2, <2>3
<1>4. CASE ~(q = p)
  <2>0. Merges(q, kind, p, T)
    BY <1>2, MergeAdds DEF T
  <2> HIDE DEF q
  <2>1. /\ IsEnd(q.rows, S) \/ IsStart(q.rows, S)
        /\ q.rows # << >>
        /\ q.next \in {0, key[Last(q.rows)]} /\ q.prev \in {0, key[Head(q.rows)]}
    BY <1>4, <2>0 DEF Merges, MergedPage
  <2>2. q.rows \in Seq(S) /\ Len(q.rows) <= limit /\ S \subseteq Flows
    BY <1>0, <1>2, <2>1 DEF IsEnd, IsStart
  <2>3. q.rows \in Seq(Flows)
    BY <2>2, SeqMonotonic
  <2>4. key[Head(q.rows)] \in 1..N /\ key[Last(q.rows)] \in 1..N
    BY <1>0, <2>1, <2>3, EndsOfPage
  <2>5. 0 \in 0..N /\ 1..N \subseteq 0..N
    BY FlowNumbers
  <2>6. IsPage(q)
    BY <2>1, <2>2, <2>3, <2>4, <2>5 DEF IsPage
  <2> QED BY <1>0, <2>6
<1> QED BY <1>0, <1>3, <1>4

-----------------------------------------------------------------------------
(* Walks.                                                                    *)

\* The rows of a walk forward, z, with p the last page and st what matched when the walk
\* began: none is missing up to the row at which the cursor stands.
WalkedForward(z, p, st) ==
    /\ Ascending(z)
    /\ p.next # 0 =>
          /\ z # << >> /\ p.next = key[Last(z)] /\ Last(z) \in Matching
          /\ \A f \in st : f <= Last(z) => f \in Rows(z)
    /\ p.next = 0 => st \subseteq Rows(z)

\* The same of a walk back.
WalkedBack(z, p, st) ==
    /\ Ascending(z)
    /\ p.prev # 0 =>
          /\ z # << >> /\ p.prev = key[Head(z)] /\ Head(z) \in Matching
          /\ \A f \in st : f >= Head(z) => f \in Rows(z)
    /\ p.prev = 0 => st \subseteq Rows(z)

\* A page that offers a cursor where there is more, of all that matches.
Offers(p, all) ==
    p.rows # << >> =>
        /\ p.next # 0 <=> \E f \in all : f > Last(p.rows)
        /\ p.prev # 0 <=> \E f \in all : f < Head(p.rows)

\* Inductive invariant of the walks.
WalkInv ==
    /\ TypeOK /\ KeysRise
    /\ fits \subseteq Flows /\ limit \in Nat \ {0}
    /\ session = "open" => until = 0
    /\ start \subseteq Matching
    /\ walk = "forward" => WalkedForward(seen, page, start) /\ Offers(page, there)
    /\ walk = "back" =>
          /\ page.prev # 0 => seen # << >>
          /\ session = "closed" => WalkedBack(seen, page, start)
          /\ session = "closed" \/ seen = page.rows => Offers(page, there)
    /\ RowsInWindow

\* Lists put end to end.
LEMMA Joined ==
    ASSUME NEW a \in Seq(Flows), NEW b \in Seq(Flows)
    PROVE  /\ a \o b \in Seq(Flows) /\ Rows(a \o b) = Rows(a) \cup Rows(b)
           /\ b = << >> => a \o b = a
           /\ a = << >> => a \o b = b
           /\ b # << >> => a \o b # << >> /\ Last(a \o b) = Last(b)
           /\ a # << >> => a \o b # << >> /\ Head(a \o b) = Head(a)
<1> DEFINE s == a \o b
<1>1. /\ s \in Seq(Flows) /\ Len(s) = Len(a) + Len(b) /\ Len(a) \in Nat /\ Len(b) \in Nat
      /\ Len(s) \in Nat
      /\ \A i \in 1..Len(a) : s[i] = a[i]
      /\ \A i \in 1..Len(b) : s[Len(a) + i] = b[i]
  BY ConcatProperties, LenProperties
<1>2. (b = << >> => s = a) /\ (a = << >> => s = b)
  BY ConcatEmptySeq
<1> HIDE DEF s
<1>3. Rows(s) = Rows(a) \cup Rows(b)
  <2>1. ASSUME NEW i \in 1..Len(s) PROVE s[i] \in Rows(a) \cup Rows(b)
    <3>1. CASE i \in 1..Len(a)
      BY <1>1, <3>1 DEF Rows
    <3>2. CASE i \notin 1..Len(a)
      <4>1. i - Len(a) \in 1..Len(b) /\ Len(a) + (i - Len(a)) = i
        BY <1>1, <3>2
      <4>2. s[i] = b[i - Len(a)]
        BY <1>1, <4>1
      <4> QED BY <4>1, <4>2 DEF Rows
    <3> QED BY <3>1, <3>2
  <2>2. ASSUME NEW i \in 1..Len(a) PROVE a[i] \in Rows(s)
    <3>1. i \in 1..Len(s)
      BY <1>1
    <3> QED BY <1>1, <3>1 DEF Rows
  <2>3. ASSUME NEW i \in 1..Len(b) PROVE b[i] \in Rows(s)
    <3>1. Len(a) + i \in 1..Len(s)
      BY <1>1
    <3> QED BY <1>1, <3>1 DEF Rows
  <2> QED BY <2>1, <2>2, <2>3 DEF Rows
<1>4. ASSUME b # << >> PROVE s # << >> /\ Last(s) = Last(b)
  <2>1. Len(b) # 0
    BY <1>4, EmptySeq
  <2>2. Len(s) # 0 /\ Len(b) \in 1..Len(b) /\ Len(s) = Len(a) + Len(b)
    BY <1>1, <2>1
  <2>3. s[Len(s)] = b[Len(b)]
    BY <1>1, <2>2
  <2> QED BY <2>2, <2>3, EmptySeq DEF Last
<1>5. ASSUME a # << >> PROVE s # << >> /\ Head(s) = Head(a)
  <2>1. Len(a) # 0
    BY <1>5, EmptySeq
  <2>2. Len(s) # 0 /\ 1 \in 1..Len(a)
    BY <1>1, <2>1
  <2>3. s[1] = a[1] /\ s # << >>
    BY <1>1, <2>2, EmptySeq
  <2> QED BY <1>1, <1>5, <2>3
<1> QED BY <1>1, <1>2, <1>3, <1>4, <1>5 DEF s

\* ... in order, if the one is before the other.
LEMMA JoinedInOrder ==
    ASSUME NEW a \in Seq(Flows), NEW b \in Seq(Flows), Ascending(a), Ascending(b),
           \A f \in Rows(a), g \in Rows(b) : f < g
    PROVE  Ascending(a \o b)
<1> DEFINE s == a \o b
<1>1. /\ Len(s) = Len(a) + Len(b) /\ Len(a) \in Nat /\ Len(b) \in Nat
      /\ \A i \in 1..Len(a) : s[i] = a[i]
      /\ \A i \in 1..Len(b) : s[Len(a) + i] = b[i]
  BY ConcatProperties, LenProperties
<1> HIDE DEF s
<1>2. ASSUME NEW i \in 1..Len(s), NEW j \in 1..Len(s), i < j PROVE s[i] < s[j]
  <2>1. CASE j \in 1..Len(a)
    <3>1. i \in 1..Len(a)
      BY <1>1, <1>2, <2>1
    <3>2. a[i] < a[j]
      BY <1>2, <2>1, <3>1 DEF Ascending
    <3> QED BY <1>1, <2>1, <3>1, <3>2
  <2>2. CASE j \notin 1..Len(a)
    <3>1. j - Len(a) \in 1..Len(b) /\ Len(a) + (j - Len(a)) = j
      BY <1>1, <2>2
    <3>2. s[j] = b[j - Len(a)]
      BY <1>1, <3>1
    <3>3. CASE i \in 1..Len(a)
      <4>1. s[i] \in Rows(a) /\ s[j] \in Rows(b)
        BY <1>1, <3>1, <3>2, <3>3 DEF Rows
      <4> QED BY <4>1
    <3>4. CASE i \notin 1..Len(a)
      <4>1. i - Len(a) \in 1..Len(b) /\ Len(a) + (i - Len(a)) = i /\ i - Len(a) < j - Len(a)
        BY <1>1, <1>2, <3>4
      <4>2. s[i] = b[i - Len(a)]
        BY <1>1, <4>1
      <4>3. b[i - Len(a)] < b[j - Len(a)]
        BY <3>1, <4>1 DEF Ascending
      <4> QED BY <3>2, <4>2, <4>3
    <3> QED BY <3>3, <3>4
  <2> QED BY <2>1, <2>2
<1> QED BY <1>2 DEF Ascending, s

\* The rows of a page lie between its first and its last.
LEMMA Between ==
    ASSUME NEW s \in Seq(Flows), Ascending(s), s # << >>
    PROVE  /\ Head(s) \in Rows(s) /\ Last(s) \in Rows(s) /\ Rows(s) \subseteq Flows
           /\ \A f \in Rows(s) : Head(s) <= f /\ f <= Last(s)
<1>1. Len(s) \in Nat /\ Len(s) # 0
  BY EmptySeq, LenProperties
<1>2. 1 \in 1..Len(s) /\ Len(s) \in 1..Len(s)
  BY <1>1
<1>3. Head(s) = s[1] /\ Last(s) = s[Len(s)]
  BY <1>1 DEF Last
<1>4. \A i \in 1..Len(s) : s[i] \in Flows
  BY ElementOfSeq
<1>5. \A i \in 1..Len(s) : s[i] \in Nat
  BY <1>4, FlowNumbers
<1>6. ASSUME NEW i \in 1..Len(s) PROVE s[1] <= s[i] /\ s[i] <= s[Len(s)]
  <2>1. i = 1 \/ s[1] < s[i]
    BY <1>2 DEF Ascending
  <2>2. i = Len(s) \/ s[i] < s[Len(s)]
    BY <1>1, <1>2 DEF Ascending
  <2>3. s[i] \in Nat /\ s[1] \in Nat /\ s[Len(s)] \in Nat
    BY <1>2, <1>5
  <2> QED BY <2>1, <2>2, <2>3
<1> QED BY <1>2, <1>3, <1>4, <1>6 DEF Rows

\* A page that starts a set: it holds all of the set up to its last row, and there is more
\* of the set past it if it does not hold it all.
LEMMA StartSpans ==
    ASSUME limit \in Nat \ {0}, NEW S \in SUBSET Flows, NEW s, IsStart(s, S)
    PROVE  /\ s \in Seq(Flows) /\ Rows(s) \subseteq S
           /\ s = << >> => S = {}
           /\ s # << >> =>
                 /\ \A f \in S : f <= Last(s) => f \in Rows(s)
                 /\ \A f \in S : ~(f < Head(s))
                 /\ ~(S \subseteq Rows(s)) <=> \E f \in S : f > Last(s)
<1>1. s \in Seq(S) /\ Ascending(s) /\ \A f \in S \ Rows(s) : Len(s) = limit /\ \A g \in Rows(s) : g < f
  BY DEF IsStart
<1>2. s \in Seq(Flows)
  BY <1>1, SeqMonotonic
<1>3. Rows(s) \subseteq S
  BY <1>1, ElementOfSeq DEF Rows
<1>4. ASSUME s = << >>, NEW f \in S PROVE FALSE
  <2>1. Len(s) = 0 /\ Rows(s) = {}
    <3>1. Len(s) = 0
      BY <1>4, EmptySeq
    <3> QED BY <3>1 DEF Rows
  <2> QED BY <1>1, <1>4, <2>1
<1>5. ASSUME s # << >>
      PROVE  /\ \A f \in S : f <= Last(s) => f \in Rows(s)
             /\ \A f \in S : ~(f < Head(s))
             /\ ~(S \subseteq Rows(s)) <=> \E f \in S : f > Last(s)
  <2>1. /\ Head(s) \in Rows(s) /\ Last(s) \in Rows(s)
        /\ \A f \in Rows(s) : Head(s) <= f /\ f <= Last(s)
    BY ONLY <1>1, <1>2, <1>5, Between
  <2>2. \A f \in S : f \in Nat
    BY FlowNumbers
  <2>3. Head(s) \in Nat /\ Last(s) \in Nat
    BY <1>3, <2>1, <2>2
  <2>4. ASSUME NEW f \in S, f \notin Rows(s) PROVE Head(s) < f /\ Last(s) < f
    BY <1>1, <2>1, <2>4
  <2>5. ASSUME NEW f \in S PROVE (f <= Last(s) => f \in Rows(s)) /\ ~(f < Head(s))
    BY <2>1, <2>2, <2>3, <2>4
  <2>6. ASSUME NEW f \in S, f > Last(s) PROVE f \notin Rows(s)
    BY <2>1, <2>2, <2>3, <2>6
  <2> QED BY <2>2, <2>3, <2>4, <2>5, <2>6
<1> QED BY <1>2, <1>3, <1>4, <1>5

LEMMA EndSpans ==
    ASSUME limit \in Nat \ {0}, NEW S \in SUBSET Flows, NEW s, IsEnd(s, S)
    PROVE  /\ s \in Seq(Flows) /\ Rows(s) \subseteq S
           /\ s = << >> => S = {}
           /\ s # << >> =>
                 /\ \A f \in S : f >= Head(s) => f \in Rows(s)
                 /\ \A f \in S : ~(f > Last(s))
                 /\ ~(S \subseteq Rows(s)) <=> \E f \in S : f < Head(s)
<1>1. s \in Seq(S) /\ Ascending(s) /\ \A f \in S \ Rows(s) : Len(s) = limit /\ \A g \in Rows(s) : f < g
  BY DEF IsEnd
<1>2. s \in Seq(Flows)
  BY <1>1, SeqMonotonic
<1>3. Rows(s) \subseteq S
  BY <1>1, ElementOfSeq DEF Rows
<1>4. ASSUME s = << >>, NEW f \in S PROVE FALSE
  <2>1. Len(s) = 0 /\ Rows(s) = {}
    <3>1. Len(s) = 0
      BY <1>4, EmptySeq
    <3> QED BY <3>1 DEF Rows
  <2> QED BY <1>1, <1>4, <2>1
<1>5. ASSUME s # << >>
      PROVE  /\ \A f \in S : f >= Head(s) => f \in Rows(s)
             /\ \A f \in S : ~(f > Last(s))
             /\ ~(S \subseteq Rows(s)) <=> \E f \in S : f < Head(s)
  <2>1. /\ Head(s) \in Rows(s) /\ Last(s) \in Rows(s)
        /\ \A f \in Rows(s) : Head(s) <= f /\ f <= Last(s)
    BY ONLY <1>1, <1>2, <1>5, Between
  <2>2. \A f \in S : f \in Nat
    BY FlowNumbers
  <2>3. Head(s) \in Nat /\ Last(s) \in Nat
    BY <1>3, <2>1, <2>2
  <2>4. ASSUME NEW f \in S, f \notin Rows(s) PROVE f < Head(s) /\ f < Last(s)
    BY <1>1, <2>1, <2>4
  <2>5. ASSUME NEW f \in S PROVE (f >= Head(s) => f \in Rows(s)) /\ ~(f > Last(s))
    BY <2>1, <2>2, <2>3, <2>4
  <2>6. ASSUME NEW f \in S, f < Head(s) PROVE f \notin Rows(s)
    BY <2>1, <2>2, <2>3, <2>6
  <2> QED BY <2>2, <2>3, <2>4, <2>5, <2>6
<1> QED BY <1>2, <1>3, <1>4, <1>5

\* What the walks' invariant says of what a query reads.
LEMMA Readable ==
    ASSUME WalkInv, ScanCap >= N
    PROVE  /\ Queried /\ KeysRise /\ limit \in Nat \ {0} /\ seen \in Seq(Flows)
           /\ tail # {} => until = 0 /\ session = "open"
           /\ Matching \in SUBSET Flows /\ start \subseteq Matching
           /\ \A f \in Matching : inWindow(f)
<1>1. bundle \subseteq Flows /\ tail \subseteq Flows
  <2>1. count \in 0..N /\ N \in Nat
    BY FlowNumbers DEF WalkInv, TypeOK
  <2>2. 1..count \subseteq 1..N
    BY <2>1
  <2> QED BY <2>2 DEF WalkInv, TypeOK, Flows
<1>2. session = "open" \/ session = "closed"
  BY PagingAssumption DEF WalkInv, TypeOK
<1>3. tail # {} => until = 0 /\ session = "open"
  BY <1>2 DEF WalkInv, TypeOK
<1>4. Queried
  BY <1>1 DEF WalkInv, Queried
<1> QED BY <1>1, <1>3, <1>4 DEF WalkInv, TypeOK, Matching

\* Keys are in the order of the flows, either way.
LEMMA KeyOrder ==
    ASSUME KeysRise
    PROVE  \A f, g \in Flows : (key[f] > key[g] <=> f > g) /\ (key[f] < key[g] <=> f < g)
<1> SUFFICES ASSUME NEW f \in Flows, NEW g \in Flows
             PROVE  (key[f] > key[g] <=> f > g) /\ (key[f] < key[g] <=> f < g)
  OBVIOUS
<1>1. f \in Nat /\ g \in Nat /\ key[f] \in Nat /\ key[g] \in Nat
  BY FlowNumbers DEF KeysRise
<1>2. (f < g => key[f] < key[g]) /\ (g < f => key[g] < key[f]) /\ (f = g => key[f] = key[g])
  BY DEF KeysRise
<1> QED BY <1>1, <1>2

\* A walk's first page, and its next one.
LEMMA WalkStarts ==
    ASSUME WalkInv, ScanCap >= N, NEW q, q = QueryFlows("first", 0)
    PROVE  /\ q.rows \in Seq(Flows) /\ Rows(q.rows) \subseteq Matching
           /\ WalkedForward(q.rows, q, Matching) /\ Offers(q, Matching)
<1> DEFINE S == Matching
<1>1. Queried /\ KeysRise /\ limit \in Nat \ {0} /\ (tail # {} => until = 0) /\ S \in SUBSET Flows
  BY Readable
<1>2. Found("first", 0) = S
  BY DEF Found
<1>3. StartPage(q, "first", S)
  BY <1>1, <1>2, QueryForward
<1> HIDE DEF S
<1>4. /\ IsStart(q.rows, S)
      /\ q.next = IF S \subseteq Rows(q.rows) THEN 0 ELSE key[Last(q.rows)]
      /\ q.prev = 0
  BY <1>3 DEF StartPage
<1>5. Ascending(q.rows)
  BY <1>4 DEF IsStart
<1> DEFINE r == q.rows
<1> HIDE DEF r
<1>6. /\ r \in Seq(Flows) /\ Rows(r) \subseteq S
      /\ r = << >> => S = {}
      /\ r # << >> =>
            /\ \A f \in S : f <= Last(r) => f \in Rows(r)
            /\ \A f \in S : ~(f < Head(r))
            /\ ~(S \subseteq Rows(r)) <=> \E f \in S : f > Last(r)
  <2>1. IsStart(r, S)
    BY <1>4 DEF r
  <2> QED BY ONLY <1>1, <2>1, StartSpans
<1>7. r # << >> => Last(r) \in Rows(r) /\ key[Last(r)] # 0
  <2> SUFFICES ASSUME r # << >> PROVE Last(r) \in Rows(r) /\ key[Last(r)] # 0
    OBVIOUS
  <2>1. Last(r) \in Rows(r) /\ key[Last(r)] \in 1..N
    BY <1>1, <1>6, EndsOfPage
  <2> QED BY <2>1, FlowNumbers
<1>8. q.next = (IF S \subseteq Rows(r) THEN 0 ELSE key[Last(r)]) /\ q.prev = 0 /\ Ascending(r)
  BY <1>4, <1>5 DEF r
<1>9. WalkedForward(r, q, S)
  BY <1>6, <1>7, <1>8 DEF WalkedForward, S
<1>10. r # << >> =>
          /\ q.next # 0 <=> \E f \in S : f > Last(r)
          /\ q.prev # 0 <=> \E f \in S : f < Head(r)
  BY <1>6, <1>7, <1>8
<1> QED BY <1>6, <1>9, <1>10 DEF Offers, r, S

LEMMA WalkGoesOn ==
    ASSUME WalkInv, ScanCap >= N, walk = "forward", page.next # 0,
           NEW q, q = QueryFlows("after", page.next)
    PROVE  /\ q.rows \in Seq(Flows) /\ Rows(q.rows) \subseteq Matching
           /\ WalkedForward(seen \o q.rows, q, start) /\ Offers(q, Matching)
<1> DEFINE M == Matching
           c == page.next
           S == Found("after", c)
           r == q.rows
           z == seen \o r
<1>1. /\ Queried /\ KeysRise /\ limit \in Nat \ {0} /\ (tail # {} => until = 0)
      /\ M \in SUBSET Flows /\ start \subseteq M /\ seen \in Seq(Flows)
  BY Readable
<1>2. /\ Ascending(seen) /\ seen # << >> /\ c = key[Last(seen)] /\ Last(seen) \in M
      /\ \A f \in start : f <= Last(seen) => f \in Rows(seen)
  BY DEF WalkInv, WalkedForward
<1>3. StartPage(q, "after", S)
  BY <1>1, QueryForward
<1>4. S = {f \in M : f > Last(seen)}
  <2>1. S = {f \in M : key[f] > c}
    BY DEF Found
  <2>2. \A f \in M : key[f] > c <=> f > Last(seen)
    BY <1>1, <1>2, KeyOrder
  <2> QED BY <2>1, <2>2
<1> HIDE DEF M, c, S
<1>5. /\ IsStart(r, S) /\ Ascending(r) /\ S \in SUBSET Flows
      /\ q.next = IF S \subseteq Rows(r) THEN 0 ELSE key[Last(r)]
      /\ q.prev = IF r = << >> THEN 0 ELSE key[Head(r)]
  BY <1>1, <1>3, <1>4 DEF StartPage, IsStart
<1> HIDE DEF r
<1>6. /\ r \in Seq(Flows) /\ Rows(r) \subseteq S
      /\ r = << >> => S = {}
      /\ r # << >> =>
            /\ \A f \in S : f <= Last(r) => f \in Rows(r)
            /\ \A f \in S : ~(f < Head(r))
            /\ ~(S \subseteq Rows(r)) <=> \E f \in S : f > Last(r)
  BY ONLY <1>1, <1>5, StartSpans
<1>7. r # << >> => /\ Last(r) \in Rows(r) /\ key[Last(r)] # 0
                   /\ Head(r) \in Rows(r) /\ key[Head(r)] # 0
  <2> SUFFICES ASSUME r # << >> PROVE /\ Last(r) \in Rows(r) /\ key[Last(r)] # 0
                                      /\ Head(r) \in Rows(r) /\ key[Head(r)] # 0
    OBVIOUS
  <2>1. /\ Last(r) \in Rows(r) /\ key[Last(r)] \in 1..N
        /\ Head(r) \in Rows(r) /\ key[Head(r)] \in 1..N
    BY <1>1, <1>6, EndsOfPage
  <2> QED BY <2>1, FlowNumbers
<1>8. /\ Rows(z) = Rows(seen) \cup Rows(r) /\ z # << >>
      /\ r = << >> => z = seen
      /\ r # << >> => Last(z) = Last(r)
  BY <1>1, <1>2, <1>6, Joined
<1>9. Ascending(z)
  <2>1. /\ \A f \in Rows(seen) : f <= Last(seen) /\ f \in Nat
        /\ Last(seen) \in Nat
    BY <1>1, <1>2, Between, FlowNumbers
  <2>2. \A f \in Rows(seen), g \in Rows(r) : f < g
    <3> SUFFICES ASSUME NEW f \in Rows(seen), NEW g \in Rows(r) PROVE f < g
      OBVIOUS
    <3>1. g > Last(seen) /\ g \in Flows
      BY <1>4, <1>5, <1>6
    <3> QED BY <2>1, <3>1, FlowNumbers
  <2> QED BY <1>1, <1>2, <1>5, <1>6, <2>2, JoinedInOrder
<1> HIDE DEF z
<1>10. ASSUME NEW f \in start PROVE f \in Rows(seen) \/ f \in S
  <2>1. f \in Nat /\ Last(seen) \in Nat
    BY <1>1, <1>2, FlowNumbers
  <2> QED BY <1>1, <1>2, <1>4, <2>1
<1>11. q.next # 0 => /\ r # << >> /\ q.next = key[Last(r)] /\ Last(r) \in M
                     /\ \A f \in start : f <= Last(r) => f \in Rows(z)
  BY <1>4, <1>5, <1>6, <1>7, <1>8, <1>10
<1>12. q.next = 0 => start \subseteq Rows(z)
  BY <1>5, <1>6, <1>7, <1>8, <1>10
<1>13. WalkedForward(z, q, start)
  BY <1>8, <1>9, <1>11, <1>12 DEF WalkedForward, M
<1>14. ASSUME r # << >>
       PROVE  /\ q.next # 0 <=> \E f \in M : f > Last(r)
              /\ q.prev # 0 <=> \E f \in M : f < Head(r)
  <2>1. /\ Last(r) \in Nat /\ Head(r) \in Nat /\ Last(seen) \in Nat
        /\ Last(r) > Last(seen) /\ Last(seen) < Head(r)
    <3>1. Last(r) \in S /\ Head(r) \in S
      BY <1>6, <1>7, <1>14
    <3> QED BY <1>1, <1>2, <1>4, <3>1, FlowNumbers
  <2>2. (\E f \in M : f > Last(r)) <=> \E f \in S : f > Last(r)
    <3> SUFFICES ASSUME NEW f \in M, f > Last(r) PROVE f \in S
      BY <1>4
    <3> QED BY <1>1, <1>4, <2>1, FlowNumbers
  <2>3. q.next # 0 <=> \E f \in S : f > Last(r)
    BY <1>5, <1>6, <1>7, <1>14
  <2>4. q.prev # 0 /\ \E f \in M : f < Head(r)
    BY <1>2, <1>5, <1>7, <1>14, <2>1
  <2> QED BY <2>2, <2>3, <2>4
<1>15. Rows(r) \subseteq M
  BY <1>4, <1>6
<1> QED BY <1>6, <1>13, <1>14, <1>15 DEF Offers, r, z, M

\* The first page of a walk back, and its next one.
LEMMA BackStarts ==
    ASSUME WalkInv, ScanCap >= N, NEW q, q = QueryFlows("last", 0)
    PROVE  /\ q.rows \in Seq(Flows) /\ Rows(q.rows) \subseteq Matching
           /\ WalkedBack(q.rows, q, Matching) /\ Offers(q, Matching)
<1> DEFINE S == Matching
<1>1. Queried /\ KeysRise /\ limit \in Nat \ {0} /\ (tail # {} => until = 0) /\ S \in SUBSET Flows
  BY Readable
<1>2. Found("last", 0) = S
  BY DEF Found
<1>3. EndPage(q, "last", S)
  BY <1>1, <1>2, QueryBack
<1> HIDE DEF S
<1>4. /\ IsEnd(q.rows, S)
      /\ q.prev = IF S \subseteq Rows(q.rows) THEN 0 ELSE key[Head(q.rows)]
      /\ q.next = 0
  BY <1>3 DEF EndPage
<1>5. Ascending(q.rows)
  BY <1>4 DEF IsEnd
<1> DEFINE r == q.rows
<1> HIDE DEF r
<1>6. /\ r \in Seq(Flows) /\ Rows(r) \subseteq S
      /\ r = << >> => S = {}
      /\ r # << >> =>
            /\ \A f \in S : f >= Head(r) => f \in Rows(r)
            /\ \A f \in S : ~(f > Last(r))
            /\ ~(S \subseteq Rows(r)) <=> \E f \in S : f < Head(r)
  <2>1. IsEnd(r, S)
    BY <1>4 DEF r
  <2> QED BY ONLY <1>1, <2>1, EndSpans
<1>7. r # << >> => Head(r) \in Rows(r) /\ key[Head(r)] # 0
  <2> SUFFICES ASSUME r # << >> PROVE Head(r) \in Rows(r) /\ key[Head(r)] # 0
    OBVIOUS
  <2>1. Head(r) \in Rows(r) /\ key[Head(r)] \in 1..N
    BY <1>1, <1>6, EndsOfPage
  <2> QED BY <2>1, FlowNumbers
<1>8. q.prev = (IF S \subseteq Rows(r) THEN 0 ELSE key[Head(r)]) /\ q.next = 0 /\ Ascending(r)
  BY <1>4, <1>5 DEF r
<1>9. WalkedBack(r, q, S)
  BY <1>6, <1>7, <1>8 DEF WalkedBack, S
<1>10. r # << >> =>
          /\ q.next # 0 <=> \E f \in S : f > Last(r)
          /\ q.prev # 0 <=> \E f \in S : f < Head(r)
  BY <1>6, <1>7, <1>8
<1> QED BY <1>6, <1>9, <1>10 DEF Offers, r, S

LEMMA BackGoesOn ==
    ASSUME WalkInv, ScanCap >= N, walk = "back", session = "closed", page.prev # 0,
           NEW q, q = QueryFlows("before", page.prev)
    PROVE  /\ q.rows \in Seq(Flows) /\ Rows(q.rows) \subseteq Matching
           /\ WalkedBack(q.rows \o seen, q, start) /\ Offers(q, Matching)
<1> DEFINE M == Matching
           c == page.prev
           S == Found("before", c)
           r == q.rows
           z == r \o seen
<1>1. /\ Queried /\ KeysRise /\ limit \in Nat \ {0} /\ tail = {}
      /\ M \in SUBSET Flows /\ start \subseteq M /\ seen \in Seq(Flows)
  BY Readable
<1>2. /\ Ascending(seen) /\ seen # << >> /\ c = key[Head(seen)] /\ Head(seen) \in M
      /\ \A f \in start : f >= Head(seen) => f \in Rows(seen)
  BY DEF WalkInv, WalkedBack
<1>3. EndPage(q, "before", S)
  BY <1>1, QueryBack
<1>4. S = {f \in M : f < Head(seen)}
  <2>1. S = {f \in M : key[f] < c}
    BY DEF Found
  <2>2. \A f \in M : key[f] < c <=> f < Head(seen)
    BY <1>1, <1>2, KeyOrder
  <2> QED BY <2>1, <2>2
<1> HIDE DEF M, c, S
<1>5. /\ IsEnd(r, S) /\ Ascending(r) /\ S \in SUBSET Flows
      /\ q.prev = IF S \subseteq Rows(r) THEN 0 ELSE key[Head(r)]
      /\ q.next = IF r = << >> THEN 0 ELSE key[Last(r)]
  BY <1>1, <1>3, <1>4 DEF EndPage, IsEnd
<1> HIDE DEF r
<1>6. /\ r \in Seq(Flows) /\ Rows(r) \subseteq S
      /\ r = << >> => S = {}
      /\ r # << >> =>
            /\ \A f \in S : f >= Head(r) => f \in Rows(r)
            /\ \A f \in S : ~(f > Last(r))
            /\ ~(S \subseteq Rows(r)) <=> \E f \in S : f < Head(r)
  BY ONLY <1>1, <1>5, EndSpans
<1>7. r # << >> => /\ Last(r) \in Rows(r) /\ key[Last(r)] # 0
                   /\ Head(r) \in Rows(r) /\ key[Head(r)] # 0
  <2> SUFFICES ASSUME r # << >> PROVE /\ Last(r) \in Rows(r) /\ key[Last(r)] # 0
                                      /\ Head(r) \in Rows(r) /\ key[Head(r)] # 0
    OBVIOUS
  <2>1. /\ Last(r) \in Rows(r) /\ key[Last(r)] \in 1..N
        /\ Head(r) \in Rows(r) /\ key[Head(r)] \in 1..N
    BY <1>1, <1>6, EndsOfPage
  <2> QED BY <2>1, FlowNumbers
<1>8. /\ Rows(z) = Rows(seen) \cup Rows(r) /\ z # << >>
      /\ r = << >> => z = seen
      /\ r # << >> => Head(z) = Head(r)
  BY <1>1, <1>2, <1>6, Joined
<1>9. Ascending(z)
  <2>1. /\ \A f \in Rows(seen) : f >= Head(seen) /\ f \in Nat
        /\ Head(seen) \in Nat
    BY <1>1, <1>2, Between, FlowNumbers
  <2>2. \A g \in Rows(r), f \in Rows(seen) : g < f
    <3> SUFFICES ASSUME NEW g \in Rows(r), NEW f \in Rows(seen) PROVE g < f
      OBVIOUS
    <3>1. g < Head(seen) /\ g \in Flows
      BY <1>4, <1>5, <1>6
    <3> QED BY <2>1, <3>1, FlowNumbers
  <2> QED BY <1>1, <1>2, <1>5, <1>6, <2>2, JoinedInOrder
<1> HIDE DEF z
<1>10. ASSUME NEW f \in start PROVE f \in Rows(seen) \/ f \in S
  <2>1. f \in Nat /\ Head(seen) \in Nat
    BY <1>1, <1>2, FlowNumbers
  <2> QED BY <1>1, <1>2, <1>4, <2>1
<1>11. q.prev # 0 => /\ r # << >> /\ q.prev = key[Head(r)] /\ Head(r) \in M
                     /\ \A f \in start : f >= Head(r) => f \in Rows(z)
  BY <1>4, <1>5, <1>6, <1>7, <1>8, <1>10
<1>12. q.prev = 0 => start \subseteq Rows(z)
  BY <1>5, <1>6, <1>7, <1>8, <1>10
<1>13. WalkedBack(z, q, start)
  BY <1>8, <1>9, <1>11, <1>12 DEF WalkedBack, M
<1>14. ASSUME r # << >>
       PROVE  /\ q.next # 0 <=> \E f \in M : f > Last(r)
              /\ q.prev # 0 <=> \E f \in M : f < Head(r)
  <2>1. /\ Last(r) \in Nat /\ Head(r) \in Nat /\ Head(seen) \in Nat
        /\ Last(r) < Head(seen) /\ Head(r) < Head(seen)
    <3>1. Last(r) \in S /\ Head(r) \in S
      BY <1>6, <1>7, <1>14
    <3> QED BY <1>1, <1>2, <1>4, <3>1, FlowNumbers
  <2>2. (\E f \in M : f < Head(r)) <=> \E f \in S : f < Head(r)
    <3> SUFFICES ASSUME NEW f \in M, f < Head(r) PROVE f \in S
      BY <1>4
    <3> QED BY <1>1, <1>4, <2>1, FlowNumbers
  <2>3. q.prev # 0 <=> \E f \in S : f < Head(r)
    BY <1>5, <1>6, <1>7, <1>14
  <2>4. q.next # 0 /\ \E f \in M : f > Last(r)
    BY <1>2, <1>5, <1>7, <1>14, <2>1
  <2> QED BY <2>2, <2>3, <2>4
<1>15. Rows(r) \subseteq M
  BY <1>4, <1>6
<1> QED BY <1>6, <1>13, <1>14, <1>15 DEF Offers, r, z, M

-----------------------------------------------------------------------------
(* The invariant, and the theorems.                                          *)

\* What a cursor can tell apart, and the requests a session answers: keys identify flows,
\* only a session without a tail has its time bounded, and no query is cut short by the cap.
Sharp == DistinctKeys /\ Windowed \subseteq {"closed"} /\ ScanCap >= N

\* Keys that rise from each flow to the next rise over any distance.
RisesOver(c, n, x) == \A f, g \in Flows : f < g /\ g <= f + n => c[f] < c[g]
Rising == INSTANCE FoldFacts WITH Op <- Grow, Inv <- RisesOver

LEMMA KeysRiseAtFirst ==
    ASSUME Sharp, Init
    PROVE  KeysRise
<1>1. key \in [Flows -> 1..N] /\ \A f \in Flows \ {1} : key[f - 1] < key[f]
  BY DEF Init, Sharp
<1>2. \A f \in Flows : f \in Nat /\ key[f] \in Nat
  BY <1>1, FlowNumbers
<1>3. RisesOver(key, 0, {})
  BY <1>2 DEF RisesOver
<1>4. ASSUME NEW n \in Nat, RisesOver(key, n, {}) PROVE RisesOver(key, n + 1, {})
  <2> SUFFICES ASSUME NEW f \in Flows, NEW g \in Flows, f < g, g <= f + (n + 1)
               PROVE  key[f] < key[g]
    BY DEF RisesOver
  <2>1. f \in Nat /\ g \in Nat /\ g \in Flows \ {1} /\ g - 1 \in Flows
    BY <1>2, FlowNumbers DEF Flows
  <2>2. key[g - 1] < key[g]
    BY <1>1, <2>1
  <2>3. CASE f = g - 1
    BY <2>2, <2>3
  <2>4. CASE f # g - 1
    <3>1. f < g - 1 /\ g - 1 <= f + n
      BY <2>1, <2>4
    <3>2. key[f] < key[g - 1]
      BY <1>4, <2>1, <3>1 DEF RisesOver
    <3> QED BY <1>2, <2>1, <2>2, <3>2
  <2> QED BY <2>3, <2>4
<1>5. \A n \in Nat : RisesOver(key, n, {})
  BY ONLY <1>3, <1>4, Rising!Induct
<1>6. ASSUME NEW f \in Flows, NEW g \in Flows, f < g PROVE key[f] < key[g]
  <2>1. g \in Nat /\ g <= f + g
    BY <1>2
  <2> QED BY <1>5, <1>6, <2>1 DEF RisesOver
<1> QED BY <1>1, <1>6 DEF KeysRise

LEMMA WalkInvAtFirst ==
    ASSUME Sharp, Init
    PROVE  WalkInv
<1>1. KeysRise
  BY KeysRiseAtFirst
<1>2. /\ count \in 0..N /\ bundle = 1..count /\ tail = {} /\ walk = "none" /\ start = {}
      /\ page = NoPage /\ seen = << >> /\ until \in 0..N
      /\ session = "open" => until = 0
  <2>1. 0..1 \subseteq 0..N /\ 0 \in 0..N /\ N \in 0..N
    BY PagingAssumption
  <2>2. count \in 0..N
    BY <2>1 DEF Init
  <2>3. session = "open" => session \notin Windowed
    BY DEF Sharp
  <2> QED BY <2>1, <2>2, <2>3 DEF Init
<1>3. page.rows = << >> /\ page.next = 0 /\ page.prev = 0
  BY <1>2 DEF NoPage
<1>4. Len(page.rows) = 0 /\ Rows(page.rows) = {} /\ seen \in Seq(Flows)
  <2>1. Len(<< >>) = 0 /\ << >> \in Seq(Flows)
    BY EmptySeq
  <2> QED BY <1>2, <1>3, <2>1 DEF Rows
<1>5. limit \in Nat \ {0} /\ limit \in 1..MaxLimit /\ 0 <= limit
  BY PagingAssumption DEF Init
<1>6. TypeOK
  <2>1. 0 \in 0..N
    BY FlowNumbers
  <2>2. fits \subseteq Flows /\ session \in Sessions /\ filtered \in BOOLEAN
    BY DEF Init
  <2> QED BY <1>1, <1>2, <1>3, <1>4, <1>5, <2>1, <2>2 DEF TypeOK, KeysRise
<1>7. RowsInWindow
  BY <1>4 DEF RowsInWindow
<1>8. fits \subseteq Flows /\ start \subseteq Matching
  BY <1>2 DEF Init
<1> QED BY <1>1, <1>2, <1>5, <1>6, <1>7, <1>8 DEF WalkInv

\* A page is taken: what does not depend on which.
LEMMA Taken ==
    ASSUME WalkInv, ScanCap >= N, NEW kind \in {"first", "after", "last", "before"}, NEW c,
           Load(kind, c), walk' \in {"forward", "back"}, seen' \in Seq(Flows),
           \A f \in Rows(QueryFlows(kind, c).rows) : inWindow(f)
    PROVE  /\ TypeOK' /\ KeysRise' /\ fits' \subseteq Flows /\ limit' \in Nat \ {0}
           /\ session' = session /\ (session' = "open" => until' = 0)
           /\ Matching' = Matching /\ key' = key /\ there' = Matching /\ RowsInWindow'
           /\ page' = QueryFlows(kind, c)
<1> DEFINE q == QueryFlows(kind, c)
<1>1. /\ UNCHANGED requestVars /\ UNCHANGED sessionVars /\ page' = q /\ there' = Matching
  BY DEF Load
<1>2. /\ session' = session /\ key' = key /\ fits' = fits /\ filtered' = filtered
      /\ until' = until /\ limit' = limit
      /\ count' = count /\ bundle' = bundle /\ tail' = tail
  BY <1>1 DEF requestVars, sessionVars
<1>3. Matching' = Matching
  BY <1>2 DEF Matching, inWindow
<1>4. IsPage(q)
  BY Readable, EveryPage
<1> HIDE DEF q
<1>5. Rows(q.rows) \subseteq Flows
  BY <1>4, ElementOfSeq DEF IsPage, Rows
<1>6. TypeOK'
  BY <1>1, <1>2, <1>4, <1>5 DEF TypeOK, WalkInv, IsPage, Rows
<1>7. RowsInWindow'
  <2>1. \A i \in 1..Len(q.rows) : inWindow(q.rows[i])
    BY DEF Rows, q
  <2> QED BY <1>1, <1>2, <2>1 DEF RowsInWindow, inWindow
<1>8. KeysRise' /\ fits' \subseteq Flows /\ limit' \in Nat \ {0} /\ (session' = "open" => until' = 0)
  BY <1>2 DEF WalkInv, KeysRise
<1> QED BY <1>1, <1>2, <1>3, <1>6, <1>7, <1>8 DEF q

\* The walk forward.
LEMMA FirstKeeps ==
    ASSUME WalkInv, ScanCap >= N, First
    PROVE  WalkInv'
<1> DEFINE q == QueryFlows("first", 0)
<1>1. /\ walk' = "forward" /\ start' = Matching /\ Load("first", 0) /\ page' = q
      /\ seen' = q.rows
  BY DEF First, Load
<1> HIDE DEF q
<1>2. /\ q.rows \in Seq(Flows) /\ Rows(q.rows) \subseteq Matching
      /\ WalkedForward(q.rows, q, Matching) /\ Offers(q, Matching)
  BY WalkStarts DEF q
<1>3. \A f \in Rows(q.rows) : inWindow(f)
  BY <1>2, Readable
<1>4. /\ TypeOK' /\ KeysRise' /\ fits' \subseteq Flows /\ limit' \in Nat \ {0}
      /\ session' = session /\ (session' = "open" => until' = 0)
      /\ Matching' = Matching /\ key' = key /\ there' = Matching /\ RowsInWindow'
  <2>1. walk' \in {"forward", "back"} /\ seen' \in Seq(Flows)
    BY <1>1, <1>2
  <2> QED BY <1>1, <1>3, <2>1, Taken DEF q
<1>5. WalkedForward(seen, page, start)'
  BY <1>1, <1>2, <1>4 DEF WalkedForward
<1>6. Offers(page, there)'
  BY <1>1, <1>2, <1>4 DEF Offers
<1> QED BY <1>1, <1>4, <1>5, <1>6 DEF WalkInv

LEMMA PageNextKeeps ==
    ASSUME WalkInv, ScanCap >= N, PageNext
    PROVE  WalkInv'
<1> DEFINE c == page.next
           q == QueryFlows("after", c)
<1>1. /\ walk = "forward" /\ page.next # 0 /\ walk' = walk /\ start' = start
      /\ Load("after", c) /\ page' = q /\ seen' = seen \o q.rows
  BY DEF PageNext, Load
<1> HIDE DEF q
<1>2. /\ q.rows \in Seq(Flows) /\ Rows(q.rows) \subseteq Matching
      /\ WalkedForward(seen \o q.rows, q, start) /\ Offers(q, Matching)
  BY <1>1, WalkGoesOn DEF q
<1> HIDE DEF c
<1>3. (\A f \in Rows(q.rows) : inWindow(f)) /\ seen \in Seq(Flows) /\ start \subseteq Matching
  BY <1>2, Readable
<1>4. /\ TypeOK' /\ KeysRise' /\ fits' \subseteq Flows /\ limit' \in Nat \ {0}
      /\ session' = session /\ (session' = "open" => until' = 0)
      /\ Matching' = Matching /\ key' = key /\ there' = Matching /\ RowsInWindow'
  <2>1. walk' \in {"forward", "back"} /\ seen' \in Seq(Flows)
    BY <1>1, <1>2, <1>3, Joined
  <2> QED BY <1>1, <1>3, <2>1, Taken DEF q
<1>5. WalkedForward(seen, page, start)'
  BY <1>1, <1>2, <1>4 DEF WalkedForward
<1>6. Offers(page, there)'
  BY <1>1, <1>2, <1>4 DEF Offers
<1> QED BY <1>1, <1>3, <1>4, <1>5, <1>6 DEF WalkInv

\* The walk back.
LEMMA FromLastKeeps ==
    ASSUME WalkInv, ScanCap >= N, FromLast
    PROVE  WalkInv'
<1> DEFINE q == QueryFlows("last", 0)
<1>1. /\ walk' = "back" /\ start' = Matching /\ Load("last", 0) /\ page' = q
      /\ seen' = q.rows
  BY DEF FromLast, Load
<1> HIDE DEF q
<1>2. /\ q.rows \in Seq(Flows) /\ Rows(q.rows) \subseteq Matching
      /\ WalkedBack(q.rows, q, Matching) /\ Offers(q, Matching)
  BY BackStarts DEF q
<1>3. \A f \in Rows(q.rows) : inWindow(f)
  BY <1>2, Readable
<1>4. /\ TypeOK' /\ KeysRise' /\ fits' \subseteq Flows /\ limit' \in Nat \ {0}
      /\ session' = session /\ (session' = "open" => until' = 0)
      /\ Matching' = Matching /\ key' = key /\ there' = Matching /\ RowsInWindow'
  <2>1. walk' \in {"forward", "back"} /\ seen' \in Seq(Flows)
    BY <1>1, <1>2
  <2> QED BY <1>1, <1>3, <2>1, Taken DEF q
<1>5. WalkedBack(seen, page, start)' /\ (page'.prev # 0 => seen' # << >>)
  BY <1>1, <1>2, <1>4 DEF WalkedBack
<1>6. Offers(page, there)'
  BY <1>1, <1>2, <1>4 DEF Offers
<1> QED BY <1>1, <1>4, <1>5, <1>6 DEF WalkInv

LEMMA PagePrevKeeps ==
    ASSUME WalkInv, ScanCap >= N, PagePrev
    PROVE  WalkInv'
<1> DEFINE c == page.prev
           q == QueryFlows("before", c)
<1>1. /\ walk = "back" /\ page.prev # 0 /\ walk' = walk /\ start' = start
      /\ Load("before", c) /\ page' = q /\ seen' = q.rows \o seen
  BY DEF PagePrev, Load
<1> HIDE DEF q
<1>2. session = "closed" =>
         /\ q.rows \in Seq(Flows) /\ Rows(q.rows) \subseteq Matching
         /\ WalkedBack(q.rows \o seen, q, start) /\ Offers(q, Matching)
  BY <1>1, BackGoesOn DEF q
<1>3. q.rows \in Seq(Flows) /\ seen \in Seq(Flows) /\ start \subseteq Matching /\ seen # << >>
  <2>1. q.rows \in Seq(Flows)
    BY Readable, EveryPage DEF q, IsPage
  <2>2. seen # << >>
    BY <1>1 DEF WalkInv
  <2> QED BY <2>1, <2>2, Readable
<1> HIDE DEF c
<1>4. \A f \in Rows(q.rows) : inWindow(f)
  <2>1. CASE session = "closed"
    BY <1>2, <2>1, Readable
  <2>2. CASE session # "closed"
    <3>1. until = 0
      BY <2>2, PagingAssumption DEF WalkInv, TypeOK
    <3> QED BY <3>1 DEF inWindow
  <2> QED BY <2>1, <2>2
<1>5. seen' \in Seq(Flows) /\ seen' # << >> /\ (seen' = q.rows => q.rows = << >>)
  <2>1. seen' \in Seq(Flows) /\ Len(seen') = Len(q.rows) + Len(seen)
    BY <1>1, <1>3, ConcatProperties
  <2>2. Len(seen) \in Nat /\ Len(seen) # 0 /\ Len(q.rows) \in Nat
    BY <1>3, EmptySeq, LenProperties
  <2>3. Len(seen') # Len(q.rows) /\ Len(seen') # 0
    BY <2>1, <2>2
  <2> QED BY <2>1, <2>3, EmptySeq
<1>6. /\ TypeOK' /\ KeysRise' /\ fits' \subseteq Flows /\ limit' \in Nat \ {0}
      /\ session' = session /\ (session' = "open" => until' = 0)
      /\ Matching' = Matching /\ key' = key /\ there' = Matching /\ RowsInWindow'
  <2>1. walk' \in {"forward", "back"}
    BY <1>1
  <2> QED BY <1>1, <1>4, <1>5, <2>1, Taken DEF q
<1>7. session = "closed" => WalkedBack(seen, page, start)'
  BY <1>1, <1>2, <1>6 DEF WalkedBack
<1>8. session = "closed" \/ seen' = page'.rows => Offers(page, there)'
  BY <1>1, <1>2, <1>5, <1>6 DEF Offers
<1> QED BY <1>1, <1>3, <1>5, <1>6, <1>7, <1>8 DEF WalkInv

\* A step of the session: what matches may grow, and the walk stands.
LEMMA SessionKeeps ==
    ASSUME WalkInv, TypeOK', UNCHANGED <<requestVars, walkVars>>,
           bundle \cup tail \subseteq bundle' \cup tail'
    PROVE  WalkInv'
<1>1. /\ session' = session /\ key' = key /\ fits' = fits /\ until' = until /\ limit' = limit
      /\ walk' = walk /\ page' = page /\ seen' = seen /\ start' = start /\ there' = there
  BY DEF requestVars, walkVars
<1>2. Matching \subseteq Matching'
  BY <1>1 DEF Matching, inWindow
<1>3. WalkedForward(seen, page, start) => WalkedForward(seen, page, start)'
  BY <1>1, <1>2 DEF WalkedForward
<1>4. WalkedBack(seen, page, start) => WalkedBack(seen, page, start)'
  BY <1>1, <1>2 DEF WalkedBack
<1>5. Offers(page, there) => Offers(page, there)'
  BY <1>1 DEF Offers
<1>6. KeysRise' /\ RowsInWindow'
  BY <1>1 DEF WalkInv, KeysRise, RowsInWindow, inWindow
<1> QED BY <1>1, <1>2, <1>3, <1>4, <1>5, <1>6 DEF WalkInv

LEMMA WalkInvSteps ==
    ASSUME WalkInv, ScanCap >= N, [Next]_vars
    PROVE  WalkInv'
<1>0. count \in 0..N /\ N \in Nat /\ bundle \cup tail = 1..count
      /\ (session = "closed" => tail = {}) /\ ~(session = "open" /\ session = "closed")
  BY FlowNumbers DEF WalkInv, TypeOK
<1>1. CASE First
  BY <1>1, FirstKeeps
<1>2. CASE PageNext
  BY <1>2, PageNextKeeps
<1>3. CASE FromLast
  BY <1>3, FromLastKeeps
<1>4. CASE PagePrev
  BY <1>4, PagePrevKeeps
<1>5. CASE Publish
  <2>1. /\ session = "open" /\ count' = count + 1 /\ tail' = tail \cup {count + 1} /\ bundle' = bundle
        /\ UNCHANGED requestVars /\ UNCHANGED walkVars /\ count < N
    BY <1>5 DEF Publish
  <2>2. count' \in 0..N /\ 1..count' = (1..count) \cup {count + 1}
    BY <1>0, <2>1
  <2>3. TypeOK'
    BY <1>0, <2>1, <2>2 DEF TypeOK, WalkInv, requestVars, walkVars
  <2> QED BY <2>1, <2>3, SessionKeeps
<1>6. ASSUME NEW f \in Flows, Write(f) PROVE WalkInv'
  <2>1. /\ bundle' = bundle \cup {f} /\ f \in tail /\ tail' = tail /\ count' = count
        /\ UNCHANGED requestVars /\ UNCHANGED walkVars
    BY <1>6 DEF Write
  <2>2. TypeOK'
    BY <1>0, <2>1 DEF TypeOK, WalkInv, requestVars, walkVars
  <2> QED BY <2>1, <2>2, SessionKeeps
<1>7. ASSUME NEW f \in Flows, Release(f) PROVE WalkInv'
  <2>1. /\ tail' = tail \ {f} /\ f \in bundle /\ bundle' = bundle /\ count' = count
        /\ UNCHANGED requestVars /\ UNCHANGED walkVars
    BY <1>7 DEF Release
  <2>2. TypeOK'
    BY <1>0, <2>1 DEF TypeOK, WalkInv, requestVars, walkVars
  <2> QED BY <2>1, <2>2, SessionKeeps
<1>8. ASSUME NEW f \in Flows, Rewrite(f) PROVE WalkInv'
  <2>1. /\ tail' = tail \cup {f} /\ f \in bundle /\ bundle' = bundle /\ count' = count
        /\ session = "open" /\ UNCHANGED requestVars /\ UNCHANGED walkVars
    BY <1>8 DEF Rewrite
  <2>2. TypeOK'
    BY <1>0, <2>1 DEF TypeOK, WalkInv, requestVars, walkVars
  <2> QED BY <2>1, <2>2, SessionKeeps
<1>9. CASE UNCHANGED vars
  <2>1. UNCHANGED requestVars /\ UNCHANGED sessionVars /\ UNCHANGED walkVars
    BY <1>9 DEF vars
  <2>2. TypeOK'
    BY <2>1 DEF TypeOK, WalkInv, requestVars, sessionVars, walkVars
  <2> QED BY <2>1, <2>2, SessionKeeps DEF sessionVars
<1> QED BY <1>1, <1>2, <1>3, <1>4, <1>5, <1>6, <1>7, <1>8, <1>9 DEF Next, Finished

\* The walks' invariant holds, page after page (store/query.go:84-217,
\* server/query.go:96-186), of every session whose cursors can tell its flows apart.
THEOREM WalksHold == ASSUME Sharp PROVE Spec => []WalkInv
<1>1. Init => WalkInv
  BY WalkInvAtFirst
<1>2. WalkInv /\ [Next]_vars => WalkInv'
  BY WalkInvSteps DEF Sharp
<1> QED BY <1>1, <1>2, PTL DEF Spec

\* Stepping by cursors reaches every flow that matched when the walk began, once and in
\* timeline order: forward while flows are published, written and rewritten between two
\* pages, back in a session that is closed (store/query.go:219-245, server/query.go:133-178).
THEOREM WalksExact == ASSUME Sharp PROVE Spec => []WalksAreExact
<1>1. WalkInv => WalksAreExact
  BY DEF WalkInv, WalkedForward, WalkedBack, WalksAreExact, ForwardWalkIsExact,
         ClosedBackWalkIsExact, BackWalkIsExact
<1> QED BY <1>1, WalksHold, PTL

\* A page's rows lie in the window asked for, and it offers a cursor where there is more to
\* see, and only there: no phantom last page, no rows out of reach (store/query.go:125-128,
\* server/query.go:147-178, viewer.proto:92).
THEOREM PagesHonest == ASSUME Sharp PROVE Spec => []PagesAreHonest
<1>1. WalkInv => PagesAreHonest
  <2> SUFFICES ASSUME WalkInv PROVE PagesAreHonest
    OBVIOUS
  <2>1. TypeOK /\ RowsInWindow /\ walk \in {"none", "forward", "back"}
    BY DEF WalkInv, TypeOK
  <2>2. Offers(page, there) => Honest
    BY DEF Offers, Honest
  <2>3. CursorsAreHonest
    BY <2>1, <2>2 DEF WalkInv, CursorsAreHonest
  <2>4. LiveViewStaysAtEnd
    BY <2>2 DEF WalkInv, LiveViewStaysAtEnd
  <2> QED BY <2>1, <2>3, <2>4 DEF PagesAreHonest
<1> QED BY <1>1, WalksHold, PTL

=============================================================================
