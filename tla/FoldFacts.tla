------------------------------ MODULE FoldFacts ------------------------------
(* What a left fold over a sequence computes, for any step `Op' with a        *)
(* context, and that what holds at the start and is kept by every step holds  *)
(* at the end.  FoldLeft of the community modules is a function on the        *)
(* subsets of the sequence's indices, by recursion; `Fold' is that function   *)
(* with its definition written out.                                           *)
(*                                                                            *)
(* The step and the invariant are parameters of the module: an INSTANCE gives *)
(* them their meaning, and the theorems are then facts about that fold.       *)
EXTENDS Naturals, Sequences, FiniteSetTheorems, SequenceTheorems, WellFoundedInduction, TLAPS

CONSTANTS
    Op(_, _, _),   \* context, what was folded so far, the next element
    Inv(_, _, _)   \* context, how many elements were folded, what they gave

Top(S) == CHOOSE x \in S : \A y \in S : x >= y

Fold(c, base, s) ==
    LET iter[t \in SUBSET (DOMAIN s)] ==
          IF t = {} THEN base ELSE LET m == Top(t) IN Op(c, iter[t \ {m}], s[m])
    IN  iter[DOMAIN s]

-----------------------------------------------------------------------------
(* Least and greatest.                                                       *)

\* Of a family of subsets of a finite set, one is least by inclusion.
LEMMA LeastSubset ==
    ASSUME NEW S, IsFiniteSet(S), NEW T, T \subseteq SUBSET S, T # {}
    PROVE  \E x \in T : \A y \in T : y \subseteq x => y = x
<1>1. IsWellFoundedOn(StrictSubsetOrdering(S), SUBSET S)
  BY FS_StrictSubsetOrderingWellFounded, FS_FiniteSubsetsOfFinite
<1>2. PICK x \in T : \A y \in T : <<y, x>> \notin StrictSubsetOrdering(S)
  BY <1>1, WFMin
<1>3. ASSUME NEW y \in T, y \subseteq x PROVE y = x
  <2> SUFFICES ASSUME y # x PROVE <<y, x>> \in StrictSubsetOrdering(S)
    BY <1>2
  <2>1. <<y, x>> \in (SUBSET S) \X (SUBSET S) /\ <<y, x>>[1] = y /\ <<y, x>>[2] = x
    OBVIOUS
  <2> QED BY <1>3, <2>1 DEF StrictSubsetOrdering
<1> QED BY <1>2, <1>3

\* A nonempty set of numbers has a least.
LEMMA LeastNumber ==
    ASSUME NEW S, S \subseteq Nat, S # {}
    PROVE  \E x \in S : \A y \in S : x <= y
<1>0. PICK n \in S : TRUE
  OBVIOUS
<1> DEFINE below(x) == {k \in 0..n : k < x}
<1>1. PICK T : T = {below(x) : x \in {z \in S : z <= n}}
  OBVIOUS
<1>2. T \subseteq SUBSET (0..n) /\ T # {} /\ IsFiniteSet(0..n)
  <2>1. n \in Nat /\ n <= n
    OBVIOUS
  <2>2. T # {}
    BY <1>1, <2>1
  <2>3. IsFiniteSet(0..n)
    BY <2>1, FS_Interval
  <2> QED BY <1>1, <2>2, <2>3
<1>3. PICK t \in T : \A u \in T : u \subseteq t => u = t
  <2> DEFINE D == 0..n
  <2>1. IsFiniteSet(D) /\ T \subseteq SUBSET D /\ T # {}
    BY <1>2
  <2> HIDE DEF D
  <2>2. \E t \in T : \A u \in T : u \subseteq t => u = t
    BY ONLY <2>1, LeastSubset
  <2> QED BY <2>2
<1>4. PICK x \in S : x <= n /\ t = below(x)
  BY <1>1
<1>5. ASSUME NEW y \in S, y < x PROVE FALSE
  <2>1. below(y) \in T /\ y \in Nat /\ x \in Nat /\ n \in Nat
    BY <1>0, <1>1, <1>4, <1>5
  <2>2. below(y) \subseteq below(x) /\ y \in below(x) /\ y \notin below(y)
    BY <1>4, <1>5, <2>1
  <2> QED BY <1>3, <1>4, <2>1, <2>2
<1> QED BY <1>5

\* A nonempty finite set of numbers has a greatest.
LEMMA GreatestOf ==
    ASSUME NEW S, IsFiniteSet(S), S \subseteq Nat, S # {}
    PROVE  Top(S) \in S /\ \A y \in S : Top(S) >= y
<1> DEFINE above(x) == {y \in S : y > x}
<1>0. PICK T : T = {above(x) : x \in S}
  OBVIOUS
<1>1. T \subseteq SUBSET S /\ T # {}
  BY <1>0
<1>2. PICK t \in T : \A u \in T : u \subseteq t => u = t
  <2>1. \E t \in T : \A u \in T : u \subseteq t => u = t
    BY ONLY <1>1, IsFiniteSet(S), LeastSubset
  <2> QED BY <2>1
<1>3. PICK x \in S : t = above(x)
  BY <1>0
<1>4. above(x) = {}
  <2> SUFFICES ASSUME NEW y \in above(x) PROVE FALSE
    OBVIOUS
  <2>1. y \in S /\ y > x
    OBVIOUS
  <2>2. above(y) \subseteq above(x) /\ y \notin above(y)
    <3>1. \A z \in S : z > y => z > x
      BY <2>1
    <3>2. ~(y > y)
      BY <2>1
    <3> QED BY <3>1, <3>2
  <2>3. above(y) \in T
    BY <1>0, <2>1
  <2> QED BY <1>2, <1>3, <2>2, <2>3
<1>5. \A y \in S : x >= y
  BY <1>4
<1> QED BY <1>5 DEF Top

-----------------------------------------------------------------------------
(* Induction.                                                                *)

\* Over the natural numbers.
THEOREM Induct ==
    ASSUME NEW c, NEW x, Inv(c, 0, x), \A n \in Nat : Inv(c, n, x) => Inv(c, n + 1, x)
    PROVE  \A n \in Nat : Inv(c, n, x)
<1> DEFINE Bad == {n \in Nat : ~Inv(c, n, x)}
<1> SUFFICES ASSUME Bad # {} PROVE FALSE
  OBVIOUS
<1>1. PICK n \in Bad : \A y \in Bad : n <= y
  <2>1. Bad \subseteq Nat
    OBVIOUS
  <2> HIDE DEF Bad
  <2> QED BY <2>1, LeastNumber
<1>2. n # 0 /\ n - 1 \in Nat /\ n = (n - 1) + 1
  OBVIOUS
<1>3. n - 1 \notin Bad
  BY <1>1, <1>2
<1> QED BY <1>2, <1>3

-----------------------------------------------------------------------------
(* The fold.                                                                 *)

\* The values a fold goes through.
Chain(h, c, base, s) ==
    h[0] = base /\ \A k \in 1..Len(s) : h[k] = Op(c, h[k - 1], s[k])

\* The fold is the last of them.
LEMMA ChainExists ==
    ASSUME NEW c, NEW base, NEW S, NEW s \in Seq(S)
    PROVE  \E h : Chain(h, c, base, s) /\ Fold(c, base, s) = h[Len(s)]
<1> DEFINE D == DOMAIN s
           Step(g, t) == IF t = {} THEN base ELSE Op(c, g[t \ {Top(t)}], s[Top(t)])
           Folds(g) == g = [t \in SUBSET D |-> Step(g, t)]
<1>1. Fold(c, base, s) = (CHOOSE g : Folds(g))[D]
  BY DEF Fold
<1>2. D = 1..Len(s) /\ D \subseteq Nat /\ IsFiniteSet(D) /\ Len(s) \in Nat
  <2>1. D = 1..Len(s) /\ Len(s) \in Nat
    BY LenProperties
  <2> QED BY <2>1, FS_Interval
<1>3. \A t \in SUBSET D : IsFiniteSet(t) /\ (t # {} => Top(t) \in t /\ \A y \in t : Top(t) >= y)
  BY <1>2, FS_Subset, GreatestOf
<1>4. \E g : Folds(g)
  <2> DEFINE Upto(t) == \E g : \A u \in SUBSET t : g[u] = Step(g, u)
             Bad == {t \in SUBSET D : ~Upto(t)}
  <2>1. Bad = {}
    <3> SUFFICES ASSUME Bad # {} PROVE FALSE
      OBVIOUS
    <3>0. Bad \subseteq SUBSET D
      OBVIOUS
    <3>1. PICK r \in Bad : \A y \in Bad : y \subseteq r => y = r
      <4> HIDE DEF Bad
      <4> QED BY <1>2, <3>0, LeastSubset
    <3>2. CASE r = {}
      <4> DEFINE g == [t \in SUBSET D |-> base]
      <4>1. \A t \in SUBSET r : g[t] = Step(g, t)
        BY <3>2
      <4> QED BY <4>1
    <3>3. CASE r # {}
      <4> DEFINE x == Top(r)
                 q == r \ {x}
      <4>1. x \in r /\ q \in SUBSET D /\ q \subseteq r /\ q # r
        BY <1>3, <3>3
      <4>2. PICK g : \A t \in SUBSET q : g[t] = Step(g, t)
        <5>1. q \notin Bad
          <6> HIDE DEF Bad, q
          <6> QED BY <3>1, <4>1
        <5>2. Upto(q)
          BY <4>1, <5>1
        <5> QED BY <5>2
      <4> DEFINE h == [t \in SUBSET D |-> IF x \in t THEN Op(c, g[t \ {x}], s[x]) ELSE g[t]]
      <4>3. ASSUME NEW t \in SUBSET r PROVE h[t] = Step(h, t)
        <5>1. CASE x \notin t
          <6>1. t \in SUBSET q /\ t \in SUBSET D
            BY <5>1
          <6>2. t # {} => t \ {Top(t)} \in SUBSET D /\ x \notin t \ {Top(t)}
            BY <5>1, <6>1
          <6> HIDE DEF x, q
          <6>3. h[t] = g[t] /\ (t # {} => h[t \ {Top(t)}] = g[t \ {Top(t)}])
            BY <5>1, <6>1, <6>2
          <6> QED BY <4>2, <6>1, <6>3
        <5>2. CASE x \in t
          <6>1. Top(t) = x
            BY <1>2, <1>3, <5>2
          <6>2. t \in SUBSET D /\ t \ {x} \in SUBSET D /\ t # {}
            BY <5>2
          <6>3. Step(h, t) = Op(c, h[t \ {x}], s[x])
            BY <6>1, <6>2
          <6> HIDE DEF x
          <6>4. h[t] = Op(c, g[t \ {x}], s[x]) /\ h[t \ {x}] = g[t \ {x}]
            BY <5>2, <6>2
          <6> QED BY <6>3, <6>4
        <5> QED BY <5>1, <5>2
      <4> HIDE DEF h
      <4>4. Upto(r)
        BY <4>3
      <4> QED BY <4>4
    <3> QED BY <3>2, <3>3
  <2>2. PICK g : \A t \in SUBSET D : g[t] = Step(g, t)
    BY <2>1
  <2> DEFINE h == [t \in SUBSET D |-> g[t]]
  <2>3. ASSUME NEW t \in SUBSET D PROVE h[t] = Step(h, t)
    <3>1. h[t] = g[t] /\ h[t \ {Top(t)}] = g[t \ {Top(t)}]
      OBVIOUS
    <3> HIDE DEF h
    <3> QED BY <2>2, <3>1
  <2>4. h = [t \in SUBSET D |-> h[t]]
    OBVIOUS
  <2> HIDE DEF h
  <2>5. Folds(h)
    BY <2>3, <2>4
  <2> QED BY <2>5
<1> DEFINE it == CHOOSE g : Folds(g)
<1>5. Folds(it)
  BY <1>4
<1>6. Fold(c, base, s) = it[D]
  BY <1>1
<1> HIDE DEF it
<1>7. \A t \in SUBSET D : it[t] = Step(it, t)
  <2> HIDE DEF Step
  <2> QED BY <1>5
<1> DEFINE h == [k \in 0..Len(s) |-> it[1..k]]
<1>8. h[0] = base
  <2>1. 1..0 = {} /\ {} \in SUBSET D /\ 0 \in 0..Len(s)
    BY <1>2
  <2> QED BY <1>7, <2>1
<1>9. ASSUME NEW k \in 1..Len(s) PROVE h[k] = Op(c, h[k - 1], s[k])
  <2>1. k \in Nat /\ k \in 0..Len(s) /\ k - 1 \in 0..Len(s) /\ 1..k \in SUBSET D /\ k \in 1..k
    BY <1>2
  <2>2. Top(1..k) = k
    <3>1. Top(1..k) \in 1..k /\ Top(1..k) >= k
      BY <1>3, <2>1
    <3> QED BY <2>1, <3>1
  <2>3. (1..k) \ {k} = 1..(k - 1)
    BY <2>1
  <2>4. it[1..k] = Op(c, it[1..(k - 1)], s[k])
    BY <1>7, <2>1, <2>2, <2>3
  <2> QED BY <2>1, <2>4
<1>10. h[Len(s)] = it[D]
  BY <1>2
<1> HIDE DEF h
<1> QED BY <1>6, <1>8, <1>9, <1>10 DEF Chain

\* What holds of the start and is kept by every step holds of the fold.
THEOREM FoldKeeps ==
    ASSUME NEW c, NEW base, NEW S, NEW s \in Seq(S), Inv(c, 0, base),
           \A k \in 1..Len(s) : \A a : Inv(c, k - 1, a) => Inv(c, k, Op(c, a, s[k]))
    PROVE  Inv(c, Len(s), Fold(c, base, s))
<1>1. PICK h : Chain(h, c, base, s) /\ Fold(c, base, s) = h[Len(s)]
  BY ChainExists
<1>2. Len(s) \in Nat
  BY LenProperties
<1> DEFINE Bad == {k \in 0..Len(s) : ~Inv(c, k, h[k])}
<1> SUFFICES ASSUME Bad # {} PROVE FALSE
  BY <1>1, <1>2
<1>3. PICK n \in Bad : \A y \in Bad : n <= y
  <2>1. Bad \subseteq Nat
    BY <1>2
  <2> HIDE DEF Bad
  <2> QED BY <2>1, LeastNumber
<1>4. n # 0 /\ n \in 1..Len(s) /\ n - 1 \in 0..Len(s) /\ n - 1 \notin Bad
  BY <1>1, <1>2, <1>3 DEF Chain
<1>5. Inv(c, n, Op(c, h[n - 1], s[n]))
  BY <1>4
<1> QED BY <1>1, <1>4, <1>5 DEF Chain

\* The fold of nothing.
THEOREM FoldOfNone == \A c, base : Fold(c, base, << >>) = base
<1> TAKE c, base
<1>1. << >> \in Seq({}) /\ Len(<< >>) = 0
  BY EmptySeq
<1>2. PICK h : Chain(h, c, base, << >>) /\ Fold(c, base, << >>) = h[Len(<< >>)]
  BY ONLY <1>1, ChainExists
<1> QED BY <1>1, <1>2 DEF Chain

\* The last element is folded last.
THEOREM FoldOfMore ==
    ASSUME NEW c, NEW base, NEW S, NEW s \in Seq(S), NEW x \in S
    PROVE  Fold(c, base, Append(s, x)) = Op(c, Fold(c, base, s), x)
<1> DEFINE t == Append(s, x)
<1>1. /\ t \in Seq(S) /\ Len(t) = Len(s) + 1 /\ t[Len(s) + 1] = x /\ Len(s) \in Nat
      /\ \A k \in 1..Len(s) : t[k] = s[k]
  BY LenProperties, AppendProperties
<1> HIDE DEF t
<1>2. PICK g : Chain(g, c, base, s) /\ Fold(c, base, s) = g[Len(s)]
  BY ChainExists
<1>3. PICK h : Chain(h, c, base, t) /\ Fold(c, base, t) = h[Len(t)]
  BY <1>1, ChainExists
<1> DEFINE Bad == {k \in 0..Len(s) : g[k] # h[k]}
<1>4. Bad = {}
  <2> SUFFICES ASSUME Bad # {} PROVE FALSE
    OBVIOUS
  <2>1. PICK n \in Bad : \A y \in Bad : n <= y
    <3>1. Bad \subseteq Nat
      BY <1>1
    <3> HIDE DEF Bad
    <3> QED BY <3>1, LeastNumber
  <2>2. n # 0 /\ n \in 1..Len(s) /\ n - 1 \in 0..Len(s) /\ n - 1 \notin Bad
    BY <1>1, <1>2, <1>3, <2>1 DEF Chain
  <2>3. n \in 1..Len(t) /\ t[n] = s[n] /\ g[n - 1] = h[n - 1] /\ g[n] # h[n]
    BY <1>1, <2>2
  <2> QED BY <1>2, <1>3, <2>2, <2>3 DEF Chain
<1>5. h[Len(t)] = Op(c, h[Len(s)], x)
  BY <1>1, <1>3 DEF Chain
<1> QED BY <1>1, <1>2, <1>3, <1>4, <1>5 DEF t

\* A fold whose steps are found further on in a longer one ends where they end.
LEMMA ChainFurtherOn ==
    ASSUME NEW c, NEW base, NEW S, NEW s \in Seq(S), NEW g, Chain(g, c, base, s),
           NEW h, NEW m \in Nat, h[m] = base,
           \A k \in 1..Len(s) : h[m + k] = Op(c, h[m + k - 1], s[k])
    PROVE  h[m + Len(s)] = g[Len(s)]
<1>1. Len(s) \in Nat
  BY LenProperties
<1> DEFINE Bad == {k \in 0..Len(s) : h[m + k] # g[k]}
<1> SUFFICES ASSUME Bad # {} PROVE FALSE
  BY <1>1
<1>2. PICK n \in Bad : \A y \in Bad : n <= y
  <2>1. Bad \subseteq Nat
    BY <1>1
  <2> HIDE DEF Bad
  <2> QED BY <2>1, LeastNumber
<1>3. n # 0
  BY <1>1, <1>2 DEF Chain
<1>4. n \in 1..Len(s) /\ n - 1 \in 0..Len(s) /\ n - 1 \notin Bad /\ m + (n - 1) = m + n - 1
  BY <1>1, <1>2, <1>3
<1> QED BY <1>2, <1>4 DEF Chain

\* What is appended is folded from where the rest ended.
THEOREM FoldOfJoined ==
    ASSUME NEW c, NEW base, NEW S, NEW s \in Seq(S), NEW t \in Seq(S)
    PROVE  Fold(c, base, s \o t) = Fold(c, Fold(c, base, s), t)
<1>1. /\ s \o t \in Seq(S) /\ Len(s \o t) = Len(s) + Len(t)
      /\ Len(s) \in Nat /\ Len(t) \in Nat
      /\ \A k \in 1..Len(s) + Len(t) :
            (s \o t)[k] = IF k <= Len(s) THEN s[k] ELSE t[k - Len(s)]
  BY LenProperties, ConcatProperties
<1>2. PICK f : Chain(f, c, base, s) /\ Fold(c, base, s) = f[Len(s)]
  BY ChainExists
<1>3. PICK g : /\ Chain(g, c, Fold(c, base, s), t)
              /\ Fold(c, Fold(c, base, s), t) = g[Len(t)]
  BY ChainExists
<1>4. PICK h : Chain(h, c, base, s \o t) /\ Fold(c, base, s \o t) = h[Len(s \o t)]
  BY <1>1, ChainExists
<1>5. h[Len(s)] = f[Len(s)]
  <2>0. PICK m \in Nat : m = 0
    OBVIOUS
  <2>1. h[m] = base
    BY <1>4, <2>0 DEF Chain
  <2>2. \A k \in 1..Len(s) : h[m + k] = Op(c, h[m + k - 1], s[k])
    BY <1>1, <1>4, <2>0 DEF Chain
  <2>3. h[m + Len(s)] = f[Len(s)]
    BY ONLY <1>2, <2>1, <2>2, ChainFurtherOn
  <2> QED BY <1>1, <2>0, <2>3
<1>6. h[Len(s) + Len(t)] = g[Len(t)]
  <2>1. h[Len(s)] = Fold(c, base, s)
    BY <1>1, <1>2, <1>5
  <2>2. ASSUME NEW k \in 1..Len(t)
        PROVE  h[Len(s) + k] = Op(c, h[Len(s) + k - 1], t[k])
    <3>1. /\ Len(s) + k \in 1..Len(s \o t) /\ (s \o t)[Len(s) + k] = t[k]
      BY <1>1
    <3> QED BY <1>4, <3>1 DEF Chain
  <2> QED BY <1>1, <1>3, <2>1, <2>2, ChainFurtherOn
<1> QED BY <1>1, <1>3, <1>4, <1>6

\* A sequence grows by its next element.
LEMMA Prefix ==
    ASSUME NEW S, NEW s \in Seq(S)
    PROVE  /\ SubSeq(s, 1, 0) = << >> /\ SubSeq(s, 1, Len(s)) = s
           /\ \A k \in 0..Len(s) :
                 SubSeq(s, 1, k) \in Seq(S) /\ Len(SubSeq(s, 1, k)) = k
           /\ \A k \in 1..Len(s) :
                 s[k] \in S /\ SubSeq(s, 1, k) = Append(SubSeq(s, 1, k - 1), s[k])
<1>1. Len(s) \in Nat /\ \A k \in 1..Len(s) : s[k] \in S
  BY LenProperties, ElementOfSeq
<1>2. \A k \in 0..Len(s) : SubSeq(s, 1, k) \in Seq(S) /\ Len(SubSeq(s, 1, k)) = k
  <2> TAKE k \in 0..Len(s)
  <2>1. 1 \in Int /\ k \in Int /\ k \in Nat /\ \A i \in 1..k : s[i] \in S
    BY <1>1
  <2>2. /\ SubSeq(s, 1, k) \in Seq(S)
        /\ Len(SubSeq(s, 1, k)) = IF 1 <= k THEN k - 1 + 1 ELSE 0
    <3> QED BY ONLY <2>1, SubSeqProperties
  <2> QED BY <2>1, <2>2
<1>3. ASSUME NEW k \in 1..Len(s)
      PROVE  SubSeq(s, 1, k) = Append(SubSeq(s, 1, k - 1), s[k])
  <2>1. 1 \in 1..Len(s) /\ k \in 1..Len(s) /\ k - 1 \in 0..Len(s)
    BY <1>1
  <2>2. SubSeq(s, 1, k) = SubSeq(s, 1, k - 1) \o <<s[k]>>
    BY <2>1, SubSeqRecursiveSecond
  <2>3. Append(SubSeq(s, 1, k - 1), s[k]) = SubSeq(s, 1, k - 1) \o <<s[k]>>
    BY <1>1, <1>2, <2>1, AppendIsConcat
  <2> QED BY <2>2, <2>3
<1>4. SubSeq(s, 1, 0) = << >>
  BY SubSeqEmpty
<1>5. SubSeq(s, 1, Len(s)) = s
  BY SubSeqFull
<1> QED BY <1>1, <1>2, <1>3, <1>4, <1>5

=============================================================================
