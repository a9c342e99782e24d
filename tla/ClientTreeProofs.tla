-------------------------- MODULE ClientTreeProofs --------------------------
(***************************************************************************)
(* Theorems about ClientTree for any tree of clients with any parameters:  *)
(* the types of what is adapted, how clients authenticate, the names, the  *)
(* client parameters that methods read, and what constructors and          *)
(* accessors initialise.                                                   *)
(***************************************************************************)
EXTENDS ClientTree, FiniteSetTheorems, SequenceTheorems, WellFoundedInduction, TLAPS

----------------------------------------------------------------------------
(* Induction, and what recursive functions over sequences compute. *)

LEMMA SetInduction ==
    ASSUME NEW T, 0 \in T, \A n \in Nat : n \in T => n + 1 \in T
    PROVE  Nat \subseteq T
<1> DEFINE less == OpToRel(<, Nat)
           rest == Nat \ T
<1>1. SUFFICES ASSUME rest # {}
               PROVE  FALSE
  OBVIOUS
<1>2. IsWellFoundedOn(less, Nat)
  BY NatLessThanWellFounded
<1>3. \A x, y \in Nat : <<x, y>> \in less <=> x < y
  BY DEF OpToRel
<1>4. rest \subseteq Nat
  OBVIOUS
<1> HIDE DEF less
<1>5. PICK m \in rest : \A k \in rest : <<k, m>> \notin less
  BY <1>1, <1>2, <1>4, WFMin
<1>6. m \in Nat \ {0} /\ m - 1 \in Nat /\ (m - 1) + 1 = m
  OBVIOUS
<1>7. m - 1 \in rest
  BY <1>6
<1>8. m - 1 < m
  BY <1>6
<1>9. <<m - 1, m>> \in less
  BY <1>3, <1>6, <1>8
<1>10. QED
  BY <1>5, <1>7, <1>9

IsFlattening(f, ss, n) == f = [i \in 1..n |-> IF i = 1 THEN ss[i] ELSE f[i - 1] \o ss[i]]

LEMMA FlatteningExists ==
    ASSUME NEW ss, NEW n \in Nat
    PROVE  \E f : IsFlattening(f, ss, n)
<1> DEFINE T == {m \in Nat : \E f : IsFlattening(f, ss, m)}
<1>1. 0 \in T
  <2>1. IsFlattening(<<>>, ss, 0)
    BY DEF IsFlattening
  <2>2. QED
    BY <2>1
<1>2. ASSUME NEW m \in Nat, m \in T
      PROVE  m + 1 \in T
  <2>1. PICK f : IsFlattening(f, ss, m)
    BY <1>2
  <2> DEFINE Step(i, v) == IF i = 1 THEN ss[i] ELSE v \o ss[i]
             g == [i \in 1..(m + 1) |-> IF i = m + 1 THEN Step(i, f[i - 1]) ELSE f[i]]
  <2>2. \A i \in 1..m : f[i] = Step(i, f[i - 1])
    BY <2>1 DEF IsFlattening
  <2>3. ASSUME NEW i \in 1..(m + 1)
        PROVE  g[i] = Step(i, g[i - 1])
    <3>1. CASE i = 1
      <4>1. g[i] = IF i = m + 1 THEN Step(i, f[i - 1]) ELSE f[i]
        OBVIOUS
      <4>2. i # m + 1 => i \in 1..m
        OBVIOUS
      <4>3. QED
        BY <2>2, <3>1, <4>1, <4>2
    <3>2. CASE i # 1
      <4>1. i - 1 \in 1..m /\ i - 1 \in 1..(m + 1) /\ i - 1 # m + 1
        BY <3>2
      <4>2. g[i - 1] = f[i - 1]
        BY <4>1
      <4>3. g[i] = Step(i, f[i - 1])
        <5>1. CASE i = m + 1
          BY <5>1
        <5>2. CASE i # m + 1
          BY <2>2, <5>2
        <5>3. QED
          BY <5>1, <5>2
      <4>4. QED
        BY <4>2, <4>3
    <3>3. QED
      BY <3>1, <3>2
  <2> HIDE DEF Step
  <2>4. g = [i \in 1..(m + 1) |-> g[i]]
    OBVIOUS
  <2> HIDE DEF g
  <2>5. g = [i \in 1..(m + 1) |-> Step(i, g[i - 1])]
    BY <2>3, <2>4
  <2>6. IsFlattening(g, ss, m + 1)
    BY <2>5 DEF IsFlattening, Step
  <2>7. QED
    BY <2>6
<1>3. Nat \subseteq T
  <2> HIDE DEF T
  <2>1. QED
    BY <1>1, <1>2, SetInduction
<1>4. QED
  BY <1>3

\* The flattened sequence is that of the last index.
LEMMA FlattenIs ==
    ASSUME NEW ss, Len(ss) \in Nat \ {0}
    PROVE  \E f : IsFlattening(f, ss, Len(ss)) /\ FlattenSeq(ss) = f[Len(ss)]
<1> DEFINE n == Len(ss)
           f == CHOOSE g : g = [i \in 1..n |-> IF i = 1 THEN ss[i] ELSE g[i - 1] \o ss[i]]
<1>1. IsFlattening(f, ss, n)
  BY FlatteningExists DEF IsFlattening
<1>2. FlattenSeq(ss) = f[n]
  BY DEF FlattenSeq
<1>3. QED
  BY <1>1, <1>2

LEMMA FlattenedOne == ASSUME NEW x PROVE FlattenSeq(<<x>>) = x
<1>1. Len(<<x>>) = 1 /\ Len(<<x>>) \in Nat \ {0}
  OBVIOUS
<1>2. PICK f : IsFlattening(f, <<x>>, 1) /\ FlattenSeq(<<x>>) = f[1]
  BY <1>1, FlattenIs
<1>3. f[1] = <<x>>[1]
  BY <1>2 DEF IsFlattening
<1>4. QED
  BY <1>2, <1>3

LEMMA Flattened ==
    ASSUME NEW S, NEW n \in Nat, NEW ss \in [1..n -> Seq(S)]
    PROVE  /\ FlattenSeq(ss) \in Seq(S)
           /\ \A x : x \in ToSet(FlattenSeq(ss)) <=> \E i \in 1..n : x \in ToSet(ss[i])
<1>1. Len(ss) = n
  OBVIOUS
<1>2. CASE n = 0
  <2>1. FlattenSeq(ss) = <<>>
    BY <1>1, <1>2 DEF FlattenSeq
  <2>2. ToSet(<<>>) = {}
    BY DEF ToSet
  <2>3. QED
    BY <1>2, <2>1, <2>2, EmptySeq
<1>3. CASE n # 0
  <2>1. PICK f : IsFlattening(f, ss, n) /\ FlattenSeq(ss) = f[n]
    BY <1>1, <1>3, FlattenIs
  <2>2. \A i \in 1..n : f[i] = IF i = 1 THEN ss[i] ELSE f[i - 1] \o ss[i]
    BY <2>1 DEF IsFlattening
  <2> DEFINE P(m) == m \in 1..n => /\ f[m] \in Seq(S)
                                  /\ \A x : x \in ToSet(f[m]) <=> \E i \in 1..m : x \in ToSet(ss[i])
             T == {m \in Nat : P(m)}
  <2>3. 0 \in T
    OBVIOUS
  <2>4. ASSUME NEW m \in Nat, m \in T
        PROVE  m + 1 \in T
    <3>1. SUFFICES ASSUME m + 1 \in 1..n
                   PROVE  /\ f[m + 1] \in Seq(S)
                          /\ \A x : x \in ToSet(f[m + 1]) <=> \E i \in 1..(m + 1) : x \in ToSet(ss[i])
      OBVIOUS
    <3>2. ss[m + 1] \in Seq(S)
      BY <3>1
    <3>3. CASE m = 0
      <4>1. f[m + 1] = ss[m + 1] /\ m + 1 = 1
        BY <2>2, <3>1, <3>3
      <4>2. \A i \in 1..(m + 1) : i = m + 1
        BY <3>3
      <4>3. QED
        BY <3>2, <4>1, <4>2
    <3>4. CASE m # 0
      <4>1. m \in 1..n /\ (m + 1) - 1 = m /\ m + 1 # 1
        BY <3>1, <3>4
      <4>2. f[m + 1] = f[m] \o ss[m + 1]
        BY <2>2, <3>1, <4>1
      <4>3. f[m] \in Seq(S) /\ \A x : x \in ToSet(f[m]) <=> \E i \in 1..m : x \in ToSet(ss[i])
        BY <2>4, <4>1
      <4>4. f[m + 1] \in Seq(S) /\ ToSet(f[m + 1]) = ToSet(f[m]) \cup ToSet(ss[m + 1])
        <5>1. Range(f[m] \o ss[m + 1]) = Range(f[m]) \cup Range(ss[m + 1])
          BY <3>2, <4>3, RangeConcatenation
        <5>2. \A s : ToSet(s) = Range(s)
          BY DEF ToSet, Range
        <5>3. QED
          BY <3>2, <4>2, <4>3, <5>1, <5>2, ConcatProperties
      <4>5. \A i : i \in 1..(m + 1) <=> i \in 1..m \/ i = m + 1
        OBVIOUS
      <4>6. QED
        BY <4>3, <4>4, <4>5
    <3>5. QED
      BY <3>3, <3>4
  <2>5. Nat \subseteq T
    <3> HIDE DEF T
    <3>1. QED
      BY <2>3, <2>4, SetInduction
  <2>6. P(n)
    BY <2>5
  <2>7. QED
    BY <1>3, <2>1, <2>6
<1>4. QED
  BY <1>2, <1>3

\* A fold visits the elements in their order: of the first of them, the last comes last.
LEMMA LastComesLast ==
    ASSUME NEW n \in Nat, NEW t \in SUBSET (1..n), n \in t
    PROVE  Max(t) = n
<1>1. n \in t /\ \A y \in t : n >= y
  OBVIOUS
<1>2. Max(t) \in t /\ \A y \in t : Max(t) >= y
  BY <1>1 DEF Max
<1>3. PICK m \in t : m = Max(t)
  BY <1>2
<1>4. m \in 1..n /\ m >= n
  BY <1>1, <1>2, <1>3
<1>5. QED
  BY <1>3, <1>4

\* One own parameter after the other.
LEMMA OwnParamsFold ==
    ASSUME NEW b, NEW s, Len(s) \in Nat, DOMAIN s = 1..Len(s)
    PROVE  \E f : /\ f[0] = b /\ f[Len(s)] = WithOwnParams(b, s)
                  /\ \A k \in 1..Len(s) : f[k] = OwnParam(f[k - 1], s[k])
<1> DEFINE Step(v, x) == OwnParam(v, x)
           Value(t, v) == IF t = {} THEN b ELSE Step(v, s[Max(t)])
           IsFold(g, n) == g = [t \in SUBSET (1..n) |-> Value(t, g[t \ {Max(t)}])]
           T == {n \in Nat : \E g : IsFold(g, n)}
           it == CHOOSE g : IsFold(g, Len(s))
           f == [k \in 0..Len(s) |-> it[1..k]]
<1>1. WithOwnParams(b, s) = it[1..Len(s)]
  BY DEF WithOwnParams, FoldLeft, MapThenFoldSet
<1> HIDE DEF Step
<1>2. 0 \in T
  <2>1. IsFold([t \in SUBSET (1..0) |-> b], 0)
    OBVIOUS
  <2>2. QED
    BY <2>1
<1>3. ASSUME NEW n \in Nat, n \in T
      PROVE  n + 1 \in T
  <2>1. PICK g : IsFold(g, n)
    BY <1>3
  <2> DEFINE h == [t \in SUBSET (1..(n + 1)) |-> IF n + 1 \in t THEN Step(g[t \ {n + 1}], s[n + 1]) ELSE g[t]]
  <2>2. ASSUME NEW t \in SUBSET (1..(n + 1))
        PROVE  h[t] = Value(t, h[t \ {Max(t)}])
    <3>1. CASE n + 1 \in t
      <4>1. Max(t) = n + 1 /\ t # {}
        BY <3>1, LastComesLast
      <4>2. t \ {n + 1} \in SUBSET (1..(n + 1)) /\ n + 1 \notin t \ {n + 1}
        OBVIOUS
      <4>3. h[t \ {n + 1}] = g[t \ {n + 1}]
        BY <4>2
      <4>4. QED
        BY <3>1, <4>1, <4>3
    <3>2. CASE n + 1 \notin t
      <4>1. t \in SUBSET (1..n)
        BY <3>2
      <4>2. h[t] = g[t]
        BY <3>2
      <4>3. t \ {Max(t)} \in SUBSET (1..(n + 1)) /\ n + 1 \notin t \ {Max(t)}
        BY <3>2
      <4>4. h[t \ {Max(t)}] = g[t \ {Max(t)}]
        BY <4>3
      <4>5. g[t] = Value(t, g[t \ {Max(t)}])
        BY <2>1, <4>1
      <4>6. QED
        BY <4>2, <4>4, <4>5
    <3>3. QED
      BY <3>1, <3>2
  <2>3. h = [t \in SUBSET (1..(n + 1)) |-> h[t]]
    OBVIOUS
  <2> HIDE DEF h, Value
  <2>4. IsFold(h, n + 1)
    BY <2>2, <2>3
  <2> HIDE DEF IsFold
  <2>5. QED
    BY <2>4
<1>4. Len(s) \in T
  <2> HIDE DEF T
  <2>1. QED
    BY <1>2, <1>3, SetInduction
<1>5. IsFold(it, Len(s))
  BY <1>4
<1> HIDE DEF it
<1>6. f[0] = b
  <2>1. it[{}] = b
    BY <1>5
  <2>2. 1..0 = {} /\ f[0] = it[1..0]
    OBVIOUS
  <2>3. QED
    BY <2>1, <2>2
<1>7. ASSUME NEW k \in 1..Len(s)
      PROVE  f[k] = Step(f[k - 1], s[k])
  <2>1. k \in 1..k /\ k \in Nat /\ 1..k \subseteq 1..Len(s)
    OBVIOUS
  <2>2. Max(1..k) = k
    BY <2>1, LastComesLast
  <2>3. (1..k) \ {k} = 1..(k - 1)
    OBVIOUS
  <2>4. it[1..k] = Step(it[1..(k - 1)], s[k])
    BY <1>5, <2>1, <2>2, <2>3
  <2>5. k \in 0..Len(s) /\ k - 1 \in 0..Len(s)
    OBVIOUS
  <2>6. QED
    BY <2>4, <2>5
<1>8. f[Len(s)] = it[1..Len(s)]
  OBVIOUS
<1> HIDE DEF f
<1>9. QED
  BY <1>1, <1>6, <1>7, <1>8 DEF Step

\* One scheme of a credential after the other.
LEMMA SchemesFold ==
    ASSUME NEW b, NEW s, Len(s) \in Nat, DOMAIN s = 1..Len(s)
    PROVE  \E f : /\ f[0] = b /\ f[Len(s)] = WithSchemes(b, s)
                  /\ \A k \in 1..Len(s) : f[k] = ProcessCredential(f[k - 1], s[k])
<1> DEFINE Step(v, x) == ProcessCredential(v, x)
           Value(t, v) == IF t = {} THEN b ELSE Step(v, s[Max(t)])
           IsFold(g, n) == g = [t \in SUBSET (1..n) |-> Value(t, g[t \ {Max(t)}])]
           T == {n \in Nat : \E g : IsFold(g, n)}
           it == CHOOSE g : IsFold(g, Len(s))
           f == [k \in 0..Len(s) |-> it[1..k]]
<1>1. WithSchemes(b, s) = it[1..Len(s)]
  BY DEF WithSchemes, FoldLeft, MapThenFoldSet
<1> HIDE DEF Step
<1>2. 0 \in T
  <2>1. IsFold([t \in SUBSET (1..0) |-> b], 0)
    OBVIOUS
  <2>2. QED
    BY <2>1
<1>3. ASSUME NEW n \in Nat, n \in T
      PROVE  n + 1 \in T
  <2>1. PICK g : IsFold(g, n)
    BY <1>3
  <2> DEFINE h == [t \in SUBSET (1..(n + 1)) |-> IF n + 1 \in t THEN Step(g[t \ {n + 1}], s[n + 1]) ELSE g[t]]
  <2>2. ASSUME NEW t \in SUBSET (1..(n + 1))
        PROVE  h[t] = Value(t, h[t \ {Max(t)}])
    <3>1. CASE n + 1 \in t
      <4>1. Max(t) = n + 1 /\ t # {}
        BY <3>1, LastComesLast
      <4>2. t \ {n + 1} \in SUBSET (1..(n + 1)) /\ n + 1 \notin t \ {n + 1}
        OBVIOUS
      <4>3. h[t \ {n + 1}] = g[t \ {n + 1}]
        BY <4>2
      <4>4. QED
        BY <3>1, <4>1, <4>3
    <3>2. CASE n + 1 \notin t
      <4>1. t \in SUBSET (1..n)
        BY <3>2
      <4>2. h[t] = g[t]
        BY <3>2
      <4>3. t \ {Max(t)} \in SUBSET (1..(n + 1)) /\ n + 1 \notin t \ {Max(t)}
        BY <3>2
      <4>4. h[t \ {Max(t)}] = g[t \ {Max(t)}]
        BY <4>3
      <4>5. g[t] = Value(t, g[t \ {Max(t)}])
        BY <2>1, <4>1
      <4>6. QED
        BY <4>2, <4>4, <4>5
    <3>3. QED
      BY <3>1, <3>2
  <2>3. h = [t \in SUBSET (1..(n + 1)) |-> h[t]]
    OBVIOUS
  <2> HIDE DEF h, Value
  <2>4. IsFold(h, n + 1)
    BY <2>2, <2>3
  <2> HIDE DEF IsFold
  <2>5. QED
    BY <2>4
<1>4. Len(s) \in T
  <2> HIDE DEF T
  <2>1. QED
    BY <1>2, <1>3, SetInduction
<1>5. IsFold(it, Len(s))
  BY <1>4
<1> HIDE DEF it
<1>6. f[0] = b
  <2>1. it[{}] = b
    BY <1>5
  <2>2. 1..0 = {} /\ f[0] = it[1..0]
    OBVIOUS
  <2>3. QED
    BY <2>1, <2>2
<1>7. ASSUME NEW k \in 1..Len(s)
      PROVE  f[k] = Step(f[k - 1], s[k])
  <2>1. k \in 1..k /\ k \in Nat /\ 1..k \subseteq 1..Len(s)
    OBVIOUS
  <2>2. Max(1..k) = k
    BY <2>1, LastComesLast
  <2>3. (1..k) \ {k} = 1..(k - 1)
    OBVIOUS
  <2>4. it[1..k] = Step(it[1..(k - 1)], s[k])
    BY <1>5, <2>1, <2>2, <2>3
  <2>5. k \in 0..Len(s) /\ k - 1 \in 0..Len(s)
    OBVIOUS
  <2>6. QED
    BY <2>4, <2>5
<1>8. f[Len(s)] = it[1..Len(s)]
  OBVIOUS
<1> HIDE DEF f
<1>9. QED
  BY <1>1, <1>6, <1>7, <1>8 DEF Step

\* Before the first of them.
Unread == [cache |-> cache, reads |-> <<>>]

\* One client parameter of a method after the other.
LEMMA ReadsFold ==
    ASSUME NEW s, Len(s) \in Nat, DOMAIN s = 1..Len(s)
    PROVE  \E f : /\ f[0] = Unread /\ f[Len(s)] = AdaptReads(s)
                  /\ \A k \in 1..Len(s) : f[k] = AdaptRead(f[k - 1], s[k])
<1> DEFINE Step(v, x) == AdaptRead(v, x)
           Value(t, v) == IF t = {} THEN Unread ELSE Step(v, s[Max(t)])
           IsFold(g, n) == g = [t \in SUBSET (1..n) |-> Value(t, g[t \ {Max(t)}])]
           T == {n \in Nat : \E g : IsFold(g, n)}
           it == CHOOSE g : IsFold(g, Len(s))
           f == [k \in 0..Len(s) |-> it[1..k]]
<1>1. AdaptReads(s) = it[1..Len(s)]
  BY DEF AdaptReads, Unread, FoldLeft, MapThenFoldSet
<1> HIDE DEF Step
<1>2. 0 \in T
  <2>1. IsFold([t \in SUBSET (1..0) |-> Unread], 0)
    OBVIOUS
  <2>2. QED
    BY <2>1
<1>3. ASSUME NEW n \in Nat, n \in T
      PROVE  n + 1 \in T
  <2>1. PICK g : IsFold(g, n)
    BY <1>3
  <2> DEFINE h == [t \in SUBSET (1..(n + 1)) |-> IF n + 1 \in t THEN Step(g[t \ {n + 1}], s[n + 1]) ELSE g[t]]
  <2>2. ASSUME NEW t \in SUBSET (1..(n + 1))
        PROVE  h[t] = Value(t, h[t \ {Max(t)}])
    <3>1. CASE n + 1 \in t
      <4>1. Max(t) = n + 1 /\ t # {}
        BY <3>1, LastComesLast
      <4>2. t \ {n + 1} \in SUBSET (1..(n + 1)) /\ n + 1 \notin t \ {n + 1}
        OBVIOUS
      <4>3. h[t \ {n + 1}] = g[t \ {n + 1}]
        BY <4>2
      <4>4. QED
        BY <3>1, <4>1, <4>3
    <3>2. CASE n + 1 \notin t
      <4>1. t \in SUBSET (1..n)
        BY <3>2
      <4>2. h[t] = g[t]
        BY <3>2
      <4>3. t \ {Max(t)} \in SUBSET (1..(n + 1)) /\ n + 1 \notin t \ {Max(t)}
        BY <3>2
      <4>4. h[t \ {Max(t)}] = g[t \ {Max(t)}]
        BY <4>3
      <4>5. g[t] = Value(t, g[t \ {Max(t)}])
        BY <2>1, <4>1
      <4>6. QED
        BY <4>2, <4>4, <4>5
    <3>3. QED
      BY <3>1, <3>2
  <2>3. h = [t \in SUBSET (1..(n + 1)) |-> h[t]]
    OBVIOUS
  <2> HIDE DEF h, Value
  <2>4. IsFold(h, n + 1)
    BY <2>2, <2>3
  <2> HIDE DEF IsFold
  <2>5. QED
    BY <2>4
<1>4. Len(s) \in T
  <2> HIDE DEF T
  <2>1. QED
    BY <1>2, <1>3, SetInduction
<1>5. IsFold(it, Len(s))
  BY <1>4
<1> HIDE DEF it
<1>6. f[0] = Unread
  <2>1. it[{}] = Unread
    BY <1>5
  <2>2. 1..0 = {} /\ f[0] = it[1..0]
    OBVIOUS
  <2>3. QED
    BY <2>1, <2>2
<1>7. ASSUME NEW k \in 1..Len(s)
      PROVE  f[k] = Step(f[k - 1], s[k])
  <2>1. k \in 1..k /\ k \in Nat /\ 1..k \subseteq 1..Len(s)
    OBVIOUS
  <2>2. Max(1..k) = k
    BY <2>1, LastComesLast
  <2>3. (1..k) \ {k} = 1..(k - 1)
    OBVIOUS
  <2>4. it[1..k] = Step(it[1..(k - 1)], s[k])
    BY <1>5, <2>1, <2>2, <2>3
  <2>5. k \in 0..Len(s) /\ k - 1 \in 0..Len(s)
    OBVIOUS
  <2>6. QED
    BY <2>4, <2>5
<1>8. f[Len(s)] = it[1..Len(s)]
  OBVIOUS
<1> HIDE DEF f
<1>9. QED
  BY <1>1, <1>6, <1>7, <1>8 DEF Step

LEMMA BothSingletons == ASSUME NEW x, NEW y PROVE <<x>> \o <<y>> = <<x, y>>
<1> DEFINE S == {x, y}
           s == <<x>> \o <<y>>
           t == <<x, y>>
<1>1. <<x>> \in Seq(S) /\ <<y>> \in Seq(S) /\ t \in Seq(S)
  OBVIOUS
<1>2. Len(<<x>>) = 1 /\ Len(<<y>>) = 1 /\ Len(t) = 2
  OBVIOUS
<1>3. s \in Seq(S) /\ Len(s) = 2 /\ s[1] = x /\ s[2] = y
  BY <1>1, <1>2, ConcatProperties
<1>4. \A i \in 1..2 : i = 1 \/ i = 2
  OBVIOUS
<1>5. \A i \in 1..2 : s[i] = t[i]
  BY <1>3, <1>4
<1> HIDE DEF s, t
<1>6. s = t
  BY <1>1, <1>2, <1>3, <1>5, SeqEqual
<1>7. QED
  BY <1>6 DEF s, t

LEMMA AppendThenConcat ==
    ASSUME NEW S, NEW s \in Seq(S), NEW x \in S, NEW u \in Seq(S)
    PROVE  Append(s, x) \o u = s \o (<<x>> \o u)
<1>1. Append(s, x) = s \o <<x>> /\ <<x>> \in Seq(S)
  BY AppendIsConcat
<1>2. (s \o <<x>>) \o u = s \o (<<x>> \o u)
  BY <1>1, ConcatAssociative
<1>3. QED
  BY <1>1, <1>2

LEMMA Singleton == ASSUME NEW S, NEW x \in S PROVE <<x>> \in Seq(S)
OBVIOUS

----------------------------------------------------------------------------
(* Types. *)

\* Names, those that the emitter gives included.
RustNames == Seq(STRING \cup {"pipeline", "credential"})

CtorNames == {"new", "with_no_credential"}

LEMMA WordsAreNames == ASSUME NEW w \in Words PROVE w \in RustNames
BY SeqMonotonic DEF Words, RustNames

Fields == [name : RustNames, option : BOOLEAN]

\* Parameters of a client, and of its constructors.
ParamsOf(kinds) == [name : RustNames, kind : kinds, optional : BOOLEAN]

ClientParams == ParamsOf({"endpoint", "template", "method"})

CtorParams == ParamsOf({"endpoint", "template", "method", "credential"})

Ctors == [name : CtorNames, params : Seq(CtorParams)]

Accessors == [child : Clients, params : SUBSET RustNames]

Reads == [kind : STRING, field : RustNames, optional : BOOLEAN]

RustClients == [name : RustNames, fields : Seq(Fields), params : Seq(ClientParams), options : Seq(Fields),
                auth : SUBSET STRING, ctors : Seq(Ctors), endpoint : RustNames,
                accessors : SUBSET Accessors, reads : Seq(Reads)]

Templates == [name : Words, optional : BOOLEAN, default : BOOLEAN]

LEMMA FieldTyped ==
    ASSUME NEW name \in RustNames, NEW option \in BOOLEAN
    PROVE  Field(name, option) \in Fields
BY DEF Field, Fields

LEMMA ParamTyped ==
    ASSUME NEW kinds, NEW name \in RustNames, NEW kind \in kinds, NEW optional \in BOOLEAN
    PROVE  Param(name, kind, optional) \in ParamsOf(kinds)
BY DEF Param, ParamsOf

LEMMA ParameterFields ==
    ASSUME NEW p \in Parameters
    PROVE  /\ p.name \in RustNames /\ p.field \in RustNames /\ p.kind \in {"endpoint", "credential", "method"}
           /\ p.apiVersion \in BOOLEAN /\ p.optional \in BOOLEAN /\ p.default \in BOOLEAN
           /\ p.template \in Seq(Templates) /\ p.schemes \in Seq(STRING)
BY WordsAreNames DEF Parameters, Templates

LEMMA TemplateFields ==
    ASSUME NEW t \in Templates
    PROVE  t.name \in RustNames /\ t.optional \in BOOLEAN /\ t.default \in BOOLEAN
BY WordsAreNames DEF Templates

LEMMA OptionTyped ==
    ASSUME NEW p, p.optional \in BOOLEAN, p.default \in BOOLEAN, NEW name \in RustNames
    PROVE  OptionFor(p, name) \in Seq(Fields)
<1>1. IsOption(p) \in BOOLEAN
  BY DEF IsOption
<1>2. Field(name, IsOption(p)) \in Fields
  BY <1>1, FieldTyped
<1>3. QED
  BY <1>2 DEF OptionFor

LEMMA ClientParamTyped ==
    ASSUME NEW p, p.optional \in BOOLEAN, p.default \in BOOLEAN, NEW name \in RustNames,
           NEW kinds, NEW kind \in kinds
    PROVE  ClientParam(p, name, kind) \in ParamsOf(kinds)
<1>1. (p.optional \/ p.default) \in BOOLEAN
  OBVIOUS
<1>2. QED
  BY <1>1, ParamTyped DEF ClientParam

----------------------------------------------------------------------------
(* The own parameters of a client. *)

\* What has become of the constructors, for the schemes seen so far.
CtorsFit(r) == r.ctors = IF "oauth2" \in r.auth THEN <<Constructor("new", <<Credential>>)>> ELSE <<>>

LEMMA CredentialCtorTyped == Constructor("new", <<Credential>>) \in Ctors
<1>1. <<"credential">> \in RustNames
  BY DEF RustNames
<1>2. Credential \in CtorParams
  BY <1>1, ParamTyped DEF Credential, CtorParams
<1>3. <<Credential>> \in Seq(CtorParams)
  BY <1>2
<1>4. "new" \in CtorNames
  BY DEF CtorNames
<1>5. \A name \in CtorNames, params \in Seq(CtorParams) : Constructor(name, params) \in Ctors
  BY DEF Constructor, Ctors
<1>6. QED
  BY <1>3, <1>4, <1>5

LEMMA ProcessCredentialIs ==
    ASSUME NEW r \in RustClients, NEW scheme \in STRING
    PROVE  LET q == ProcessCredential(r, scheme)
           IN  /\ q \in RustClients
               /\ q.name = r.name /\ q.reads = r.reads /\ q.accessors = r.accessors
               /\ q.fields = r.fields /\ q.params = r.params /\ q.options = r.options
               /\ q.endpoint = r.endpoint
               /\ q.auth = r.auth \cup {scheme}
               /\ CtorsFit(r) => CtorsFit(q)
<1> DEFINE q == ProcessCredential(r, scheme)
           new == Constructor("new", <<Credential>>)
<1>1. new \in Ctors
  BY CredentialCtorTyped
<1> HIDE DEF new
<1>2. /\ q.name = r.name /\ q.reads = r.reads /\ q.accessors = r.accessors
      /\ q.fields = r.fields /\ q.params = r.params /\ q.options = r.options
      /\ q.endpoint = r.endpoint /\ q.accessors = r.accessors /\ q.reads = r.reads
      /\ q.auth = r.auth \cup {scheme}
      /\ q.ctors = IF scheme = "oauth2" /\ scheme \notin r.auth THEN Append(r.ctors, new) ELSE r.ctors
  BY DEF ProcessCredential, RustClients, new
<1>3. r.ctors \in Seq(Ctors) /\ q.ctors \in Seq(Ctors)
  BY <1>1, <1>2 DEF RustClients
<1>4. q \in RustClients
  <2>1. q = [r EXCEPT !.auth = q.auth, !.ctors = q.ctors]
    BY DEF ProcessCredential, RustClients
  <2>2. q.auth \in SUBSET STRING
    BY <1>2 DEF RustClients
  <2> HIDE DEF q
  <2>3. QED
    BY <1>3, <2>1, <2>2 DEF RustClients
<1>5. ASSUME CtorsFit(r)
      PROVE  CtorsFit(q)
  <2>1. r.ctors = IF "oauth2" \in r.auth THEN <<new>> ELSE <<>>
    BY <1>5 DEF CtorsFit, new
  <2>2. Append(<<>>, new) = <<new>>
    OBVIOUS
  <2>3. q.ctors = IF "oauth2" \in q.auth THEN <<new>> ELSE <<>>
    BY <1>2, <2>1, <2>2
  <2>4. QED
    BY <2>3 DEF CtorsFit, new
<1>6. QED
  BY <1>2, <1>4, <1>5

LEMMA SchemesAre ==
    ASSUME NEW r \in RustClients, NEW schemes \in Seq(STRING)
    PROVE  LET q == WithSchemes(r, schemes)
           IN  /\ q \in RustClients
               /\ q.name = r.name /\ q.reads = r.reads /\ q.accessors = r.accessors
               /\ q.fields = r.fields /\ q.params = r.params /\ q.options = r.options
               /\ q.endpoint = r.endpoint
               /\ q.auth = r.auth \cup ToSet(schemes)
               /\ CtorsFit(r) => CtorsFit(q)
<1> DEFINE n == Len(schemes)
<1>1. n \in Nat /\ DOMAIN schemes = 1..n /\ \A k \in 1..n : schemes[k] \in STRING
  BY LenProperties, ElementOfSeq
<1>2. PICK f : /\ f[0] = r /\ f[n] = WithSchemes(r, schemes)
               /\ \A k \in 1..n : f[k] = ProcessCredential(f[k - 1], schemes[k])
  BY <1>1, SchemesFold
<1> DEFINE P(k) == /\ f[k] \in RustClients
                   /\ f[k].name = r.name /\ f[k].reads = r.reads /\ f[k].accessors = r.accessors
                   /\ f[k].fields = r.fields /\ f[k].params = r.params
                   /\ f[k].options = r.options /\ f[k].endpoint = r.endpoint
                   /\ f[k].auth = r.auth \cup {schemes[i] : i \in 1..k}
                   /\ CtorsFit(r) => CtorsFit(f[k])
           T == {k \in Nat : k <= n => P(k)}
<1>3. 0 \in T
  BY <1>2
<1>4. ASSUME NEW k \in Nat, k \in T
      PROVE  k + 1 \in T
  <2>1. SUFFICES ASSUME k + 1 <= n
                 PROVE  P(k + 1)
    OBVIOUS
  <2>2. k + 1 \in 1..n /\ P(k) /\ (k + 1) - 1 = k
    BY <1>1, <1>4, <2>1
  <2>3. f[k + 1] = ProcessCredential(f[k], schemes[k + 1]) /\ schemes[k + 1] \in STRING
    BY <1>1, <1>2, <2>2
  <2>4. {schemes[i] : i \in 1..(k + 1)} = {schemes[i] : i \in 1..k} \cup {schemes[k + 1]}
    OBVIOUS
  <2>5. LET q == ProcessCredential(f[k], schemes[k + 1])
        IN  /\ q \in RustClients
            /\ q.name = f[k].name /\ q.reads = f[k].reads /\ q.accessors = f[k].accessors
            /\ q.fields = f[k].fields /\ q.params = f[k].params
            /\ q.options = f[k].options /\ q.endpoint = f[k].endpoint
            /\ q.auth = f[k].auth \cup {schemes[k + 1]}
            /\ CtorsFit(f[k]) => CtorsFit(q)
    BY <2>2, <2>3, ProcessCredentialIs
  <2>6. QED
    BY <2>2, <2>3, <2>4, <2>5
<1>5. n \in T
  <2> HIDE DEF T
  <2>1. QED
    BY <1>1, <1>3, <1>4, SetInduction
<1>6. P(n)
  BY <1>1, <1>5
<1>7. ToSet(schemes) = {schemes[i] : i \in 1..n}
  BY <1>1 DEF ToSet
<1>8. QED
  BY <1>2, <1>6, <1>7

\* What a parameter adds to the client that has it.
FieldsFor(p) == IF p.kind = "endpoint" THEN <<Field(p.field, FALSE)>>
                ELSE IF p.kind = "method" /\ ~Merged(p) THEN <<Field(p.name, IsOption(p))>>
                ELSE <<>>

OptionsFor(p) == IF p.kind = "endpoint" THEN Collected(p.template, LAMBDA t : OptionFor(t, t.name))
                 ELSE IF p.kind = "method" /\ ~Merged(p) THEN OptionFor(p, p.name)
                 ELSE <<>>

ParamsFor(p) == IF p.kind = "endpoint"
                THEN <<Param(p.field, "endpoint", FALSE)>>
                       \o [i \in DOMAIN p.template |-> ClientParam(p.template[i], p.template[i].name, "template")]
                ELSE IF p.kind = "method" /\ ~Merged(p) THEN <<ClientParam(p, p.name, "method")>>
                ELSE <<>>

LEMMA TemplateOptionsTyped ==
    ASSUME NEW ts \in Seq(Templates)
    PROVE  Collected(ts, LAMBDA t : OptionFor(t, t.name)) \in Seq(Fields)
<1> DEFINE n == Len(ts)
           ss == [i \in DOMAIN ts |-> OptionFor(ts[i], ts[i].name)]
<1>1. n \in Nat /\ DOMAIN ts = 1..n /\ \A i \in 1..n : ts[i] \in Templates
  BY LenProperties, ElementOfSeq
<1>2. \A i \in 1..n : OptionFor(ts[i], ts[i].name) \in Seq(Fields)
  BY <1>1, TemplateFields, OptionTyped
<1>3. ss \in [1..n -> Seq(Fields)]
  BY <1>1, <1>2
<1> HIDE DEF ss
<1>4. FlattenSeq(ss) \in Seq(Fields)
  BY <1>1, <1>3, Flattened
<1>5. QED
  BY <1>4 DEF Collected, ss

LEMMA TemplateParamsTyped ==
    ASSUME NEW ts \in Seq(Templates)
    PROVE  [i \in DOMAIN ts |-> ClientParam(ts[i], ts[i].name, "template")] \in Seq(ClientParams)
<1> DEFINE n  == Len(ts)
           cs == [i \in DOMAIN ts |-> ClientParam(ts[i], ts[i].name, "template")]
<1>1. n \in Nat /\ DOMAIN ts = 1..n /\ \A i \in 1..n : ts[i] \in Templates
  BY LenProperties, ElementOfSeq
<1>2. \A i \in 1..n : ClientParam(ts[i], ts[i].name, "template") \in ClientParams
  BY <1>1, TemplateFields, ClientParamTyped DEF ClientParams
<1>3. cs \in [1..n -> ClientParams]
  BY <1>1, <1>2
<1> HIDE DEF cs, n
<1>4. cs \in Seq(ClientParams)
  BY <1>1, <1>3
<1>5. QED
  BY <1>4 DEF cs

LEMMA AddedTyped ==
    ASSUME NEW p \in Parameters
    PROVE  /\ FieldsFor(p) \in Seq(Fields) /\ OptionsFor(p) \in Seq(Fields)
           /\ ParamsFor(p) \in Seq(ClientParams)
<1>1. /\ p.name \in RustNames /\ p.field \in RustNames /\ p.template \in Seq(Templates)
      /\ p.optional \in BOOLEAN /\ p.default \in BOOLEAN
  BY ParameterFields
<1>2. /\ Field(p.field, FALSE) \in Fields
      /\ Field(p.name, IsOption(p)) \in Fields
  <2>1. FALSE \in BOOLEAN /\ IsOption(p) \in BOOLEAN
    BY DEF IsOption
  <2>2. QED
    BY <1>1, <2>1, FieldTyped
<1>3. FieldsFor(p) \in Seq(Fields)
  <2>1. <<Field(p.field, FALSE)>> \in Seq(Fields) /\ <<Field(p.name, IsOption(p))>> \in Seq(Fields)
    BY <1>2, Singleton
  <2>2. <<>> \in Seq(Fields)
    BY EmptySeq
  <2>3. QED
    BY <2>1, <2>2, Zenon DEF FieldsFor
<1>4. OptionsFor(p) \in Seq(Fields)
  <2>1. Collected(p.template, LAMBDA t : OptionFor(t, t.name)) \in Seq(Fields)
    BY <1>1, TemplateOptionsTyped
  <2>2. OptionFor(p, p.name) \in Seq(Fields)
    BY <1>1, OptionTyped
  <2>3. <<>> \in Seq(Fields)
    BY EmptySeq
  <2>4. QED
    BY <2>1, <2>2, <2>3 DEF OptionsFor
<1>5. ParamsFor(p) \in Seq(ClientParams)
  <2> DEFINE cs == [i \in DOMAIN p.template |-> ClientParam(p.template[i], p.template[i].name, "template")]
  <2>3. cs \in Seq(ClientParams)
    BY <1>1, TemplateParamsTyped
  <2>4. Param(p.field, "endpoint", FALSE) \in ClientParams
    <3>1. FALSE \in BOOLEAN
      OBVIOUS
    <3>2. QED
      BY <1>1, <3>1, ParamTyped DEF ClientParams
  <2>5. ClientParam(p, p.name, "method") \in ClientParams
    BY <1>1, ClientParamTyped DEF ClientParams
  <2>6. <<Param(p.field, "endpoint", FALSE)>> \in Seq(ClientParams) /\ <<ClientParam(p, p.name, "method")>> \in Seq(ClientParams)
    BY <2>4, <2>5, Singleton
  <2> HIDE DEF cs
  <2>7. <<Param(p.field, "endpoint", FALSE)>> \o cs \in Seq(ClientParams)
    BY <2>3, <2>6, ConcatProperties
  <2>8. <<>> \in Seq(ClientParams)
    BY EmptySeq
  <2>9. QED
    BY <2>6, <2>7, <2>8, Zenon DEF ParamsFor, cs
<1>6. QED
  BY <1>3, <1>4, <1>5

LEMMA OwnParamIs ==
    ASSUME NEW r \in RustClients, NEW p \in Parameters
    PROVE  LET q == OwnParam(r, p)
           IN  /\ q \in RustClients /\ q.name = r.name /\ q.reads = r.reads /\ q.accessors = r.accessors
               /\ q.fields = r.fields \o FieldsFor(p)
               /\ q.options = r.options \o OptionsFor(p)
               /\ q.params = r.params \o ParamsFor(p)
               /\ q.endpoint = IF p.kind = "endpoint" THEN p.field ELSE r.endpoint
               /\ q.auth = r.auth \cup IF p.kind = "credential" THEN ToSet(p.schemes) ELSE {}
               /\ CtorsFit(r) => CtorsFit(q)
<1> DEFINE q == OwnParam(r, p)
<1>1. /\ FieldsFor(p) \in Seq(Fields) /\ OptionsFor(p) \in Seq(Fields)
      /\ ParamsFor(p) \in Seq(ClientParams)
  BY AddedTyped
<1>2. /\ r.fields \in Seq(Fields) /\ r.options \in Seq(Fields) /\ r.params \in Seq(ClientParams)
      /\ r.auth \in SUBSET STRING
  BY DEF RustClients
<1>3. /\ p.kind \in {"endpoint", "credential", "method"} /\ p.field \in RustNames
      /\ p.schemes \in Seq(STRING) /\ p.template \in Seq(Templates)
  BY ParameterFields
<1>4. ASSUME NEW fields \in Seq(Fields), NEW options \in Seq(Fields), NEW params \in Seq(ClientParams),
             NEW endpoint \in RustNames,
             q = [r EXCEPT !.fields = fields, !.options = options, !.params = params, !.endpoint = endpoint]
      PROVE  /\ q \in RustClients /\ q.name = r.name /\ q.reads = r.reads /\ q.accessors = r.accessors
             /\ q.fields = fields /\ q.options = options /\ q.params = params /\ q.endpoint = endpoint
             /\ q.auth = r.auth /\ (CtorsFit(r) => CtorsFit(q))
  <2> HIDE DEF q
  <2>1. QED
    BY <1>4 DEF RustClients, CtorsFit
<1>5. CASE p.kind = "endpoint"
  <2> DEFINE options == r.options \o OptionsFor(p)
             params  == r.params \o ParamsFor(p)
             fields  == r.fields \o FieldsFor(p)
             cs == [i \in DOMAIN p.template |-> ClientParam(p.template[i], p.template[i].name, "template")]
             os == Collected(p.template, LAMBDA t : OptionFor(t, t.name))
             e  == Param(p.field, "endpoint", FALSE)
             d  == Field(p.field, FALSE)
  <2>1. AdaptClientParameters(WithField(WithParam([r EXCEPT !.endpoint = p.field], e), d), p.template, OwnName, "template")
          = [r EXCEPT !.fields = Append(@, d), !.options = @ \o os, !.params = Append(@, e) \o cs, !.endpoint = p.field]
    BY DEF AdaptClientParameters, WithField, WithParam, OwnName, RustClients
  <2>2. q = [r EXCEPT !.fields = Append(@, d), !.options = @ \o os, !.params = Append(@, e) \o cs, !.endpoint = p.field]
    BY <1>5, <2>1 DEF OwnParam
  <2>3. FieldsFor(p) = <<d>> /\ OptionsFor(p) = os /\ ParamsFor(p) = <<e>> \o cs
    BY <1>5 DEF FieldsFor, OptionsFor, ParamsFor
  <2>4. d \in Fields /\ e \in ClientParams /\ cs \in Seq(ClientParams)
    <3>1. FALSE \in BOOLEAN
      OBVIOUS
    <3>2. d \in Fields
      BY <1>3, <3>1, FieldTyped
    <3>3. e \in ClientParams
      BY <1>3, <3>1, ParamTyped DEF ClientParams
    <3>4. cs \in Seq(ClientParams)
      BY <1>3, TemplateParamsTyped
    <3>5. QED
      BY <3>2, <3>3, <3>4
  <2> HIDE DEF cs, os, e, d
  <2>5. Append(r.fields, d) = fields
    BY <1>2, <2>3, <2>4, AppendIsConcat
  <2>6. Append(r.params, e) \o cs = params
    <3>1. Append(r.params, e) \o cs = r.params \o (<<e>> \o cs)
      <4>1. \A a \in Seq(ClientParams), x \in ClientParams, u \in Seq(ClientParams) :
               Append(a, x) \o u = a \o (<<x>> \o u)
        BY AppendThenConcat
      <4>2. QED
        BY <1>2, <2>4, <4>1, Zenon
    <3>2. QED
      BY <2>3, <3>1
  <2>7. r.options \o os = options
    BY <2>3
  <2>8. fields \in Seq(Fields) /\ options \in Seq(Fields) /\ params \in Seq(ClientParams)
    BY <1>1, <1>2, ConcatProperties
  <2>9. q = [r EXCEPT !.fields = fields, !.options = options, !.params = params, !.endpoint = p.field]
    BY <2>2, <2>5, <2>6, <2>7
  <2> HIDE DEF q, fields, options, params
  <2>10. /\ q \in RustClients /\ q.name = r.name /\ q.reads = r.reads /\ q.accessors = r.accessors
         /\ q.fields = fields /\ q.options = options /\ q.params = params /\ q.endpoint = p.field
         /\ q.auth = r.auth /\ (CtorsFit(r) => CtorsFit(q))
    BY <1>3, <1>4, <2>8, <2>9
  <2>11. QED
    BY <1>5, <2>10 DEF q, fields, options, params
<1>6. CASE p.kind = "credential"
  <2>1. q = WithSchemes(r, p.schemes)
    BY <1>6 DEF OwnParam
  <2>2. FieldsFor(p) = <<>> /\ OptionsFor(p) = <<>> /\ ParamsFor(p) = <<>>
    BY <1>6 DEF FieldsFor, OptionsFor, ParamsFor
  <2>3. r.fields \o <<>> = r.fields /\ r.options \o <<>> = r.options /\ r.params \o <<>> = r.params
    BY <1>2, ConcatEmptySeq
  <2>4. /\ q \in RustClients
        /\ q.name = r.name /\ q.reads = r.reads /\ q.accessors = r.accessors
        /\ q.fields = r.fields /\ q.params = r.params /\ q.options = r.options
        /\ q.endpoint = r.endpoint
        /\ q.auth = r.auth \cup ToSet(p.schemes)
        /\ CtorsFit(r) => CtorsFit(q)
    BY <1>3, <2>1, SchemesAre
  <2> HIDE DEF q
  <2>5. QED
    BY <1>6, <2>2, <2>3, <2>4 DEF q
<1>7. CASE p.kind = "method" /\ ~Merged(p)
  <2> DEFINE options == r.options \o OptionsFor(p)
             params  == r.params \o ParamsFor(p)
             fields  == r.fields \o FieldsFor(p)
             os == Collected(<<p>>, LAMBDA x : OptionFor(x, OwnName(x)))
             cs == [i \in DOMAIN <<p>> |-> ClientParam(<<p>>[i], OwnName(<<p>>[i]), "method")]
             d  == Field(p.name, IsOption(p))
  <2>1. WithField(AdaptClientParameters(r, <<p>>, OwnName, "method"), d)
          = [r EXCEPT !.fields = Append(@, d), !.options = @ \o os, !.params = @ \o cs]
    BY DEF AdaptClientParameters, WithField, RustClients
  <2>2. q = [r EXCEPT !.fields = Append(@, d), !.options = @ \o os, !.params = @ \o cs]
    BY <1>7, <2>1 DEF OwnParam
  <2>3. FieldsFor(p) = <<d>> /\ OptionsFor(p) = OptionFor(p, p.name) /\ ParamsFor(p) = <<ClientParam(p, p.name, "method")>>
    BY <1>7 DEF FieldsFor, OptionsFor, ParamsFor
  <2>4. os = OptionFor(p, p.name)
    <3>1. [i \in DOMAIN <<p>> |-> OptionFor(<<p>>[i], OwnName(<<p>>[i]))] = <<OptionFor(p, p.name)>>
      BY DEF OwnName
    <3>2. QED
      BY <3>1, FlattenedOne DEF Collected
  <2>5. cs = <<ClientParam(p, p.name, "method")>>
    BY DEF OwnName
  <2>6. d \in Fields
    <3>1. IsOption(p) \in BOOLEAN
      BY DEF IsOption
    <3>2. QED
      BY <3>1, ParameterFields, FieldTyped
  <2> HIDE DEF cs, os, d
  <2>7. Append(r.fields, d) = fields
    BY <1>2, <2>3, <2>6, AppendIsConcat
  <2>8. r.options \o os = options /\ r.params \o cs = params
    BY <2>3, <2>4, <2>5
  <2>9. fields \in Seq(Fields) /\ options \in Seq(Fields) /\ params \in Seq(ClientParams)
    BY <1>1, <1>2, ConcatProperties
  <2>10. r.endpoint \in RustNames
    BY DEF RustClients
  <2>11. q = [r EXCEPT !.fields = fields, !.options = options, !.params = params, !.endpoint = r.endpoint]
    BY <2>2, <2>7, <2>8 DEF RustClients
  <2> HIDE DEF q, fields, options, params
  <2>12. /\ q \in RustClients /\ q.name = r.name /\ q.reads = r.reads /\ q.accessors = r.accessors
         /\ q.fields = fields /\ q.options = options /\ q.params = params /\ q.endpoint = r.endpoint
         /\ q.auth = r.auth /\ (CtorsFit(r) => CtorsFit(q))
    BY <1>4, <2>9, <2>10, <2>11
  <2>13. QED
    BY <1>7, <2>12 DEF q, fields, options, params
<1>8. CASE p.kind = "method" /\ Merged(p)
  <2>1. q = r
    BY <1>8 DEF OwnParam
  <2>2. FieldsFor(p) = <<>> /\ OptionsFor(p) = <<>> /\ ParamsFor(p) = <<>>
    BY <1>8 DEF FieldsFor, OptionsFor, ParamsFor
  <2>3. r.fields \o <<>> = r.fields /\ r.options \o <<>> = r.options /\ r.params \o <<>> = r.params
    BY <1>2, ConcatEmptySeq
  <2> HIDE DEF q
  <2>4. QED
    BY <1>8, <2>1, <2>2, <2>3 DEF q
<1>9. QED
  BY <1>3, <1>5, <1>6, <1>7, <1>8

LEMMA ConcatSet ==
    ASSUME NEW S, NEW s \in Seq(S), NEW t \in Seq(S)
    PROVE  s \o t \in Seq(S) /\ ToSet(s \o t) = ToSet(s) \cup ToSet(t)
<1>1. Range(s \o t) = Range(s) \cup Range(t)
  BY RangeConcatenation
<1>2. \A u : ToSet(u) = Range(u)
  BY DEF ToSet, Range
<1>3. s \o t \in Seq(S)
  BY ConcatProperties
<1>4. QED
  BY <1>1, <1>2, <1>3

\* The endpoint of a client, once it has one, is that of a parameter.
EndpointFrom(q, r, ps, n) ==
    /\ q.endpoint = r.endpoint \/ \E i \in 1..n : ps[i].kind = "endpoint" /\ q.endpoint = ps[i].field
    /\ (\E i \in 1..n : ps[i].kind = "endpoint") =>
           \E i \in 1..n : ps[i].kind = "endpoint" /\ q.endpoint = ps[i].field

LEMMA OwnParamsAre ==
    ASSUME NEW r \in RustClients, NEW ps \in Seq(Parameters)
    PROVE  LET q == WithOwnParams(r, ps)
           IN  /\ q \in RustClients /\ q.name = r.name /\ q.reads = r.reads /\ q.accessors = r.accessors
               /\ \A x : x \in ToSet(q.fields) <=> x \in ToSet(r.fields) \/ \E i \in 1..Len(ps) : x \in ToSet(FieldsFor(ps[i]))
               /\ \A x : x \in q.auth <=> x \in r.auth \/ \E i \in 1..Len(ps) : ps[i].kind = "credential" /\ x \in ToSet(ps[i].schemes)
               /\ EndpointFrom(q, r, ps, Len(ps))
               /\ CtorsFit(r) => CtorsFit(q)
<1> DEFINE n == Len(ps)
<1>1. n \in Nat /\ DOMAIN ps = 1..n /\ \A k \in 1..n : ps[k] \in Parameters
  BY LenProperties, ElementOfSeq
<1>2. PICK f : /\ f[0] = r /\ f[n] = WithOwnParams(r, ps)
               /\ \A k \in 1..n : f[k] = OwnParam(f[k - 1], ps[k])
  BY <1>1, OwnParamsFold
<1> DEFINE P(k) == /\ f[k] \in RustClients /\ f[k].name = r.name /\ f[k].reads = r.reads
                   /\ f[k].accessors = r.accessors
                   /\ \A x : x \in ToSet(f[k].fields) <=> x \in ToSet(r.fields) \/ \E i \in 1..k : x \in ToSet(FieldsFor(ps[i]))
                   /\ \A x : x \in f[k].auth <=> x \in r.auth \/ \E i \in 1..k : ps[i].kind = "credential" /\ x \in ToSet(ps[i].schemes)
                   /\ EndpointFrom(f[k], r, ps, k)
                   /\ CtorsFit(r) => CtorsFit(f[k])
           T == {k \in Nat : k <= n => P(k)}
<1>3. 0 \in T
  <2>1. \A i \in 1..0 : FALSE
    OBVIOUS
  <2>2. QED
    BY <1>2, <2>1 DEF EndpointFrom
<1>4. ASSUME NEW k \in Nat, k \in T
      PROVE  k + 1 \in T
  <2>1. SUFFICES ASSUME k + 1 <= n
                 PROVE  P(k + 1)
    OBVIOUS
  <2>2. k + 1 \in 1..n /\ P(k) /\ (k + 1) - 1 = k
    BY <1>1, <1>4, <2>1
  <2> DEFINE p == ps[k + 1]
             q == OwnParam(f[k], p)
  <2>3. f[k + 1] = q /\ p \in Parameters
    BY <1>1, <1>2, <2>2
  <2>4. \A i : i \in 1..(k + 1) <=> i \in 1..k \/ i = k + 1
    OBVIOUS
  <2>5. /\ q \in RustClients /\ q.name = f[k].name /\ q.reads = f[k].reads /\ q.accessors = f[k].accessors
        /\ q.fields = f[k].fields \o FieldsFor(p)
        /\ q.endpoint = IF p.kind = "endpoint" THEN p.field ELSE f[k].endpoint
        /\ q.auth = f[k].auth \cup IF p.kind = "credential" THEN ToSet(p.schemes) ELSE {}
        /\ CtorsFit(f[k]) => CtorsFit(q)
    BY <2>2, <2>3, OwnParamIs
  <2>6. ToSet(q.fields) = ToSet(f[k].fields) \cup ToSet(FieldsFor(p))
    <3>1. f[k].fields \in Seq(Fields)
      BY <2>2 DEF RustClients
    <3>2. FieldsFor(p) \in Seq(Fields)
      BY <2>3, AddedTyped
    <3>3. QED
      BY <2>5, <3>1, <3>2, ConcatSet
  <2> HIDE DEF q
  <2>7. \A x : x \in ToSet(q.fields) <=> x \in ToSet(r.fields) \/ \E i \in 1..(k + 1) : x \in ToSet(FieldsFor(ps[i]))
    BY <2>2, <2>4, <2>6
  <2>8. \A x : x \in q.auth <=> x \in r.auth \/ \E i \in 1..(k + 1) : ps[i].kind = "credential" /\ x \in ToSet(ps[i].schemes)
    BY <2>2, <2>4, <2>5
  <2>9. EndpointFrom(q, r, ps, k + 1)
    BY <2>2, <2>4, <2>5 DEF EndpointFrom
  <2>10. QED
    BY <2>2, <2>3, <2>5, <2>7, <2>8, <2>9
<1>5. n \in T
  <2> HIDE DEF T
  <2>1. QED
    BY <1>1, <1>3, <1>4, SetInduction
<1>6. P(n)
  BY <1>1, <1>5
<1>7. QED
  BY <1>2, <1>6

----------------------------------------------------------------------------
(* The constructors. *)

\* The elements of a sequence that are in a set.
LEMMA Selected ==
    ASSUME NEW S, NEW s \in Seq(S), NEW U
    PROVE  LET t == FlattenSeq([i \in DOMAIN s |-> IF s[i] \in U THEN <<s[i]>> ELSE <<>>])
           IN  t \in Seq(S) /\ ToSet(t) = ToSet(s) \cap U
<1> DEFINE n == Len(s)
           ss == [i \in DOMAIN s |-> IF s[i] \in U THEN <<s[i]>> ELSE <<>>]
<1>1. n \in Nat /\ DOMAIN s = 1..n /\ \A i \in 1..n : s[i] \in S
  BY LenProperties, ElementOfSeq
<1>2. ASSUME NEW i \in 1..n
      PROVE  ss[i] \in Seq(S) /\ ToSet(ss[i]) = {s[i]} \cap U
  <2>1. ss[i] = IF s[i] \in U THEN <<s[i]>> ELSE <<>>
    BY <1>1
  <2>2. <<s[i]>> \in Seq(S) /\ ToSet(<<s[i]>>) = {s[i]}
    BY <1>1, Singleton DEF ToSet
  <2>3. <<>> \in Seq(S) /\ ToSet(<<>>) = {}
    BY EmptySeq DEF ToSet
  <2>4. QED
    BY <2>1, <2>2, <2>3
<1>3. ss \in [1..n -> Seq(S)]
  BY <1>1, <1>2
<1>4. ToSet(s) = {s[i] : i \in 1..n}
  BY <1>1 DEF ToSet
<1> HIDE DEF ss
<1>5. FlattenSeq(ss) \in Seq(S) /\ \A x : x \in ToSet(FlattenSeq(ss)) <=> \E i \in 1..n : x \in ToSet(ss[i])
  BY <1>1, <1>3, Flattened
<1>6. ToSet(FlattenSeq(ss)) = ToSet(s) \cap U
  BY <1>2, <1>4, <1>5
<1>7. QED
  BY <1>5, <1>6 DEF ss

LEMMA SortedIs ==
    ASSUME NEW params \in Seq(CtorParams)
    PROVE  Sorted(params) \in Seq(CtorParams) /\ ToSet(Sorted(params)) = ToSet(params)
<1> DEFINE E == {p \in CtorParams : p.kind = "endpoint"}
           C == {p \in CtorParams : p.kind = "credential"}
           O == {p \in CtorParams : p.kind \notin {"endpoint", "credential"}}
           e == Filtered(params, LAMBDA p : p.kind = "endpoint")
           c == Filtered(params, LAMBDA p : p.kind = "credential")
           o == Filtered(params, LAMBDA p : p.kind \notin {"endpoint", "credential"})
<1>1. \A i \in DOMAIN params : params[i] \in CtorParams
  BY ElementOfSeq, LenProperties
<1>2. e \in Seq(CtorParams) /\ ToSet(e) = ToSet(params) \cap E
  <2>1. [i \in DOMAIN params |-> IF params[i].kind = "endpoint" THEN <<params[i]>> ELSE <<>>]
          = [i \in DOMAIN params |-> IF params[i] \in E THEN <<params[i]>> ELSE <<>>]
    BY <1>1
  <2> HIDE DEF E
  <2>2. QED
    BY <2>1, Selected DEF Filtered, Collected
<1>3. c \in Seq(CtorParams) /\ ToSet(c) = ToSet(params) \cap C
  <2>1. [i \in DOMAIN params |-> IF params[i].kind = "credential" THEN <<params[i]>> ELSE <<>>]
          = [i \in DOMAIN params |-> IF params[i] \in C THEN <<params[i]>> ELSE <<>>]
    BY <1>1
  <2> HIDE DEF C
  <2>2. QED
    BY <2>1, Selected DEF Filtered, Collected
<1>4. o \in Seq(CtorParams) /\ ToSet(o) = ToSet(params) \cap O
  <2>1. [i \in DOMAIN params |-> IF params[i].kind \notin {"endpoint", "credential"} THEN <<params[i]>> ELSE <<>>]
          = [i \in DOMAIN params |-> IF params[i] \in O THEN <<params[i]>> ELSE <<>>]
    BY <1>1
  <2> HIDE DEF O
  <2>2. QED
    BY <2>1, Selected DEF Filtered, Collected
<1>5. ToSet(params) \subseteq E \cup C \cup O
  BY <1>1 DEF ToSet
<1>6. Sorted(params) = (e \o c) \o o
  BY DEF Sorted
<1> HIDE DEF e, c, o, E, C, O
<1>7. e \o c \in Seq(CtorParams) /\ ToSet(e \o c) = ToSet(e) \cup ToSet(c)
  BY <1>2, <1>3, ConcatSet
<1> DEFINE ec == e \o c
<1>8. ec \o o \in Seq(CtorParams) /\ ToSet(ec \o o) = ToSet(ec) \cup ToSet(o)
  <2> HIDE DEF ec
  <2>1. ec \in Seq(CtorParams)
    BY <1>7 DEF ec
  <2>2. QED
    BY <1>4, <2>1, ConcatSet
<1>9. QED
  BY <1>2, <1>3, <1>4, <1>5, <1>6, <1>7, <1>8

LEMMA AuthPolicyIs ==
    ASSUME NEW params
    PROVE  HasAuthPolicy(params) <=> \E p \in ToSet(params) : p.kind = "credential"
BY DEF HasAuthPolicy, ToSet

\* Which constructors a client has, for what its service accepts.
AuthFits(r) ==
    /\ \A i \in DOMAIN r.ctors : HasAuthPolicy(r.ctors[i].params) <=> r.ctors[i].name = "new"
    /\ (\E i \in DOMAIN r.ctors : r.ctors[i].name = "new") <=> "oauth2" \in r.auth
    /\ (\E i \in DOMAIN r.ctors : r.ctors[i].name = "with_no_credential") <=> WithNoCredential(r.auth)
    /\ \A i, j \in DOMAIN r.ctors : r.ctors[i].name = r.ctors[j].name => i = j

LEMMA NoCredentialIn ==
    ASSUME NEW params \in Seq(ClientParams)
    PROVE  params \in Seq(CtorParams) /\ \A p \in ToSet(params) : p.kind # "credential"
<1>1. ClientParams \subseteq CtorParams /\ \A p \in ClientParams : p.kind # "credential"
  BY DEF ClientParams, CtorParams, ParamsOf
<1>2. \A p \in ToSet(params) : p \in ClientParams
  BY ElementOfSeq, LenProperties DEF ToSet
<1>3. params \in Seq(CtorParams)
  BY <1>1, SeqMonotonic
<1>4. QED
  BY <1>1, <1>2, <1>3

LEMMA ConstructedIs ==
    ASSUME NEW r \in RustClients, CtorsFit(r)
    PROVE  LET q == Constructed(r)
           IN  /\ q \in RustClients
               /\ q.name = r.name /\ q.reads = r.reads /\ q.accessors = r.accessors
               /\ q.fields = r.fields /\ q.auth = r.auth /\ q.endpoint = r.endpoint
               /\ q.options = r.options
               /\ \A i \in DOMAIN q.ctors : \E first \in {<<>>, <<Credential>>} :
                     q.ctors[i].params = Sorted(first \o r.params)
               /\ AuthFits(q)
<1> DEFINE q     == Constructed(r)
           new   == Constructor("new", <<Credential>>)
           bare  == Constructor("with_no_credential", <<>>)
           first == IF "oauth2" \in r.auth THEN <<new>> ELSE <<>>
           last  == IF WithNoCredential(r.auth) THEN <<bare>> ELSE <<>>
           ctors == first \o last
           all(c) == Sorted(c.params \o r.params)
           made  == [i \in DOMAIN ctors |-> [ctors[i] EXCEPT !.params = Sorted(@ \o r.params)]]
<1>1. r.params \in Seq(CtorParams) /\ \A p \in ToSet(r.params) : p.kind # "credential"
  BY NoCredentialIn DEF RustClients
<1>2. new \in Ctors /\ bare \in Ctors
  <2>1. new \in Ctors
    BY CredentialCtorTyped
  <2>2. <<>> \in Seq(CtorParams)
    BY EmptySeq
  <2>3. bare \in Ctors
    BY <2>2 DEF Constructor, Ctors, CtorNames
  <2>4. QED
    BY <2>1, <2>3
<1> DEFINE n == Len(ctors)
<1>3. /\ ctors \in Seq(Ctors) /\ n \in Nat /\ DOMAIN ctors = 1..n
      /\ \A i \in 1..n : ctors[i] \in {new, bare}
      /\ (\E i \in 1..n : ctors[i] = new) <=> "oauth2" \in r.auth
      /\ (\E i \in 1..n : ctors[i] = bare) <=> WithNoCredential(r.auth)
      /\ \A i, j \in 1..n : ctors[i] = ctors[j] => i = j
  <2>1. new # bare
    BY DEF Constructor
  <2>2. CASE "oauth2" \in r.auth /\ WithNoCredential(r.auth)
    <3>1. ctors = <<new, bare>>
      <4>1. ctors = <<new>> \o <<bare>>
        BY <2>2
      <4> HIDE DEF new, bare, ctors
      <4>2. QED
        BY <4>1, BothSingletons
    <3> HIDE DEF new, bare, ctors
    <3>2. QED
      BY <1>2, <2>1, <2>2, <3>1
  <2>3. CASE "oauth2" \in r.auth /\ ~WithNoCredential(r.auth)
    <3>1. ctors = <<new>>
      BY <2>3
    <3> HIDE DEF new, bare, ctors
    <3>2. QED
      BY <1>2, <2>1, <2>3, <3>1
  <2>4. CASE "oauth2" \notin r.auth /\ WithNoCredential(r.auth)
    <3>1. ctors = <<bare>>
      BY <2>4
    <3> HIDE DEF new, bare, ctors
    <3>2. QED
      BY <1>2, <2>1, <2>4, <3>1
  <2>5. CASE "oauth2" \notin r.auth /\ ~WithNoCredential(r.auth)
    <3>1. ctors = <<>>
      BY <2>5
    <3> HIDE DEF new, bare, ctors
    <3>2. ctors \in Seq(Ctors) /\ n = 0 /\ DOMAIN ctors = {}
      BY <3>1, EmptySeq
    <3>3. QED
      BY <2>5, <3>2
  <2>6. QED
    BY <2>2, <2>3, <2>4, <2>5
<1>4. q = [r EXCEPT !.ctors = made]
  <2>1. r.ctors = first
    BY DEF CtorsFit
  <2> HIDE DEF first
  <2>2. q = [r EXCEPT !.ctors = [i \in DOMAIN (r.ctors \o last) |->
                                    [(r.ctors \o last)[i] EXCEPT !.params = Sorted(@ \o r.params)]]]
    BY DEF Constructed
  <2>3. QED
    BY <2>1, <2>2
<1>5. /\ new.name = "new" /\ new.params = <<Credential>>
      /\ bare.name = "with_no_credential" /\ bare.params = <<>>
  BY DEF Constructor
<1>6. ASSUME NEW c \in {new, bare}
      PROVE  /\ all(c) \in Seq(CtorParams)
             /\ ToSet(all(c)) = ToSet(c.params) \cup ToSet(r.params)
  <2>1. c.params \in Seq(CtorParams)
    BY <1>2 DEF Ctors
  <2> DEFINE ps == c.params \o r.params
  <2>2. ps \in Seq(CtorParams) /\ ToSet(ps) = ToSet(c.params) \cup ToSet(r.params)
    BY <1>1, <2>1, ConcatSet
  <2> HIDE DEF ps
  <2>3. Sorted(ps) \in Seq(CtorParams) /\ ToSet(Sorted(ps)) = ToSet(ps)
    BY <2>2, SortedIs
  <2>4. QED
    BY <2>2, <2>3 DEF ps
<1>7. ASSUME NEW c \in {new, bare}
      PROVE  HasAuthPolicy(all(c)) <=> c = new
  <2>1. Credential.kind = "credential"
    BY DEF Credential, Param
  <2>2. ToSet(<<Credential>>) = {Credential} /\ ToSet(<<>>) = {}
    BY DEF ToSet
  <2> HIDE DEF all, new, bare
  <2>3. QED
    BY <1>1, <1>5, <1>6, <2>1, <2>2, AuthPolicyIs
<1> HIDE DEF all, new, bare, ctors
<1>8. made \in [1..n -> Ctors] /\ \A i \in 1..n : made[i].name = ctors[i].name /\ made[i].params = all(ctors[i])
  <2>1. ASSUME NEW i \in 1..n
        PROVE  made[i] \in Ctors /\ made[i].name = ctors[i].name /\ made[i].params = all(ctors[i])
    <3>1. ctors[i] \in Ctors /\ all(ctors[i]) \in Seq(CtorParams)
      BY <1>2, <1>3, <1>6
    <3>2. made[i] = [ctors[i] EXCEPT !.params = all(ctors[i])]
      BY <1>3 DEF all
    <3>3. QED
      BY <3>1, <3>2 DEF Ctors
  <2>2. DOMAIN made = 1..n /\ made = [i \in 1..n |-> made[i]]
    BY <1>3
  <2> HIDE DEF made
  <2>3. QED
    BY <2>1, <2>2
<1>9. made \in Seq(Ctors) /\ DOMAIN made = 1..n
  <2> HIDE DEF made
  <2>1. QED
    BY <1>3, <1>8
<1> HIDE DEF made
<1>10. /\ q \in RustClients
       /\ q.name = r.name /\ q.reads = r.reads /\ q.accessors = r.accessors
       /\ q.fields = r.fields /\ q.auth = r.auth /\ q.endpoint = r.endpoint
       /\ q.options = r.options
       /\ q.ctors = made
  <2> HIDE DEF q
  <2>1. QED
    BY <1>4, <1>9 DEF RustClients
<1> HIDE DEF q
<1>11. AuthFits(q)
  <2>1. \A i \in 1..n : q.ctors[i].name = ctors[i].name /\ (HasAuthPolicy(q.ctors[i].params) <=> ctors[i] = new)
    BY <1>3, <1>7, <1>8, <1>10
  <2>2. \A i \in 1..n : /\ ctors[i].name = "new" <=> ctors[i] = new
                        /\ ctors[i].name = "with_no_credential" <=> ctors[i] = bare
                        /\ ctors[i].name \in {"new", "with_no_credential"}
    BY <1>3, <1>5
  <2>3. \A i, j \in 1..n : ctors[i].name = ctors[j].name => i = j
    BY <1>3, <2>2
  <2>4. DOMAIN q.ctors = 1..n
    BY <1>9, <1>10
  <2>5. QED
    BY <1>3, <1>10, <2>1, <2>2, <2>3, <2>4 DEF AuthFits
<1>12. \A i \in DOMAIN q.ctors : \E cp \in {<<>>, <<Credential>>} : q.ctors[i].params = Sorted(cp \o r.params)
  <2>1. \A i \in 1..n : q.ctors[i].params = Sorted(ctors[i].params \o r.params)
    BY <1>8, <1>10 DEF all
  <2>2. \A i \in 1..n : ctors[i].params \in {<<>>, <<Credential>>}
    BY <1>3, <1>5
  <2>3. DOMAIN q.ctors = 1..n
    BY <1>9, <1>10
  <2>4. QED
    BY <2>1, <2>2, <2>3
<1>13. QED
  BY <1>10, <1>11, <1>12 DEF q

----------------------------------------------------------------------------
(* What recursiveAdaptClient makes of a client, and of the one above it. *)

LEMMA NewIs ==
    ASSUME NEW c, NEW above, NameOf(c, above) \in RustNames
    PROVE  /\ New(c, above) \in RustClients /\ CtorsFit(New(c, above))
           /\ New(c, above).name = NameOf(c, above) /\ New(c, above).auth = {} /\ New(c, above).accessors = {}
<1>1. <<"pipeline">> \in RustNames /\ FALSE \in BOOLEAN
  BY DEF RustNames
<1>2. Pipeline \in Fields
  BY <1>1, FieldTyped DEF Pipeline
<1>3. <<Pipeline>> \in Seq(Fields)
  BY <1>2, Singleton
<1>4. <<>> \in Seq(ClientParams) /\ <<>> \in Seq(Fields) /\ <<>> \in Seq(Ctors) /\ <<>> \in Seq(Reads)
  BY EmptySeq
<1>5. <<>> \in RustNames
  BY EmptySeq DEF RustNames
<1>6. New(c, above) \in RustClients
  BY <1>3, <1>4, <1>5 DEF New, RustClients
<1>7. QED
  BY <1>6 DEF New, CtorsFit

LEMMA VersionOptionsTyped ==
    ASSUME NEW clientName \in RustNames, NEW ps \in Seq(Parameters)
    PROVE  Collected(ps, LAMBDA p : OptionFor(p, Deduplicated(clientName, p.name))) \in Seq(Fields)
<1> DEFINE n == Len(ps)
           ss == [i \in DOMAIN ps |-> OptionFor(ps[i], Deduplicated(clientName, ps[i].name))]
<1>1. n \in Nat /\ DOMAIN ps = 1..n /\ \A i \in 1..n : ps[i] \in Parameters
  BY LenProperties, ElementOfSeq
<1>2. ASSUME NEW i \in 1..n
      PROVE  OptionFor(ps[i], Deduplicated(clientName, ps[i].name)) \in Seq(Fields)
  <2>1. ps[i].optional \in BOOLEAN /\ ps[i].default \in BOOLEAN /\ ps[i].name \in RustNames
    BY <1>1, ParameterFields
  <2>2. Deduplicated(clientName, ps[i].name) \in RustNames
    BY <2>1, ConcatProperties DEF Deduplicated, RustNames
  <2>3. QED
    BY <2>1, <2>2, OptionTyped
<1>3. ss \in [1..n -> Seq(Fields)]
  BY <1>1, <1>2
<1> HIDE DEF ss
<1>4. FlattenSeq(ss) \in Seq(Fields)
  BY <1>1, <1>3, Flattened
<1>5. QED
  BY <1>4 DEF Collected, ss

MethodParams == ParamsOf({"method"})

LEMMA VersionParamsTyped ==
    ASSUME NEW clientName \in RustNames, NEW ps \in Seq(Parameters)
    PROVE  [i \in DOMAIN ps |-> ClientParam(ps[i], Deduplicated(clientName, ps[i].name), "method")] \in Seq(MethodParams)
<1> DEFINE n  == Len(ps)
           cs == [i \in DOMAIN ps |-> ClientParam(ps[i], Deduplicated(clientName, ps[i].name), "method")]
<1>1. n \in Nat /\ DOMAIN ps = 1..n /\ \A i \in 1..n : ps[i] \in Parameters
  BY LenProperties, ElementOfSeq
<1>2. ASSUME NEW i \in 1..n
      PROVE  cs[i] \in MethodParams
  <2>1. ps[i].optional \in BOOLEAN /\ ps[i].default \in BOOLEAN /\ ps[i].name \in RustNames
    BY <1>1, ParameterFields
  <2>2. Deduplicated(clientName, ps[i].name) \in RustNames
    BY <2>1, ConcatProperties DEF Deduplicated, RustNames
  <2>3. cs[i] = ClientParam(ps[i], Deduplicated(clientName, ps[i].name), "method")
    BY <1>1
  <2>4. QED
    BY <2>1, <2>2, <2>3, ClientParamTyped DEF MethodParams
<1>3. DOMAIN cs = 1..n /\ cs = [i \in DOMAIN cs |-> cs[i]]
  BY <1>1
<1> HIDE DEF cs, n
<1>4. cs \in [1..n -> MethodParams]
  BY <1>2, <1>3
<1>5. cs \in Seq(MethodParams)
  BY <1>1, <1>4
<1>6. QED
  BY <1>5 DEF cs

LEMMA VersionFieldsTyped ==
    ASSUME NEW clientName \in RustNames, NEW ps \in Seq(Parameters)
    PROVE  [i \in DOMAIN ps |-> Field(Deduplicated(clientName, ps[i].name), IsOption(ps[i]))] \in Seq(Fields)
<1> DEFINE n  == Len(ps)
           fs == [i \in DOMAIN ps |-> Field(Deduplicated(clientName, ps[i].name), IsOption(ps[i]))]
<1>1. n \in Nat /\ DOMAIN ps = 1..n /\ \A i \in 1..n : ps[i] \in Parameters
  BY LenProperties, ElementOfSeq
<1>2. ASSUME NEW i \in 1..n
      PROVE  fs[i] \in Fields
  <2>1. IsOption(ps[i]) \in BOOLEAN /\ ps[i].name \in RustNames
    BY <1>1, ParameterFields DEF IsOption
  <2>2. Deduplicated(clientName, ps[i].name) \in RustNames
    BY <2>1, ConcatProperties DEF Deduplicated, RustNames
  <2>3. fs[i] = Field(Deduplicated(clientName, ps[i].name), IsOption(ps[i]))
    BY <1>1
  <2>4. QED
    BY <2>1, <2>2, <2>3, FieldTyped
<1>3. DOMAIN fs = 1..n /\ fs = [i \in DOMAIN fs |-> fs[i]]
  BY <1>1
<1> HIDE DEF fs, n
<1>4. fs \in [1..n -> Fields]
  BY <1>2, <1>3
<1>5. fs \in Seq(Fields)
  BY <1>1, <1>4
<1>6. QED
  BY <1>5 DEF fs

LEMMA AuthStaysFit ==
    ASSUME NEW r, NEW q, AuthFits(r), q.auth = r.auth, DOMAIN q.ctors = DOMAIN r.ctors,
           \A i \in DOMAIN r.ctors : /\ q.ctors[i].name = r.ctors[i].name
                                     /\ HasAuthPolicy(q.ctors[i].params) <=> HasAuthPolicy(r.ctors[i].params)
    PROVE  AuthFits(q)
BY DEF AuthFits

LEMMA MoreParams ==
    ASSUME NEW params \in Seq(CtorParams), NEW more \in Seq(MethodParams)
    PROVE  /\ params \o more \in Seq(CtorParams)
           /\ HasAuthPolicy(params \o more) <=> HasAuthPolicy(params)
<1>1. MethodParams \subseteq ClientParams
  BY DEF MethodParams, ClientParams, ParamsOf
<1>2. more \in Seq(ClientParams)
  BY <1>1, SeqMonotonic
<1>3. more \in Seq(CtorParams) /\ \A p \in ToSet(more) : p.kind # "credential"
  BY <1>2, NoCredentialIn
<1>4. params \o more \in Seq(CtorParams) /\ ToSet(params \o more) = ToSet(params) \cup ToSet(more)
  BY <1>3, ConcatSet
<1>5. QED
  BY <1>3, <1>4, AuthPolicyIs

\* What the version of a sub-client adds to the client that is instantiated.
VersionOptions(clientName, versions) ==
    Collected(versions, LAMBDA p : OptionFor(p, Deduplicated(clientName, p.name)))

VersionParams(clientName, versions) ==
    [i \in DOMAIN versions |-> ClientParam(versions[i], Deduplicated(clientName, versions[i].name), "method")]

VersionFields(clientName, versions) ==
    [i \in DOMAIN versions |-> Field(Deduplicated(clientName, versions[i].name), IsOption(versions[i]))]

LEMMA WithVersionsIs ==
    ASSUME NEW r \in RustClients, NEW clientName \in RustNames, NEW versions \in Seq(Parameters)
    PROVE  LET q == WithVersions(r, clientName, versions)
           IN  /\ q \in RustClients
               /\ q.name = r.name /\ q.auth = r.auth /\ q.endpoint = r.endpoint /\ q.reads = r.reads
               /\ q.accessors = r.accessors
               /\ \A x : x \in ToSet(q.fields) <=>
                            \/ x \in ToSet(r.fields)
                            \/ \E i \in 1..Len(versions) :
                                  x = Field(Deduplicated(clientName, versions[i].name),
                                            IsOption(versions[i]))
               /\ q.fields = r.fields \o VersionFields(clientName, versions)
               /\ q.options = r.options \o VersionOptions(clientName, versions)
               /\ DOMAIN q.ctors = DOMAIN r.ctors
               /\ \A i \in DOMAIN r.ctors :
                     q.ctors[i].params = r.ctors[i].params \o VersionParams(clientName, versions)
               /\ AuthFits(r) => AuthFits(q)
<1> DEFINE q  == WithVersions(r, clientName, versions)
           os == Collected(versions, LAMBDA p : OptionFor(p, Deduplicated(clientName, p.name)))
           cs == [i \in DOMAIN versions |-> ClientParam(versions[i], Deduplicated(clientName, versions[i].name), "method")]
           fs == [i \in DOMAIN versions |-> Field(Deduplicated(clientName, versions[i].name),
                                                  IsOption(versions[i]))]
           none == [r EXCEPT !.params = <<>>]
           Name(p) == Deduplicated(clientName, p.name)
           adapted == AdaptClientParameters(none, versions, Name, "method")
           made == [i \in DOMAIN r.ctors |-> [r.ctors[i] EXCEPT !.params = @ \o cs]]
<1>1. os \in Seq(Fields)
  BY VersionOptionsTyped
<1>2. cs \in Seq(MethodParams)
  BY VersionParamsTyped
<1>3. fs \in Seq(Fields)
  BY VersionFieldsTyped
<1>4. adapted.options = r.options \o os /\ adapted.params = cs
  <2>1. adapted = [none EXCEPT !.options = @ \o os, !.params = @ \o cs]
    BY DEF AdaptClientParameters
  <2>2. none.options = r.options /\ none.params = <<>> /\ DOMAIN none = DOMAIN r
    BY DEF RustClients
  <2>3. <<>> \o cs = cs
    BY <1>2, ConcatEmptySeq
  <2>4. "options" \in DOMAIN none /\ "params" \in DOMAIN none
    BY DEF RustClients
  <2> HIDE DEF none, os, cs, adapted
  <2>5. adapted.options = none.options \o os /\ adapted.params = none.params \o cs
    BY <2>1, <2>4
  <2>6. QED
    BY <2>2, <2>3, <2>5
<1>5. q = [r EXCEPT !.options = r.options \o os, !.ctors = made, !.fields = @ \o fs]
  <2>1. q = WithVersionFields([r EXCEPT !.options = adapted.options,
                                        !.ctors = [i \in DOMAIN r.ctors |-> [r.ctors[i] EXCEPT !.params = @ \o adapted.params]]],
                              clientName, versions)
    BY DEF WithVersions
  <2> HIDE DEF adapted, os, cs
  <2> DEFINE mid == [r EXCEPT !.options = r.options \o os, !.ctors = made]
  <2>2. [r EXCEPT !.options = adapted.options,
                  !.ctors = [i \in DOMAIN r.ctors |-> [r.ctors[i] EXCEPT !.params = @ \o adapted.params]]] = mid
    BY <1>4
  <2>3. q = WithVersionFields(mid, clientName, versions)
    BY <2>1, <2>2
  <2>4. WithVersionFields(mid, clientName, versions) = [mid EXCEPT !.fields = @ \o fs]
    BY DEF WithVersionFields
  <2>5. mid.fields = r.fields
    BY DEF RustClients
  <2> HIDE DEF made, fs, q
  <2>6. [mid EXCEPT !.fields = @ \o fs] = [r EXCEPT !.options = r.options \o os, !.ctors = made, !.fields = @ \o fs]
    BY DEF RustClients
  <2>7. QED
    BY <2>3, <2>4, <2>6 DEF made, fs, q
<1> DEFINE n == Len(r.ctors)
<1>6. r.ctors \in Seq(Ctors) /\ n \in Nat /\ DOMAIN r.ctors = 1..n /\ \A i \in 1..n : r.ctors[i] \in Ctors
  <2>1. r.ctors \in Seq(Ctors)
    BY DEF RustClients
  <2>2. QED
    BY <2>1, LenProperties, ElementOfSeq
<1> HIDE DEF cs, os, fs, q
<1>7. ASSUME NEW i \in 1..n
      PROVE  /\ made[i] \in Ctors /\ made[i].name = r.ctors[i].name
             /\ made[i].params = r.ctors[i].params \o cs
             /\ HasAuthPolicy(made[i].params) <=> HasAuthPolicy(r.ctors[i].params)
  <2>1. made[i] = [r.ctors[i] EXCEPT !.params = @ \o cs]
    BY <1>6
  <2>2. r.ctors[i] \in Ctors /\ r.ctors[i].params \in Seq(CtorParams)
    BY <1>6 DEF Ctors
  <2>3. /\ r.ctors[i].params \o cs \in Seq(CtorParams)
        /\ HasAuthPolicy(r.ctors[i].params \o cs) <=> HasAuthPolicy(r.ctors[i].params)
    BY <1>2, <2>2, MoreParams
  <2>4. made[i].params = r.ctors[i].params \o cs /\ made[i].name = r.ctors[i].name
    BY <2>1, <2>2 DEF Ctors
  <2> HIDE DEF made
  <2>5. made[i] \in Ctors
    BY <2>1, <2>2, <2>3 DEF Ctors
  <2>6. QED
    BY <2>3, <2>4, <2>5
<1>8. DOMAIN made = 1..n /\ made = [i \in DOMAIN made |-> made[i]]
  BY <1>6
<1> HIDE DEF made
<1>9. made \in Seq(Ctors)
  <2>1. made \in [1..n -> Ctors]
    BY <1>7, <1>8
  <2>2. QED
    BY <1>6, <2>1
<1>10. r.fields \in Seq(Fields) /\ r.options \in Seq(Fields)
  BY DEF RustClients
<1>11. /\ r.options \o os \in Seq(Fields)
       /\ r.fields \o fs \in Seq(Fields) /\ ToSet(r.fields \o fs) = ToSet(r.fields) \cup ToSet(fs)
  BY <1>1, <1>3, <1>10, ConcatSet
<1>12. /\ q \in RustClients
       /\ q.name = r.name /\ q.auth = r.auth /\ q.endpoint = r.endpoint /\ q.reads = r.reads
       /\ q.accessors = r.accessors
       /\ q.fields = r.fields \o fs /\ q.options = r.options \o os /\ q.ctors = made
  BY <1>5, <1>9, <1>11 DEF RustClients
<1>13. \A x : x \in ToSet(fs) <=> \E i \in 1..Len(versions) :
                  x = Field(Deduplicated(clientName, versions[i].name), IsOption(versions[i]))
  <2>1. DOMAIN versions = 1..Len(versions)
    BY LenProperties
  <2>2. QED
    BY <2>1 DEF fs, ToSet
<1>14. AuthFits(r) => AuthFits(q)
  BY <1>6, <1>7, <1>8, <1>12, AuthStaysFit
<1>15. /\ fs = VersionFields(clientName, versions) /\ os = VersionOptions(clientName, versions)
       /\ cs = VersionParams(clientName, versions)
  BY DEF fs, os, cs, VersionFields, VersionOptions, VersionParams
<1>16. /\ DOMAIN q.ctors = DOMAIN r.ctors
       /\ \A i \in DOMAIN r.ctors : q.ctors[i].params = r.ctors[i].params \o cs
  BY <1>6, <1>7, <1>8, <1>12
<1>17. QED
  BY <1>11, <1>12, <1>13, <1>14, <1>15, <1>16 DEF q

LEMMA SubFieldTyped ==
    ASSUME NEW parent, rust[parent].fields \in Seq(Fields), NEW p \in Parameters
    PROVE  SubField(parent, p) \in Seq(Fields)
<1>1. CASE SharedWith(parent, p)
  <2>1. PICK i \in DOMAIN rust[parent].fields : rust[parent].fields[i].name = p.name
    BY <1>1 DEF SharedWith, Names
  <2> DEFINE fields == rust[parent].fields
             k == CHOOSE j \in DOMAIN fields : fields[j].name = p.name
  <2>2. k \in DOMAIN fields
    BY <2>1
  <2> HIDE DEF k
  <2>3. fields[k] \in Fields
    BY <2>2, LenProperties, ElementOfSeq
  <2>4. FieldOf(parent, p.name) \in Fields
    BY <2>3 DEF FieldOf, k
  <2>5. QED
    BY <1>1, <2>4, Singleton DEF SubField
<1>2. CASE p.kind = "method" /\ ~SharedWith(parent, p)
  <2>1. FALSE \in BOOLEAN /\ p.name \in RustNames
    BY ParameterFields
  <2>2. Field(p.name, FALSE) \in Fields
    BY <2>1, FieldTyped
  <2>3. QED
    BY <1>2, <2>2, Singleton DEF SubField
<1>3. CASE p.kind # "method" /\ ~SharedWith(parent, p)
  BY <1>3, EmptySeq DEF SubField
<1>4. QED
  BY <1>1, <1>2, <1>3

\* The fields of a sub-client.
SubFields(c, parent) == <<Pipeline>> \o Collected(Tcgc(c).params, LAMBDA p : SubField(parent, p))

LEMMA SubFieldsAre ==
    ASSUME NEW c, NEW parent, Tcgc(c).params \in Seq(Parameters), rust[parent].fields \in Seq(Fields)
    PROVE  /\ SubFields(c, parent) \in Seq(Fields)
           /\ \A x : x \in ToSet(SubFields(c, parent)) <=>
                        \/ x = Pipeline
                        \/ \E i \in 1..Len(Tcgc(c).params) : x \in ToSet(SubField(parent, Tcgc(c).params[i]))
<1> DEFINE ps == Tcgc(c).params
           n  == Len(ps)
           ss == [i \in DOMAIN ps |-> SubField(parent, ps[i])]
<1>1. n \in Nat /\ DOMAIN ps = 1..n /\ \A i \in 1..n : ps[i] \in Parameters
  BY LenProperties, ElementOfSeq
<1>2. \A i \in 1..n : SubField(parent, ps[i]) \in Seq(Fields)
  BY <1>1, SubFieldTyped
<1>3. ss \in [1..n -> Seq(Fields)] /\ \A i \in 1..n : ss[i] = SubField(parent, ps[i])
  BY <1>1, <1>2
<1>4. Collected(ps, LAMBDA p : SubField(parent, p)) = FlattenSeq(ss)
  BY DEF Collected
<1> HIDE DEF ss
<1>5. FlattenSeq(ss) \in Seq(Fields) /\ \A x : x \in ToSet(FlattenSeq(ss)) <=> \E i \in 1..n : x \in ToSet(ss[i])
  BY <1>1, <1>3, Flattened
<1>6. Pipeline \in Fields
  <2>1. <<"pipeline">> \in RustNames /\ FALSE \in BOOLEAN
    BY DEF RustNames
  <2>2. QED
    BY <2>1, FieldTyped DEF Pipeline
<1>7. <<Pipeline>> \in Seq(Fields)
  BY <1>6, Singleton
<1>8. ToSet(<<Pipeline>>) = {Pipeline}
  BY DEF ToSet
<1> DEFINE rest == FlattenSeq(ss)
<1>9. SubFields(c, parent) = <<Pipeline>> \o rest
  BY <1>4 DEF SubFields
<1> HIDE DEF rest
<1>10. rest \in Seq(Fields)
  BY <1>5 DEF rest
<1>11. <<Pipeline>> \o rest \in Seq(Fields) /\ ToSet(<<Pipeline>> \o rest) = ToSet(<<Pipeline>>) \cup ToSet(rest)
  BY <1>7, <1>10, ConcatSet
<1>12. \A x : x \in ToSet(rest) <=> \E i \in 1..n : x \in ToSet(SubField(parent, ps[i]))
  BY <1>3, <1>5 DEF rest
<1>13. QED
  BY <1>8, <1>9, <1>11, <1>12

\* The versions of services that only a sub-client has.
Versions(c, parent) == Filtered(Tcgc(c).params, LAMBDA p : OwnVersion(c, parent, p))

LEMMA VersionsAre ==
    ASSUME NEW c, NEW parent, Tcgc(c).params \in Seq(Parameters)
    PROVE  /\ Versions(c, parent) \in Seq(Parameters)
           /\ \A p : p \in ToSet(Versions(c, parent)) <=> p \in ToSet(Tcgc(c).params) /\ OwnVersion(c, parent, p)
<1> DEFINE ps == Tcgc(c).params
           U  == {p \in Parameters : OwnVersion(c, parent, p)}
<1>1. \A i \in DOMAIN ps : ps[i] \in Parameters
  BY ElementOfSeq, LenProperties
<1>2. [i \in DOMAIN ps |-> IF OwnVersion(c, parent, ps[i]) THEN <<ps[i]>> ELSE <<>>]
          = [i \in DOMAIN ps |-> IF ps[i] \in U THEN <<ps[i]>> ELSE <<>>]
  BY <1>1
<1>3. \A p \in ToSet(ps) : p \in Parameters
  BY <1>1 DEF ToSet
<1> DEFINE t == FlattenSeq([i \in DOMAIN ps |-> IF ps[i] \in U THEN <<ps[i]>> ELSE <<>>])
<1>4. Versions(c, parent) = t
  BY <1>2 DEF Versions, Filtered, Collected
<1>5. t \in Seq(Parameters) /\ ToSet(t) = ToSet(ps) \cap U
  <2> HIDE DEF U
  <2>1. QED
    BY Selected
<1> HIDE DEF t
<1>6. QED
  BY <1>3, <1>4, <1>5

----------------------------------------------------------------------------
(* The type invariant. *)

\* What is remembered of the client parameters of methods.
CacheTyped(memo) == \A k \in DOMAIN memo : memo[k] \in Reads

\* Adapted clients are well typed, and the calls under way are of such clients.
TypeInv ==
    /\ package \in Packages
    /\ stack \in Seq(DOMAIN rust)
    /\ next \in [Clients -> Nat]
    /\ rust \in [DOMAIN rust -> RustClients] /\ DOMAIN rust \subseteq Clients
    /\ CacheTyped(cache)

LEMMA TcgcTyped ==
    ASSUME package \in Packages, NEW c \in Clients
    PROVE  /\ Tcgc(c).name \in STRING
           /\ Tcgc(c).children \in Seq(Clients) /\ Tcgc(c).params \in Seq(Parameters)
           /\ Tcgc(c).reads \in Seq(Operations)
<1>1. IsClient(package.clients[c], Clients)
  BY ClientTreeAssumption DEF Clients
<1>2. QED
  BY <1>1 DEF IsClient, Tcgc

\* The clients whose calls a call returns to.
Above(above) == above \in Seq(DOMAIN rust)

LEMMA NameTyped ==
    ASSUME TypeInv, NEW c \in Clients, NEW above, Above(above)
    PROVE  NameOf(c, above) \in RustNames
<1>1. <<Tcgc(c).name>> \in RustNames
  BY TcgcTyped DEF TypeInv, RustNames
<1>2. CASE above = <<>> \/ Tcgc(c).clientName
  BY <1>1, <1>2 DEF NameOf
<1>3. CASE above # <<>>
  <2>1. Head(above) \in DOMAIN rust
    BY <1>3, HeadTailProperties DEF Above
  <2>2. rust[Head(above)].name \in RustNames
    BY <2>1 DEF TypeInv, RustClients
  <2>3. rust[Head(above)].name \o <<Tcgc(c).name>> \in RustNames
    BY <1>1, <2>2, ConcatProperties DEF RustNames
  <2>4. QED
    BY <1>1, <2>3 DEF NameOf
<1>4. QED
  BY <1>2, <1>3

\* What is remembered of a client parameter of a method.
ReadOf(op) == [kind |-> op.kind, field |-> op.field, optional |-> op.optional]

LEMMA AdaptReadIs ==
    ASSUME NEW acc, CacheTyped(acc.cache), acc.reads \in Seq(Reads), NEW op \in Operations
    PROVE  LET q == AdaptRead(acc, op)
           IN  /\ CacheTyped(q.cache)
               /\ Key(op) \in DOMAIN q.cache
               /\ q.reads \in Seq(Reads) /\ q.reads = Append(acc.reads, q.cache[Key(op)])
               /\ DOMAIN acc.cache \subseteq DOMAIN q.cache
               /\ \A k \in DOMAIN acc.cache : q.cache[k] = acc.cache[k]
               /\ \A k \in DOMAIN q.cache :
                     k \in DOMAIN acc.cache \/ (k = Key(op) /\ q.cache[k] = ReadOf(op))
<1> DEFINE q   == AdaptRead(acc, op)
           e   == ReadOf(op)
           ks  == DOMAIN acc.cache \cup {Key(op)}
           new == IF Key(op) \in DOMAIN acc.cache THEN acc.cache
                  ELSE [k \in ks |-> IF k = Key(op) THEN e ELSE acc.cache[k]]
<1>1. e \in Reads
  BY WordsAreNames DEF Operations, Reads, ReadOf
<1>2. q.cache = new /\ q.reads = Append(acc.reads, new[Key(op)])
  BY DEF AdaptRead, ReadOf
<1> HIDE DEF q, e
<1>3. DOMAIN new = ks /\ \A k \in ks : new[k] = IF k \in DOMAIN acc.cache THEN acc.cache[k] ELSE e
  OBVIOUS
<1> HIDE DEF new
<1>4. CacheTyped(new)
  BY <1>1, <1>3 DEF CacheTyped
<1>5. new[Key(op)] \in Reads
  BY <1>3, <1>4 DEF CacheTyped
<1>6. Append(acc.reads, new[Key(op)]) \in Seq(Reads)
  BY <1>5, AppendProperties
<1>7. /\ Key(op) \in DOMAIN new
      /\ DOMAIN acc.cache \subseteq DOMAIN new
      /\ \A k \in DOMAIN acc.cache : new[k] = acc.cache[k]
      /\ \A k \in DOMAIN new : k \in DOMAIN acc.cache \/ (k = Key(op) /\ new[k] = e)
  BY <1>3
<1>8. QED
  BY <1>2, <1>4, <1>6, <1>7 DEF q, e

LEMMA ReadsTyped ==
    ASSUME CacheTyped(cache), NEW ops \in Seq(Operations)
    PROVE  CacheTyped(AdaptReads(ops).cache) /\ AdaptReads(ops).reads \in Seq(Reads)
<1> DEFINE n == Len(ops)
<1>1. n \in Nat /\ DOMAIN ops = 1..n /\ \A k \in 1..n : ops[k] \in Operations
  BY LenProperties, ElementOfSeq
<1>2. PICK f : /\ f[0] = Unread /\ f[n] = AdaptReads(ops)
               /\ \A k \in 1..n : f[k] = AdaptRead(f[k - 1], ops[k])
  BY <1>1, ReadsFold
<1> DEFINE P(k) == CacheTyped(f[k].cache) /\ f[k].reads \in Seq(Reads)
           T == {k \in Nat : k <= n => P(k)}
<1>3. 0 \in T
  <2>1. Unread.cache = cache /\ Unread.reads = <<>>
    BY DEF Unread
  <2>2. QED
    BY <1>2, <2>1, EmptySeq
<1>4. ASSUME NEW k \in Nat, k \in T
      PROVE  k + 1 \in T
  <2>1. SUFFICES ASSUME k + 1 <= n
                 PROVE  P(k + 1)
    OBVIOUS
  <2>2. k + 1 \in 1..n /\ P(k) /\ (k + 1) - 1 = k
    BY <1>1, <1>4, <2>1
  <2>3. f[k + 1] = AdaptRead(f[k], ops[k + 1]) /\ ops[k + 1] \in Operations
    BY <1>1, <1>2, <2>2
  <2>4. LET q == AdaptRead(f[k], ops[k + 1]) IN CacheTyped(q.cache) /\ q.reads \in Seq(Reads)
    BY <2>2, <2>3, AdaptReadIs
  <2>5. QED
    BY <2>3, <2>4
<1>5. n \in T
  <2> HIDE DEF T
  <2>1. QED
    BY <1>1, <1>3, <1>4, SetInduction
<1>6. P(n)
  BY <1>1, <1>5
<1>7. QED
  BY <1>2, <1>6

----------------------------------------------------------------------------
(* Steps. *)

\* The adapted clients after recursiveAdaptClient has entered one.
LEMMA EnteredIs ==
    ASSUME TypeInv, NEW c \in Clients, NEW above, Above(above),
           AdaptConstructable(c, above) \/ AdaptSubClient(c, above)
    PROVE  /\ rust' \in [DOMAIN rust \cup {c} -> RustClients]
           /\ rust'[c].name = NameOf(c, above) /\ rust'[c].accessors = {}
           /\ \A d \in DOMAIN rust \ {c} : /\ rust'[d].name = rust[d].name /\ rust'[d].auth = rust[d].auth
                                           /\ rust'[d].endpoint = rust[d].endpoint /\ rust'[d].reads = rust[d].reads
                                           /\ rust'[d].accessors = rust[d].accessors
                                           /\ ToSet(rust[d].fields) \subseteq ToSet(rust'[d].fields)
                                           /\ AuthFits(rust[d]) => AuthFits(rust'[d])
<1> DEFINE new == New(c, above)
           all == DOMAIN rust \cup {c}
<1>1. Tcgc(c).params \in Seq(Parameters)
  BY TcgcTyped DEF TypeInv
<1>2. new \in RustClients /\ CtorsFit(new) /\ new.name = NameOf(c, above) /\ new.accessors = {}
  BY NameTyped, NewIs
<1> HIDE DEF new
<1>3. \A d \in DOMAIN rust : rust[d] \in RustClients
  BY DEF TypeInv
<1>4. CASE AdaptConstructable(c, above)
  <2> DEFINE own  == WithOwnParams(new, Tcgc(c).params)
             made == Constructed(own)
  <2>1. own \in RustClients /\ own.name = new.name /\ own.accessors = {} /\ CtorsFit(own)
    BY <1>1, <1>2, OwnParamsAre
  <2>2. rust' = [d \in all |-> IF d = c THEN made ELSE rust[d]]
    BY <1>4 DEF AdaptConstructable, new
  <2> HIDE DEF own
  <2>3. made \in RustClients /\ made.name = own.name /\ made.accessors = {}
    BY <2>1, ConstructedIs
  <2> HIDE DEF made
  <2>4. QED
    BY <1>2, <1>3, <2>1, <2>2, <2>3
<1>5. CASE AdaptSubClient(c, above)
  <2> DEFINE parent   == Head(above)
             versions == Versions(c, parent)
             fields   == SubFields(c, parent)
             sub      == [new EXCEPT !.fields = fields, !.endpoint = rust[parent].endpoint]
             nearest  == Nearest(above)
  <2>1. parent \in DOMAIN rust
    BY <1>5, HeadTailProperties DEF AdaptSubClient, Above
  <2>2. rust[parent].fields \in Seq(Fields) /\ rust[parent].endpoint \in RustNames
    BY <1>3, <2>1 DEF RustClients
  <2>3. fields \in Seq(Fields)
    BY <1>1, <2>2, SubFieldsAre
  <2>4. versions \in Seq(Parameters)
    BY <1>1, VersionsAre
  <2>5. rust' = [d \in all |-> IF d = c THEN sub
                               ELSE IF d = nearest THEN WithVersions(rust[d], sub.name, versions)
                               ELSE rust[d]]
    BY <1>5 DEF AdaptSubClient, new, Versions, SubFields
  <2> HIDE DEF versions, fields, nearest
  <2>6. sub \in RustClients /\ sub.name = NameOf(c, above) /\ sub.accessors = {}
    BY <1>2, <2>2, <2>3 DEF RustClients
  <2> HIDE DEF sub
  <2>7. sub.name \in RustNames
    BY <2>6 DEF RustClients
  <2>8. ASSUME NEW d \in DOMAIN rust
        PROVE  LET q == WithVersions(rust[d], sub.name, versions)
               IN  /\ q \in RustClients
                   /\ q.name = rust[d].name /\ q.auth = rust[d].auth
                   /\ q.endpoint = rust[d].endpoint /\ q.reads = rust[d].reads
                   /\ q.accessors = rust[d].accessors
                   /\ ToSet(rust[d].fields) \subseteq ToSet(q.fields)
                   /\ AuthFits(rust[d]) => AuthFits(q)
    BY <1>3, <2>4, <2>7, WithVersionsIs
  <2>9. QED
    BY <1>3, <2>5, <2>6, <2>8
<1>6. QED
  BY <1>4, <1>5

LEMMA EnterTyped ==
    ASSUME TypeInv, NEW c \in Clients, NEW above, Above(above), Enter(c, above)
    PROVE  TypeInv'
<1>1. /\ rust' \in [DOMAIN rust \cup {c} -> RustClients]
      /\ stack' = <<c>> \o above
      /\ package' = package /\ next' = next /\ cache' = cache
  BY EnteredIs DEF Enter, Push
<1>2. DOMAIN rust' = DOMAIN rust \cup {c}
  BY <1>1
<1>3. Clients' = Clients /\ RustClients' = RustClients
  BY <1>1 DEF Clients, RustClients, Accessors
<1>4. <<c>> \in Seq(DOMAIN rust') /\ above \in Seq(DOMAIN rust')
  <2>1. DOMAIN rust \subseteq DOMAIN rust' /\ c \in DOMAIN rust'
    BY <1>2
  <2>2. QED
    BY <2>1, Singleton, SeqMonotonic DEF Above
<1>5. stack' \in Seq(DOMAIN rust')
  BY <1>1, <1>4, ConcatProperties
<1>6. QED
  BY <1>1, <1>2, <1>3, <1>5 DEF TypeInv, CacheTyped

LEMMA RejectTyped ==
    ASSUME TypeInv, NEW c, NEW above, Reject(c, above)
    PROVE  TypeInv'
<1>1. UNCHANGED <<package, stack, next, rust, cache>>
  BY DEF Reject
<1>2. Clients' = Clients /\ RustClients' = RustClients
  BY <1>1 DEF Clients, RustClients, Accessors
<1>3. QED
  BY <1>1, <1>2 DEF TypeInv, CacheTyped

\* The client that a call adapts next.
LEMMA NextChild ==
    ASSUME TypeInv, stack # <<>>, next[Head(stack)] < Len(Tcgc(Head(stack)).children)
    PROVE  /\ Head(stack) \in DOMAIN rust
           /\ next[Head(stack)] + 1 \in 1..Len(Tcgc(Head(stack)).children)
           /\ Tcgc(Head(stack)).children[next[Head(stack)] + 1] \in Clients
<1>1. Head(stack) \in DOMAIN rust /\ Head(stack) \in Clients
  BY HeadTailProperties DEF TypeInv
<1>2. Tcgc(Head(stack)).children \in Seq(Clients) /\ next[Head(stack)] \in Nat
  BY <1>1, TcgcTyped DEF TypeInv
<1>3. Len(Tcgc(Head(stack)).children) \in Nat
  BY <1>2, LenProperties
<1>4. next[Head(stack)] + 1 \in 1..Len(Tcgc(Head(stack)).children)
  BY <1>2, <1>3
<1>5. QED
  BY <1>1, <1>2, <1>4, ElementOfSeq

LEMMA LeaveTyped ==
    ASSUME TypeInv, Leave
    PROVE  TypeInv' /\ DOMAIN rust' = DOMAIN rust
<1> DEFINE c    == Head(stack)
           read == AdaptReads(Tcgc(c).reads)
           mid  == [rust EXCEPT ![c].reads = read.reads]
           rest == Tail(stack)
<1>1. stack # <<>> /\ package' = package /\ cache' = read.cache /\ stack' = rest
      /\ rust' = WithAccessor(mid, rest, c)
      /\ next' = IF rest = <<>> THEN next ELSE [next EXCEPT ![Head(rest)] = @ + 1]
  BY DEF Leave
<1>2. c \in DOMAIN rust /\ c \in Clients /\ rest \in Seq(DOMAIN rust)
  BY <1>1, HeadTailProperties DEF TypeInv
<1>3. CacheTyped(read.cache) /\ read.reads \in Seq(Reads)
  <2>1. Tcgc(c).reads \in Seq(Operations)
    BY <1>2, TcgcTyped DEF TypeInv
  <2>2. QED
    BY <2>1, ReadsTyped DEF TypeInv
<1> HIDE DEF c, read
<1>4. mid \in [DOMAIN rust -> RustClients]
  <2>1. rust[c] \in RustClients
    BY <1>2 DEF TypeInv
  <2>2. [rust[c] EXCEPT !.reads = read.reads] \in RustClients
    BY <1>3, <2>1 DEF RustClients
  <2>3. mid = [rust EXCEPT ![c] = [rust[c] EXCEPT !.reads = read.reads]]
    OBVIOUS
  <2> HIDE DEF mid
  <2>4. QED
    BY <1>2, <2>2, <2>3 DEF TypeInv
<1> HIDE DEF mid, rest
<1>5. rust' \in [DOMAIN rust -> RustClients]
  <2>1. CASE rest = <<>>
    BY <1>1, <1>4, <2>1 DEF WithAccessor
  <2>2. CASE rest # <<>>
    <3> DEFINE p == Head(rest)
               a == [child |-> c, params |-> AccessorParams(p, c)]
    <3>1. p \in DOMAIN rust /\ p \in Clients
      BY <1>2, <2>2, HeadTailProperties DEF TypeInv
    <3>2. a \in Accessors
      <4>1. Tcgc(c).params \in Seq(Parameters)
        BY <1>2, TcgcTyped DEF TypeInv
      <4>2. \A i \in DOMAIN Tcgc(c).params : Tcgc(c).params[i].name \in RustNames
        BY <4>1, LenProperties, ElementOfSeq, ParameterFields
      <4>3. AccessorParams(p, c) \in SUBSET RustNames
        BY <4>2 DEF AccessorParams
      <4>4. QED
        BY <1>2, <4>3 DEF Accessors
    <3> HIDE DEF p, a
    <3>3. mid[p] \in RustClients
      BY <1>4, <3>1
    <3>4. [mid[p] EXCEPT !.accessors = @ \cup {a}] \in RustClients
      BY <3>2, <3>3 DEF RustClients
    <3>5. rust' = [mid EXCEPT ![p] = [mid[p] EXCEPT !.accessors = @ \cup {a}]]
      BY <1>1, <2>2 DEF WithAccessor, p, a
    <3>6. QED
      BY <1>4, <3>1, <3>4, <3>5
  <2>3. QED
    BY <2>1, <2>2
<1>6. DOMAIN rust' = DOMAIN rust
  BY <1>5
<1>7. Clients' = Clients /\ RustClients' = RustClients
  BY <1>1 DEF Clients, RustClients, Accessors
<1>8. next' \in [Clients -> Nat]
  <2>1. rest # <<>> => Head(rest) \in Clients
    BY <1>2, HeadTailProperties DEF TypeInv
  <2>2. QED
    BY <1>1, <2>1 DEF TypeInv
<1>9. QED
  BY <1>1, <1>2, <1>3, <1>5, <1>6, <1>7, <1>8 DEF TypeInv, CacheTyped

LEMMA InitTyped == Init => TypeInv
<1> SUFFICES ASSUME Init PROVE TypeInv
  OBVIOUS
<1>1. DOMAIN Empty = {}
  BY DEF Empty
<1>2. rust = Empty /\ cache = Empty /\ stack = <<>> /\ package \in Packages
      /\ next = [c \in Clients |-> 0]
  BY DEF Init
<1>3. stack \in Seq(DOMAIN rust)
  BY <1>2, EmptySeq
<1>4. rust \in [DOMAIN rust -> RustClients]
  BY <1>1, <1>2 DEF Empty
<1>5. QED
  BY <1>1, <1>2, <1>3, <1>4 DEF TypeInv, CacheTyped

LEMMA Roots ==
    ASSUME TypeInv, NEW i \in DOMAIN package.roots
    PROVE  package.roots[i] \in Clients
<1>1. package.roots \in Seq(Clients)
  BY ClientTreeAssumption DEF TypeInv, Clients
<1>2. QED
  BY <1>1, LenProperties, ElementOfSeq

LEMMA NextTyped == TypeInv /\ [Next]_vars => TypeInv'
<1> SUFFICES ASSUME TypeInv, [Next]_vars
             PROVE  TypeInv'
  OBVIOUS
<1>1. CASE EnterRoot
  <2>1. PICK i \in DOMAIN package.roots : Enter(package.roots[i], <<>>) \/ Reject(package.roots[i], <<>>)
    BY <1>1 DEF EnterRoot
  <2>2. package.roots[i] \in Clients /\ Above(<<>>)
    BY Roots, EmptySeq DEF Above
  <2>3. QED
    BY <2>1, <2>2, EnterTyped, RejectTyped
<1>2. CASE EnterChild
  <2> DEFINE c == Tcgc(Head(stack)).children[next[Head(stack)] + 1]
  <2>1. Enter(c, stack) \/ Reject(c, stack)
    BY <1>2 DEF EnterChild
  <2>2. c \in Clients /\ Above(stack)
    BY <1>2, NextChild DEF EnterChild, Above, TypeInv
  <2>3. QED
    BY <2>1, <2>2, EnterTyped, RejectTyped
<1>3. CASE Leave
  BY <1>3, LeaveTyped
<1>4. CASE UNCHANGED vars
  <2>1. Clients' = Clients /\ RustClients' = RustClients
    BY <1>4 DEF vars, Clients, RustClients, Accessors
  <2>2. QED
    BY <1>4, <2>1 DEF vars, TypeInv, CacheTyped
<1>5. QED
  BY <1>1, <1>2, <1>3, <1>4 DEF Next, Finished

\* Whatever tcgc describes, what has been adapted, the calls under way and the
\* cache of client parameters keep their types (recursiveAdaptClient).
THEOREM WellTyped == Spec => []TypeInv
<1>1. Init => TypeInv
  BY InitTyped
<1>2. TypeInv /\ [Next]_vars => TypeInv'
  BY NextTyped
<1>3. QED
  BY <1>1, <1>2, PTL DEF Spec

----------------------------------------------------------------------------
(* How a caller authenticates. *)

LEMMA LeaveKeeps ==
    ASSUME TypeInv, Leave
    PROVE  /\ package' = package /\ DOMAIN rust' = DOMAIN rust
           /\ \A d \in DOMAIN rust : /\ rust'[d].name = rust[d].name /\ rust'[d].auth = rust[d].auth
                                     /\ rust'[d].ctors = rust[d].ctors /\ rust'[d].options = rust[d].options
                                     /\ rust'[d].fields = rust[d].fields /\ rust'[d].endpoint = rust[d].endpoint
                                     /\ rust'[d].reads = IF d = Head(stack) THEN AdaptReads(Tcgc(d).reads).reads
                                                         ELSE rust[d].reads
<1> DEFINE c    == Head(stack)
           read == AdaptReads(Tcgc(c).reads)
           mid  == [rust EXCEPT ![c].reads = read.reads]
           rest == Tail(stack)
<1>1. stack # <<>> /\ package' = package /\ rust' = WithAccessor(mid, rest, c)
  BY DEF Leave
<1>2. c \in DOMAIN rust /\ rest \in Seq(DOMAIN rust)
  BY <1>1, HeadTailProperties DEF TypeInv
<1> HIDE DEF read, rest
<1>3. DOMAIN mid = DOMAIN rust
  OBVIOUS
<1>4. ASSUME NEW d \in DOMAIN rust
      PROVE  /\ mid[d].name = rust[d].name /\ mid[d].auth = rust[d].auth /\ mid[d].ctors = rust[d].ctors
             /\ mid[d].fields = rust[d].fields /\ mid[d].endpoint = rust[d].endpoint
             /\ mid[d].options = rust[d].options
             /\ mid[d].reads = IF d = c THEN read.reads ELSE rust[d].reads
             /\ DOMAIN mid[d] = DOMAIN rust[d]
  <2>1. rust[d] \in RustClients
    BY DEF TypeInv
  <2>2. mid[d] = IF d = c THEN [rust[d] EXCEPT !.reads = read.reads] ELSE rust[d]
    OBVIOUS
  <2> HIDE DEF mid, c
  <2>3. QED
    BY <2>1, <2>2 DEF RustClients
<1> HIDE DEF mid, c
<1>5. CASE rest = <<>>
  <2>1. rust' = mid
    BY <1>1, <1>5 DEF WithAccessor
  <2>2. QED
    BY <1>1, <1>3, <1>4, <2>1 DEF c, read
<1>6. CASE rest # <<>>
  <2> DEFINE p == Head(rest)
             a == [child |-> c, params |-> AccessorParams(p, c)]
  <2>1. rust' = [mid EXCEPT ![p].accessors = @ \cup {a}]
    BY <1>1, <1>6 DEF WithAccessor
  <2> HIDE DEF p, a
  <2>2. DOMAIN rust' = DOMAIN rust
    BY <1>3, <2>1
  <2>3. ASSUME NEW d \in DOMAIN rust
        PROVE  /\ rust'[d].name = mid[d].name /\ rust'[d].auth = mid[d].auth /\ rust'[d].ctors = mid[d].ctors
               /\ rust'[d].fields = mid[d].fields /\ rust'[d].endpoint = mid[d].endpoint
               /\ rust'[d].options = mid[d].options
               /\ rust'[d].reads = mid[d].reads
    <3>1. rust'[d] = IF d = p THEN [mid[d] EXCEPT !.accessors = @ \cup {a}] ELSE mid[d]
      BY <1>3, <2>1
    <3>2. QED
      BY <3>1
  <2>4. QED
    BY <1>1, <1>4, <2>2, <2>3 DEF c, read
<1>7. QED
  BY <1>5, <1>6

\* An own parameter of a client is one that tcgc describes.
LEMMA SchemesFrom ==
    ASSUME NEW c, Tcgc(c).params \in Seq(Parameters)
    PROVE  \A x : x \in Schemes(c) <=> \E i \in 1..Len(Tcgc(c).params) :
                     Tcgc(c).params[i].kind = "credential" /\ x \in ToSet(Tcgc(c).params[i].schemes)
<1>1. DOMAIN Tcgc(c).params = 1..Len(Tcgc(c).params)
  BY LenProperties
<1>2. QED
  BY <1>1 DEF Schemes, ToSet

LEMMA ConstructableAuth ==
    ASSUME TypeInv, NEW c \in Clients, NEW above, Above(above), AdaptConstructable(c, above)
    PROVE  AuthFits(rust'[c]) /\ rust'[c].auth = Schemes(c)
<1> DEFINE new  == New(c, above)
           own  == WithOwnParams(new, Tcgc(c).params)
           made == Constructed(own)
<1>1. Tcgc(c).params \in Seq(Parameters)
  BY TcgcTyped DEF TypeInv
<1>2. new \in RustClients /\ CtorsFit(new) /\ new.auth = {}
  BY NameTyped, NewIs
<1>3. rust'[c] = made
  BY DEF AdaptConstructable
<1> HIDE DEF new
<1>4. /\ own \in RustClients /\ CtorsFit(own)
      /\ \A x : x \in own.auth <=> x \in new.auth \/ \E i \in 1..Len(Tcgc(c).params) :
                   Tcgc(c).params[i].kind = "credential" /\ x \in ToSet(Tcgc(c).params[i].schemes)
  BY <1>1, <1>2, OwnParamsAre
<1> HIDE DEF own
<1>5. made.auth = own.auth /\ AuthFits(made)
  BY <1>4, ConstructedIs
<1>6. own.auth = Schemes(c)
  BY <1>1, <1>2, <1>4, SchemesFrom
<1>7. QED
  BY <1>3, <1>5, <1>6

\* Every client that callers create has the constructors for its schemes.
AuthInv == \A c \in DOMAIN rust : IsConstructable(c) => AuthFits(rust[c]) /\ rust[c].auth = Schemes(c)

LEMMA EnterAuth ==
    ASSUME TypeInv, AuthInv, NEW c \in Clients, NEW above, Above(above), Enter(c, above)
    PROVE  AuthInv'
<1>1. /\ DOMAIN rust' = DOMAIN rust \cup {c} /\ package' = package
      /\ \A d \in DOMAIN rust \ {c} : rust'[d].auth = rust[d].auth /\ (AuthFits(rust[d]) => AuthFits(rust'[d]))
  BY EnteredIs DEF Enter
<1>2. \A d : (IsConstructable(d)' <=> IsConstructable(d)) /\ Schemes(d)' = Schemes(d)
  BY <1>1 DEF IsConstructable, Schemes, Tcgc
<1>3. IsConstructable(c) => AuthFits(rust'[c]) /\ rust'[c].auth = Schemes(c)
  BY ConstructableAuth DEF Enter, AdaptSubClient
<1>4. \A d \in DOMAIN rust' : IsConstructable(d) => AuthFits(rust'[d]) /\ rust'[d].auth = Schemes(d)
  BY <1>1, <1>3 DEF AuthInv
<1>5. \A d : AuthFits(rust[d])' <=> AuthFits(rust'[d])
  BY DEF AuthFits, HasAuthPolicy, WithNoCredential
<1>6. QED
  BY <1>2, <1>4, <1>5 DEF AuthInv

LEMMA NextAuth ==
    ASSUME TypeInv, AuthInv, [Next]_vars
    PROVE  AuthInv'
<1>1. ASSUME NEW c, NEW above, Reject(c, above)
      PROVE  AuthInv'
  BY <1>1 DEF Reject, AuthInv, AuthFits, HasAuthPolicy, WithNoCredential, IsConstructable, Schemes, Tcgc
<1>2. CASE EnterRoot
  <2>1. PICK i \in DOMAIN package.roots : Enter(package.roots[i], <<>>) \/ Reject(package.roots[i], <<>>)
    BY <1>2 DEF EnterRoot
  <2>2. package.roots[i] \in Clients /\ Above(<<>>)
    BY Roots, EmptySeq DEF Above
  <2>3. QED
    BY <1>1, <2>1, <2>2, EnterAuth
<1>3. CASE EnterChild
  <2> DEFINE c == Tcgc(Head(stack)).children[next[Head(stack)] + 1]
  <2>1. Enter(c, stack) \/ Reject(c, stack)
    BY <1>3 DEF EnterChild
  <2>2. c \in Clients /\ Above(stack)
    BY <1>3, NextChild DEF EnterChild, Above, TypeInv
  <2>3. QED
    BY <1>1, <2>1, <2>2, EnterAuth
<1>4. CASE Leave
  <2>1. /\ package' = package /\ DOMAIN rust' = DOMAIN rust
        /\ \A d \in DOMAIN rust : rust'[d].auth = rust[d].auth /\ rust'[d].ctors = rust[d].ctors
    BY <1>4, LeaveKeeps
  <2>2. \A d : (IsConstructable(d)' <=> IsConstructable(d)) /\ Schemes(d)' = Schemes(d)
    BY <2>1 DEF IsConstructable, Schemes, Tcgc
  <2>3. \A d \in DOMAIN rust : AuthFits(rust[d]) => AuthFits(rust'[d])
    BY <2>1, AuthStaysFit
  <2>4. \A d : AuthFits(rust[d])' <=> AuthFits(rust'[d])
    BY DEF AuthFits, HasAuthPolicy, WithNoCredential
  <2>5. QED
    BY <2>1, <2>2, <2>3, <2>4 DEF AuthInv
<1>5. CASE UNCHANGED vars
  BY <1>5 DEF vars, AuthInv, AuthFits, HasAuthPolicy, WithNoCredential, IsConstructable, Schemes, Tcgc
<1>6. QED
  BY <1>2, <1>3, <1>4, <1>5 DEF Next, Finished

LEMMA AuthDescribed ==
    ASSUME TypeInv, AuthInv
    PROVE  AuthenticationAsDescribed
<1> SUFFICES ASSUME NEW c \in DOMAIN rust, HasConstructors(c)
             PROVE  LET ctors == rust[c].ctors
                    IN  /\ (\E i \in DOMAIN ctors : HasAuthPolicy(ctors[i].params)) <=> "oauth2" \in Schemes(c)
                        /\ (\E i \in DOMAIN ctors : ~HasAuthPolicy(ctors[i].params))
                              <=> Schemes(c) = {} \/ "noAuth" \in Schemes(c)
                        /\ \A i, j \in DOMAIN ctors : ctors[i].name = ctors[j].name => i = j
  BY DEF AuthenticationAsDescribed
<1> DEFINE ctors == rust[c].ctors
<1>1. AuthFits(rust[c]) /\ rust[c].auth = Schemes(c)
  BY DEF AuthInv, HasConstructors, IsConstructable
<1>2. \A i \in DOMAIN ctors : ctors[i].name \in {"new", "with_no_credential"}
  <2>1. ctors \in Seq(Ctors)
    BY DEF TypeInv, RustClients
  <2> HIDE DEF ctors
  <2>2. \A i \in DOMAIN ctors : ctors[i] \in Ctors
    BY <2>1, LenProperties, ElementOfSeq
  <2>3. QED
    BY <2>2 DEF Ctors, CtorNames
<1>3. "new" # "with_no_credential"
  OBVIOUS
<1>4. WithNoCredential(rust[c].auth) <=> Schemes(c) = {} \/ "noAuth" \in Schemes(c)
  BY <1>1 DEF WithNoCredential
<1>5. \A i \in DOMAIN ctors : ~HasAuthPolicy(ctors[i].params) <=> ctors[i].name = "with_no_credential"
  BY <1>1, <1>2, <1>3 DEF AuthFits
<1>6. QED
  BY <1>1, <1>4, <1>5 DEF AuthFits

\* Whatever schemes the service accepts, alone or in unions, and however often
\* sub-clients change the constructors afterwards: with a credential exactly if it
\* accepts a token, without one exactly if it needs none or accepts none.
THEOREM ClientsAuthenticate == Spec => []AuthenticationAsDescribed
<1>1. Init => AuthInv
  BY DEF Init, AuthInv, Empty
<1>2. TypeInv /\ AuthInv /\ [Next]_vars => AuthInv'
  BY NextAuth
<1>3. TypeInv /\ AuthInv => AuthenticationAsDescribed
  BY AuthDescribed
<1>4. QED
  BY <1>1, <1>2, <1>3, WellTyped, PTL DEF Spec

----------------------------------------------------------------------------
(* Names. *)

IsChild(c, p) == c \in ChildrenOf(package, p)

\* What is said of the package, of its clients.
LEMMA WellNamedHere ==
    ASSUME WellNamed(package)
    PROVE  /\ \A c, a \in Clients : IsChild(c, a) =>
                 /\ c # a /\ c \notin ToSet(package.roots)
                 /\ \A b \in Clients : IsChild(c, b) => a = b
           /\ \A c, d, a \in Clients :
                 IsChild(c, a) /\ IsChild(d, a) /\ Tcgc(c).name = Tcgc(d).name
                   /\ ~Tcgc(c).clientName /\ ~Tcgc(d).clientName => c = d
           /\ \A c, d \in Clients :
                 Absolute(package, c) /\ Absolute(package, d) /\ Tcgc(c).name = Tcgc(d).name => c = d
<1>1. \A c, a \in Clients : IsChild(c, a) => /\ c # a /\ c \notin ToSet(package.roots)
                                           /\ \A b \in Clients : IsChild(c, b) => a = b
  BY DEF WellNamed, IsChild, Clients
<1>2. \A c, d, a \in Clients :
         IsChild(c, a) /\ IsChild(d, a) /\ Tcgc(c).name = Tcgc(d).name
           /\ ~Tcgc(c).clientName /\ ~Tcgc(d).clientName => c = d
  <2>1. SUFFICES ASSUME NEW c \in Clients, NEW d \in Clients, NEW a \in Clients, IsChild(c, a), IsChild(d, a),
                        Tcgc(c).name = Tcgc(d).name, ~Tcgc(c).clientName, ~Tcgc(d).clientName
                 PROVE  c = d
    OBVIOUS
  <2>2. ~Absolute(package, c) /\ ~Absolute(package, d)
    BY <1>1, <2>1 DEF Absolute, Tcgc
  <2>3. QED
    BY <2>1, <2>2 DEF WellNamed, IsChild, Clients, Tcgc
<1>3. \A c, d \in Clients :
         Absolute(package, c) /\ Absolute(package, d) /\ Tcgc(c).name = Tcgc(d).name => c = d
  BY DEF WellNamed, Clients, Tcgc
<1>4. QED
  BY <1>1, <1>2, <1>3

\* A client is named by itself or after its parent.
NamedBy(c) == \/ Absolute(package, c) /\ rust[c].name = <<Tcgc(c).name>>
              \/ /\ ~Tcgc(c).clientName
                 /\ \E p \in DOMAIN rust : IsChild(c, p) /\ rust[c].name = rust[p].name \o <<Tcgc(c).name>>

\* What the induction over the lengths of names needs of each client.
NamesInv == \A c \in DOMAIN rust : rust[c].name # <<>> /\ NamedBy(c)

LEMMA LongerName ==
    ASSUME NEW w \in RustNames, NEW x \in STRING
    PROVE  /\ w \o <<x>> \in RustNames /\ Len(w \o <<x>>) = Len(w) + 1
           /\ (w \o <<x>>)[Len(w) + 1] = x
           /\ w # <<>> => Len(w) > 0
           /\ Len(<<x>>) = 1 /\ <<x>>[1] = x
<1>1. <<x>> \in RustNames
  BY DEF RustNames
<1>2. Len(<<x>>) = 1 /\ <<x>>[1] = x
  OBVIOUS
<1>3. Len(w) \in Nat /\ (w # <<>> => Len(w) > 0)
  BY EmptySeq, LenProperties DEF RustNames
<1>4. QED
  BY <1>1, <1>2, <1>3, ConcatProperties DEF RustNames

\* The name of a client below one that is called w.
NameBelow(w, x) == w \o <<x>>

LEMMA SamePrefix ==
    ASSUME NEW S, NEW v \in Seq(S), NEW w \in Seq(S), NEW x \in S, NEW y \in S,
           NameBelow(v, x) = NameBelow(w, y)
    PROVE  v = w /\ x = y
<1>1. <<x>> \in Seq(S) /\ <<y>> \in Seq(S) /\ Len(<<x>>) = 1 /\ Len(<<y>>) = 1 /\ <<x>>[1] = x /\ <<y>>[1] = y
  OBVIOUS
<1>2. Len(v) \in Nat /\ Len(w) \in Nat
  BY LenProperties
<1>3. Len(v) = Len(w)
  <2>1. Len(v \o <<x>>) = Len(v) + 1 /\ Len(w \o <<y>>) = Len(w) + 1
    BY <1>1, ConcatProperties
  <2>2. QED
    BY <1>2, <2>1 DEF NameBelow
<1>4. \A i \in 1..(Len(v) + 1) : /\ NameBelow(v, x)[i] = IF i <= Len(v) THEN v[i] ELSE x
                                 /\ NameBelow(w, y)[i] = IF i <= Len(v) THEN w[i] ELSE y
  BY <1>1, <1>2, <1>3, ConcatProperties DEF NameBelow
<1>5. x = y
  <2>1. Len(v) + 1 \in 1..(Len(v) + 1) /\ ~(Len(v) + 1 <= Len(v))
    BY <1>2
  <2>2. NameBelow(v, x)[Len(v) + 1] = x /\ NameBelow(w, y)[Len(v) + 1] = y
    BY <1>4, <2>1
  <2>3. QED
    BY <2>2
<1>6. \A i \in 1..Len(v) : v[i] = w[i]
  <2>1. SUFFICES ASSUME NEW i \in 1..Len(v)
                 PROVE  v[i] = w[i]
    OBVIOUS
  <2>2. i \in 1..(Len(v) + 1) /\ i <= Len(v)
    BY <1>2
  <2>3. NameBelow(v, x)[i] = v[i] /\ NameBelow(w, y)[i] = w[i]
    BY <1>4, <2>2
  <2>4. QED
    BY <2>3
<1>7. v = w
  BY <1>3, <1>6, SeqEqual
<1>8. QED
  BY <1>5, <1>7

LEMMA NamesDiffer ==
    ASSUME TypeInv, WellNamed(package), NamesInv
    PROVE  NamesDistinct
<1> DEFINE len(c) == Len(rust[c].name)
           T == {n \in Nat : \A c, d \in DOMAIN rust : len(c) <= n /\ rust[c].name = rust[d].name => c = d}
<1>1. ASSUME NEW c \in DOMAIN rust
      PROVE  /\ rust[c].name \in RustNames /\ len(c) \in Nat /\ len(c) > 0
             /\ c \in Clients /\ Tcgc(c).name \in STRING
  <2>1. rust[c].name \in RustNames /\ rust[c].name # <<>> /\ c \in Clients
    BY DEF TypeInv, RustClients, NamesInv
  <2>2. len(c) \in Nat /\ len(c) > 0
    BY <2>1, EmptySeq, LenProperties DEF RustNames
  <2>3. QED
    BY <2>1, <2>2, TcgcTyped DEF TypeInv
<1>2. 0 \in T
  BY <1>1
<1>3. ASSUME NEW n \in Nat, n \in T
      PROVE  n + 1 \in T
  <2>1. SUFFICES ASSUME NEW c \in DOMAIN rust, NEW d \in DOMAIN rust,
                        len(c) <= n + 1, rust[c].name = rust[d].name
                 PROVE  c = d
    OBVIOUS
  <2>2. NamedBy(c) /\ NamedBy(d)
    BY DEF NamesInv
  <2>3. ASSUME NEW b \in DOMAIN rust, NEW a \in DOMAIN rust, NEW p \in DOMAIN rust, rust[b].name = rust[a].name,
               rust[a].name = <<Tcgc(a).name>>, rust[b].name = rust[p].name \o <<Tcgc(b).name>>
        PROVE  FALSE
    <3>1. Len(<<Tcgc(a).name>>) = 1
      OBVIOUS
    <3>2. Len(rust[p].name \o <<Tcgc(b).name>>) = len(p) + 1
      BY <1>1, LongerName
    <3>3. len(p) \in Nat /\ len(p) > 0
      BY <1>1
    <3> HIDE DEF len
    <3>4. QED
      BY <2>3, <3>1, <3>2, <3>3
  <2>4. CASE Absolute(package, c) /\ rust[c].name = <<Tcgc(c).name>>
    <3>1. CASE Absolute(package, d) /\ rust[d].name = <<Tcgc(d).name>>
      <4>1. Tcgc(c).name = Tcgc(d).name
        <5>1. <<Tcgc(c).name>> = <<Tcgc(d).name>>
          BY <2>1, <2>4, <3>1
        <5>2. <<Tcgc(c).name>>[1] = Tcgc(c).name /\ <<Tcgc(d).name>>[1] = Tcgc(d).name
          OBVIOUS
        <5>3. QED
          BY <5>1, <5>2
      <4>2. QED
        BY <1>1, <2>4, <3>1, <4>1, WellNamedHere
    <3>2. CASE ~(Absolute(package, d) /\ rust[d].name = <<Tcgc(d).name>>)
      <4>1. PICK p \in DOMAIN rust : rust[d].name = rust[p].name \o <<Tcgc(d).name>>
        BY <2>2, <3>2 DEF NamedBy
      <4>2. QED
        BY <2>1, <2>3, <2>4, <4>1
    <3>3. QED
      BY <3>1, <3>2
  <2>5. CASE ~(Absolute(package, c) /\ rust[c].name = <<Tcgc(c).name>>)
    <3>1. PICK p \in DOMAIN rust : /\ ~Tcgc(c).clientName /\ IsChild(c, p)
                                   /\ rust[c].name = rust[p].name \o <<Tcgc(c).name>>
      BY <2>2, <2>5 DEF NamedBy
    <3>2. CASE Absolute(package, d) /\ rust[d].name = <<Tcgc(d).name>>
      BY <2>1, <2>3, <3>1, <3>2
    <3>3. CASE ~(Absolute(package, d) /\ rust[d].name = <<Tcgc(d).name>>)
      <4>1. PICK q \in DOMAIN rust : /\ ~Tcgc(d).clientName /\ IsChild(d, q)
                                     /\ rust[d].name = rust[q].name \o <<Tcgc(d).name>>
        BY <2>2, <3>3 DEF NamedBy
      <4>2. rust[p].name = rust[q].name /\ Tcgc(c).name = Tcgc(d).name
        <5> DEFINE S == STRING \cup {"pipeline", "credential"}
        <5>1. rust[p].name \in Seq(S) /\ rust[q].name \in Seq(S) /\ Tcgc(c).name \in S /\ Tcgc(d).name \in S
          BY <1>1 DEF RustNames
        <5>2. NameBelow(rust[p].name, Tcgc(c).name) = NameBelow(rust[q].name, Tcgc(d).name)
          BY <2>1, <3>1, <4>1 DEF NameBelow
        <5> HIDE DEF S
        <5>3. QED
          BY <5>1, <5>2, SamePrefix
      <4>3. len(p) <= n
        <5>1. len(c) = len(p) + 1
          BY <1>1, <3>1, LongerName
        <5>2. QED
          BY <1>1, <2>1, <5>1
      <4>4. p = q
        BY <1>3, <4>2, <4>3
      <4>5. QED
        BY <1>1, <3>1, <4>1, <4>2, <4>4, WellNamedHere
    <3>4. QED
      BY <3>2, <3>3
  <2>6. QED
    BY <2>4, <2>5
<1>4. Nat \subseteq T
  <2> HIDE DEF T
  <2>1. QED
    BY <1>2, <1>3, SetInduction
<1>5. ASSUME NEW c \in DOMAIN rust, NEW d \in DOMAIN rust, rust[c].name = rust[d].name
      PROVE  c = d
  <2>1. len(c) \in T /\ len(c) <= len(c)
    BY <1>1, <1>4
  <2>2. QED
    BY <1>5, <2>1
<1>6. QED
  BY <1>5 DEF NamesDistinct

\* A root is entered first, a child below its parent.
Entered(c, above) == IF above = <<>> THEN c \in ToSet(package.roots) /\ c \notin DOMAIN rust
                     ELSE Head(above) \in DOMAIN rust /\ IsChild(c, Head(above))

LEMMA EnterNames ==
    ASSUME TypeInv, WellNamed(package), NamesInv, NEW c \in Clients, NEW above, Above(above), Entered(c, above),
           Enter(c, above)
    PROVE  NamesInv'
<1>1. /\ DOMAIN rust' = DOMAIN rust \cup {c} /\ package' = package
      /\ rust'[c].name = NameOf(c, above)
      /\ \A d \in DOMAIN rust \ {c} : rust'[d].name = rust[d].name
  BY EnteredIs DEF Enter
<1>2. /\ \A d : (Absolute(package, d)' <=> Absolute(package, d)) /\ Tcgc(d)' = Tcgc(d)
      /\ \A d, p : IsChild(d, p)' <=> IsChild(d, p)
  BY <1>1 DEF IsChild, Tcgc
<1> DEFINE parent == Head(above)
<1>3. above # <<>> => /\ parent \in DOMAIN rust /\ parent \in Clients /\ IsChild(c, parent)
                      /\ c # parent /\ c \notin ToSet(package.roots)
                      /\ \A q \in Clients : IsChild(c, q) => parent = q
  BY WellNamedHere DEF Entered, TypeInv
<1>4. c \in DOMAIN rust => rust'[c].name = rust[c].name
  <2>1. SUFFICES ASSUME c \in DOMAIN rust
                 PROVE  rust'[c].name = rust[c].name
    OBVIOUS
  <2>2. above # <<>>
    BY <2>1 DEF Entered
  <2>3. NamedBy(c)
    BY <2>1 DEF NamesInv
  <2>4. CASE Tcgc(c).clientName
    BY <1>1, <2>3, <2>4 DEF NamedBy, NameOf
  <2>5. CASE ~Tcgc(c).clientName
    <3>1. PICK p \in DOMAIN rust : IsChild(c, p) /\ rust[c].name = rust[p].name \o <<Tcgc(c).name>>
      BY <1>3, <2>2, <2>3, <2>5 DEF NamedBy, Absolute, Tcgc
    <3>2. p = parent
      BY <1>3, <2>2, <3>1 DEF TypeInv
    <3>3. QED
      BY <1>1, <2>2, <2>5, <3>1, <3>2 DEF NameOf
  <2>6. QED
    BY <2>4, <2>5
<1>5. \A d \in DOMAIN rust : rust'[d].name = rust[d].name
  BY <1>1, <1>4
<1>6. ASSUME NEW d \in DOMAIN rust
      PROVE  rust'[d].name # <<>> /\ NamedBy(d)'
  <2>1. rust[d].name # <<>> /\ NamedBy(d)
    BY DEF NamesInv
  <2>2. QED
    BY <1>1, <1>2, <1>5, <2>1 DEF NamedBy
<1>7. rust'[c].name # <<>> /\ NamedBy(c)'
  <2>1. CASE above = <<>> \/ Tcgc(c).clientName
    <3>1. rust'[c].name = <<Tcgc(c).name>> /\ Absolute(package, c)
      BY <1>1, <2>1 DEF NameOf, Absolute, Entered, Tcgc
    <3>2. <<Tcgc(c).name>> # <<>>
      OBVIOUS
    <3>3. QED
      BY <1>2, <3>1, <3>2 DEF NamedBy
  <2>2. CASE above # <<>> /\ ~Tcgc(c).clientName
    <3>1. rust'[c].name = rust[parent].name \o <<Tcgc(c).name>> /\ rust'[parent].name = rust[parent].name
      BY <1>1, <1>3, <2>2 DEF NameOf
    <3>2. rust[parent].name \in RustNames /\ Tcgc(c).name \in STRING
      BY <1>3, <2>2, TcgcTyped DEF TypeInv, RustClients
    <3>3. Len(rust[parent].name) \in Nat /\ Len(rust[parent].name \o <<Tcgc(c).name>>) = Len(rust[parent].name) + 1
      BY <3>2, LongerName, LenProperties DEF RustNames
    <3>4. rust'[c].name # <<>>
      <4>1. Len(<<>>) = 0
        OBVIOUS
      <4>2. QED
        BY <3>1, <3>3, <4>1
    <3>5. QED
      BY <1>1, <1>2, <1>3, <2>2, <3>1, <3>4 DEF NamedBy
  <2>3. QED
    BY <2>1, <2>2
<1>8. QED
  BY <1>1, <1>6, <1>7 DEF NamesInv

LEMMA RootEntered ==
    ASSUME TypeInv, EnterRoot
    PROVE  \E c \in Clients : Entered(c, <<>>) /\ Above(<<>>) /\ (Enter(c, <<>>) \/ Reject(c, <<>>))
<1>1. PICK i \in DOMAIN package.roots : /\ package.roots[i] \notin DOMAIN rust
                                        /\ Enter(package.roots[i], <<>>) \/ Reject(package.roots[i], <<>>)
  BY DEF EnterRoot
<1>2. package.roots[i] \in Clients /\ Above(<<>>)
  BY Roots, EmptySeq DEF Above
<1>3. package.roots[i] \in ToSet(package.roots)
  BY DEF ToSet
<1>4. Entered(package.roots[i], <<>>)
  BY <1>1, <1>3 DEF Entered
<1>5. QED
  BY <1>1, <1>2, <1>4

LEMMA ChildEntered ==
    ASSUME TypeInv, EnterChild
    PROVE  \E c \in Clients : Entered(c, stack) /\ Above(stack) /\ (Enter(c, stack) \/ Reject(c, stack))
<1> DEFINE top == Head(stack)
           c   == Tcgc(top).children[next[top] + 1]
<1>1. stack # <<>> /\ next[top] < Len(Tcgc(top).children) /\ (Enter(c, stack) \/ Reject(c, stack))
  BY DEF EnterChild
<1>2. top \in DOMAIN rust /\ next[top] + 1 \in 1..Len(Tcgc(top).children) /\ c \in Clients
  BY <1>1, NextChild
<1>3. DOMAIN Tcgc(top).children = 1..Len(Tcgc(top).children)
  <2>1. Tcgc(top).children \in Seq(Clients)
    BY <1>2, TcgcTyped DEF TypeInv
  <2>2. QED
    BY <2>1, LenProperties
<1>4. IsChild(c, top)
  BY <1>2, <1>3 DEF IsChild, ChildrenOf, ToSet, Tcgc
<1>5. Above(stack)
  BY DEF Above, TypeInv
<1>6. Entered(c, stack)
  BY <1>1, <1>2, <1>4 DEF Entered
<1>7. QED
  BY <1>1, <1>2, <1>5, <1>6

LEMMA NextNames ==
    ASSUME TypeInv, WellNamed(package), NamesInv, [Next]_vars
    PROVE  NamesInv'
<1>1. ASSUME NEW c, NEW above, Reject(c, above)
      PROVE  NamesInv'
  BY <1>1 DEF Reject, NamesInv, NamedBy, IsChild, Tcgc
<1>2. CASE EnterRoot
  BY <1>1, <1>2, RootEntered, EnterNames
<1>3. CASE EnterChild
  BY <1>1, <1>3, ChildEntered, EnterNames
<1>4. CASE Leave
  <2>1. /\ package' = package /\ DOMAIN rust' = DOMAIN rust
        /\ \A d \in DOMAIN rust : rust'[d].name = rust[d].name
    BY <1>4, LeaveKeeps
  <2>2. /\ \A d : (Absolute(package, d)' <=> Absolute(package, d)) /\ Tcgc(d)' = Tcgc(d)
        /\ \A d, p : IsChild(d, p)' <=> IsChild(d, p)
    BY <2>1 DEF IsChild, Tcgc
  <2>3. ASSUME NEW d \in DOMAIN rust
        PROVE  rust'[d].name # <<>> /\ NamedBy(d)'
    <3>1. rust[d].name # <<>> /\ NamedBy(d)
      BY DEF NamesInv
    <3>2. QED
      BY <2>1, <2>2, <3>1 DEF NamedBy
  <2>4. QED
    BY <2>1, <2>3 DEF NamesInv
<1>5. CASE UNCHANGED vars
  BY <1>5 DEF vars, NamesInv, NamedBy, IsChild, Tcgc
<1>6. QED
  BY <1>2, <1>3, <1>4, <1>5 DEF Next, Finished

LEMMA PackageStays == [Next]_vars => package' = package
BY DEF Next, EnterRoot, EnterChild, Enter, Reject, Leave, Finished, vars

\* Interfaces of the same name, in different clients or below each other to any
\* depth, never share a client, although a name says nothing of where it ends.
THEOREM NamesKeepApart == Spec /\ WellNamed(package) => []NamesDistinct
<1>1. Init => NamesInv
  BY DEF Init, NamesInv, Empty
<1>2. TypeInv /\ WellNamed(package) /\ NamesInv /\ [Next]_vars => NamesInv'
  BY NextNames
<1>3. WellNamed(package) /\ [Next]_vars => WellNamed(package)'
  BY PackageStays
<1>4. TypeInv /\ WellNamed(package) /\ NamesInv => NamesDistinct
  BY NamesDiffer
<1>5. QED
  BY <1>1, <1>2, <1>3, <1>4, WellTyped, PTL DEF Spec

----------------------------------------------------------------------------
(* What methods read. *)

LEMMA FieldParts ==
    ASSUME NEW name, NEW option
    PROVE  Field(name, option).name = name /\ Field(name, option).option = option
BY DEF Field

LEMMA Suffix ==
    ASSUME NEW S, NEW w \in Seq(S), NEW v \in Seq(S), w # <<>>, v # <<>>
    PROVE  /\ Len(w) + 1 \in 2..Len(w \o v)
           /\ SubSeq(w \o v, Len(w) + 1, Len(w \o v)) = v
<1>1. Len(w) \in Nat \ {0} /\ Len(v) \in Nat \ {0}
  BY EmptySeq, LenProperties
<1>2. /\ w \o v \in Seq(S) /\ Len(w \o v) = Len(w) + Len(v)
      /\ \A i \in 1..(Len(w) + Len(v)) : (w \o v)[i] = IF i <= Len(w) THEN w[i] ELSE v[i - Len(w)]
  BY ConcatProperties
<1>3. Len(w) + 1 \in 2..Len(w \o v)
  BY <1>1, <1>2
<1> DEFINE u == SubSeq(w \o v, Len(w) + 1, Len(w \o v))
<1>4. u = [i \in 1..Len(v) |-> (w \o v)[Len(w) + i]]
  <2>1. u = [i \in 1..(Len(w \o v) - (Len(w) + 1) + 1) |-> (w \o v)[i + (Len(w) + 1) - 1]]
    OBVIOUS
  <2>2. Len(w \o v) - (Len(w) + 1) + 1 = Len(v)
    BY <1>1, <1>2
  <2>3. \A i \in 1..Len(v) : i + (Len(w) + 1) - 1 = Len(w) + i
    BY <1>1
  <2> HIDE DEF u
  <2>4. QED
    BY <2>1, <2>2, <2>3
<1>5. \A i \in 1..Len(v) : (w \o v)[Len(w) + i] = v[i]
  <2>1. SUFFICES ASSUME NEW i \in 1..Len(v)
                 PROVE  (w \o v)[Len(w) + i] = v[i]
    OBVIOUS
  <2>2. Len(w) + i \in 1..(Len(w) + Len(v)) /\ ~(Len(w) + i <= Len(w)) /\ (Len(w) + i) - Len(w) = i
    BY <1>1
  <2>3. QED
    BY <1>2, <2>2
<1>6. v = [i \in 1..Len(v) |-> v[i]]
  BY LenProperties
<1> HIDE DEF u
<1>7. u = v
  BY <1>4, <1>5, <1>6
<1>8. QED
  BY <1>3, <1>7 DEF u

\* A field for the api-version of a client, which its name precedes.
VersionField(x) == \E w \in RustNames, v \in VersionNames(package) : w # <<>> /\ x = Field(w \o v, FALSE)

LEMMA ParamsInTyped ==
    ASSUME TypeInv, NEW c \in Clients, NEW q \in ParamsIn(package, c)
    PROVE  q \in Parameters
<1>1. Tcgc(c).params \in Seq(Parameters)
  BY TcgcTyped DEF TypeInv
<1>2. q \in ToSet(Tcgc(c).params)
  BY DEF ParamsIn, Tcgc
<1>3. QED
  BY <1>1, <1>2, LenProperties, ElementOfSeq DEF ToSet

LEMMA VersionNamesTyped ==
    ASSUME TypeInv, NEW v \in VersionNames(package)
    PROVE  v \in RustNames
<1>1. PICK c \in Clients : \E q \in ParamsIn(package, c) : v = q.name
  BY DEF VersionNames, Clients
<1>2. QED
  BY <1>1, ParamsInTyped, ParameterFields

\* No field of a parameter is mistaken for one of the others.
LEMMA ParamFieldsDiffer ==
    ASSUME TypeInv, NamesFit(package), NEW c \in Clients, NEW q \in ParamsIn(package, c),
           NEW x, x.name \in {q.name, FieldName(q)}
    PROVE  x # Pipeline /\ ~VersionField(x)
<1> DEFINE n == x.name
<1>1. /\ <<>> \notin VersionNames(package) /\ n # <<"pipeline">>
      /\ \A i \in 2..Len(n) : SubSeq(n, i, Len(n)) \notin VersionNames(package)
  BY DEF NamesFit, Clients
<1>2. x # Pipeline
  <2>1. Pipeline.name = <<"pipeline">>
    BY FieldParts DEF Pipeline
  <2>2. QED
    BY <1>1, <2>1
<1>3. ASSUME VersionField(x)
      PROVE  FALSE
  <2>1. PICK w \in RustNames, v \in VersionNames(package) : w # <<>> /\ x = Field(w \o v, FALSE)
    BY <1>3 DEF VersionField
  <2>2. v \in RustNames /\ v # <<>>
    BY <1>1, VersionNamesTyped
  <2>3. Len(w) + 1 \in 2..Len(w \o v) /\ SubSeq(w \o v, Len(w) + 1, Len(w \o v)) = v
    BY <2>1, <2>2, Suffix DEF RustNames
  <2>4. n = w \o v
    BY <2>1, FieldParts
  <2>5. QED
    BY <1>1, <2>3, <2>4
<1>4. QED
  BY <1>2, <1>3

\* Where a field of a client is from.
FieldOfParam(c, x) ==
    \/ x = Pipeline
    \/ \E e \in EndpointsIn(package, c) : x = Field(e.field, FALSE)
    \/ \E q \in MethodParamsIn(package, c) : x = Field(q.name, IsOption(q))

\* A client has the fields of its parameters, and besides these only fields for
\* the api-versions of other clients.
Resolved(c, r) ==
    /\ \E e \in EndpointsIn(package, c) : r.endpoint = e.field
    /\ Field(r.endpoint, FALSE) \in ToSet(r.fields)
    /\ \A q \in MethodParamsIn(package, c) : Field(q.name, IsOption(q)) \in ToSet(r.fields)
    /\ \A x \in ToSet(r.fields) : FieldOfParam(c, x) \/ VersionField(x)

LEMMA StaysResolved ==
    ASSUME NEW c, NEW r, NEW q, Resolved(c, r), q.endpoint = r.endpoint,
           ToSet(r.fields) \subseteq ToSet(q.fields),
           \A x \in ToSet(q.fields) : x \in ToSet(r.fields) \/ VersionField(x)
    PROVE  Resolved(c, q)
BY DEF Resolved

LEMMA ConstructableFields ==
    ASSUME TypeInv, NEW c \in Clients, NEW above, Above(above), AdaptConstructable(c, above)
    PROVE  \A x : x \in ToSet(rust'[c].fields) <=> FieldOfParam(c, x)
<1> DEFINE new  == New(c, above)
           ps   == Tcgc(c).params
           own  == WithOwnParams(new, ps)
           made == Constructed(own)
<1>1. ps \in Seq(Parameters)
  BY TcgcTyped DEF TypeInv
<1>2. new \in RustClients /\ CtorsFit(new) /\ new.fields = <<Pipeline>>
  BY NameTyped, NewIs DEF New
<1>3. rust'[c] = made
  BY DEF AdaptConstructable
<1> HIDE DEF new
<1>4. /\ own \in RustClients /\ CtorsFit(own)
      /\ \A x : x \in ToSet(own.fields) <=> x \in ToSet(new.fields) \/ \E i \in 1..Len(ps) : x \in ToSet(FieldsFor(ps[i]))
  BY <1>1, <1>2, OwnParamsAre
<1> HIDE DEF own
<1>5. made.fields = own.fields
  BY <1>4, ConstructedIs
<1>6. \A q : q \in ParamsIn(package, c) <=> \E i \in 1..Len(ps) : q = ps[i]
  <2>1. DOMAIN ps = 1..Len(ps)
    BY <1>1, LenProperties
  <2>2. ParamsIn(package, c) = ToSet(ps)
    BY DEF ParamsIn, Tcgc
  <2>3. QED
    BY <2>1, <2>2 DEF ToSet
<1> HIDE DEF ps, made
<1>7. \A x : x \in ToSet(made.fields) <=> x = Pipeline \/ \E q \in ParamsIn(package, c) : x \in ToSet(FieldsFor(q))
  <2>1. ToSet(<<Pipeline>>) = {Pipeline}
    BY DEF ToSet
  <2>2. QED
    BY <1>2, <1>4, <1>5, <1>6, <2>1
<1>8. ASSUME NEW q \in ParamsIn(package, c)
      PROVE  ToSet(FieldsFor(q)) = IF q \in EndpointsIn(package, c) THEN {Field(q.field, FALSE)}
                                   ELSE IF q \in MethodParamsIn(package, c) THEN {Field(q.name, IsOption(q))}
                                   ELSE {}
  <2>1. \A x : ToSet(<<x>>) = {x}
    BY DEF ToSet
  <2>2. ToSet(<<>>) = {}
    BY DEF ToSet
  <2>3. QED
    BY <2>1, <2>2 DEF FieldsFor, EndpointsIn, MethodParamsIn
<1>9. \A q \in EndpointsIn(package, c) : q \in ParamsIn(package, c) /\ q \notin MethodParamsIn(package, c)
  BY DEF EndpointsIn, MethodParamsIn
<1>10. \A q \in MethodParamsIn(package, c) : q \in ParamsIn(package, c) /\ q \notin EndpointsIn(package, c)
  BY DEF EndpointsIn, MethodParamsIn
<1>11. ASSUME NEW x, FieldOfParam(c, x)
       PROVE  x \in ToSet(made.fields)
  BY <1>7, <1>8, <1>9, <1>10, <1>11 DEF FieldOfParam
<1>12. ASSUME NEW x \in ToSet(made.fields)
       PROVE  FieldOfParam(c, x)
  <2>1. CASE x = Pipeline
    BY <2>1 DEF FieldOfParam
  <2>2. CASE x # Pipeline
    <3>1. PICK q \in ParamsIn(package, c) : x \in ToSet(FieldsFor(q))
      BY <1>7, <2>2
    <3>2. QED
      BY <1>8, <3>1 DEF FieldOfParam
  <2>3. QED
    BY <2>1, <2>2
<1>13. QED
  BY <1>3, <1>11, <1>12

LEMMA ConstructableResolved ==
    ASSUME TypeInv, Coherent(package), NEW c \in Clients, NEW above, Above(above), AdaptConstructable(c, above)
    PROVE  Resolved(c, rust'[c]) /\ rust'[c].reads = <<>>
<1> DEFINE new  == New(c, above)
           ps   == Tcgc(c).params
           own  == WithOwnParams(new, ps)
           made == Constructed(own)
<1>1. ps \in Seq(Parameters)
  BY TcgcTyped DEF TypeInv
<1>2. new \in RustClients /\ CtorsFit(new) /\ new.reads = <<>>
  BY NameTyped, NewIs DEF New
<1>3. rust'[c] = made
  BY DEF AdaptConstructable
<1> HIDE DEF new
<1>4. own \in RustClients /\ CtorsFit(own) /\ own.reads = new.reads /\ EndpointFrom(own, new, ps, Len(ps))
  BY <1>1, <1>2, OwnParamsAre
<1> HIDE DEF own
<1>5. made.endpoint = own.endpoint /\ made.reads = own.reads
  BY <1>4, ConstructedIs
<1>6. \A x : x \in ToSet(made.fields) <=> FieldOfParam(c, x)
  BY <1>3, ConstructableFields
<1>7. \A q : q \in ParamsIn(package, c) <=> \E i \in 1..Len(ps) : q = ps[i]
  <2>1. DOMAIN ps = 1..Len(ps)
    BY <1>1, LenProperties
  <2>2. ParamsIn(package, c) = ToSet(ps)
    BY DEF ParamsIn, Tcgc
  <2>3. QED
    BY <2>1, <2>2 DEF ToSet
<1> HIDE DEF ps, made
<1>8. EndpointsIn(package, c) # {}
  BY DEF Coherent, OwnParamsFit, Clients
<1>9. PICK e \in EndpointsIn(package, c) : made.endpoint = e.field
  <2>1. \E i \in 1..Len(ps) : ps[i].kind = "endpoint" /\ own.endpoint = ps[i].field
    BY <1>4, <1>7, <1>8 DEF EndpointFrom, EndpointsIn
  <2>2. QED
    BY <1>5, <1>7, <2>1 DEF EndpointsIn
<1>10. Resolved(c, made)
  BY <1>6, <1>9 DEF Resolved, FieldOfParam
<1>11. QED
  BY <1>2, <1>3, <1>4, <1>5, <1>10

\* A call that adapts a sub-client, below a client that has all its fields.
BelowResolved(c, a) == /\ TypeInv /\ Coherent(package)
                       /\ c \in Clients /\ a \in DOMAIN rust /\ a \in Clients
                       /\ IsChild(c, a) /\ ~IsConstructable(c)
                       /\ Resolved(a, rust[a])

LEMMA SubParamsHere ==
    ASSUME NEW c, NEW a, BelowResolved(c, a)
    PROVE  /\ \A f \in ParamsIn(package, c) : ~Merged(f)
           /\ \A f \in EndpointsIn(package, c), e \in EndpointsIn(package, a) : f.name = e.field /\ f.field = e.field
           /\ \A f \in ParamsIn(package, c), e \in EndpointsIn(package, a) : f.name = e.field => f.kind = "endpoint"
           /\ \A f \in ParamsIn(package, c), q \in MethodParamsIn(package, a) :
                 f.name = q.name => f.kind = "method" /\ IsOption(f) = IsOption(q)
           /\ \A f \in MethodParamsIn(package, c) :
                 (\A q \in MethodParamsIn(package, a) : f.name # q.name) => IsOption(f) = FALSE
<1>1. package.clients[c].by = "parent"
  <2>1. Tcgc(c).by \in {"code", "individually", "both", "parent"}
    BY ClientTreeAssumption DEF BelowResolved, TypeInv, Clients, IsClient, Tcgc
  <2>2. QED
    BY <2>1 DEF BelowResolved, IsConstructable, Tcgc
<1>2. SubParamsFit(package) /\ c \in ChildrenOf(package, a) /\ a \in DOMAIN package.clients
  BY DEF BelowResolved, Coherent, IsChild, Clients
<1>3. QED
  BY <1>1, <1>2, Zenon DEF SubParamsFit

LEMMA SharedField ==
    ASSUME NEW c, NEW a, BelowResolved(c, a), NEW q \in ParamsIn(package, c), SharedWith(a, q)
    PROVE  LET x == FieldOf(a, q.name)
           IN  \/ q \in EndpointsIn(package, c) /\ x = Field(q.field, FALSE)
               \/ q \in MethodParamsIn(package, c) /\ x = Field(q.name, IsOption(q))
<1> DEFINE fields == rust[a].fields
           k == CHOOSE i \in DOMAIN fields : fields[i].name = q.name
           x == FieldOf(a, q.name)
<1>1. \E i \in DOMAIN fields : fields[i].name = q.name
  BY DEF SharedWith, Names
<1>2. k \in DOMAIN fields /\ fields[k].name = q.name
  BY <1>1
<1>3. x = fields[k]
  BY DEF FieldOf
<1> HIDE DEF k
<1>4. x \in ToSet(fields) /\ x.name = q.name
  BY <1>2, <1>3 DEF ToSet
<1> HIDE DEF x
<1>5. FieldOfParam(a, x) \/ VersionField(x)
  BY <1>4 DEF BelowResolved, Resolved
<1>6. x # Pipeline /\ ~VersionField(x)
  BY <1>4, ParamFieldsDiffer DEF BelowResolved, Coherent
<1>7. CASE \E e \in EndpointsIn(package, a) : x = Field(e.field, FALSE)
  <2>1. PICK e \in EndpointsIn(package, a) : x = Field(e.field, FALSE)
    BY <1>7
  <2>2. q.name = e.field
    BY <1>4, <2>1, FieldParts
  <2>3. q \in EndpointsIn(package, c)
    BY <2>1, <2>2, SubParamsHere DEF EndpointsIn
  <2>4. q.field = e.field
    BY <2>3, SubParamsHere
  <2>5. QED
    BY <2>1, <2>3, <2>4 DEF x
<1>8. CASE \E r \in MethodParamsIn(package, a) : x = Field(r.name, IsOption(r))
  <2>1. PICK r \in MethodParamsIn(package, a) : x = Field(r.name, IsOption(r))
    BY <1>8
  <2>2. q.name = r.name
    BY <1>4, <2>1, FieldParts
  <2>3. q.kind = "method" /\ IsOption(q) = IsOption(r) /\ ~Merged(q)
    <3>1. q.kind = "method" /\ IsOption(q) = IsOption(r)
      <4>1. \A f \in ParamsIn(package, c), s \in MethodParamsIn(package, a) :
               f.name = s.name => f.kind = "method" /\ IsOption(f) = IsOption(s)
        BY SubParamsHere
      <4>2. QED
        BY <2>1, <2>2, <4>1, Zenon
    <3>2. ~Merged(q)
      BY SubParamsHere
    <3>3. QED
      BY <3>1, <3>2
  <2>4. q \in MethodParamsIn(package, c)
    BY <2>3 DEF MethodParamsIn
  <2>5. QED
    BY <2>1, <2>2, <2>3, <2>4 DEF x
<1>9. QED
  BY <1>5, <1>6, <1>7, <1>8 DEF FieldOfParam

\* A field of the parent's is shared under its name.
LEMMA SharedIf ==
    ASSUME NEW a, NEW q, NEW x \in ToSet(rust[a].fields), x.name = q.name
    PROVE  SharedWith(a, q)
BY DEF SharedWith, Names, ToSet

LEMMA OwnRequired ==
    ASSUME NEW c, NEW a, BelowResolved(c, a), NEW q \in ParamsIn(package, c), q.kind = "method", ~SharedWith(a, q)
    PROVE  q \in MethodParamsIn(package, c) /\ IsOption(q) = FALSE
<1>1. q \in MethodParamsIn(package, c)
  BY SubParamsHere DEF MethodParamsIn
<1>2. ASSUME NEW r \in MethodParamsIn(package, a), q.name = r.name
      PROVE  FALSE
  <2>1. Field(r.name, IsOption(r)) \in ToSet(rust[a].fields)
    BY DEF BelowResolved, Resolved
  <2>2. QED
    BY <1>2, <2>1, FieldParts, SharedIf
<1>3. QED
  BY <1>1, <1>2, SubParamsHere

LEMMA SubFieldIs ==
    ASSUME NEW c, NEW a, BelowResolved(c, a), NEW q \in ParamsIn(package, c)
    PROVE  /\ \A x \in ToSet(SubField(a, q)) : FieldOfParam(c, x)
           /\ q \in MethodParamsIn(package, c) => Field(q.name, IsOption(q)) \in ToSet(SubField(a, q))
           /\ q \in EndpointsIn(package, c) => Field(q.field, FALSE) \in ToSet(SubField(a, q))
<1>1. \A x : ToSet(<<x>>) = {x}
  BY DEF ToSet
<1>2. ToSet(<<>>) = {}
  BY DEF ToSet
<1>3. q \in MethodParamsIn(package, c) => q.kind = "method" /\ q \notin EndpointsIn(package, c)
  BY DEF MethodParamsIn, EndpointsIn
<1>4. CASE SharedWith(a, q)
  <2>1. SubField(a, q) = <<FieldOf(a, q.name)>>
    BY <1>4 DEF SubField
  <2> DEFINE x == FieldOf(a, q.name)
  <2>2. \/ q \in EndpointsIn(package, c) /\ x = Field(q.field, FALSE)
        \/ q \in MethodParamsIn(package, c) /\ x = Field(q.name, IsOption(q))
    BY <1>4, SharedField
  <2>3. ToSet(SubField(a, q)) = {x}
    BY <1>1, <2>1
  <2> HIDE DEF x
  <2>4. FieldOfParam(c, x)
    BY <2>2 DEF FieldOfParam
  <2>5. QED
    BY <1>3, <2>2, <2>3, <2>4
<1>5. CASE ~SharedWith(a, q) /\ q.kind = "method"
  <2>1. SubField(a, q) = <<Field(q.name, FALSE)>>
    BY <1>5 DEF SubField
  <2>2. q \in MethodParamsIn(package, c) /\ IsOption(q) = FALSE
    BY <1>5, OwnRequired
  <2> DEFINE x == Field(q.name, FALSE)
  <2>3. ToSet(SubField(a, q)) = {x} /\ x = Field(q.name, IsOption(q))
    BY <1>1, <2>1, <2>2
  <2> HIDE DEF x
  <2>4. FieldOfParam(c, x)
    BY <2>2, <2>3 DEF FieldOfParam
  <2>5. QED
    BY <1>3, <2>2, <2>3, <2>4
<1>6. CASE ~SharedWith(a, q) /\ q.kind # "method"
  <2>1. SubField(a, q) = <<>>
    BY <1>6 DEF SubField
  <2>2. q \notin EndpointsIn(package, c)
    <3>1. SUFFICES ASSUME q \in EndpointsIn(package, c)
                   PROVE  FALSE
      OBVIOUS
    <3>2. PICK e \in EndpointsIn(package, a) : rust[a].endpoint = e.field
      BY DEF BelowResolved, Resolved
    <3>3. q.name = e.field
      BY <3>1, SubParamsHere
    <3>4. Field(e.field, FALSE) \in ToSet(rust[a].fields)
      BY <3>2 DEF BelowResolved, Resolved
    <3>5. Field(e.field, FALSE).name = q.name
      BY <3>3, FieldParts
    <3>6. QED
      BY <1>6, <3>4, <3>5, SharedIf
  <2>3. QED
    BY <1>2, <1>3, <1>6, <2>1, <2>2
<1>7. QED
  BY <1>4, <1>5, <1>6

LEMMA NameNotEmpty ==
    ASSUME TypeInv, NEW c \in Clients, NEW above, Above(above)
    PROVE  NameOf(c, above) # <<>>
<1>1. Tcgc(c).name \in STRING
  BY TcgcTyped DEF TypeInv
<1>2. CASE above = <<>> \/ Tcgc(c).clientName
  BY <1>2 DEF NameOf
<1>3. CASE ~(above = <<>> \/ Tcgc(c).clientName)
  <2> DEFINE w == rust[Head(above)].name
  <2>1. Head(above) \in DOMAIN rust
    BY <1>3, HeadTailProperties DEF Above
  <2>2. w \in RustNames
    BY <2>1 DEF TypeInv, RustClients
  <2>3. NameOf(c, above) = w \o <<Tcgc(c).name>>
    BY <1>3 DEF NameOf
  <2> HIDE DEF w
  <2>4. Len(w) \in Nat /\ Len(w \o <<Tcgc(c).name>>) = Len(w) + 1
    BY <1>1, <2>2, LongerName, LenProperties DEF RustNames
  <2>5. Len(<<>>) = 0
    OBVIOUS
  <2>6. QED
    BY <2>3, <2>4, <2>5
<1>4. QED
  BY <1>2, <1>3

LEMMA OwnVersionsRequired ==
    ASSUME NEW c, NEW a, BelowResolved(c, a), NEW v \in ToSet(Versions(c, a)), NEW w \in RustNames, w # <<>>
    PROVE  VersionField(Field(Deduplicated(w, v.name), IsOption(v)))
<1>1. v \in ParamsIn(package, c) /\ OwnVersion(c, a, v)
  <2>1. Tcgc(c).params \in Seq(Parameters)
    BY TcgcTyped DEF BelowResolved, TypeInv
  <2>2. QED
    BY <2>1, VersionsAre DEF ParamsIn, Tcgc
<1>2. v.name \in VersionNames(package)
  BY <1>1 DEF OwnVersion, VersionNames, BelowResolved, Clients
<1>3. IsOption(v) = FALSE
  <2>1. ~IsOption(v)
    BY <1>1, SubParamsHere DEF OwnVersion, Merged
  <2>2. IsOption(v) \in BOOLEAN
    BY DEF IsOption
  <2>3. QED
    BY <2>1, <2>2, Zenon
<1>4. QED
  BY <1>2, <1>3 DEF VersionField, Deduplicated

LEMMA SubResolved ==
    ASSUME NEW c, NEW above, Above(above), AdaptSubClient(c, above), BelowResolved(c, Head(above))
    PROVE  /\ Resolved(c, rust'[c]) /\ rust'[c].reads = <<>>
           /\ \A d \in DOMAIN rust \ {c} : \A x \in ToSet(rust'[d].fields) :
                 x \in ToSet(rust[d].fields) \/ VersionField(x)
<1> DEFINE a        == Head(above)
           new      == New(c, above)
           versions == Versions(c, a)
           fields   == SubFields(c, a)
           sub      == [new EXCEPT !.fields = fields, !.endpoint = rust[a].endpoint]
           nearest  == Nearest(above)
<1>1. TypeInv /\ c \in Clients /\ Tcgc(c).params \in Seq(Parameters)
  BY TcgcTyped DEF BelowResolved, TypeInv
<1>2. new \in RustClients /\ new.name = NameOf(c, above) /\ new.name # <<>> /\ new.reads = <<>>
  BY <1>1, NameTyped, NewIs, NameNotEmpty DEF New
<1> HIDE DEF new
<1>3. \A d \in DOMAIN rust : rust[d] \in RustClients
  BY <1>1 DEF TypeInv
<1>4. rust[a].fields \in Seq(Fields)
  BY <1>3 DEF BelowResolved, RustClients
<1>5. \A x : x \in ToSet(fields) <=> x = Pipeline \/ \E q \in ParamsIn(package, c) : x \in ToSet(SubField(a, q))
  <2>1. \A x : x \in ToSet(fields) <=> \/ x = Pipeline
                                       \/ \E i \in 1..Len(Tcgc(c).params) : x \in ToSet(SubField(a, Tcgc(c).params[i]))
    BY <1>1, <1>4, SubFieldsAre
  <2>2. DOMAIN Tcgc(c).params = 1..Len(Tcgc(c).params)
    BY <1>1, LenProperties
  <2>3. \A q : q \in ParamsIn(package, c) <=> \E i \in 1..Len(Tcgc(c).params) : q = Tcgc(c).params[i]
    BY <2>2 DEF ParamsIn, ToSet, Tcgc
  <2>4. QED
    BY <2>1, <2>3
<1>6. rust' = [d \in DOMAIN rust \cup {c} |-> IF d = c THEN sub
                                              ELSE IF d = nearest THEN WithVersions(rust[d], sub.name, versions)
                                              ELSE rust[d]]
  BY DEF AdaptSubClient, new, Versions, SubFields
<1>7. versions \in Seq(Parameters)
  BY <1>1, VersionsAre
<1> HIDE DEF versions, fields, nearest
<1>8. /\ sub.fields = fields /\ sub.endpoint = rust[a].endpoint /\ sub.name = new.name /\ sub.reads = <<>>
      /\ sub.name \in RustNames
  BY <1>2 DEF RustClients
<1> HIDE DEF sub
<1>9. Resolved(c, sub)
  <2>1. PICK e \in EndpointsIn(package, a) : rust[a].endpoint = e.field
    BY DEF BelowResolved, Resolved
  <2>2. EndpointsIn(package, c) # {}
    BY DEF BelowResolved, Coherent, OwnParamsFit, Clients
  <2>3. PICK f \in EndpointsIn(package, c) : f.field = e.field
    BY <2>1, <2>2, SubParamsHere
  <2>4. f \in ParamsIn(package, c)
    BY DEF EndpointsIn
  <2>5. Field(f.field, FALSE) \in ToSet(fields)
    BY <1>5, <2>4, SubFieldIs
  <2>6. \A q \in MethodParamsIn(package, c) : Field(q.name, IsOption(q)) \in ToSet(fields)
    BY <1>5, SubFieldIs DEF MethodParamsIn
  <2>7. \A x \in ToSet(fields) : FieldOfParam(c, x)
    <3>1. FieldOfParam(c, Pipeline)
      BY DEF FieldOfParam
    <3>2. QED
      BY <1>5, <3>1, SubFieldIs
  <2>8. QED
    BY <1>8, <2>1, <2>3, <2>5, <2>6, <2>7 DEF Resolved
<1>10. ASSUME NEW d \in DOMAIN rust \ {c}, NEW x \in ToSet(rust'[d].fields)
       PROVE  x \in ToSet(rust[d].fields) \/ VersionField(x)
  <2>1. CASE d # nearest
    BY <1>6, <1>10, <2>1
  <2>2. CASE d = nearest
    <3> DEFINE q == WithVersions(rust[d], sub.name, versions)
    <3>1. x \in ToSet(q.fields)
      BY <1>6, <1>10, <2>2
    <3>2. \/ x \in ToSet(rust[d].fields)
          \/ \E i \in 1..Len(versions) : x = Field(Deduplicated(sub.name, versions[i].name), IsOption(versions[i]))
      <4>1. rust[d] \in RustClients
        BY <1>3
      <4>2. \A y : y \in ToSet(q.fields) <=>
                \/ y \in ToSet(rust[d].fields)
                \/ \E i \in 1..Len(versions) :
                      y = Field(Deduplicated(sub.name, versions[i].name), IsOption(versions[i]))
        BY <1>7, <1>8, <4>1, WithVersionsIs
      <4>3. QED
        BY <3>1, <4>2
    <3>3. \A i \in 1..Len(versions) : versions[i] \in ToSet(versions)
      BY <1>7, LenProperties DEF ToSet
    <3>4. \A i \in 1..Len(versions) : VersionField(Field(Deduplicated(sub.name, versions[i].name), IsOption(versions[i])))
      BY <1>2, <1>8, <3>3, OwnVersionsRequired DEF versions
    <3>5. QED
      BY <3>2, <3>4
  <2>3. QED
    BY <2>1, <2>2
<1>11. rust'[c] = sub
  BY <1>6
<1>12. QED
  BY <1>8, <1>9, <1>10, <1>11

----------------------------------------------------------------------------
(* The parameters that are remembered. *)

ReadsIn(p) == UNION {ToSet(p.clients[c].reads) : c \in DOMAIN p.clients}

\* What is remembered of an operation's parameter is what any other has for it.
Remembers(memo) == \A k \in DOMAIN memo : \A op \in ReadsIn(package) : Key(op) = k => memo[k] = ReadOf(op)

LEMMA SameKeySameRead ==
    ASSUME ReadsFit(package), NEW op \in ReadsIn(package), NEW other \in ReadsIn(package), Key(op) = Key(other)
    PROVE  ReadOf(op) = ReadOf(other)
<1>1. op.kind = other.kind
  <2>1. Key(op)[2] = op.kind /\ Key(other)[2] = other.kind
    BY DEF Key
  <2>2. QED
    BY <2>1
<1>2. op.field = other.field /\ op.optional = other.optional
  BY DEF ReadsFit, ReadsIn
<1>3. QED
  BY <1>1, <1>2 DEF ReadOf

LEMMA ReadsAre ==
    ASSUME CacheTyped(cache), Remembers(cache), ReadsFit(package),
           NEW ops \in Seq(Operations), ToSet(ops) \subseteq ReadsIn(package)
    PROVE  /\ Remembers(AdaptReads(ops).cache)
           /\ Len(AdaptReads(ops).reads) = Len(ops)
           /\ \A i \in 1..Len(ops) : AdaptReads(ops).reads[i] = ReadOf(ops[i])
<1> DEFINE n == Len(ops)
<1>1. /\ n \in Nat /\ DOMAIN ops = 1..n
      /\ \A k \in 1..n : ops[k] \in Operations /\ ops[k] \in ReadsIn(package)
  BY LenProperties, ElementOfSeq DEF ToSet
<1>2. PICK f : /\ f[0] = Unread /\ f[n] = AdaptReads(ops)
               /\ \A k \in 1..n : f[k] = AdaptRead(f[k - 1], ops[k])
  BY <1>1, ReadsFold
<1> DEFINE P(k) == /\ CacheTyped(f[k].cache) /\ Remembers(f[k].cache)
                   /\ f[k].reads \in Seq(Reads) /\ Len(f[k].reads) = k
                   /\ \A i \in 1..k : f[k].reads[i] = ReadOf(ops[i])
           T == {k \in Nat : k <= n => P(k)}
<1>3. 0 \in T
  <2>1. Unread.cache = cache /\ Unread.reads = <<>>
    BY DEF Unread
  <2>2. <<>> \in Seq(Reads) /\ Len(<<>>) = 0 /\ \A i \in 1..0 : FALSE
    BY EmptySeq
  <2>3. QED
    BY <1>2, <2>1, <2>2
<1>4. ASSUME NEW k \in Nat, k \in T
      PROVE  k + 1 \in T
  <2>1. SUFFICES ASSUME k + 1 <= n
                 PROVE  P(k + 1)
    OBVIOUS
  <2>2. k + 1 \in 1..n /\ P(k) /\ (k + 1) - 1 = k
    BY <1>1, <1>4, <2>1
  <2> DEFINE op == ops[k + 1]
             q  == AdaptRead(f[k], op)
  <2>3. f[k + 1] = q /\ op \in Operations /\ op \in ReadsIn(package)
    BY <1>1, <1>2, <2>2
  <2>4. /\ CacheTyped(q.cache) /\ Key(op) \in DOMAIN q.cache
        /\ q.reads \in Seq(Reads) /\ q.reads = Append(f[k].reads, q.cache[Key(op)])
        /\ \A m \in DOMAIN f[k].cache : q.cache[m] = f[k].cache[m]
        /\ \A m \in DOMAIN q.cache : m \in DOMAIN f[k].cache \/ (m = Key(op) /\ q.cache[m] = ReadOf(op))
    BY <2>2, <2>3, AdaptReadIs
  <2> HIDE DEF q, op
  <2>5. Remembers(q.cache)
    <3>1. SUFFICES ASSUME NEW m \in DOMAIN q.cache, NEW o \in ReadsIn(package), Key(o) = m
                   PROVE  q.cache[m] = ReadOf(o)
      BY DEF Remembers
    <3>2. CASE m \in DOMAIN f[k].cache
      BY <2>2, <2>4, <3>1, <3>2 DEF Remembers
    <3>3. CASE m = Key(op) /\ q.cache[m] = ReadOf(op)
      BY <2>3, <3>1, <3>3, SameKeySameRead
    <3>4. QED
      BY <2>4, <3>2, <3>3
  <2>6. q.cache[Key(op)] = ReadOf(op)
    BY <2>3, <2>4, <2>5 DEF Remembers
  <2>7. q.cache[Key(op)] \in Reads
    BY <2>4 DEF CacheTyped
  <2>8. Len(q.reads) = k + 1 /\ \A i \in 1..(k + 1) : q.reads[i] = ReadOf(ops[i])
    <3> DEFINE e == q.cache[Key(op)]
    <3>1. e \in Reads /\ e = ReadOf(op)
      BY <2>6, <2>7
    <3> HIDE DEF e
    <3>2. /\ Len(Append(f[k].reads, e)) = k + 1
          /\ \A i \in 1..k : Append(f[k].reads, e)[i] = f[k].reads[i]
          /\ Append(f[k].reads, e)[k + 1] = e
      BY <2>2, <3>1, AppendProperties
    <3>3. \A i \in 1..(k + 1) : i \in 1..k \/ i = k + 1
      OBVIOUS
    <3>4. QED
      BY <2>2, <2>4, <3>1, <3>2, <3>3 DEF e, op
  <2>9. QED
    BY <2>3, <2>4, <2>5, <2>8
<1>5. n \in T
  <2> HIDE DEF T
  <2>1. QED
    BY <1>1, <1>3, <1>4, SetInduction
<1>6. P(n)
  BY <1>1, <1>5
<1>7. QED
  BY <1>2, <1>6

\* The methods of a client that have been adapted.
ReadsDone(c, r) == /\ Len(r.reads) <= Len(Tcgc(c).reads)
                   /\ \A i \in 1..Len(r.reads) : r.reads[i] = ReadOf(Tcgc(c).reads[i])

\* Fields, what methods read, and what is remembered for later methods.
ResolveInv ==
    /\ Remembers(cache)
    /\ \A c \in DOMAIN rust : Resolved(c, rust[c]) /\ ReadsDone(c, rust[c])

LEMMA ResolvedPrimed ==
    ASSUME package' = package, NEW c
    PROVE  /\ Resolved(c, rust[c])' <=> Resolved(c, rust'[c])
           /\ ReadsDone(c, rust[c])' <=> ReadsDone(c, rust'[c])
BY DEF Resolved, FieldOfParam, VersionField, ReadsDone, Tcgc

LEMMA ReadsTypedIn ==
    ASSUME TypeInv, NEW c \in Clients
    PROVE  /\ Tcgc(c).reads \in Seq(Operations) /\ Len(Tcgc(c).reads) \in Nat
           /\ ToSet(Tcgc(c).reads) \subseteq ReadsIn(package)
<1>1. Tcgc(c).reads \in Seq(Operations)
  BY TcgcTyped DEF TypeInv
<1>2. QED
  BY <1>1, LenProperties DEF ReadsIn, Tcgc, Clients

LEMMA EnterResolved ==
    ASSUME TypeInv, Coherent(package), ResolveInv,
           NEW c \in Clients, NEW above, Above(above), Entered(c, above), Enter(c, above)
    PROVE  ResolveInv'
<1>1. /\ DOMAIN rust' = DOMAIN rust \cup {c} /\ package' = package /\ cache' = cache
      /\ \A d \in DOMAIN rust \ {c} : /\ rust'[d].endpoint = rust[d].endpoint /\ rust'[d].reads = rust[d].reads
                                      /\ ToSet(rust[d].fields) \subseteq ToSet(rust'[d].fields)
  BY EnteredIs DEF Enter
<1>2. /\ Resolved(c, rust'[c]) /\ rust'[c].reads = <<>>
      /\ \A d \in DOMAIN rust \ {c} : \A x \in ToSet(rust'[d].fields) :
            x \in ToSet(rust[d].fields) \/ VersionField(x)
  <2>1. CASE AdaptConstructable(c, above)
    <3>1. \A d \in DOMAIN rust \ {c} : rust'[d] = rust[d]
      BY <2>1 DEF AdaptConstructable
    <3>2. QED
      BY <2>1, <3>1, ConstructableResolved
  <2>2. CASE AdaptSubClient(c, above)
    <3>1. above # <<>> /\ ~IsConstructable(c)
      BY <2>2 DEF AdaptSubClient
    <3>2. Head(above) \in DOMAIN rust /\ IsChild(c, Head(above))
      BY <3>1 DEF Entered
    <3>3. BelowResolved(c, Head(above))
      BY <3>1, <3>2 DEF BelowResolved, ResolveInv, TypeInv
    <3>4. QED
      BY <2>2, <3>3, SubResolved
  <2>3. QED
    BY <2>1, <2>2 DEF Enter
<1>3. Remembers(cache)'
  BY <1>1 DEF ResolveInv, Remembers
<1>4. ASSUME NEW d \in DOMAIN rust'
      PROVE  Resolved(d, rust'[d]) /\ ReadsDone(d, rust'[d])
  <2>1. CASE d = c
    <3>1. ReadsDone(c, rust'[c])
      <4>1. Len(<<>>) = 0 /\ \A i \in 1..0 : FALSE
        OBVIOUS
      <4>2. QED
        BY <1>2, <4>1, ReadsTypedIn DEF ReadsDone
    <3>2. QED
      BY <1>2, <2>1, <3>1
  <2>2. CASE d # c
    <3>1. d \in DOMAIN rust \ {c}
      BY <1>1, <2>2
    <3>2. Resolved(d, rust[d]) /\ ReadsDone(d, rust[d])
      BY <3>1 DEF ResolveInv
    <3>3. Resolved(d, rust'[d])
      BY <1>1, <1>2, <3>1, <3>2, StaysResolved
    <3>4. ReadsDone(d, rust'[d])
      BY <1>1, <3>1, <3>2 DEF ReadsDone
    <3>5. QED
      BY <3>3, <3>4
  <2>3. QED
    BY <2>1, <2>2
<1>5. QED
  BY <1>1, <1>3, <1>4, ResolvedPrimed DEF ResolveInv

LEMMA LeaveResolved ==
    ASSUME TypeInv, Coherent(package), ResolveInv, Leave
    PROVE  ResolveInv'
<1> DEFINE c == Head(stack)
           read == AdaptReads(Tcgc(c).reads)
<1>1. /\ package' = package /\ DOMAIN rust' = DOMAIN rust
      /\ \A d \in DOMAIN rust : /\ rust'[d].fields = rust[d].fields /\ rust'[d].endpoint = rust[d].endpoint
                                /\ rust'[d].reads = IF d = c THEN AdaptReads(Tcgc(d).reads).reads ELSE rust[d].reads
  BY LeaveKeeps
<1>2. stack # <<>> /\ cache' = read.cache
  BY DEF Leave
<1>3. c \in Clients
  BY <1>2, HeadTailProperties DEF TypeInv
<1>4. /\ Remembers(read.cache)
      /\ Len(read.reads) = Len(Tcgc(c).reads)
      /\ \A i \in 1..Len(Tcgc(c).reads) : read.reads[i] = ReadOf(Tcgc(c).reads[i])
  <2>1. ReadsFit(package) /\ Remembers(cache) /\ CacheTyped(cache)
    BY DEF Coherent, ResolveInv, TypeInv
  <2>2. QED
    BY <1>3, <2>1, ReadsTypedIn, ReadsAre
<1> HIDE DEF c, read
<1>5. Remembers(cache)'
  BY <1>1, <1>2, <1>4 DEF Remembers
<1>6. ASSUME NEW d \in DOMAIN rust'
      PROVE  Resolved(d, rust'[d]) /\ ReadsDone(d, rust'[d])
  <2>1. d \in DOMAIN rust /\ Resolved(d, rust[d]) /\ ReadsDone(d, rust[d])
    BY <1>1 DEF ResolveInv
  <2>2. Resolved(d, rust'[d])
    BY <1>1, <2>1 DEF Resolved
  <2>3. ReadsDone(d, rust'[d])
    <3>1. CASE d = c
      <4>1. rust'[d].reads = read.reads
        BY <1>1, <2>1, <3>1 DEF read
      <4>2. Len(Tcgc(c).reads) \in Nat
        BY <1>3, ReadsTypedIn
      <4>3. QED
        BY <1>4, <3>1, <4>1, <4>2 DEF ReadsDone
    <3>2. CASE d # c
      BY <1>1, <2>1, <3>2 DEF ReadsDone
    <3>3. QED
      BY <3>1, <3>2
  <2>4. QED
    BY <2>2, <2>3
<1>7. QED
  BY <1>1, <1>5, <1>6, ResolvedPrimed DEF ResolveInv

LEMMA NextResolved ==
    ASSUME TypeInv, Coherent(package), ResolveInv, [Next]_vars
    PROVE  ResolveInv'
<1>1. ASSUME UNCHANGED <<package, rust, cache>>
      PROVE  ResolveInv'
  BY <1>1, ResolvedPrimed DEF ResolveInv, Remembers
<1>2. \A c, above : Reject(c, above) => UNCHANGED <<package, rust, cache>>
  BY DEF Reject
<1>3. CASE EnterRoot
  BY <1>1, <1>2, <1>3, RootEntered, EnterResolved
<1>4. CASE EnterChild
  BY <1>1, <1>2, <1>4, ChildEntered, EnterResolved
<1>5. CASE Leave
  BY <1>5, LeaveResolved
<1>6. CASE UNCHANGED vars
  BY <1>1, <1>6 DEF vars
<1>7. QED
  BY <1>3, <1>4, <1>5, <1>6 DEF Next, Finished

LEMMA ParamsResolve ==
    ASSUME TypeInv, Coherent(package), ResolveInv
    PROVE  ClientParamsResolve
<1>1. SUFFICES ASSUME NEW c \in DOMAIN rust
               PROVE  /\ Field(rust[c].endpoint, FALSE) \in ToSet(rust[c].fields)
                      /\ \A i \in DOMAIN rust[c].reads :
                            LET op == rust[c].reads[i]
                            IN  /\ Field(op.field, op.optional) \in ToSet(rust[c].fields)
                                /\ op.kind = Tcgc(c).reads[i].kind /\ op.field = Tcgc(c).reads[i].field
  BY DEF ClientParamsResolve
<1>2. Resolved(c, rust[c]) /\ ReadsDone(c, rust[c]) /\ c \in Clients
  BY DEF ResolveInv, TypeInv
<1>3. ASSUME NEW i \in DOMAIN rust[c].reads
      PROVE  LET op == rust[c].reads[i]
             IN  /\ Field(op.field, op.optional) \in ToSet(rust[c].fields)
                 /\ op.kind = Tcgc(c).reads[i].kind /\ op.field = Tcgc(c).reads[i].field
  <2> DEFINE from == Tcgc(c).reads[i]
  <2>1. rust[c].reads \in Seq(Reads)
    BY DEF TypeInv, RustClients
  <2>2. i \in 1..Len(rust[c].reads) /\ Len(rust[c].reads) \in Nat
    BY <2>1, LenProperties
  <2>3. rust[c].reads[i] = ReadOf(from)
    BY <1>2, <2>2 DEF ReadsDone
  <2>4. from \in ToSet(Tcgc(c).reads)
    <3>1. i \in 1..Len(Tcgc(c).reads)
      BY <1>2, <2>2, ReadsTypedIn DEF ReadsDone
    <3>2. DOMAIN Tcgc(c).reads = 1..Len(Tcgc(c).reads)
      BY <1>2, ReadsTypedIn, LenProperties
    <3>3. QED
      BY <3>1, <3>2 DEF ToSet
  <2>5. PICK q \in MethodParamsIn(package, c) : q.name = from.field /\ IsOption(q) = from.optional
    BY <1>2, <2>4 DEF Coherent, ReadsFit, Clients, Tcgc
  <2>6. Field(from.field, from.optional) \in ToSet(rust[c].fields)
    BY <1>2, <2>5 DEF Resolved
  <2>7. ReadOf(from).field = from.field /\ ReadOf(from).optional = from.optional /\ ReadOf(from).kind = from.kind
    BY DEF ReadOf
  <2>8. QED
    BY <2>3, <2>6, <2>7
<1>4. QED
  BY <1>2, <1>3 DEF Resolved

\* However deep the client, whatever its parents have by another name and whichever
\* operation was first with a parameter of that name: what its methods read is a
\* field of it, and sent where the operation has it.
THEOREM ClientParamsAreFields == Spec /\ Coherent(package) => []ClientParamsResolve
<1>1. Init => ResolveInv
  BY DEF Init, ResolveInv, Empty, Remembers
<1>2. TypeInv /\ Coherent(package) /\ ResolveInv /\ [Next]_vars => ResolveInv'
  BY NextResolved
<1>3. Coherent(package) /\ [Next]_vars => Coherent(package)'
  BY PackageStays
<1>4. TypeInv /\ Coherent(package) /\ ResolveInv => ClientParamsResolve
  BY ParamsResolve
<1>5. QED
  BY <1>1, <1>2, <1>3, <1>4, WellTyped, PTL DEF Spec

----------------------------------------------------------------------------
(* Sequences without duplicates. *)

LEMMA InjectiveConcat ==
    ASSUME NEW S, NEW s \in Seq(S), NEW t \in Seq(S), IsInjective(s), IsInjective(t),
           ToSet(s) \cap ToSet(t) = {}
    PROVE  IsInjective(s \o t)
<1> DEFINE u == s \o t
           m == Len(s)
           n == Len(t)
<1>1. m \in Nat /\ n \in Nat /\ DOMAIN s = 1..m /\ DOMAIN t = 1..n
  BY LenProperties
<1>2. /\ u \in Seq(S) /\ Len(u) = m + n
      /\ \A i \in 1..(m + n) : u[i] = IF i <= m THEN s[i] ELSE t[i - m]
  BY ConcatProperties
<1>3. DOMAIN u = 1..(m + n)
  BY <1>2, LenProperties
<1> HIDE DEF u
<1>4. ASSUME NEW i \in 1..(m + n), NEW j \in 1..(m + n), u[i] = u[j]
      PROVE  i = j
  <2>1. CASE i <= m /\ j <= m
    <3>1. i \in 1..m /\ j \in 1..m /\ s[i] = s[j]
      BY <1>1, <1>2, <1>4, <2>1
    <3>2. QED
      BY <1>1, <3>1 DEF IsInjective
  <2>2. CASE ~(i <= m) /\ ~(j <= m)
    <3>1. i - m \in 1..n /\ j - m \in 1..n /\ t[i - m] = t[j - m]
      BY <1>1, <1>2, <1>4, <2>2
    <3>2. i - m = j - m
      BY <1>1, <3>1 DEF IsInjective
    <3>3. QED
      BY <1>1, <3>2
  <2>3. ASSUME NEW k \in 1..m, NEW l \in 1..n, s[k] = t[l]
        PROVE  FALSE
    <3>1. s[k] \in ToSet(s) /\ t[l] \in ToSet(t)
      BY <1>1 DEF ToSet
    <3>2. QED
      BY <2>3, <3>1
  <2>4. CASE i <= m /\ ~(j <= m)
    <3>1. i \in 1..m /\ j - m \in 1..n /\ s[i] = t[j - m]
      BY <1>1, <1>2, <1>4, <2>4
    <3>2. QED
      BY <2>3, <3>1
  <2>5. CASE ~(i <= m) /\ j <= m
    <3>1. j \in 1..m /\ i - m \in 1..n /\ s[j] = t[i - m]
      BY <1>1, <1>2, <1>4, <2>5
    <3>2. QED
      BY <2>3, <3>1
  <2>6. QED
    BY <2>1, <2>2, <2>4, <2>5
<1>5. QED
  BY <1>3, <1>4 DEF IsInjective, u

LEMMA InjectiveFlattened ==
    ASSUME NEW S, NEW n \in Nat, NEW ss \in [1..n -> Seq(S)],
           \A i \in 1..n : IsInjective(ss[i]),
           \A i, j \in 1..n : i # j => ToSet(ss[i]) \cap ToSet(ss[j]) = {}
    PROVE  IsInjective(FlattenSeq(ss))
<1>1. Len(ss) = n
  OBVIOUS
<1>2. CASE n = 0
  <2>1. FlattenSeq(ss) = <<>>
    BY <1>1, <1>2 DEF FlattenSeq
  <2>2. QED
    BY <2>1 DEF IsInjective
<1>3. CASE n # 0
  <2>1. PICK f : IsFlattening(f, ss, n) /\ FlattenSeq(ss) = f[n]
    BY <1>1, <1>3, FlattenIs
  <2>2. \A i \in 1..n : f[i] = IF i = 1 THEN ss[i] ELSE f[i - 1] \o ss[i]
    BY <2>1 DEF IsFlattening
  <2> DEFINE P(m) == m \in 1..n => /\ f[m] \in Seq(S) /\ IsInjective(f[m])
                                  /\ \A x : x \in ToSet(f[m]) <=> \E i \in 1..m : x \in ToSet(ss[i])
             T == {m \in Nat : P(m)}
  <2>3. 0 \in T
    OBVIOUS
  <2>4. ASSUME NEW m \in Nat, m \in T
        PROVE  m + 1 \in T
    <3>1. SUFFICES ASSUME m + 1 \in 1..n
                   PROVE  /\ f[m + 1] \in Seq(S) /\ IsInjective(f[m + 1])
                          /\ \A x : x \in ToSet(f[m + 1]) <=> \E i \in 1..(m + 1) : x \in ToSet(ss[i])
      OBVIOUS
    <3>2. ss[m + 1] \in Seq(S) /\ IsInjective(ss[m + 1])
      BY <3>1
    <3>3. CASE m = 0
      <4>1. f[m + 1] = ss[m + 1] /\ m + 1 = 1
        BY <2>2, <3>1, <3>3
      <4>2. \A i \in 1..(m + 1) : i = m + 1
        BY <3>3
      <4>3. QED
        BY <3>2, <4>1, <4>2
    <3>4. CASE m # 0
      <4>1. m \in 1..n /\ (m + 1) - 1 = m /\ m + 1 # 1
        BY <3>1, <3>4
      <4>2. f[m + 1] = f[m] \o ss[m + 1]
        BY <2>2, <3>1, <4>1
      <4>3. /\ f[m] \in Seq(S) /\ IsInjective(f[m])
            /\ \A x : x \in ToSet(f[m]) <=> \E i \in 1..m : x \in ToSet(ss[i])
        BY <2>4, <4>1
      <4>4. f[m + 1] \in Seq(S) /\ ToSet(f[m + 1]) = ToSet(f[m]) \cup ToSet(ss[m + 1])
        BY <3>2, <4>2, <4>3, ConcatSet
      <4>5. \A i : i \in 1..(m + 1) <=> i \in 1..m \/ i = m + 1
        OBVIOUS
      <4>6. \A i \in 1..m : i \in 1..n /\ i # m + 1
        BY <4>1
      <4>7. ToSet(f[m]) \cap ToSet(ss[m + 1]) = {}
        <5>1. \A i \in 1..m : ToSet(ss[i]) \cap ToSet(ss[m + 1]) = {}
          BY <3>1, <4>6
        <5>2. QED
          BY <4>3, <5>1
      <4>8. IsInjective(f[m + 1])
        BY <3>2, <4>2, <4>3, <4>7, InjectiveConcat
      <4>9. QED
        BY <4>3, <4>4, <4>5, <4>8
    <3>5. QED
      BY <3>3, <3>4
  <2>5. Nat \subseteq T
    <3> HIDE DEF T
    <3>1. QED
      BY <2>3, <2>4, SetInduction
  <2>6. P(n)
    BY <2>5
  <2>7. QED
    BY <1>3, <2>1, <2>6
<1>4. QED
  BY <1>2, <1>3

LEMMA InjectiveOne == ASSUME NEW x PROVE IsInjective(<<x>>) /\ ToSet(<<x>>) = {x}
BY DEF IsInjective, ToSet

LEMMA InjectiveNone == IsInjective(<<>>) /\ ToSet(<<>>) = {}
BY DEF IsInjective, ToSet

LEMMA InjectiveSelected ==
    ASSUME NEW S, NEW s \in Seq(S), NEW U, IsInjective(s)
    PROVE  IsInjective(FlattenSeq([i \in DOMAIN s |-> IF s[i] \in U THEN <<s[i]>> ELSE <<>>]))
<1> DEFINE n == Len(s)
           ss == [i \in DOMAIN s |-> IF s[i] \in U THEN <<s[i]>> ELSE <<>>]
<1>1. n \in Nat /\ DOMAIN s = 1..n /\ \A i \in 1..n : s[i] \in S
  BY LenProperties, ElementOfSeq
<1>2. ASSUME NEW i \in 1..n
      PROVE  ss[i] \in Seq(S) /\ IsInjective(ss[i]) /\ ToSet(ss[i]) \subseteq {s[i]}
  <2>1. ss[i] = IF s[i] \in U THEN <<s[i]>> ELSE <<>>
    BY <1>1
  <2>2. <<s[i]>> \in Seq(S) /\ <<>> \in Seq(S)
    BY <1>1, Singleton, EmptySeq
  <2>3. QED
    BY <2>1, <2>2, InjectiveOne, InjectiveNone
<1>3. ss \in [1..n -> Seq(S)]
  BY <1>1, <1>2
<1>4. \A i, j \in 1..n : i # j => s[i] # s[j]
  BY <1>1 DEF IsInjective
<1> HIDE DEF ss
<1>5. \A i, j \in 1..n : i # j => ToSet(ss[i]) \cap ToSet(ss[j]) = {}
  BY <1>2, <1>4
<1>6. \A i \in 1..n : IsInjective(ss[i])
  BY <1>2
<1>7. IsInjective(FlattenSeq(ss))
  BY <1>1, <1>3, <1>5, <1>6, InjectiveFlattened
<1>8. QED
  BY <1>7 DEF ss

\* The elements of a sequence without duplicates are as many as it is long.
LEMMA Counting ==
    ASSUME NEW s, Len(s) \in Nat, DOMAIN s = 1..Len(s), IsInjective(s)
    PROVE  IsFiniteSet(ToSet(s)) /\ Cardinality(ToSet(s)) = Len(s)
<1> DEFINE n == Len(s)
           g == [i \in 1..n |-> s[i]]
<1>1. ToSet(s) = {s[i] : i \in 1..n}
  BY DEF ToSet
<1>2. g \in [1..n -> ToSet(s)]
  BY <1>1
<1>3. \A i, j \in 1..n : s[i] = s[j] => i = j
  BY DEF IsInjective
<1>4. g \in Injection(1..n, ToSet(s))
  BY <1>2, <1>3 DEF Injection, IsInjective
<1>5. g \in Surjection(1..n, ToSet(s))
  BY <1>1, <1>2 DEF Surjection
<1>6. ExistsBijection(1..n, ToSet(s))
  BY <1>4, <1>5 DEF ExistsBijection, Bijection
<1>7. QED
  BY <1>6, FS_NatBijection, FS_CountingElements

----------------------------------------------------------------------------
(* What a constructor initialises. *)

OneName(S) == \A x, y \in S : x.name = y.name => x = y

\* A sequence in which each element has a name of its own.
Apart(s) == IsInjective(s) /\ OneName(ToSet(s))

\* The fields of a client are initialised, once each, by what is in inits.
LEMMA InitialisesIf ==
    ASSUME NEW c, rust[c].fields \in Seq(Fields), Apart(rust[c].fields),
           NEW inits \in Seq(Fields), IsInjective(inits), ToSet(inits) = ToSet(rust[c].fields)
    PROVE  Initialises(inits, c)
<1> DEFINE fields == rust[c].fields
           n == Len(fields)
           names == [i \in 1..n |-> fields[i].name]
<1>1. n \in Nat /\ DOMAIN fields = 1..n /\ Len(inits) \in Nat /\ DOMAIN inits = 1..Len(inits)
  BY LenProperties
<1> HIDE DEF fields
<1>2. IsInjective(fields) /\ OneName(ToSet(fields)) /\ ToSet(inits) = ToSet(fields)
  BY DEF Apart, fields
<1>3. Cardinality(ToSet(fields)) = n /\ Cardinality(ToSet(inits)) = Len(inits)
  BY <1>1, <1>2, Counting
<1>4. DOMAIN names = 1..n /\ \A i \in 1..n : names[i] = fields[i].name
  OBVIOUS
<1>5. Len(names) = n
  BY <1>1
<1>6. \A i \in 1..n : fields[i] \in ToSet(fields)
  BY <1>1 DEF ToSet
<1> HIDE DEF names, n
<1>7. ASSUME NEW i \in 1..n, NEW j \in 1..n, names[i] = names[j]
      PROVE  i = j
  <2>1. fields[i] = fields[j]
    BY <1>2, <1>4, <1>6, <1>7 DEF OneName
  <2>2. QED
    BY <1>1, <1>2, <2>1 DEF IsInjective
<1>8. IsInjective(names)
  BY <1>4, <1>7 DEF IsInjective
<1>9. Cardinality(ToSet(names)) = n
  BY <1>1, <1>4, <1>5, <1>8, Counting
<1>10. ToSet(names) = Names(fields)
  BY <1>1, <1>4 DEF ToSet, Names
<1>11. QED
  BY <1>2, <1>3, <1>9, <1>10 DEF Initialises, fields, n

\* The parameters that a constructor puts into fields.
Counted(p) == p.kind \in {"endpoint", "method"}

\* Each field has a parameter, and each parameter a field: of its own, or that of an option.
Matched(F, O, P) ==
    /\ \A f \in F : \E p \in P : Counted(p) /\ p.name = f.name
    /\ \A p \in P : Counted(p) => IF p.optional THEN \E o \in O : o.name = p.name /\ o \in F
                                  ELSE Field(p.name, FALSE) \in F

\* The fields but for the pipeline.
Given(r) == ToSet(r.fields) \ {Pipeline}

\* The parameters of a constructor are those of the fields.
Fits(r, params) ==
    /\ Apart(r.fields) /\ Pipeline \in ToSet(r.fields) /\ Apart(r.options)
    /\ IsInjective(params) /\ OneName({p \in ToSet(params) : Counted(p)})
    /\ Matched(Given(r), ToSet(r.options), ToSet(params))

\* The options of one name, of which there is one.
LEMMA OptionOfIs ==
    ASSUME NEW c, rust[c].options \in Seq(Fields), Apart(rust[c].options), NEW o \in ToSet(rust[c].options)
    PROVE  /\ OptionOf(c, o.name) \in Seq(Fields) /\ IsInjective(OptionOf(c, o.name))
           /\ ToSet(OptionOf(c, o.name)) = {o}
<1> DEFINE s == rust[c].options
           U == {f \in Fields : f.name = o.name}
           t == FlattenSeq([i \in DOMAIN s |-> IF s[i] \in U THEN <<s[i]>> ELSE <<>>])
<1>1. \A i \in DOMAIN s : s[i] \in Fields
  BY LenProperties, ElementOfSeq
<1>2. [i \in DOMAIN s |-> IF s[i].name = o.name THEN <<s[i]>> ELSE <<>>]
          = [i \in DOMAIN s |-> IF s[i] \in U THEN <<s[i]>> ELSE <<>>]
  BY <1>1
<1>3. OptionOf(c, o.name) = t
  BY <1>2 DEF OptionOf, Filtered, Collected
<1>4. \A x \in ToSet(s) : x \in Fields
  BY <1>1 DEF ToSet
<1>5. \A x \in ToSet(s) : x \in U <=> x = o
  BY <1>4 DEF Apart, OneName
<1> HIDE DEF U
<1>6. t \in Seq(Fields) /\ ToSet(t) = ToSet(s) \cap U
  BY Selected
<1>7. IsInjective(t)
  BY InjectiveSelected DEF Apart
<1> HIDE DEF t
<1>8. QED
  BY <1>3, <1>5, <1>6, <1>7

\* What the body of a constructor has for a parameter.
InitOf(c, p) == IF p.kind \in {"template", "credential"} THEN <<>>
               ELSE IF p.optional THEN OptionOf(c, p.name) ELSE <<Field(p.name, FALSE)>>

LEMMA InitOfParam ==
    ASSUME NEW c, rust[c] \in RustClients, NEW params \in Seq(CtorParams), Fits(rust[c], params),
           NEW p \in ToSet(params)
    PROVE  /\ InitOf(c, p) \in Seq(Fields) /\ IsInjective(InitOf(c, p))
           /\ ToSet(InitOf(c, p)) = {x \in Given(rust[c]) : Counted(p) /\ x.name = p.name}
<1> DEFINE r == rust[c]
           F == Given(r)
<1>1. p \in CtorParams
  BY LenProperties, ElementOfSeq DEF ToSet
<1>2. /\ p.name \in RustNames /\ p.optional \in BOOLEAN
      /\ p.kind \in {"endpoint", "template", "method", "credential"}
  BY <1>1 DEF CtorParams, ParamsOf
<1>3. p.kind \in {"template", "credential"} <=> ~Counted(p)
  BY <1>2 DEF Counted
<1>4. /\ OneName(ToSet(r.fields)) /\ Apart(r.options)
      /\ Matched(F, ToSet(r.options), ToSet(params))
  BY DEF Fits, Apart
<1>5. \A x, y \in F : x.name = y.name => x = y
  BY <1>4 DEF Given, OneName
<1>6. r.options \in Seq(Fields)
  BY DEF RustClients
<1> HIDE DEF F
<1>7. CASE ~Counted(p)
  <2>1. InitOf(c, p) = <<>>
    BY <1>3, <1>7 DEF InitOf
  <2>2. QED
    BY <1>7, <2>1, InjectiveNone, EmptySeq DEF F
<1>8. CASE Counted(p) /\ p.optional
  <2>1. PICK o \in ToSet(r.options) : o.name = p.name /\ o \in F
    BY <1>4, <1>8 DEF Matched
  <2>2. InitOf(c, p) = OptionOf(c, o.name)
    BY <1>3, <1>8, <2>1 DEF InitOf
  <2>3. /\ OptionOf(c, o.name) \in Seq(Fields) /\ IsInjective(OptionOf(c, o.name))
        /\ ToSet(OptionOf(c, o.name)) = {o}
    BY <1>4, <1>6, OptionOfIs
  <2>4. {x \in F : Counted(p) /\ x.name = p.name} = {o}
    BY <1>5, <1>8, <2>1
  <2>5. QED
    BY <2>2, <2>3, <2>4 DEF F
<1>9. CASE Counted(p) /\ ~p.optional
  <2> DEFINE x == Field(p.name, FALSE)
  <2>1. x \in F
    BY <1>4, <1>8, <1>9 DEF Matched
  <2>2. x.name = p.name /\ x \in Fields
    <3>1. FALSE \in BOOLEAN
      OBVIOUS
    <3>2. QED
      BY <1>2, <3>1, FieldParts, FieldTyped
  <2>3. InitOf(c, p) = <<x>>
    BY <1>3, <1>9 DEF InitOf
  <2> HIDE DEF x
  <2>4. {y \in F : Counted(p) /\ y.name = p.name} = {x}
    BY <1>5, <1>9, <2>1, <2>2
  <2>5. QED
    BY <2>2, <2>3, <2>4, Singleton, InjectiveOne DEF F
<1>10. QED
  BY <1>7, <1>8, <1>9

LEMMA BodyInitialises ==
    ASSUME NEW c, rust[c] \in RustClients, NEW params \in Seq(CtorParams), Fits(rust[c], params)
    PROVE  Initialises(ConstructorBody(c, params), c)
<1> DEFINE r == rust[c]
           F == Given(r)
           n == Len(params)
           ss == [i \in DOMAIN params |-> InitOf(c, params[i])]
           rest == FlattenSeq(ss)
           inits == <<Pipeline>> \o rest
<1>1. n \in Nat /\ DOMAIN params = 1..n /\ \A i \in 1..n : params[i] \in ToSet(params)
  BY LenProperties DEF ToSet
<1>2. \A i \in 1..n : /\ InitOf(c, params[i]) \in Seq(Fields) /\ IsInjective(InitOf(c, params[i]))
                      /\ ToSet(InitOf(c, params[i])) = {x \in F : Counted(params[i]) /\ x.name = params[i].name}
  BY <1>1, InitOfParam
<1>3. ss \in [1..n -> Seq(Fields)] /\ \A i \in 1..n : ss[i] = InitOf(c, params[i])
  BY <1>1, <1>2
<1>4. ConstructorBody(c, params) = inits
  BY DEF ConstructorBody, Collected, InitOf
<1>5. /\ r.fields \in Seq(Fields) /\ Apart(r.fields) /\ Pipeline \in ToSet(r.fields)
      /\ IsInjective(params) /\ OneName({p \in ToSet(params) : Counted(p)})
      /\ Matched(F, ToSet(r.options), ToSet(params))
  BY DEF Fits, RustClients
<1>6. Pipeline \in Fields
  <2>1. <<"pipeline">> \in RustNames /\ FALSE \in BOOLEAN
    BY DEF RustNames
  <2>2. QED
    BY <2>1, FieldTyped DEF Pipeline
<1>7. Pipeline \notin F /\ ToSet(r.fields) = F \cup {Pipeline}
  BY <1>5 DEF Given
<1> HIDE DEF ss, F
<1>8. ASSUME NEW i \in 1..n, NEW j \in 1..n, i # j, NEW x, x \in ToSet(ss[i]), x \in ToSet(ss[j])
      PROVE  FALSE
  <2>1. /\ Counted(params[i]) /\ Counted(params[j]) /\ params[i].name = params[j].name
    BY <1>2, <1>3, <1>8
  <2>2. params[i] = params[j]
    BY <1>1, <1>5, <2>1 DEF OneName
  <2>3. QED
    BY <1>1, <1>5, <1>8, <2>2 DEF IsInjective
<1>9. /\ rest \in Seq(Fields) /\ IsInjective(rest)
      /\ \A x : x \in ToSet(rest) <=> \E i \in 1..n : x \in ToSet(ss[i])
  <2>1. \A i \in 1..n : IsInjective(ss[i])
    BY <1>2, <1>3
  <2>2. \A i, j \in 1..n : i # j => ToSet(ss[i]) \cap ToSet(ss[j]) = {}
    BY <1>8
  <2>3. IsInjective(rest)
    BY <1>1, <1>3, <2>1, <2>2, InjectiveFlattened
  <2>4. QED
    BY <1>1, <1>3, <2>3, Flattened
<1> HIDE DEF rest
<1>10. \A x : x \in ToSet(rest) => x \in F
  BY <1>2, <1>3, <1>9
<1>11. ASSUME NEW x \in F
       PROVE  x \in ToSet(rest)
  <2>1. PICK p \in ToSet(params) : Counted(p) /\ p.name = x.name
    BY <1>5 DEF Matched
  <2>2. PICK i \in 1..n : p = params[i]
    BY <1>1 DEF ToSet
  <2>3. x \in ToSet(ss[i])
    BY <1>2, <1>3, <2>1, <2>2
  <2>4. QED
    BY <1>9, <2>3
<1>12. ToSet(rest) = F
  BY <1>10, <1>11
<1>13. <<Pipeline>> \in Seq(Fields) /\ IsInjective(<<Pipeline>>) /\ ToSet(<<Pipeline>>) = {Pipeline}
  BY <1>6, Singleton, InjectiveOne
<1>14. inits \in Seq(Fields) /\ ToSet(inits) = ToSet(r.fields)
  <2> DEFINE one == <<Pipeline>>
  <2>3. one \in Seq(Fields) /\ rest \in Seq(Fields) /\ inits = one \o rest
    BY <1>9, <1>13
  <2> HIDE DEF one, inits
  <2>4. inits \in Seq(Fields) /\ ToSet(inits) = ToSet(one) \cup ToSet(rest)
    BY <2>3, ConcatSet
  <2>1. inits \in Seq(Fields) /\ ToSet(inits) = ToSet(<<Pipeline>>) \cup ToSet(rest)
    BY <2>4 DEF one
  <2>2. QED
    BY <1>7, <1>12, <1>13, <2>1
<1>15. IsInjective(inits)
  BY <1>7, <1>9, <1>12, <1>13, InjectiveConcat
<1> HIDE DEF inits
<1>16. Initialises(inits, c)
  BY <1>5, <1>14, <1>15, InitialisesIf
<1>17. QED
  BY <1>4, <1>16

----------------------------------------------------------------------------
(* What is added to a client, for a parameter of its own or for an         *)
(* api-version of a sub-client.                                            *)

Added(fs, os, cs, V) ==
    /\ fs \in Seq(Fields) /\ os \in Seq(Fields) /\ cs \in Seq(ClientParams)
    /\ Apart(fs) /\ Apart(os) /\ Apart(cs)
    /\ Matched(ToSet(fs), ToSet(os), ToSet(cs))
    /\ \A x \in ToSet(fs) \cup ToSet(os) \cup ToSet(cs) : x.name \in V
    /\ \A x \in ToSet(fs) : x.name # Pipeline.name

LEMMA ApartOne == ASSUME NEW x PROVE Apart(<<x>>) /\ ToSet(<<x>>) = {x}
<1>1. IsInjective(<<x>>) /\ ToSet(<<x>>) = {x}
  BY InjectiveOne
<1>2. OneName({x})
  BY DEF OneName
<1>3. QED
  BY <1>1, <1>2 DEF Apart

LEMMA ApartConcat ==
    ASSUME NEW S, NEW s \in Seq(S), NEW t \in Seq(S), Apart(s), Apart(t),
           \A x \in ToSet(s), y \in ToSet(t) : x.name # y.name
    PROVE  s \o t \in Seq(S) /\ Apart(s \o t)
<1>1. ToSet(s) \cap ToSet(t) = {}
  OBVIOUS
<1>2. IsInjective(s \o t)
  BY <1>1, InjectiveConcat DEF Apart
<1>3. s \o t \in Seq(S) /\ ToSet(s \o t) = ToSet(s) \cup ToSet(t)
  BY ConcatSet
<1>4. OneName(ToSet(s \o t))
  BY <1>3 DEF Apart, OneName
<1>5. QED
  BY <1>2, <1>3, <1>4 DEF Apart

LEMMA MatchedUnion ==
    ASSUME NEW F, NEW O, NEW P, NEW G, NEW Q, NEW R, Matched(F, O, P), Matched(G, Q, R)
    PROVE  Matched(F \cup G, O \cup Q, P \cup R)
BY DEF Matched

\* A client q that is r with more fields, options and parameters, which r does not have.
Extends(q, r, params, fs, os, cs, V) ==
    /\ r.fields \in Seq(Fields) /\ r.options \in Seq(Fields) /\ params \in Seq(CtorParams)
    /\ Fits(r, params) /\ Added(fs, os, cs, V)
    /\ \A x \in Given(r) \cup ToSet(r.options) : x.name \notin V
    /\ \A p \in ToSet(params) : Counted(p) => p.name \notin V
    /\ ToSet(params) \cap ToSet(cs) = {}
    /\ q.fields = r.fields \o fs /\ q.options = r.options \o os

LEMMA FitsWith ==
    ASSUME NEW q, NEW r, NEW params, NEW fs, NEW os, NEW cs, NEW V, Extends(q, r, params, fs, os, cs, V)
    PROVE  /\ Fits(q, params \o cs) /\ params \o cs \in Seq(CtorParams)
           /\ Given(q) = Given(r) \cup ToSet(fs) /\ ToSet(q.options) = ToSet(r.options) \cup ToSet(os)
           /\ ToSet(params \o cs) = ToSet(params) \cup ToSet(cs)
<1>0. /\ r.fields \in Seq(Fields) /\ r.options \in Seq(Fields) /\ params \in Seq(CtorParams)
      /\ Fits(r, params) /\ Added(fs, os, cs, V)
      /\ \A x \in Given(r) \cup ToSet(r.options) : x.name \notin V
      /\ \A p \in ToSet(params) : Counted(p) => p.name \notin V
      /\ ToSet(params) \cap ToSet(cs) = {}
      /\ q.fields = r.fields \o fs /\ q.options = r.options \o os
  BY DEF Extends
<1>1. /\ fs \in Seq(Fields) /\ os \in Seq(Fields) /\ cs \in Seq(ClientParams)
      /\ Apart(fs) /\ Apart(os) /\ Apart(cs)
      /\ Matched(ToSet(fs), ToSet(os), ToSet(cs))
      /\ \A x \in ToSet(fs) : x.name \in V /\ x.name # Pipeline.name
      /\ \A x \in ToSet(os) : x.name \in V
      /\ \A x \in ToSet(cs) : x.name \in V
  BY <1>0 DEF Added
<1>2. /\ Apart(r.fields) /\ Pipeline \in ToSet(r.fields) /\ Apart(r.options)
      /\ IsInjective(params) /\ OneName({p \in ToSet(params) : Counted(p)})
      /\ Matched(Given(r), ToSet(r.options), ToSet(params))
  BY <1>0 DEF Fits
<1>3. cs \in Seq(CtorParams)
  BY <1>0, <1>1, NoCredentialIn
<1>4. /\ ToSet(q.fields) = ToSet(r.fields) \cup ToSet(fs)
      /\ ToSet(q.options) = ToSet(r.options) \cup ToSet(os)
  <2>1. ToSet(r.fields \o fs) = ToSet(r.fields) \cup ToSet(fs)
    BY <1>0, <1>1, ConcatSet
  <2>2. ToSet(r.options \o os) = ToSet(r.options) \cup ToSet(os)
    BY <1>0, <1>1, ConcatSet
  <2>3. QED
    BY <1>0, <2>1, <2>2
<1>5. params \o cs \in Seq(CtorParams) /\ ToSet(params \o cs) = ToSet(params) \cup ToSet(cs)
  BY <1>0, <1>3, ConcatSet
<1>6. Given(q) = Given(r) \cup ToSet(fs)
  <2>1. Pipeline \notin ToSet(fs)
    BY <1>0, <1>1
  <2>2. QED
    BY <1>0, <1>4, <2>1 DEF Given
<1>7. Apart(q.fields)
  <2>1. \A x \in ToSet(r.fields), y \in ToSet(fs) : x.name # y.name
    BY <1>0, <1>1 DEF Given
  <2>2. Apart(r.fields \o fs)
    BY <1>0, <1>1, <1>2, <2>1, ApartConcat
  <2>3. QED
    BY <1>0, <2>2
<1>8. Apart(q.options)
  <2>1. \A x \in ToSet(r.options), y \in ToSet(os) : x.name # y.name
    BY <1>0, <1>1
  <2>2. Apart(r.options \o os)
    BY <1>0, <1>1, <1>2, <2>1, ApartConcat
  <2>3. QED
    BY <1>0, <2>2
<1>9. IsInjective(params \o cs)
  BY <1>0, <1>1, <1>2, <1>3, InjectiveConcat DEF Apart
<1>10. OneName({p \in ToSet(params \o cs) : Counted(p)})
  <2>1. SUFFICES ASSUME NEW x \in ToSet(params) \cup ToSet(cs), NEW y \in ToSet(params) \cup ToSet(cs),
                        Counted(x), Counted(y), x.name = y.name
                 PROVE  x = y
    BY <1>0, <1>5 DEF OneName
  <2>2. CASE x \in ToSet(params) /\ y \in ToSet(params)
    BY <1>0, <1>2, <2>1, <2>2 DEF OneName
  <2>3. CASE x \in ToSet(cs) /\ y \in ToSet(cs)
    BY <1>0, <1>1, <2>1, <2>3 DEF Apart, OneName
  <2>4. QED
    BY <1>0, <1>1, <2>1, <2>2, <2>3
<1>11. Matched(Given(q), ToSet(q.options), ToSet(params \o cs))
  <2> DEFINE F == Given(r)
             O == ToSet(r.options)
             P == ToSet(params)
             G == ToSet(fs)
             Q == ToSet(os)
             R == ToSet(cs)
  <2>1. Matched(F, O, P) /\ Matched(G, Q, R)
    BY <1>0, <1>1, <1>2
  <2> HIDE DEF F, O, P, G, Q, R
  <2>2. Matched(F \cup G, O \cup Q, P \cup R)
    BY <1>0, <2>1, MatchedUnion
  <2>3. Given(q) = F \cup G /\ ToSet(q.options) = O \cup Q /\ ToSet(params \o cs) = P \cup R
    BY <1>0, <1>4, <1>5, <1>6 DEF F, O, P, G, Q, R
  <2>4. QED
    BY <1>0, <2>2, <2>3
<1>12. Pipeline \in ToSet(q.fields)
  BY <1>0, <1>2, <1>4
<1>13. QED
  BY <1>0, <1>4, <1>5, <1>6, <1>7, <1>8, <1>9, <1>10, <1>11, <1>12 DEF Fits

\* Several parameters, each under a name of its own.
LEMMA AdaptedApart ==
    ASSUME NEW n \in Nat, NEW ts, NEW ns \in [1..n -> RustNames], IsInjective(ns), NEW kind,
           \A i \in 1..n : ts[i].optional \in BOOLEAN /\ ts[i].default \in BOOLEAN
    PROVE  LET os == FlattenSeq([i \in 1..n |-> OptionFor(ts[i], ns[i])])
               cs == [i \in 1..n |-> ClientParam(ts[i], ns[i], kind)]
           IN  /\ Apart(os) /\ Apart(cs)
               /\ \A x : x \in ToSet(os) <=> \E i \in 1..n : /\ ts[i].optional \/ ts[i].default
                                                             /\ x = Field(ns[i], IsOption(ts[i]))
               /\ \A x : x \in ToSet(cs) <=> \E i \in 1..n : x = ClientParam(ts[i], ns[i], kind)
<1> DEFINE ss == [i \in 1..n |-> OptionFor(ts[i], ns[i])]
           os == FlattenSeq(ss)
           cs == [i \in 1..n |-> ClientParam(ts[i], ns[i], kind)]
           Set(i) == ts[i].optional \/ ts[i].default
           x(i) == Field(ns[i], IsOption(ts[i]))
<1>1. \A i, j \in 1..n : ns[i] = ns[j] => i = j
  BY DEF IsInjective
<1>2. \A i \in 1..n : x(i).name = ns[i] /\ ClientParam(ts[i], ns[i], kind).name = ns[i]
  BY DEF Field, ClientParam, Param
<1>3. \A i \in 1..n : x(i) \in Fields
  <2>1. \A i \in 1..n : IsOption(ts[i]) \in BOOLEAN /\ ns[i] \in RustNames
    BY DEF IsOption
  <2>2. QED
    BY <2>1, FieldTyped
<1>4. \A i \in 1..n : ss[i] = IF Set(i) THEN <<x(i)>> ELSE <<>>
  BY DEF OptionFor
<1> HIDE DEF x
<1>5. ASSUME NEW i \in 1..n
      PROVE  ss[i] \in Seq(Fields) /\ IsInjective(ss[i]) /\ \A y : y \in ToSet(ss[i]) <=> Set(i) /\ y = x(i)
  <2>1. <<x(i)>> \in Seq(Fields) /\ <<>> \in Seq(Fields)
    BY <1>3, Singleton, EmptySeq
  <2>2. QED
    BY <1>4, <2>1, InjectiveOne, InjectiveNone
<1>6. ss \in [1..n -> Seq(Fields)]
  BY <1>5
<1> HIDE DEF ss, Set
<1>7. ASSUME NEW i \in 1..n, NEW j \in 1..n, i # j, NEW y, y \in ToSet(ss[i]), y \in ToSet(ss[j])
      PROVE  FALSE
  <2>1. y = x(i) /\ y = x(j)
    BY <1>5, <1>7
  <2>2. x(i).name = ns[i] /\ x(j).name = ns[j]
    BY <1>2
  <2>3. ns[i] = ns[j]
    BY <2>1, <2>2
  <2>4. QED
    BY <1>1, <1>7, <2>3
<1>8. IsInjective(os)
  <2>1. \A i, j \in 1..n : i # j => ToSet(ss[i]) \cap ToSet(ss[j]) = {}
    BY <1>7
  <2>2. \A i \in 1..n : IsInjective(ss[i])
    BY <1>5
  <2>3. QED
    BY <1>6, <2>1, <2>2, InjectiveFlattened
<1>9. \A y : y \in ToSet(os) <=> \E i \in 1..n : y \in ToSet(ss[i])
  BY <1>6, Flattened
<1>10. \A y : y \in ToSet(os) <=> \E i \in 1..n : Set(i) /\ y = x(i)
  BY <1>5, <1>9
<1> HIDE DEF os
<1>11. Apart(os)
  BY <1>1, <1>2, <1>8, <1>10 DEF Apart, OneName
<1>12. DOMAIN cs = 1..n /\ \A i \in 1..n : cs[i] = ClientParam(ts[i], ns[i], kind)
  OBVIOUS
<1> HIDE DEF cs
<1>13. \A y : y \in ToSet(cs) <=> \E i \in 1..n : y = ClientParam(ts[i], ns[i], kind)
  BY <1>12 DEF ToSet
<1>14. Apart(cs)
  <2>1. IsInjective(cs)
    BY <1>1, <1>2, <1>12 DEF IsInjective
  <2>2. OneName(ToSet(cs))
    BY <1>1, <1>2, <1>13 DEF OneName
  <2>3. QED
    BY <2>1, <2>2 DEF Apart
<1>15. QED
  BY <1>10, <1>11, <1>13, <1>14 DEF os, cs, ss, Set, x

\* The names of the parameters in the template of an endpoint.
TemplateFits(p) ==
    p.kind = "endpoint" =>
        /\ \A i, j \in DOMAIN p.template : p.template[i].name = p.template[j].name => i = j
        /\ \A t \in ToSet(p.template) : t.name # p.field

LEMMA ParamParts ==
    ASSUME NEW name, NEW kind, NEW optional
    PROVE  /\ Param(name, kind, optional).name = name /\ Param(name, kind, optional).kind = kind
           /\ Param(name, kind, optional).optional = optional
BY DEF Param

LEMMA AddedFits ==
    ASSUME NEW p \in Parameters, TemplateFits(p), FieldName(p) # <<"pipeline">>
    PROVE  Added(FieldsFor(p), OptionsFor(p), ParamsFor(p), NamesOf(p))
<1>1. /\ FieldsFor(p) \in Seq(Fields) /\ OptionsFor(p) \in Seq(Fields) /\ ParamsFor(p) \in Seq(ClientParams)
  BY AddedTyped
<1>2. /\ p.kind \in {"endpoint", "credential", "method"} /\ p.template \in Seq(Templates)
      /\ p.optional \in BOOLEAN /\ p.default \in BOOLEAN /\ p.field \in RustNames
  BY ParameterFields
<1>3. Pipeline.name = <<"pipeline">>
  BY DEF Pipeline, Field
<1>4. CASE p.kind = "endpoint"
  <2> DEFINE ts == p.template
             n  == Len(ts)
             ns == [i \in 1..n |-> ts[i].name]
             d  == Field(p.field, FALSE)
             e  == Param(p.field, "endpoint", FALSE)
             os == FlattenSeq([i \in 1..n |-> OptionFor(ts[i], ns[i])])
             cs == [i \in 1..n |-> ClientParam(ts[i], ns[i], "template")]
  <2>1. n \in Nat /\ DOMAIN ts = 1..n /\ \A i \in 1..n : ts[i] \in Templates /\ ts[i] \in ToSet(ts)
    BY <1>2, LenProperties, ElementOfSeq DEF ToSet
  <2>2. /\ \A i, j \in 1..n : ts[i].name = ts[j].name => i = j
        /\ \A i \in 1..n : ts[i].name # p.field
    BY <1>4, <2>1 DEF TemplateFits
  <2>3. ns \in [1..n -> RustNames] /\ IsInjective(ns)
    BY <2>1, <2>2, TemplateFields DEF IsInjective
  <2>4. \A i \in 1..n : ts[i].optional \in BOOLEAN /\ ts[i].default \in BOOLEAN /\ ns[i] = ts[i].name
    BY <2>1, TemplateFields
  <2>5. FieldsFor(p) = <<d>> /\ OptionsFor(p) = os /\ ParamsFor(p) = <<e>> \o cs
    <3>1. [i \in DOMAIN ts |-> OptionFor(ts[i], ts[i].name)] = [i \in 1..n |-> OptionFor(ts[i], ns[i])]
      BY <2>1
    <3>2. [i \in DOMAIN ts |-> ClientParam(ts[i], ts[i].name, "template")] = cs
      BY <2>1
    <3>3. QED
      BY <1>4, <3>1, <3>2 DEF FieldsFor, OptionsFor, ParamsFor, Collected
  <2>6. cs \in Seq(ClientParams) /\ e \in ClientParams
    <3>1. [i \in DOMAIN ts |-> ClientParam(ts[i], ts[i].name, "template")] = cs
      BY <2>1
    <3>2. [i \in DOMAIN ts |-> ClientParam(ts[i], ts[i].name, "template")] \in Seq(ClientParams)
      BY <1>2, TemplateParamsTyped
    <3>3. FALSE \in BOOLEAN
      OBVIOUS
    <3>4. e \in ClientParams
      BY <1>2, <3>3, ParamTyped DEF ClientParams
    <3>5. QED
      BY <3>1, <3>2, <3>4
  <2> HIDE DEF ts, n, ns
  <2>7. /\ Apart(os) /\ Apart(cs)
        /\ \A x : x \in ToSet(os) <=> \E i \in 1..n : /\ ts[i].optional \/ ts[i].default
                                                      /\ x = Field(ns[i], IsOption(ts[i]))
        /\ \A x : x \in ToSet(cs) <=> \E i \in 1..n : x = ClientParam(ts[i], ns[i], "template")
    BY <2>1, <2>3, <2>4, AdaptedApart
  <2> HIDE DEF os, cs
  <2>8. /\ \A x \in ToSet(os) : \E i \in 1..n : x.name = ns[i]
        /\ \A x \in ToSet(cs) : x.kind = "template" /\ \E i \in 1..n : x.name = ns[i]
    BY <2>7, FieldParts, ParamParts DEF ClientParam
  <2>9. d.name = p.field /\ d.name # Pipeline.name
    BY <1>3, <1>4, FieldParts DEF FieldName
  <2>10. e.name = p.field /\ e.kind = "endpoint" /\ e.optional = FALSE
    BY DEF Param
  <2>11. /\ \A i \in 1..n : ns[i] \in NamesOf(p)
         /\ p.field \in NamesOf(p)
    BY <1>4, <2>1, <2>4 DEF NamesOf, ts
  <2> HIDE DEF e
  <2>12. Apart(<<e>>) /\ ToSet(<<e>>) = {e} /\ <<e>> \in Seq(ClientParams)
    BY <2>6, ApartOne, Singleton
  <2>13. Apart(<<e>> \o cs) /\ ToSet(<<e>> \o cs) = {e} \cup ToSet(cs)
    <3> DEFINE one == <<e>>
    <3>1. one \in Seq(ClientParams) /\ Apart(one) /\ ToSet(one) = {e}
      BY <2>12
    <3> HIDE DEF one
    <3>2. \A x \in ToSet(one), y \in ToSet(cs) : x.name # y.name
      BY <2>2, <2>4, <2>8, <2>10, <3>1
    <3>3. Apart(one \o cs)
      BY <2>6, <2>7, <3>1, <3>2, ApartConcat
    <3>4. ToSet(one \o cs) = ToSet(one) \cup ToSet(cs)
      BY <2>6, <3>1, ConcatSet
    <3>5. QED
      BY <3>1, <3>3, <3>4 DEF one
  <2>14. Field(e.name, FALSE) = d
    BY <2>10
  <2> HIDE DEF d
  <2>15. Apart(<<d>>) /\ ToSet(<<d>>) = {d}
    BY ApartOne
  <2>16. Matched({d}, ToSet(os), {e} \cup ToSet(cs))
    BY <2>8, <2>9, <2>10, <2>14 DEF Matched, Counted
  <2>17. \A x \in {d} \cup ToSet(os) \cup ({e} \cup ToSet(cs)) : x.name \in NamesOf(p)
    BY <2>8, <2>9, <2>10, <2>11
  <2>18. QED
    BY <1>1, <2>5, <2>7, <2>9, <2>13, <2>15, <2>16, <2>17 DEF Added
<1>5. CASE p.kind = "method" /\ ~Merged(p)
  <2> DEFINE d == Field(p.name, IsOption(p))
             e == ClientParam(p, p.name, "method")
             os == OptionFor(p, p.name)
  <2>1. FieldsFor(p) = <<d>> /\ OptionsFor(p) = os /\ ParamsFor(p) = <<e>>
    BY <1>5 DEF FieldsFor, OptionsFor, ParamsFor
  <2>2. d.name = p.name /\ d.name # Pipeline.name /\ p.name \in NamesOf(p)
    BY <1>3, <1>5, FieldParts DEF FieldName, NamesOf
  <2>3. e.name = p.name /\ e.kind = "method" /\ e.optional = (p.optional \/ p.default)
    BY ParamParts DEF ClientParam
  <2>4. os = IF p.optional \/ p.default THEN <<d>> ELSE <<>>
    BY DEF OptionFor
  <2>5. ~(p.optional \/ p.default) => Field(p.name, FALSE) = d
    <3>1. ~(p.optional \/ p.default) => IsOption(p) = FALSE
      BY DEF IsOption
    <3>2. QED
      BY <3>1
  <2> HIDE DEF d, e
  <2>6. Apart(<<d>>) /\ ToSet(<<d>>) = {d} /\ Apart(<<e>>) /\ ToSet(<<e>>) = {e}
    BY ApartOne
  <2>7. Apart(os) /\ ToSet(os) = IF p.optional \/ p.default THEN {d} ELSE {}
    <3>1. Apart(<<>>) /\ ToSet(<<>>) = {}
      BY InjectiveNone DEF Apart, OneName
    <3>2. QED
      BY <2>4, <2>6, <3>1
  <2> HIDE DEF os
  <2>8. Matched({d}, ToSet(os), {e})
    BY <2>2, <2>3, <2>5, <2>7 DEF Matched, Counted
  <2>9. QED
    BY <1>1, <2>1, <2>2, <2>3, <2>6, <2>7, <2>8 DEF Added
<1>6. CASE ~(p.kind = "endpoint") /\ ~(p.kind = "method" /\ ~Merged(p))
  <2>1. FieldsFor(p) = <<>> /\ OptionsFor(p) = <<>> /\ ParamsFor(p) = <<>>
    BY <1>6 DEF FieldsFor, OptionsFor, ParamsFor
  <2>2. Apart(<<>>) /\ ToSet(<<>>) = {}
    BY InjectiveNone DEF Apart, OneName
  <2>3. Matched({}, {}, {})
    BY DEF Matched
  <2>4. QED
    BY <1>1, <2>1, <2>2, <2>3 DEF Added
<1>7. QED
  BY <1>4, <1>5, <1>6

\* What a client has from its first k parameters.
NamedFrom(x, ps, k) == \E i \in 1..k : x.name \in NamesOf(ps[i])

LEMMA OwnFits ==
    ASSUME NEW r \in RustClients, r.fields = <<Pipeline>>, r.options = <<>>, r.params = <<>>,
           NEW ps \in Seq(Parameters),
           \A i \in 1..Len(ps) : TemplateFits(ps[i]) /\ FieldName(ps[i]) # <<"pipeline">>,
           \A i, j \in 1..Len(ps) : i # j => NamesOf(ps[i]) \cap NamesOf(ps[j]) = {}
    PROVE  LET q == WithOwnParams(r, ps)
           IN  /\ Fits(q, q.params)
               /\ \A x \in Given(q) \cup ToSet(q.options) \cup ToSet(q.params) : NamedFrom(x, ps, Len(ps))
               /\ (\E i \in 1..Len(ps) : ps[i].kind = "endpoint") => \E e \in ToSet(q.params) : e.kind = "endpoint"
<1> DEFINE n == Len(ps)
<1>1. n \in Nat /\ DOMAIN ps = 1..n /\ \A k \in 1..n : ps[k] \in Parameters
  BY LenProperties, ElementOfSeq
<1>2. PICK f : /\ f[0] = r /\ f[n] = WithOwnParams(r, ps)
               /\ \A k \in 1..n : f[k] = OwnParam(f[k - 1], ps[k])
  BY <1>1, OwnParamsFold
<1> DEFINE P(k) == /\ f[k] \in RustClients
                   /\ Fits(f[k], f[k].params)
                   /\ \A x \in Given(f[k]) \cup ToSet(f[k].options) \cup ToSet(f[k].params) : NamedFrom(x, ps, k)
                   /\ (\E i \in 1..k : ps[i].kind = "endpoint") => \E e \in ToSet(f[k].params) : e.kind = "endpoint"
           T == {k \in Nat : k <= n => P(k)}
<1>3. 0 \in T
  <2>1. /\ Apart(<<Pipeline>>) /\ ToSet(<<Pipeline>>) = {Pipeline}
        /\ ToSet(<<>>) = {} /\ IsInjective(<<>>)
    BY ApartOne, InjectiveNone
  <2>2. ToSet(r.fields) = {Pipeline} /\ ToSet(r.options) = {} /\ ToSet(r.params) = {} /\ Given(r) = {}
    BY <2>1 DEF Given
  <2>3. Fits(r, r.params)
    <3>1. Matched({}, {}, {}) /\ OneName({})
      BY DEF Matched, OneName
    <3>2. {p \in ToSet(r.params) : Counted(p)} = {}
      BY <2>2
    <3>3. Apart(r.options) /\ Apart(r.fields) /\ IsInjective(r.params)
      BY <2>1, <2>2, <3>1 DEF Apart
    <3>4. QED
      BY <2>2, <3>1, <3>2, <3>3 DEF Fits
  <2>4. QED
    BY <1>2, <2>2, <2>3
<1>4. ASSUME NEW k \in Nat, k \in T
      PROVE  k + 1 \in T
  <2>1. SUFFICES ASSUME k + 1 <= n
                 PROVE  P(k + 1)
    OBVIOUS
  <2>2. k + 1 \in 1..n /\ P(k) /\ (k + 1) - 1 = k /\ \A i \in 1..k : i \in 1..n /\ i # k + 1
    BY <1>1, <1>4, <2>1
  <2> DEFINE b == f[k]
             q == f[k + 1]
             p == ps[k + 1]
             fs == FieldsFor(p)
             os == OptionsFor(p)
             cs == ParamsFor(p)
             V == NamesOf(p)
  <2>3. q = OwnParam(b, p) /\ p \in Parameters /\ TemplateFits(p) /\ FieldName(p) # <<"pipeline">>
    BY <1>1, <1>2, <2>2
  <2>4. Added(fs, os, cs, V)
    BY <2>3, AddedFits
  <2>5. b \in RustClients /\ Fits(b, b.params)
    BY <2>2
  <2>6. q \in RustClients /\ q.fields = b.fields \o fs /\ q.options = b.options \o os /\ q.params = b.params \o cs
    <3>1. LET z == OwnParam(b, p)
          IN  /\ z \in RustClients /\ z.fields = b.fields \o fs
              /\ z.options = b.options \o os /\ z.params = b.params \o cs
      BY <2>3, <2>5, OwnParamIs
    <3>2. QED
      BY <2>3, <3>1
  <2>7. /\ b.fields \in Seq(Fields) /\ b.options \in Seq(Fields) /\ b.params \in Seq(CtorParams)
    BY <2>5, NoCredentialIn DEF RustClients
  <2>8. \A x : NamedFrom(x, ps, k) => x.name \notin V
    BY <2>2 DEF NamedFrom
  <2>9. \A x : NamedFrom(x, ps, k + 1) <=> NamedFrom(x, ps, k) \/ x.name \in V
    <3>1. \A i : i \in 1..(k + 1) <=> i \in 1..k \/ i = k + 1
      OBVIOUS
    <3>2. QED
      BY <3>1 DEF NamedFrom
  <2>10. /\ \A x \in Given(b) \cup ToSet(b.options) \cup ToSet(b.params) : NamedFrom(x, ps, k)
         /\ (\E i \in 1..k : ps[i].kind = "endpoint") => \E e \in ToSet(b.params) : e.kind = "endpoint"
    BY <2>2
  <2>11. \A x \in ToSet(fs) \cup ToSet(os) \cup ToSet(cs) : x.name \in V
    BY <2>4 DEF Added
  <2>12. p.kind = "endpoint" => \E e \in ToSet(cs) : e.kind = "endpoint"
    <3>1. SUFFICES ASSUME p.kind = "endpoint"
                   PROVE  \E e \in ToSet(cs) : e.kind = "endpoint"
      OBVIOUS
    <3> DEFINE e == Param(p.field, "endpoint", FALSE)
               us == [i \in DOMAIN p.template |-> ClientParam(p.template[i], p.template[i].name, "template")]
               one == <<e>>
    <3>2. cs = one \o us
      BY <3>1 DEF ParamsFor
    <3>3. us \in Seq(ClientParams) /\ e \in ClientParams
      <4>1. p.template \in Seq(Templates) /\ p.field \in RustNames /\ FALSE \in BOOLEAN
        BY <2>3, ParameterFields
      <4>2. QED
        BY <4>1, TemplateParamsTyped, ParamTyped DEF ClientParams
    <3>4. e.kind = "endpoint"
      BY DEF Param
    <3> HIDE DEF us, e
    <3>5. one \in Seq(ClientParams) /\ ToSet(one) = {e}
      BY <3>3, Singleton, ApartOne
    <3> HIDE DEF one
    <3>6. ToSet(one \o us) = ToSet(one) \cup ToSet(us)
      BY <3>3, <3>5, ConcatSet
    <3>7. QED
      BY <3>2, <3>4, <3>5, <3>6
  <2>13. (\E i \in 1..(k + 1) : ps[i].kind = "endpoint") => (\E i \in 1..k : ps[i].kind = "endpoint") \/ p.kind = "endpoint"
    <3>1. \A i \in 1..(k + 1) : i \in 1..k \/ i = k + 1
      OBVIOUS
    <3>2. QED
      BY <3>1
  <2> HIDE DEF b, q, p, fs, os, cs, V
  <2>14. /\ \A x \in Given(b) \cup ToSet(b.options) : x.name \notin V
         /\ \A x \in ToSet(b.params) : Counted(x) => x.name \notin V
         /\ ToSet(b.params) \cap ToSet(cs) = {}
    BY <2>8, <2>10, <2>11
  <2>15. /\ Fits(q, b.params \o cs)
         /\ Given(q) = Given(b) \cup ToSet(fs) /\ ToSet(q.options) = ToSet(b.options) \cup ToSet(os)
         /\ ToSet(b.params \o cs) = ToSet(b.params) \cup ToSet(cs)
    <3>1. Extends(q, b, b.params, fs, os, cs, V)
      BY <2>4, <2>5, <2>6, <2>7, <2>14 DEF Extends
    <3>2. QED
      BY <3>1, FitsWith
  <2>16. Fits(q, q.params) /\ ToSet(q.params) = ToSet(b.params) \cup ToSet(cs)
    BY <2>6, <2>15
  <2>17. \A x \in Given(q) \cup ToSet(q.options) \cup ToSet(q.params) : NamedFrom(x, ps, k + 1)
    BY <2>9, <2>10, <2>11, <2>15, <2>16
  <2>18. (\E i \in 1..(k + 1) : ps[i].kind = "endpoint") => \E e \in ToSet(q.params) : e.kind = "endpoint"
    BY <2>10, <2>12, <2>13, <2>16
  <2>19. QED
    BY <2>6, <2>16, <2>17, <2>18 DEF q
<1>5. n \in T
  <2> HIDE DEF T
  <2>1. QED
    BY <1>1, <1>3, <1>4, SetInduction
<1>6. P(n)
  BY <1>1, <1>5
<1>7. QED
  BY <1>2, <1>6

----------------------------------------------------------------------------
(* The parameters of the constructors. *)

\* A sequence that has an endpoint has one first.
Leads(params) == params # <<>> /\ params[1].kind = "endpoint"

LEMMA FirstOfConcat ==
    ASSUME NEW S, NEW s \in Seq(S), NEW t \in Seq(S), s # <<>>
    PROVE  s \o t # <<>> /\ (s \o t)[1] = s[1] /\ s[1] \in ToSet(s)
<1>1. Len(s) \in Nat /\ Len(t) \in Nat /\ DOMAIN s = 1..Len(s) /\ Len(s) # 0
  BY LenProperties, EmptySeq
<1>2. 1 \in 1..Len(s) /\ 1 \in 1..(Len(s) + Len(t)) /\ 1 <= Len(s)
  BY <1>1
<1>3. Len(s \o t) = Len(s) + Len(t) /\ (s \o t)[1] = s[1]
  BY <1>2, ConcatProperties
<1>4. s \o t # <<>>
  <2>1. Len(<<>>) = 0
    OBVIOUS
  <2>2. QED
    BY <1>1, <1>3, <2>1
<1>5. QED
  BY <1>1, <1>2, <1>3, <1>4 DEF ToSet

LEMMA SortedLeads ==
    ASSUME NEW params \in Seq(CtorParams), IsInjective(params), \E e \in ToSet(params) : e.kind = "endpoint"
    PROVE  /\ Sorted(params) \in Seq(CtorParams) /\ ToSet(Sorted(params)) = ToSet(params)
           /\ IsInjective(Sorted(params)) /\ Leads(Sorted(params))
<1> DEFINE E == {p \in CtorParams : p.kind = "endpoint"}
           C == {p \in CtorParams : p.kind = "credential"}
           O == {p \in CtorParams : p.kind \notin {"endpoint", "credential"}}
           e == Filtered(params, LAMBDA p : p.kind = "endpoint")
           c == Filtered(params, LAMBDA p : p.kind = "credential")
           o == Filtered(params, LAMBDA p : p.kind \notin {"endpoint", "credential"})
<1>1. \A i \in DOMAIN params : params[i] \in CtorParams
  BY ElementOfSeq, LenProperties
<1>2. e \in Seq(CtorParams) /\ ToSet(e) = ToSet(params) \cap E /\ IsInjective(e)
  <2>1. [i \in DOMAIN params |-> IF params[i].kind = "endpoint" THEN <<params[i]>> ELSE <<>>]
          = [i \in DOMAIN params |-> IF params[i] \in E THEN <<params[i]>> ELSE <<>>]
    BY <1>1
  <2> HIDE DEF E
  <2>2. QED
    BY <2>1, Selected, InjectiveSelected DEF Filtered, Collected
<1>3. c \in Seq(CtorParams) /\ ToSet(c) = ToSet(params) \cap C /\ IsInjective(c)
  <2>1. [i \in DOMAIN params |-> IF params[i].kind = "credential" THEN <<params[i]>> ELSE <<>>]
          = [i \in DOMAIN params |-> IF params[i] \in C THEN <<params[i]>> ELSE <<>>]
    BY <1>1
  <2> HIDE DEF C
  <2>2. QED
    BY <2>1, Selected, InjectiveSelected DEF Filtered, Collected
<1>4. o \in Seq(CtorParams) /\ ToSet(o) = ToSet(params) \cap O /\ IsInjective(o)
  <2>1. [i \in DOMAIN params |-> IF params[i].kind \notin {"endpoint", "credential"} THEN <<params[i]>> ELSE <<>>]
          = [i \in DOMAIN params |-> IF params[i] \in O THEN <<params[i]>> ELSE <<>>]
    BY <1>1
  <2> HIDE DEF O
  <2>2. QED
    BY <2>1, Selected, InjectiveSelected DEF Filtered, Collected
<1>5. E \cap C = {} /\ E \cap O = {} /\ C \cap O = {}
  OBVIOUS
<1>6. Sorted(params) = (e \o c) \o o
  BY DEF Sorted
<1>7. e # <<>>
  <2>1. PICK x \in ToSet(params) : x.kind = "endpoint"
    OBVIOUS
  <2>2. x \in CtorParams
    BY <1>1 DEF ToSet
  <2>3. x \in ToSet(e)
    BY <1>2, <2>1, <2>2
  <2> HIDE DEF e
  <2>4. QED
    BY <2>3, InjectiveNone
<1>8. \A x \in ToSet(e) : x.kind = "endpoint"
  BY <1>2
<1> DEFINE ec == e \o c
           all == ec \o o
<1> HIDE DEF e, c, o, E, C, O
<1>9. ec \in Seq(CtorParams) /\ ToSet(ec) = ToSet(e) \cup ToSet(c) /\ IsInjective(ec)
  <2>1. ToSet(e) \cap ToSet(c) = {}
    BY <1>2, <1>3, <1>5
  <2>2. QED
    BY <1>2, <1>3, <2>1, ConcatSet, InjectiveConcat
<1>10. ec # <<>> /\ ec[1] = e[1] /\ e[1] \in ToSet(e)
  BY <1>2, <1>3, <1>7, FirstOfConcat
<1> HIDE DEF ec
<1>11. IsInjective(all)
  <2>1. ToSet(ec) \cap ToSet(o) = {}
    BY <1>2, <1>3, <1>4, <1>5, <1>9
  <2>2. QED
    BY <1>4, <1>9, <2>1, InjectiveConcat
<1>12. all # <<>> /\ all[1] = ec[1]
  BY <1>4, <1>9, <1>10, FirstOfConcat
<1>13. Sorted(params) = all
  BY <1>6 DEF ec
<1> HIDE DEF all
<1>14. Leads(Sorted(params)) /\ IsInjective(Sorted(params))
  BY <1>8, <1>10, <1>11, <1>12, <1>13 DEF Leads
<1>15. QED
  BY <1>14, SortedIs

LEMMA FitsSame ==
    ASSUME NEW r, NEW q, q.fields = r.fields, q.options = r.options, NEW ps, NEW qs, Fits(r, ps),
           IsInjective(qs), {p \in ToSet(qs) : Counted(p)} = {p \in ToSet(ps) : Counted(p)}
    PROVE  Fits(q, qs)
<1>1. Given(q) = Given(r)
  BY DEF Given
<1>2. /\ Apart(q.fields) /\ Pipeline \in ToSet(q.fields) /\ Apart(q.options)
      /\ OneName({p \in ToSet(qs) : Counted(p)}) /\ Matched(Given(r), ToSet(r.options), ToSet(ps))
  BY DEF Fits
<1>3. \A p : p \in ToSet(qs) /\ Counted(p) <=> p \in ToSet(ps) /\ Counted(p)
  OBVIOUS
<1>4. Matched(Given(q), ToSet(q.options), ToSet(qs))
  BY <1>1, <1>2, <1>3 DEF Matched
<1>5. QED
  BY <1>2, <1>4 DEF Fits

LEMMA CtorFits ==
    ASSUME NEW r \in RustClients, Fits(r, r.params), \E e \in ToSet(r.params) : e.kind = "endpoint",
           NEW first \in {<<>>, <<Credential>>},
           NEW q, q.fields = r.fields, q.options = r.options
    PROVE  LET params == Sorted(first \o r.params)
           IN  /\ Fits(q, params) /\ Leads(params)
               /\ \A p \in ToSet(params) : Counted(p) => p \in ToSet(r.params)
<1> DEFINE ps == r.params
           all == first \o ps
<1>1. ps \in Seq(CtorParams) /\ (\A p \in ToSet(ps) : p.kind # "credential") /\ IsInjective(ps)
  BY NoCredentialIn DEF RustClients, Fits
<1>2. Credential \in CtorParams /\ Credential.kind = "credential"
  <2>1. <<"credential">> \in RustNames /\ FALSE \in BOOLEAN
    BY DEF RustNames
  <2>2. Credential \in CtorParams
    BY <2>1, ParamTyped DEF Credential, CtorParams
  <2>3. Credential.kind = "credential"
    BY DEF Credential, Param
  <2>4. QED
    BY <2>2, <2>3
<1>3. first \in Seq(CtorParams) /\ IsInjective(first) /\ \A p \in ToSet(first) : p.kind = "credential"
  <2>1. CASE first = <<>>
    BY <2>1, EmptySeq, InjectiveNone
  <2>2. CASE first = <<Credential>>
    BY <1>2, <2>2, Singleton, InjectiveOne
  <2>3. QED
    BY <2>1, <2>2
<1>4. all \in Seq(CtorParams) /\ ToSet(all) = ToSet(first) \cup ToSet(ps) /\ IsInjective(all)
  <2>1. ToSet(first) \cap ToSet(ps) = {}
    BY <1>1, <1>3
  <2>2. QED
    BY <1>1, <1>3, <2>1, ConcatSet, InjectiveConcat
<1> HIDE DEF all
<1>5. \E e \in ToSet(all) : e.kind = "endpoint"
  BY <1>4
<1>6. ToSet(Sorted(all)) = ToSet(all) /\ IsInjective(Sorted(all)) /\ Leads(Sorted(all))
  BY <1>4, <1>5, SortedLeads
<1> DEFINE qs == Sorted(all)
<1>7. \A p : p \in ToSet(qs) /\ Counted(p) <=> p \in ToSet(ps) /\ Counted(p)
  BY <1>3, <1>4, <1>6 DEF Counted
<1> HIDE DEF qs
<1>8. {p \in ToSet(qs) : Counted(p)} = {p \in ToSet(ps) : Counted(p)}
  BY <1>7
<1>9. Fits(q, qs)
  BY <1>6, <1>8, FitsSame DEF qs
<1>10. QED
  BY <1>6, <1>7, <1>9 DEF qs, all

----------------------------------------------------------------------------
(* The api-versions of sub-clients. *)

LEMMA VersionsApart ==
    ASSUME TypeInv, OnceEach(package), NEW c \in Clients, NEW parent
    PROVE  LET vs == Versions(c, parent)
           IN  /\ vs \in Seq(Parameters)
               /\ \A i, j \in 1..Len(vs) : vs[i].name = vs[j].name => i = j
               /\ \A i \in 1..Len(vs) : vs[i] \in ParamsIn(package, c) /\ vs[i].name \in VersionNames(package)
<1> DEFINE ps == Tcgc(c).params
           vs == Versions(c, parent)
           U  == {p \in Parameters : OwnVersion(c, parent, p)}
           t  == FlattenSeq([i \in DOMAIN ps |-> IF ps[i] \in U THEN <<ps[i]>> ELSE <<>>])
<1>1. ps \in Seq(Parameters)
  BY TcgcTyped DEF TypeInv
<1>2. \A i \in DOMAIN ps : ps[i] \in Parameters
  BY <1>1, ElementOfSeq, LenProperties
<1>3. \A i, j \in DOMAIN ps : i # j => NamesOf(ps[i]) \cap NamesOf(ps[j]) = {}
  BY DEF OnceEach, Clients, Tcgc
<1>4. \A q : NamesOf(q) # {}
  BY DEF NamesOf
<1>5. IsInjective(ps)
  BY <1>3, <1>4 DEF IsInjective
<1>6. vs = t
  <2>1. [i \in DOMAIN ps |-> IF OwnVersion(c, parent, ps[i]) THEN <<ps[i]>> ELSE <<>>]
          = [i \in DOMAIN ps |-> IF ps[i] \in U THEN <<ps[i]>> ELSE <<>>]
    BY <1>2
  <2>2. QED
    BY <2>1 DEF Versions, Filtered, Collected
<1> HIDE DEF ps, U
<1>7. IsInjective(t)
  BY <1>1, <1>5, InjectiveSelected
<1> HIDE DEF t
<1>8. vs \in Seq(Parameters) /\ \A p : p \in ToSet(vs) <=> p \in ToSet(ps) /\ OwnVersion(c, parent, p)
  BY <1>1, VersionsAre DEF ps
<1> HIDE DEF vs
<1>9. DOMAIN vs = 1..Len(vs) /\ \A i \in 1..Len(vs) : vs[i] \in ToSet(vs)
  BY <1>8, LenProperties DEF ToSet
<1>10. \A p \in ToSet(vs) : NamesOf(p) = {p.name}
  BY <1>8 DEF OwnVersion, NamesOf
<1>11. ASSUME NEW i \in 1..Len(vs), NEW j \in 1..Len(vs), vs[i].name = vs[j].name
       PROVE  i = j
  <2>1. PICK k \in DOMAIN ps : vs[i] = ps[k]
    BY <1>8, <1>9 DEF ToSet
  <2>2. PICK l \in DOMAIN ps : vs[j] = ps[l]
    BY <1>8, <1>9 DEF ToSet
  <2>3. NamesOf(ps[k]) = NamesOf(ps[l])
    BY <1>9, <1>10, <1>11, <2>1, <2>2
  <2>4. NamesOf(ps[k]) \cap NamesOf(ps[l]) # {}
    BY <1>4, <2>3
  <2>5. k = l
    BY <1>3, <2>4
  <2>6. QED
    BY <1>6, <1>7, <1>9, <2>1, <2>2, <2>5 DEF IsInjective
<1>12. ASSUME NEW i \in 1..Len(vs)
       PROVE  vs[i] \in ParamsIn(package, c) /\ vs[i].name \in VersionNames(package)
  <2>1. vs[i] \in ToSet(ps) /\ vs[i].apiVersion
    BY <1>8, <1>9 DEF OwnVersion
  <2>2. vs[i] \in ParamsIn(package, c)
    BY <2>1 DEF ParamsIn, Tcgc, ps
  <2>3. QED
    BY <2>1, <2>2 DEF VersionNames, Clients
<1>13. QED
  BY <1>8, <1>11, <1>12 DEF vs

EndsWith(y, x) == \E i \in 2..Len(y) : SubSeq(y, i, Len(y)) = x

EndsAfter(y, word, x) == \E i \in 2..Len(y) : y[i - 1] = word /\ SubSeq(y, i, Len(y)) = x

\* A name with a nonempty one after it says which one that is.
LEMMA SameTail ==
    ASSUME NEW v \in RustNames, NEW w \in RustNames, NEW x \in RustNames, NEW y \in RustNames,
           x # <<>>, y # <<>>, v \o x = w \o y, Len(x) <= Len(y), v # w
    PROVE  EndsWith(y, x) /\ EndsAfter(y, v[Len(v)], x)
<1> DEFINE a == Len(v)
           b == Len(w)
           m == Len(x)
           n == Len(y)
<1>1. a \in Nat /\ b \in Nat /\ m \in Nat \ {0} /\ n \in Nat \ {0}
  BY EmptySeq, LenProperties DEF RustNames
<1>2. /\ Len(v \o x) = a + m
      /\ \A i \in 1..(a + m) : (v \o x)[i] = IF i <= a THEN v[i] ELSE x[i - a]
  BY ConcatProperties DEF RustNames
<1>3. /\ Len(w \o y) = b + n
      /\ \A i \in 1..(b + n) : (w \o y)[i] = IF i <= b THEN w[i] ELSE y[i - b]
  BY ConcatProperties DEF RustNames
<1> HIDE DEF a, b, m, n
<1>4. a + m = b + n /\ b <= a /\ m <= n
  BY <1>1, <1>2, <1>3 DEF m, n
<1>5. \A i \in 1..m : x[i] = y[i + (n - m)]
  <2>1. SUFFICES ASSUME NEW i \in 1..m
                 PROVE  x[i] = y[i + (n - m)]
    OBVIOUS
  <2>2. a + i \in 1..(a + m) /\ ~(a + i <= a) /\ (a + i) - a = i
    BY <1>1
  <2>3. a + i \in 1..(b + n) /\ ~(a + i <= b) /\ (a + i) - b = i + (n - m)
    BY <1>1, <1>4
  <2>4. (v \o x)[a + i] = x[i]
    BY <1>2, <2>2
  <2>5. (w \o y)[a + i] = y[i + (n - m)]
    BY <1>3, <2>3
  <2>6. QED
    BY <2>4, <2>5
<1>6. CASE m = n
  <2>1. a = b
    BY <1>1, <1>4, <1>6
  <2>2. x = y
    <3>1. \A i \in 1..m : i + (n - m) = i
      BY <1>1, <1>6
    <3>2. \A i \in 1..m : x[i] = y[i]
      BY <1>5, <3>1
    <3>3. QED
      BY <1>6, <3>2, SeqEqual DEF m, n, RustNames
  <2>3. v = w
    <3>1. \A i \in 1..a : v[i] = w[i]
      <4>1. \A i \in 1..a : i \in 1..(a + m) /\ i \in 1..(b + n) /\ i <= a /\ i <= b
        BY <1>1, <1>4, <2>1
      <4>2. QED
        BY <1>2, <1>3, <4>1
    <3>2. QED
      BY <2>1, <3>1, SeqEqual DEF a, b, RustNames
  <2>4. QED
    BY <2>2, <2>3
<1>7. CASE m # n
  <2> DEFINE k == n - m + 1
             u == SubSeq(y, k, n)
  <2>1. k \in 2..n /\ n - k + 1 = m /\ \A i \in 1..m : (i + k) - 1 = i + (n - m)
    BY <1>1, <1>4, <1>7
  <2>2. u = [i \in 1..(n - k + 1) |-> y[(i + k) - 1]]
    <3> HIDE DEF k
    <3>1. QED
      BY <1>1, <2>1
  <2>3. u = [i \in 1..m |-> x[i]]
    <3> HIDE DEF u, k
    <3>1. QED
      BY <1>5, <2>1, <2>2
  <2>4. x = [i \in 1..m |-> x[i]]
    BY LenProperties DEF m, RustNames
  <2> HIDE DEF u, k
  <2>5. u = x
    BY <2>3, <2>4
  <2>6. y[k - 1] = v[a]
    <3> HIDE DEF k
    <3>1. k - 1 = n - m
      BY <1>1 DEF k
    <3>2. a \in 1..(a + m) /\ a <= a /\ a \in 1..(b + n) /\ ~(a <= b) /\ a - b = n - m
      BY <1>1, <1>4, <1>7
    <3>3. QED
      BY <1>2, <1>3, <3>1, <3>2
  <2>7. QED
    BY <2>1, <2>5, <2>6 DEF u, n, a, EndsWith, EndsAfter
<1>8. QED
  BY <1>6, <1>7

\* What the parameters of a client are called, and the fields for the api-versions of others.
Known(d, n) == \/ \E q \in ParamsIn(package, d) : n \in NamesOf(q)
               \/ \E e \in DOMAIN rust, v \in VersionNames(package) : n = rust[e].name \o v

\* No api-version is called like the end of the name.
Endless(n) == \A i \in 2..Len(n) : SubSeq(n, i, Len(n)) \notin VersionNames(package)

LEMMA NamesEndless ==
    ASSUME NamesFit(package), OnceEach(package), NEW d \in Clients, NEW q \in ParamsIn(package, d),
           NEW n \in NamesOf(q) \cup {q.name}
    PROVE  Endless(n)
<1>1. \A m \in {q.name, FieldName(q)} : Endless(m)
  BY DEF NamesFit, Endless, Clients
<1>2. CASE q.kind = "endpoint"
  <2>1. q \in EndpointsIn(package, d) /\ FieldName(q) = q.field
    BY <1>2 DEF EndpointsIn, FieldName
  <2>2. \A t \in ToSet(q.template) : Endless(t.name)
    BY <2>1 DEF OnceEach, Endless, Clients
  <2>3. n \in {q.field, q.name} \/ \E t \in ToSet(q.template) : n = t.name
    BY <1>2 DEF NamesOf
  <2>4. QED
    BY <1>1, <2>1, <2>2, <2>3
<1>3. CASE q.kind # "endpoint"
  BY <1>1, <1>3 DEF NamesOf
<1>4. QED
  BY <1>2, <1>3

LEMMA VersionNameIs ==
    ASSUME TypeInv, NamesFit(package), OnceEach(package), NEW v \in VersionNames(package)
    PROVE  v \in RustNames /\ v # <<>> /\ Endless(v)
<1>1. PICK d \in Clients : \E q \in ParamsIn(package, d) : v = q.name
  BY DEF VersionNames, Clients
<1>2. Endless(v)
  BY <1>1, NamesEndless
<1>3. QED
  BY <1>2, VersionNamesTyped DEF NamesFit

LEMMA Fresh ==
    ASSUME TypeInv, NamesFit(package), OnceEach(package), NEW d \in Clients,
           NEW w \in RustNames, w # <<>>, \A e \in DOMAIN rust : rust[e].name # w,
           NEW v \in VersionNames(package)
    PROVE  ~Known(d, w \o v)
<1>1. v \in RustNames /\ v # <<>> /\ Endless(v)
  BY VersionNameIs
<1>2. ~Endless(w \o v)
  <2>1. Len(w) + 1 \in 2..Len(w \o v) /\ SubSeq(w \o v, Len(w) + 1, Len(w \o v)) = v
    BY <1>1, Suffix DEF RustNames
  <2>2. QED
    BY <2>1 DEF Endless
<1>3. \A q \in ParamsIn(package, d) : w \o v \notin NamesOf(q)
  BY <1>2, NamesEndless
<1>4. ASSUME NEW e \in DOMAIN rust, NEW x \in VersionNames(package), w \o v = rust[e].name \o x
      PROVE  FALSE
  <2>1. x \in RustNames /\ x # <<>> /\ Endless(x)
    BY VersionNameIs
  <2>2. rust[e].name \in RustNames /\ rust[e].name # w
    BY DEF TypeInv, RustClients
  <2> DEFINE u == rust[e].name
  <2>3. u \in RustNames /\ w \o v = u \o x /\ u # w
    BY <1>4, <2>2
  <2> HIDE DEF u
  <2>4. Len(v) \in Nat /\ Len(x) \in Nat
    BY <1>1, <2>1, LenProperties DEF RustNames
  <2>5. CASE Len(v) <= Len(x)
    <3>1. EndsWith(x, v)
      BY <1>1, <2>1, <2>3, <2>5, SameTail
    <3>2. QED
      BY <2>1, <3>1 DEF Endless, EndsWith
  <2>6. CASE Len(x) <= Len(v)
    <3>1. EndsWith(v, x)
      BY <1>1, <2>1, <2>3, <2>6, SameTail
    <3>2. QED
      BY <1>1, <3>1 DEF Endless, EndsWith
  <2>7. QED
    BY <2>4, <2>5, <2>6
<1>5. QED
  BY <1>3, <1>4 DEF Known

\* What a sub-client called w adds to the client that is instantiated.
VersionTails(w) == {w \o v : v \in VersionNames(package)}

LEMMA PrefixKeepsApart ==
    ASSUME NEW S, NEW w \in Seq(S), NEW x \in Seq(S), NEW y \in Seq(S), w \o x = w \o y
    PROVE  x = y
<1>1. Len(w) \in Nat /\ Len(x) \in Nat /\ Len(y) \in Nat
  BY LenProperties
<1>2. /\ Len(w \o x) = Len(w) + Len(x)
      /\ \A i \in 1..(Len(w) + Len(x)) : (w \o x)[i] = IF i <= Len(w) THEN w[i] ELSE x[i - Len(w)]
  BY ConcatProperties
<1>3. /\ Len(w \o y) = Len(w) + Len(y)
      /\ \A i \in 1..(Len(w) + Len(y)) : (w \o y)[i] = IF i <= Len(w) THEN w[i] ELSE y[i - Len(w)]
  BY ConcatProperties
<1>4. Len(x) = Len(y)
  BY <1>1, <1>2, <1>3
<1>5. \A i \in 1..Len(x) : x[i] = y[i]
  <2>1. SUFFICES ASSUME NEW i \in 1..Len(x)
                 PROVE  x[i] = y[i]
    OBVIOUS
  <2>2. Len(w) + i \in 1..(Len(w) + Len(x)) /\ ~(Len(w) + i <= Len(w)) /\ (Len(w) + i) - Len(w) = i
    BY <1>1
  <2>3. (w \o x)[Len(w) + i] = x[i] /\ (w \o y)[Len(w) + i] = y[i]
    BY <1>2, <1>3, <1>4, <2>2
  <2>4. QED
    BY <2>3
<1>6. QED
  BY <1>4, <1>5, SeqEqual

LEMMA VersionsFit ==
    ASSUME TypeInv, NamesFit(package), OnceEach(package), NEW c \in Clients, NEW parent,
           NEW w \in RustNames, w # <<>>
    PROVE  LET vs == Versions(c, parent)
           IN  Added(VersionFields(w, vs), VersionOptions(w, vs), VersionParams(w, vs), VersionTails(w))
<1> DEFINE vs == Versions(c, parent)
           n  == Len(vs)
           ns == [i \in 1..n |-> w \o vs[i].name]
           fs == [i \in 1..n |-> Field(ns[i], IsOption(vs[i]))]
           os == FlattenSeq([i \in 1..n |-> OptionFor(vs[i], ns[i])])
           cs == [i \in 1..n |-> ClientParam(vs[i], ns[i], "method")]
<1>1. /\ vs \in Seq(Parameters)
      /\ \A i, j \in 1..n : vs[i].name = vs[j].name => i = j
      /\ \A i \in 1..n : vs[i].name \in VersionNames(package)
  BY VersionsApart
<1> HIDE DEF vs
<1>2. n \in Nat /\ DOMAIN vs = 1..n /\ \A i \in 1..n : vs[i] \in Parameters
  BY <1>1, LenProperties, ElementOfSeq
<1>3. \A i \in 1..n : /\ vs[i].name \in RustNames /\ vs[i].name # <<>>
                      /\ vs[i].optional \in BOOLEAN /\ vs[i].default \in BOOLEAN
  BY <1>1, <1>2, VersionNameIs, ParameterFields
<1>4. \A i \in 1..n : ns[i] = w \o vs[i].name /\ ns[i] \in RustNames /\ ns[i] \in VersionTails(w)
  <2>1. \A i \in 1..n : w \o vs[i].name \in RustNames
    BY <1>3, ConcatProperties DEF RustNames
  <2>2. QED
    BY <1>1, <2>1 DEF VersionTails
<1>5. ns \in [1..n -> RustNames]
  BY <1>4
<1>6. IsInjective(ns)
  <2>1. SUFFICES ASSUME NEW i \in 1..n, NEW j \in 1..n, ns[i] = ns[j]
                 PROVE  i = j
    BY DEF IsInjective
  <2>2. w \o vs[i].name = w \o vs[j].name
    BY <1>4, <2>1
  <2>3. vs[i].name = vs[j].name
    BY <1>3, <2>2, PrefixKeepsApart DEF RustNames
  <2>4. QED
    BY <1>1, <2>3
<1>7. \A i \in 1..n : ns[i] # <<"pipeline">>
  <2>1. SUFFICES ASSUME NEW i \in 1..n
                 PROVE  ns[i] # <<"pipeline">>
    OBVIOUS
  <2>2. Len(w) + 1 \in 2..Len(w \o vs[i].name)
    BY <1>3, Suffix DEF RustNames
  <2>3. Len(<<"pipeline">>) = 1 /\ 2..1 = {}
    OBVIOUS
  <2>4. QED
    BY <1>4, <2>2, <2>3
<1>8. /\ VersionFields(w, vs) = fs /\ VersionOptions(w, vs) = os /\ VersionParams(w, vs) = cs
  <2>1. [i \in DOMAIN vs |-> OptionFor(vs[i], Deduplicated(w, vs[i].name))] = [i \in 1..n |-> OptionFor(vs[i], ns[i])]
    BY <1>2 DEF Deduplicated
  <2>2. VersionFields(w, vs) = fs
    BY <1>2 DEF VersionFields, Deduplicated
  <2>3. VersionParams(w, vs) = cs
    BY <1>2 DEF VersionParams, Deduplicated
  <2>4. QED
    BY <2>1, <2>2, <2>3 DEF VersionOptions, Collected
<1>9. VersionFields(w, vs) \in Seq(Fields) /\ VersionOptions(w, vs) \in Seq(Fields) /\ VersionParams(w, vs) \in Seq(ClientParams)
  <2>1. VersionParams(w, vs) \in Seq(MethodParams)
    BY <1>1, VersionParamsTyped DEF VersionParams
  <2>2. MethodParams \subseteq ClientParams
    BY DEF MethodParams, ClientParams, ParamsOf
  <2>3. VersionParams(w, vs) \in Seq(ClientParams)
    BY <2>1, <2>2, SeqMonotonic
  <2>4. QED
    BY <1>1, <2>3, VersionFieldsTyped, VersionOptionsTyped DEF VersionFields, VersionOptions
<1> HIDE DEF ns
<1>10. /\ Apart(os) /\ Apart(cs)
       /\ \A x : x \in ToSet(os) <=> \E i \in 1..n : /\ vs[i].optional \/ vs[i].default
                                                     /\ x = Field(ns[i], IsOption(vs[i]))
       /\ \A x : x \in ToSet(cs) <=> \E i \in 1..n : x = ClientParam(vs[i], ns[i], "method")
  <2>1. \A i \in 1..n : vs[i].optional \in BOOLEAN /\ vs[i].default \in BOOLEAN
    BY <1>3
  <2> HIDE DEF n
  <2>2. QED
    BY <1>2, <1>5, <1>6, <2>1, AdaptedApart
<1> HIDE DEF n, os, cs
<1>11. \A i, j \in 1..n : ns[i] = ns[j] => i = j
  BY <1>5, <1>6 DEF IsInjective
<1>12. \A i \in 1..n : Field(ns[i], IsOption(vs[i])).name = ns[i]
  BY FieldParts
<1>13. DOMAIN fs = 1..n /\ \A i \in 1..n : fs[i] = Field(ns[i], IsOption(vs[i]))
  OBVIOUS
<1> HIDE DEF fs
<1>14. \A x : x \in ToSet(fs) <=> \E i \in 1..n : x = Field(ns[i], IsOption(vs[i]))
  BY <1>13 DEF ToSet
<1>15. Apart(fs)
  <2>1. IsInjective(fs)
    BY <1>11, <1>12, <1>13 DEF IsInjective
  <2>2. OneName(ToSet(fs))
    BY <1>11, <1>12, <1>14 DEF OneName
  <2>3. QED
    BY <2>1, <2>2 DEF Apart
<1>16. \A i \in 1..n : LET p == ClientParam(vs[i], ns[i], "method")
                       IN  p.name = ns[i] /\ p.kind = "method" /\ p.optional = (vs[i].optional \/ vs[i].default)
  BY DEF ClientParam, Param
<1>17. \A i \in 1..n : ~(vs[i].optional \/ vs[i].default) => Field(ns[i], IsOption(vs[i])) = Field(ns[i], FALSE)
  <2>1. \A i \in 1..n : ~(vs[i].optional \/ vs[i].default) => IsOption(vs[i]) = FALSE
    BY DEF IsOption
  <2>2. QED
    BY <2>1
<1>18. Matched(ToSet(fs), ToSet(os), ToSet(cs))
  <2>1. ASSUME NEW f \in ToSet(fs)
        PROVE  \E p \in ToSet(cs) : Counted(p) /\ p.name = f.name
    <3>1. PICK i \in 1..n : f = Field(ns[i], IsOption(vs[i]))
      BY <1>14
    <3>2. ClientParam(vs[i], ns[i], "method") \in ToSet(cs)
      BY <1>10
    <3>3. QED
      BY <1>12, <1>16, <3>1, <3>2 DEF Counted
  <2>2. ASSUME NEW p \in ToSet(cs)
        PROVE  IF p.optional THEN \E o \in ToSet(os) : o.name = p.name /\ o \in ToSet(fs)
               ELSE Field(p.name, FALSE) \in ToSet(fs)
    <3>1. PICK i \in 1..n : p = ClientParam(vs[i], ns[i], "method")
      BY <1>10
    <3>2. p.name = ns[i] /\ p.optional = (vs[i].optional \/ vs[i].default)
      BY <1>16, <3>1
    <3>3. Field(ns[i], IsOption(vs[i])) \in ToSet(fs)
      BY <1>14
    <3>4. QED
      BY <1>10, <1>12, <1>17, <3>2, <3>3
  <2>3. QED
    BY <2>1, <2>2 DEF Matched
<1>19. \A x \in ToSet(fs) \cup ToSet(os) \cup ToSet(cs) : x.name \in VersionTails(w)
  BY <1>4, <1>10, <1>12, <1>14, <1>16
<1>20. \A x \in ToSet(fs) : x.name # Pipeline.name
  <2>1. Pipeline.name = <<"pipeline">>
    BY FieldParts DEF Pipeline
  <2>2. QED
    BY <1>7, <1>12, <1>14, <2>1
<1>21. QED
  BY <1>8, <1>9, <1>10, <1>15, <1>18, <1>19, <1>20 DEF Added, vs

----------------------------------------------------------------------------
(* Each client is adapted once. *)

Kids(a) == Tcgc(a).children

\* The call that adapts d is one that the call for a has made.
CalledBy(d, a) == \E k \in 1..(Len(stack) - 1) : stack[k + 1] = a /\ stack[k] = d

Visited(d, a) == \E i \in 1..Len(Kids(a)) : /\ Kids(a)[i] = d
                                            /\ i <= next[a] \/ (i = next[a] + 1 /\ CalledBy(d, a))

\* The children that are adapted are those that their parent is done with, and
\* those it is adapting.
TreeInv == /\ IsInjective(stack)
           /\ \A d \in DOMAIN rust, a \in Clients : IsChild(d, a) => Visited(d, a)

\* A step that adapts a client for the first time, or gives up.
EntersNext(c) ==
    /\ c \in Clients /\ c \notin DOMAIN rust /\ Entered(c, stack) /\ Above(stack)
    /\ stack # <<>> => /\ next[Head(stack)] + 1 \in 1..Len(Kids(Head(stack)))
                       /\ Kids(Head(stack))[next[Head(stack)] + 1] = c
    /\ Enter(c, stack) \/ Reject(c, stack)

LEMMA KidsTyped ==
    ASSUME TypeInv, NEW a \in Clients
    PROVE  /\ Len(Kids(a)) \in Nat /\ DOMAIN Kids(a) = 1..Len(Kids(a)) /\ next[a] \in Nat
           /\ \A i \in 1..Len(Kids(a)) : Kids(a)[i] \in Clients /\ IsChild(Kids(a)[i], a)
<1>1. Kids(a) \in Seq(Clients)
  BY TcgcTyped DEF TypeInv, Kids
<1>2. Len(Kids(a)) \in Nat /\ DOMAIN Kids(a) = 1..Len(Kids(a)) /\ \A i \in 1..Len(Kids(a)) : Kids(a)[i] \in Clients
  BY <1>1, LenProperties, ElementOfSeq
<1>3. \A i \in 1..Len(Kids(a)) : IsChild(Kids(a)[i], a)
  BY <1>2 DEF IsChild, ChildrenOf, ToSet, Kids, Tcgc
<1>4. QED
  BY <1>2, <1>3 DEF TypeInv

LEMMA StackTyped ==
    ASSUME TypeInv
    PROVE  /\ Len(stack) \in Nat /\ DOMAIN stack = 1..Len(stack)
           /\ \A k \in 1..Len(stack) : stack[k] \in DOMAIN rust /\ stack[k] \in Clients
           /\ stack # <<>> => Len(stack) > 0 /\ Head(stack) = stack[1] /\ stack[1] \in Clients
<1>1. stack \in Seq(DOMAIN rust) /\ DOMAIN rust \subseteq Clients
  BY DEF TypeInv
<1>2. Len(stack) \in Nat /\ DOMAIN stack = 1..Len(stack) /\ \A k \in 1..Len(stack) : stack[k] \in DOMAIN rust
  BY <1>1, LenProperties, ElementOfSeq
<1>3. stack # <<>> => Len(stack) > 0
  BY <1>1, <1>2, EmptySeq
<1>4. stack # <<>> => 1 \in 1..Len(stack)
  BY <1>2, <1>3
<1>5. stack # <<>> => Head(stack) = stack[1]
  BY <1>1, HeadTailProperties
<1>6. QED
  BY <1>1, <1>2, <1>3, <1>4, <1>5

LEMMA EntersFresh ==
    ASSUME TypeInv, OnceEach(package), TreeInv, EnterRoot \/ EnterChild
    PROVE  \E c \in Clients : EntersNext(c)
<1>1. CASE EnterRoot
  <2>1. stack = <<>>
    BY <1>1 DEF EnterRoot
  <2>2. PICK c \in Clients : Entered(c, <<>>) /\ Above(<<>>) /\ (Enter(c, <<>>) \/ Reject(c, <<>>))
    BY <1>1, RootEntered
  <2>3. c \notin DOMAIN rust
    BY <2>2 DEF Entered
  <2>4. EntersNext(c)
    BY <2>1, <2>2, <2>3 DEF EntersNext
  <2>5. QED
    BY <2>4
<1>2. CASE EnterChild
  <2> DEFINE top == Head(stack)
             j   == next[top] + 1
             c   == Kids(top)[j]
  <2>1. /\ stack # <<>> /\ next[top] < Len(Kids(top)) /\ (Enter(c, stack) \/ Reject(c, stack))
    BY <1>2 DEF EnterChild, Kids
  <2>2. top \in DOMAIN rust /\ j \in 1..Len(Kids(top)) /\ c \in Clients
    BY <2>1, NextChild DEF Kids
  <2>3. top \in Clients
    BY <2>2 DEF TypeInv
  <2>4. IsChild(c, top)
    BY <2>2, <2>3, KidsTyped
  <2>5. Above(stack) /\ Entered(c, stack)
    BY <2>1, <2>2, <2>4 DEF Above, TypeInv, Entered
  <2>6. ASSUME c \in DOMAIN rust
        PROVE  FALSE
    <3>1. PICK i \in 1..Len(Kids(top)) : /\ Kids(top)[i] = c
                                         /\ i <= next[top] \/ (i = next[top] + 1 /\ CalledBy(c, top))
      BY <2>3, <2>4, <2>6 DEF TreeInv, Visited
    <3>2. i = j
      BY <2>2, <2>3, <3>1, KidsTyped DEF OnceEach, IsInjective, Kids, Tcgc, Clients
    <3>3. CalledBy(c, top)
      BY <2>3, <3>1, <3>2, KidsTyped
    <3>4. PICK k \in 1..(Len(stack) - 1) : stack[k + 1] = top
      BY <3>3 DEF CalledBy
    <3>5. k + 1 \in 1..Len(stack) /\ 1 \in 1..Len(stack) /\ k + 1 # 1 /\ stack[1] = top
      BY <2>1, StackTyped
    <3>6. QED
      BY <3>4, <3>5, StackTyped DEF TreeInv, IsInjective
  <2>7. EntersNext(c)
    BY <2>1, <2>2, <2>5, <2>6 DEF EntersNext
  <2>8. QED
    BY <2>2, <2>7
<1>3. QED
  BY <1>1, <1>2

LEMMA PushedIs ==
    ASSUME TypeInv, NEW c \in Clients, stack' = <<c>> \o stack
    PROVE  Len(stack') = Len(stack) + 1 /\ stack'[1] = c /\ \A k \in 1..Len(stack) : stack'[k + 1] = stack[k]
<1> DEFINE n == Len(stack)
<1>1. stack \in Seq(Clients) /\ <<c>> \in Seq(Clients) /\ n \in Nat
  <2>1. stack \in Seq(Clients)
    BY SeqMonotonic DEF TypeInv
  <2>2. QED
    BY <2>1, Singleton, StackTyped
<1>2. Len(<<c>>) = 1 /\ <<c>>[1] = c
  OBVIOUS
<1>3. /\ Len(<<c>> \o stack) = 1 + n
      /\ \A k \in 1..(1 + n) : (<<c>> \o stack)[k] = IF k <= 1 THEN <<c>>[k] ELSE stack[k - 1]
  BY <1>1, <1>2, ConcatProperties
<1>4. 1 \in 1..(1 + n) /\ \A k \in 1..n : k + 1 \in 1..(1 + n) /\ ~(k + 1 <= 1) /\ (k + 1) - 1 = k
  BY <1>1
<1>5. QED
  BY <1>1, <1>2, <1>3, <1>4

LEMMA EnterTree ==
    ASSUME TypeInv, WellNamed(package), TreeInv, NEW c, EntersNext(c), Enter(c, stack)
    PROVE  TreeInv'
<1>1. /\ c \in Clients /\ c \notin DOMAIN rust /\ Entered(c, stack)
      /\ stack # <<>> => /\ next[Head(stack)] + 1 \in 1..Len(Kids(Head(stack)))
                         /\ Kids(Head(stack))[next[Head(stack)] + 1] = c
  BY DEF EntersNext
<1>2. stack' = <<c>> \o stack /\ package' = package /\ next' = next /\ DOMAIN rust' = DOMAIN rust \cup {c}
  BY <1>1, EnteredIs DEF Enter, Push, EntersNext
<1> DEFINE n == Len(stack)
           S == Clients
<1>3. stack \in Seq(S) /\ <<c>> \in Seq(S) /\ n \in Nat
  <2>1. stack \in Seq(S)
    BY SeqMonotonic DEF TypeInv
  <2>2. QED
    BY <1>1, <2>1, Singleton, StackTyped
<1>4. Len(stack') = n + 1 /\ stack'[1] = c /\ \A k \in 1..n : stack'[k + 1] = stack[k]
  BY <1>1, <1>2, PushedIs
<1>5. IsInjective(stack')
  <2> DEFINE one == <<c>>
  <2>1. IsInjective(one) /\ ToSet(one) = {c} /\ one \in Seq(S)
    BY <1>3, InjectiveOne
  <2>2. c \notin ToSet(stack)
    BY <1>1, StackTyped DEF ToSet
  <2>3. stack' = one \o stack
    BY <1>2
  <2> HIDE DEF one, S
  <2>4. IsInjective(one \o stack)
    BY <1>3, <2>1, <2>2, InjectiveConcat DEF TreeInv
  <2>5. QED
    BY <2>3, <2>4
<1>6. \A a : Kids(a)' = Kids(a) /\ next'[a] = next[a]
  BY <1>2 DEF Kids, Tcgc
<1>7. \A d, a : IsChild(d, a)' <=> IsChild(d, a)
  BY <1>2 DEF IsChild
<1>8. Clients' = Clients
  BY <1>2 DEF Clients
<1>9. ASSUME NEW d \in DOMAIN rust', NEW a \in Clients, IsChild(d, a)
      PROVE  Visited(d, a)'
  <2>1. CASE d \in DOMAIN rust
    <3>1. PICK i \in 1..Len(Kids(a)) : Kids(a)[i] = d /\ (i <= next[a] \/ (i = next[a] + 1 /\ CalledBy(d, a)))
      BY <1>9, <2>1 DEF TreeInv, Visited
    <3>2. ASSUME CalledBy(d, a)
          PROVE  CalledBy(d, a)'
      <4>1. PICK k \in 1..(n - 1) : stack[k + 1] = a /\ stack[k] = d
        BY <3>2 DEF CalledBy
      <4>2. k \in 1..n /\ k + 1 \in 1..n /\ k + 1 \in 1..(Len(stack') - 1)
        BY <1>3, <1>4
      <4>3. stack'[(k + 1) + 1] = a /\ stack'[k + 1] = d
        BY <1>4, <4>1, <4>2
      <4>4. QED
        BY <4>2, <4>3 DEF CalledBy
    <3>3. QED
      BY <1>6, <3>1, <3>2 DEF Visited
  <2>2. CASE d \notin DOMAIN rust
    <3>1. d = c /\ IsChild(c, a)
      BY <1>2, <1>9, <2>2
    <3>2. stack # <<>>
      BY <1>1, <1>9, <3>1, WellNamedHere DEF Entered
    <3>3. Head(stack) = stack[1] /\ stack[1] \in Clients /\ n > 0
      BY <3>2, StackTyped
    <3>4. a = stack[1]
      BY <1>1, <1>9, <3>1, <3>2, <3>3, WellNamedHere DEF Entered
    <3>5. CalledBy(c, a)'
      <4>1. 1 \in 1..(Len(stack') - 1) /\ 1 \in 1..n
        BY <1>3, <1>4, <3>3
      <4>2. stack'[1 + 1] = a /\ stack'[1] = c
        BY <1>4, <3>4, <4>1
      <4>3. QED
        BY <4>1, <4>2 DEF CalledBy
    <3>6. next[a] + 1 \in 1..Len(Kids(a)) /\ Kids(a)[next[a] + 1] = c
      BY <1>1, <3>2, <3>3, <3>4
    <3>7. QED
      BY <1>6, <3>1, <3>5, <3>6 DEF Visited
  <2>3. QED
    BY <2>1, <2>2
<1>10. QED
  BY <1>5, <1>7, <1>8, <1>9 DEF TreeInv

LEMMA LeaveTree ==
    ASSUME TypeInv, TreeInv, Leave
    PROVE  TreeInv'
<1> DEFINE n == Len(stack)
           m == Len(stack')
           top == Head(stack')
<1>1. /\ package' = package /\ DOMAIN rust' = DOMAIN rust
      /\ stack # <<>> /\ stack' = Tail(stack)
      /\ next' = IF stack' = <<>> THEN next ELSE [next EXCEPT ![Head(stack')] = @ + 1]
  BY LeaveKeeps DEF Leave
<1>2. n \in Nat /\ n > 0 /\ stack \in Seq(DOMAIN rust)
  BY <1>1, StackTyped DEF TypeInv
<1>3. /\ stack' \in Seq(DOMAIN rust) /\ m = n - 1 /\ \A k \in 1..m : stack'[k] = stack[k + 1]
  BY <1>1, <1>2, HeadTailProperties
<1>4. DOMAIN stack' = 1..m /\ m \in Nat
  BY <1>3, LenProperties
<1>5. IsInjective(stack')
  <2>1. SUFFICES ASSUME NEW k \in 1..m, NEW l \in 1..m, stack'[k] = stack'[l]
                 PROVE  k = l
    BY <1>4 DEF IsInjective
  <2>2. stack[k + 1] = stack[l + 1] /\ k + 1 \in 1..n /\ l + 1 \in 1..n
    BY <1>2, <1>3, <2>1
  <2>3. k + 1 = l + 1
    BY <2>2, StackTyped DEF TreeInv, IsInjective
  <2>4. QED
    BY <1>4, <2>3
<1>6. stack' # <<>> => top = stack'[1] /\ top \in Clients
  BY <1>3, HeadTailProperties DEF TypeInv
<1>7. ASSUME NEW a \in Clients
      PROVE  next'[a] = IF stack' # <<>> /\ a = stack'[1] THEN next[a] + 1 ELSE next[a]
  <2>1. next \in [Clients -> Nat]
    BY DEF TypeInv
  <2>2. QED
    BY <1>1, <1>6, <2>1
<1>8. \A a : Kids(a)' = Kids(a)
  BY <1>1 DEF Kids, Tcgc
<1>9. \A d, a : IsChild(d, a)' <=> IsChild(d, a)
  BY <1>1 DEF IsChild
<1>10. Clients' = Clients
  BY <1>1 DEF Clients
<1>11. ASSUME NEW d \in DOMAIN rust, NEW a \in Clients, IsChild(d, a)
       PROVE  Visited(d, a)'
  <2>1. PICK i \in 1..Len(Kids(a)) : Kids(a)[i] = d /\ (i <= next[a] \/ (i = next[a] + 1 /\ CalledBy(d, a)))
    BY <1>11 DEF TreeInv, Visited
  <2>2. i \in Nat /\ next[a] \in Nat
    BY KidsTyped
  <2>3. CASE i <= next[a]
    <3>1. i <= next'[a]
      BY <1>7, <2>2, <2>3
    <3>2. QED
      BY <1>8, <2>1, <3>1 DEF Visited
  <2>4. CASE i = next[a] + 1 /\ CalledBy(d, a)
    <3>1. PICK k \in 1..(n - 1) : stack[k + 1] = a /\ stack[k] = d
      BY <2>4 DEF CalledBy
    <3>2. CASE k = 1
      <4>1. 1 \in 1..m /\ stack'[1] = a
        BY <1>2, <1>3, <3>1, <3>2
      <4>2. stack' # <<>>
        <5>1. Len(<<>>) = 0
          OBVIOUS
        <5>2. QED
          BY <1>4, <4>1, <5>1
      <4>3. i <= next'[a]
        BY <1>7, <2>2, <2>4, <4>1, <4>2
      <4>4. QED
        BY <1>8, <2>1, <4>3 DEF Visited
    <3>3. CASE k # 1
      <4>1. k - 1 \in 1..(m - 1) /\ k - 1 \in 1..m /\ k \in 1..m /\ (k - 1) + 1 = k
        BY <1>2, <1>3, <3>1, <3>3
      <4>2. stack'[(k - 1) + 1] = a /\ stack'[k - 1] = d
        BY <1>3, <3>1, <4>1
      <4>3. CalledBy(d, a)'
        BY <4>1, <4>2 DEF CalledBy
      <4>4. i <= next'[a] \/ i = next'[a] + 1
        BY <1>7, <2>2, <2>4
      <4>5. QED
        BY <1>8, <2>1, <4>3, <4>4 DEF Visited
    <3>4. QED
      BY <3>2, <3>3
  <2>5. QED
    BY <2>1, <2>3, <2>4
<1>12. QED
  BY <1>1, <1>5, <1>9, <1>10, <1>11 DEF TreeInv

LEMMA NextTree ==
    ASSUME TypeInv, WellNamed(package), OnceEach(package), TreeInv, [Next]_vars
    PROVE  TreeInv'
<1>1. ASSUME UNCHANGED <<package, stack, next, rust>>
      PROVE  TreeInv'
  BY <1>1 DEF TreeInv, Visited, CalledBy, Kids, Tcgc, IsChild, Clients
<1>2. CASE EnterRoot \/ EnterChild
  <2>1. PICK c \in Clients : EntersNext(c)
    BY <1>2, EntersFresh
  <2>2. CASE Enter(c, stack)
    BY <2>1, <2>2, EnterTree
  <2>3. CASE Reject(c, stack)
    BY <1>1, <2>3 DEF Reject
  <2>4. QED
    BY <2>1, <2>2, <2>3 DEF EntersNext
<1>3. CASE Leave
  BY <1>3, LeaveTree
<1>4. CASE UNCHANGED vars
  BY <1>1, <1>4 DEF vars
<1>5. QED
  BY <1>2, <1>3, <1>4 DEF Next, Finished

----------------------------------------------------------------------------
(* The constructors, while sub-clients add to them. *)

\* The constructors of an adapted client d set the fields that it has.
Constructs(d, r) ==
    /\ \A x \in Given(r) \cup ToSet(r.options) : Known(d, x.name)
    /\ \A i \in DOMAIN r.ctors :
          /\ Fits(r, r.ctors[i].params) /\ Leads(r.ctors[i].params)
          /\ \A p \in ToSet(r.ctors[i].params) : Counted(p) => Known(d, p.name)

CtorInv == \A d \in DOMAIN rust : IsConstructable(d) => Constructs(d, rust[d])

LEMMA KnownStays ==
    ASSUME package' = package, \A e \in DOMAIN rust : e \in DOMAIN rust' /\ rust'[e].name = rust[e].name,
           NEW d, NEW n, Known(d, n)
    PROVE  Known(d, n)'
<1>1. CASE \E q \in ParamsIn(package, d) : n \in NamesOf(q)
  BY <1>1 DEF Known
<1>2. CASE \E e \in DOMAIN rust, v \in VersionNames(package) : n = rust[e].name \o v
  <2>1. PICK e \in DOMAIN rust, v \in VersionNames(package) : n = rust[e].name \o v
    BY <1>2
  <2>2. e \in DOMAIN rust' /\ n = rust'[e].name \o v
    BY <2>1
  <2>3. QED
    BY <2>2 DEF Known
<1>3. QED
  BY <1>1, <1>2 DEF Known

LEMMA ConstructsStays ==
    ASSUME package' = package, \A e \in DOMAIN rust : e \in DOMAIN rust' /\ rust'[e].name = rust[e].name,
           NEW d \in DOMAIN rust, Constructs(d, rust[d]),
           rust'[d].fields = rust[d].fields, rust'[d].options = rust[d].options, rust'[d].ctors = rust[d].ctors
    PROVE  Constructs(d, rust[d])'
<1>1. Given(rust'[d]) = Given(rust[d])
  BY DEF Given
<1>2. \A params : Fits(rust[d], params) => Fits(rust'[d], params)
  BY <1>1 DEF Fits
<1>3. \A n : Known(d, n) => Known(d, n)'
  BY KnownStays
<1>4. \A x \in Given(rust'[d]) \cup ToSet(rust'[d].options) : Known(d, x.name)'
  BY <1>1, <1>3 DEF Constructs
<1>5. \A i \in DOMAIN rust'[d].ctors :
         LET params == rust'[d].ctors[i].params
         IN  Fits(rust'[d], params) /\ Leads(params) /\ \A p \in ToSet(params) : Counted(p) => Known(d, p.name)'
  BY <1>2, <1>3 DEF Constructs
<1>6. QED
  BY <1>4, <1>5 DEF Constructs

LEMMA OwnHypotheses ==
    ASSUME TypeInv, NamesFit(package), OnceEach(package), NEW c \in Clients
    PROVE  LET ps == Tcgc(c).params
           IN  /\ ps \in Seq(Parameters)
               /\ \A i \in 1..Len(ps) : ps[i] \in ParamsIn(package, c)
               /\ \A q \in ParamsIn(package, c) : \E i \in 1..Len(ps) : q = ps[i]
               /\ \A i \in 1..Len(ps) : TemplateFits(ps[i]) /\ FieldName(ps[i]) # <<"pipeline">>
               /\ \A i, j \in 1..Len(ps) : i # j => NamesOf(ps[i]) \cap NamesOf(ps[j]) = {}
<1> DEFINE ps == Tcgc(c).params
<1>1. ps \in Seq(Parameters)
  BY TcgcTyped DEF TypeInv
<1>2. DOMAIN ps = 1..Len(ps)
  BY <1>1, LenProperties
<1>3. ParamsIn(package, c) = ToSet(ps)
  BY DEF ParamsIn, Tcgc
<1>4. ToSet(ps) = {ps[i] : i \in 1..Len(ps)}
  BY <1>2 DEF ToSet
<1>5. \A i, j \in 1..Len(ps) : i # j => NamesOf(ps[i]) \cap NamesOf(ps[j]) = {}
  BY <1>2 DEF OnceEach, Clients, Tcgc
<1>6. \A q \in ParamsIn(package, c) : FieldName(q) # <<"pipeline">>
  BY DEF NamesFit, Clients
<1>7. \A q \in ParamsIn(package, c) : TemplateFits(q)
  BY DEF OnceEach, EndpointsIn, TemplateFits, Clients
<1> HIDE DEF ps
<1>8. \A i \in 1..Len(ps) : ps[i] \in ParamsIn(package, c)
  BY <1>3, <1>4
<1>9. QED
  BY <1>1, <1>3, <1>4, <1>5, <1>6, <1>7, <1>8 DEF ps

LEMMA ConstructableFits ==
    ASSUME TypeInv, NamesFit(package), OwnParamsFit(package), OnceEach(package),
           NEW c \in Clients, NEW above, Above(above), AdaptConstructable(c, above), package' = package
    PROVE  Constructs(c, rust[c])'
<1> DEFINE new  == New(c, above)
           ps   == Tcgc(c).params
           own  == WithOwnParams(new, ps)
           made == Constructed(own)
           n    == Len(ps)
<1>1. /\ ps \in Seq(Parameters)
      /\ \A i \in 1..n : ps[i] \in ParamsIn(package, c)
      /\ \A q \in ParamsIn(package, c) : \E i \in 1..n : q = ps[i]
      /\ \A i \in 1..n : TemplateFits(ps[i]) /\ FieldName(ps[i]) # <<"pipeline">>
      /\ \A i, j \in 1..n : i # j => NamesOf(ps[i]) \cap NamesOf(ps[j]) = {}
  BY OwnHypotheses
<1>2. new \in RustClients /\ CtorsFit(new) /\ new.fields = <<Pipeline>> /\ new.options = <<>> /\ new.params = <<>>
  BY NameTyped, NewIs DEF New
<1>3. rust'[c] = made
  BY DEF AdaptConstructable
<1>4. \E i \in 1..n : ps[i].kind = "endpoint"
  <2>1. EndpointsIn(package, c) # {}
    BY DEF OwnParamsFit, Clients
  <2>2. PICK q \in ParamsIn(package, c) : q.kind = "endpoint"
    BY <2>1 DEF EndpointsIn
  <2>3. QED
    BY <1>1, <2>2
<1> HIDE DEF new, ps
<1>5. own \in RustClients /\ CtorsFit(own)
  BY <1>1, <1>2, OwnParamsAre
<1>6. /\ Fits(own, own.params)
      /\ \A x \in Given(own) \cup ToSet(own.options) \cup ToSet(own.params) : NamedFrom(x, ps, n)
      /\ \E e \in ToSet(own.params) : e.kind = "endpoint"
  BY <1>1, <1>2, <1>4, OwnFits
<1>7. \A x : NamedFrom(x, ps, n) => Known(c, x.name)'
  <2>1. SUFFICES ASSUME NEW x, NamedFrom(x, ps, n)
                 PROVE  Known(c, x.name)'
    OBVIOUS
  <2>2. PICK i \in 1..n : x.name \in NamesOf(ps[i])
    BY <2>1 DEF NamedFrom
  <2>3. ps[i] \in ParamsIn(package', c)
    BY <1>1
  <2>4. QED
    BY <2>2, <2>3 DEF Known
<1> HIDE DEF own, n
<1>8. /\ made.fields = own.fields /\ made.options = own.options
      /\ \A i \in DOMAIN made.ctors : \E first \in {<<>>, <<Credential>>} :
            made.ctors[i].params = Sorted(first \o own.params)
  BY <1>5, ConstructedIs
<1> HIDE DEF made
<1>9. Given(made) = Given(own)
  BY <1>8 DEF Given
<1>10. \A x \in Given(made) \cup ToSet(made.options) : Known(c, x.name)'
  BY <1>6, <1>7, <1>8, <1>9
<1>11. ASSUME NEW i \in DOMAIN made.ctors
       PROVE  LET params == made.ctors[i].params
              IN  Fits(made, params) /\ Leads(params) /\ \A p \in ToSet(params) : Counted(p) => Known(c, p.name)'
  <2>1. PICK first \in {<<>>, <<Credential>>} : made.ctors[i].params = Sorted(first \o own.params)
    BY <1>8
  <2>2. /\ Fits(made, Sorted(first \o own.params)) /\ Leads(Sorted(first \o own.params))
        /\ \A p \in ToSet(Sorted(first \o own.params)) : Counted(p) => p \in ToSet(own.params)
    BY <1>5, <1>6, <1>8, CtorFits
  <2>3. QED
    BY <1>6, <1>7, <2>1, <2>2
<1>12. QED
  BY <1>3, <1>10, <1>11 DEF Constructs

LEMMA VersionsAppended ==
    ASSUME NEW r \in RustClients, NEW w \in RustNames, NEW vs \in Seq(Parameters),
           NEW q, q = WithVersions(r, w, vs)
    PROVE  /\ q.fields = r.fields \o VersionFields(w, vs) /\ q.options = r.options \o VersionOptions(w, vs)
           /\ DOMAIN q.ctors = DOMAIN r.ctors
           /\ \A i \in DOMAIN r.ctors : q.ctors[i].params = r.ctors[i].params \o VersionParams(w, vs)
<1>1. LET z == WithVersions(r, w, vs)
      IN  /\ z.fields = r.fields \o VersionFields(w, vs)
          /\ z.options = r.options \o VersionOptions(w, vs)
          /\ DOMAIN z.ctors = DOMAIN r.ctors
          /\ \A i \in DOMAIN r.ctors : z.ctors[i].params = r.ctors[i].params \o VersionParams(w, vs)
  BY WithVersionsIs
<1>2. QED
  BY <1>1

LEMMA VersionsConstruct ==
    ASSUME TypeInv, NamesFit(package), OnceEach(package), package' = package,
           \A e \in DOMAIN rust : e \in DOMAIN rust' /\ rust'[e].name = rust[e].name,
           NEW d \in DOMAIN rust, Constructs(d, rust[d]),
           NEW c \in Clients, c \in DOMAIN rust', rust'[c].name \in RustNames, rust'[c].name # <<>>,
           \A e \in DOMAIN rust : rust[e].name # rust'[c].name,
           NEW parent, rust'[d] = WithVersions(rust[d], rust'[c].name, Versions(c, parent))
    PROVE  Constructs(d, rust[d])'
<1> DEFINE w  == rust'[c].name
           vs == Versions(c, parent)
           r  == rust[d]
           q  == rust'[d]
           fs == VersionFields(w, vs)
           os == VersionOptions(w, vs)
           cs == VersionParams(w, vs)
           V  == VersionTails(w)
<1>1. Added(fs, os, cs, V)
  BY VersionsFit
<1>2. r \in RustClients /\ d \in Clients /\ vs \in Seq(Parameters)
  BY VersionsApart DEF TypeInv
<1>3. \A n \in V : ~Known(d, n)
  BY <1>2, Fresh DEF VersionTails
<1>4. \A n \in V : Known(d, n)'
  BY DEF VersionTails, Known
<1>5. \A n : Known(d, n) => Known(d, n)'
  BY KnownStays
<1>6. w \in RustNames /\ q = WithVersions(r, w, vs)
  OBVIOUS
<1> HIDE DEF w, vs, r, q
<1>7. /\ q.fields = r.fields \o fs /\ q.options = r.options \o os
      /\ DOMAIN q.ctors = DOMAIN r.ctors
      /\ \A i \in DOMAIN r.ctors : q.ctors[i].params = r.ctors[i].params \o cs
  <2>1. \A a \in RustClients, b \in RustNames, e \in Seq(Parameters) : \A y :
           y = WithVersions(a, b, e) =>
             /\ y.fields = a.fields \o VersionFields(b, e) /\ y.options = a.options \o VersionOptions(b, e)
             /\ DOMAIN y.ctors = DOMAIN a.ctors
             /\ \A i \in DOMAIN a.ctors : y.ctors[i].params = a.ctors[i].params \o VersionParams(b, e)
    BY VersionsAppended
  <2>2. \A y : y = WithVersions(r, w, vs) =>
             /\ y.fields = r.fields \o VersionFields(w, vs) /\ y.options = r.options \o VersionOptions(w, vs)
             /\ DOMAIN y.ctors = DOMAIN r.ctors
             /\ \A i \in DOMAIN r.ctors : y.ctors[i].params = r.ctors[i].params \o VersionParams(w, vs)
    BY <1>2, <1>6, <2>1
  <2>3. QED
    BY <1>6, <2>2
<1>8. /\ r.fields \in Seq(Fields) /\ r.options \in Seq(Fields) /\ r.ctors \in Seq(Ctors)
  BY <1>2 DEF RustClients
<1>9. /\ \A x \in Given(r) \cup ToSet(r.options) : Known(d, x.name)
      /\ \A i \in DOMAIN r.ctors : /\ Fits(r, r.ctors[i].params) /\ Leads(r.ctors[i].params)
                                   /\ \A p \in ToSet(r.ctors[i].params) : Counted(p) => Known(d, p.name)
  BY DEF Constructs, r
<1> HIDE DEF fs, os, cs, V
<1>10. /\ fs \in Seq(Fields) /\ os \in Seq(Fields) /\ cs \in Seq(ClientParams)
      /\ \A x \in ToSet(fs) \cup ToSet(os) \cup ToSet(cs) : x.name \in V
  BY <1>1 DEF Added
<1>11. ToSet(q.fields) = ToSet(r.fields) \cup ToSet(fs) /\ ToSet(q.options) = ToSet(r.options) \cup ToSet(os)
  <2>1. ToSet(r.fields \o fs) = ToSet(r.fields) \cup ToSet(fs)
    BY <1>8, <1>10, ConcatSet
  <2>2. ToSet(r.options \o os) = ToSet(r.options) \cup ToSet(os)
    BY <1>8, <1>10, ConcatSet
  <2>3. QED
    BY <1>7, <2>1, <2>2
<1>12. \A x \in Given(q) \cup ToSet(q.options) : Known(d, x.name)'
  BY <1>4, <1>5, <1>9, <1>10, <1>11 DEF Given
<1>13. ASSUME NEW i \in DOMAIN r.ctors
       PROVE  LET params == q.ctors[i].params
              IN  Fits(q, params) /\ Leads(params) /\ \A p \in ToSet(params) : Counted(p) => Known(d, p.name)'
  <2> DEFINE ps == r.ctors[i].params
  <2>1. ps \in Seq(CtorParams)
    <3>1. r.ctors[i] \in Ctors
      BY <1>8, LenProperties, ElementOfSeq
    <3>2. QED
      BY <3>1 DEF Ctors
  <2>2. Fits(r, ps) /\ Leads(ps) /\ \A p \in ToSet(ps) : Counted(p) => Known(d, p.name)
    BY <1>9
  <2>3. q.ctors[i].params = ps \o cs
    BY <1>7
  <2> HIDE DEF ps
  <2>4. \A p \in ToSet(cs) : p.name \in V /\ (p \in ToSet(ps) => Counted(p))
    <3>1. \A p \in ToSet(cs) : p.name \in V
      BY <1>10
    <3>2. \A p \in ToSet(cs) : Counted(p)
      <4>1. cs \in Seq(MethodParams)
        <5>1. vs \in Seq(Parameters) /\ w \in RustNames
          BY <1>6, <1>2
        <5>2. QED
          BY <5>1, VersionParamsTyped DEF cs, VersionParams
      <4>2. \A p \in ToSet(cs) : p \in MethodParams
        BY <4>1, LenProperties, ElementOfSeq DEF ToSet
      <4>3. QED
        BY <4>2 DEF MethodParams, ParamsOf, Counted
    <3>3. QED
      BY <3>1, <3>2
  <2>5. ToSet(ps) \cap ToSet(cs) = {}
    BY <1>3, <2>2, <2>4
  <2>6. Extends(q, r, ps, fs, os, cs, V)
    BY <1>1, <1>3, <1>7, <1>8, <1>9, <2>1, <2>2, <2>5 DEF Extends
  <2>7. Fits(q, ps \o cs) /\ ToSet(ps \o cs) = ToSet(ps) \cup ToSet(cs)
    BY <2>6, FitsWith
  <2>8. Leads(ps \o cs)
    <3>1. cs \in Seq(CtorParams)
      BY <1>10, NoCredentialIn
    <3>2. QED
      BY <2>1, <2>2, <3>1, FirstOfConcat DEF Leads
  <2>9. \A p \in ToSet(ps \o cs) : Counted(p) => Known(d, p.name)'
    BY <1>4, <1>5, <2>2, <2>4, <2>7
  <2>10. QED
    BY <2>3, <2>7, <2>8, <2>9
<1>14. QED
  BY <1>7, <1>12, <1>13 DEF Constructs, q

\* Adapting a client gives the api-version of a sub-client to every constructor of
\* the nearest client above that has any, and leaves the other clients alone.
LEMMA EnterCtors ==
    ASSUME TypeInv, NamesFit(package), OwnParamsFit(package), OnceEach(package),
           NamesInv, NamesInv', NamesDistinct', CtorInv,
           NEW c \in Clients, c \notin DOMAIN rust, Above(stack), Enter(c, stack)
    PROVE  CtorInv'
<1>1. /\ rust' \in [DOMAIN rust \cup {c} -> RustClients] /\ package' = package
      /\ \A e \in DOMAIN rust : e \in DOMAIN rust' /\ rust'[e].name = rust[e].name
  BY EnteredIs DEF Enter
<1>2. c \in DOMAIN rust' /\ DOMAIN rust' = DOMAIN rust \cup {c}
  BY <1>1
<1>3. \A d : IsConstructable(d)' <=> IsConstructable(d)
  BY <1>1 DEF IsConstructable, Tcgc
<1>4. \A d \in DOMAIN rust : IsConstructable(d) => Constructs(d, rust[d])
  BY DEF CtorInv
<1>5. ASSUME NEW d \in DOMAIN rust, IsConstructable(d), rust'[d] = rust[d]
      PROVE  Constructs(d, rust[d])'
  BY <1>1, <1>4, <1>5, ConstructsStays
<1>6. CASE AdaptConstructable(c, stack)
  <2>1. \A d \in DOMAIN rust : rust'[d] = rust[d]
    BY <1>6 DEF AdaptConstructable
  <2>2. Constructs(c, rust[c])'
    BY <1>1, <1>6, ConstructableFits
  <2>3. QED
    BY <1>2, <1>3, <1>5, <2>1, <2>2 DEF CtorInv
<1>7. CASE AdaptSubClient(c, stack)
  <2> DEFINE new     == New(c, stack)
             parent  == Head(stack)
             sub     == [new EXCEPT !.fields = SubFields(c, parent), !.endpoint = rust[parent].endpoint]
             nearest == Nearest(stack)
  <2>1. rust' = [d \in DOMAIN rust \cup {c} |->
                     IF d = c THEN sub
                     ELSE IF d = nearest THEN WithVersions(rust[d], sub.name, Versions(c, parent))
                     ELSE rust[d]]
    BY <1>7 DEF AdaptSubClient, Versions, SubFields
  <2>2. ~IsConstructable(c)
    BY <1>7 DEF AdaptSubClient
  <2> HIDE DEF sub, nearest
  <2>3. rust'[c] = sub
    BY <2>1
  <2>4. rust'[c].name \in RustNames
    BY <1>1, <1>2 DEF RustClients
  <2>5. rust'[c].name # <<>>
    BY <1>2 DEF NamesInv
  <2>6. \A e \in DOMAIN rust : rust[e].name # rust'[c].name
    BY <1>1, <1>2 DEF NamesDistinct
  <2>7. ASSUME NEW d \in DOMAIN rust, IsConstructable(d)
        PROVE  Constructs(d, rust[d])'
    <3>1. CASE d # nearest
      <4>1. rust'[d] = rust[d]
        BY <2>1, <3>1
      <4>2. QED
        BY <1>5, <2>7, <4>1
    <3>2. CASE d = nearest
      <4>1. rust'[d] = WithVersions(rust[d], rust'[c].name, Versions(c, parent))
        BY <2>1, <2>3, <3>2
      <4>2. Constructs(d, rust[d])
        BY <1>4, <2>7
      <4> HIDE DEF parent
      <4>3. QED
        BY <1>1, <1>2, <2>4, <2>5, <2>6, <4>1, <4>2, VersionsConstruct
    <3>3. QED
      BY <3>1, <3>2
  <2>8. QED
    BY <1>2, <1>3, <2>2, <2>7 DEF CtorInv
<1>8. QED
  BY <1>6, <1>7 DEF Enter

LEMMA NextCtors ==
    ASSUME TypeInv, NamesFit(package), OwnParamsFit(package), OnceEach(package),
           NamesInv, NamesInv', NamesDistinct', TreeInv, CtorInv, [Next]_vars
    PROVE  CtorInv'
<1>1. ASSUME UNCHANGED <<package, rust>>
      PROVE  CtorInv'
  <2>1. \A d \in DOMAIN rust : IsConstructable(d) => Constructs(d, rust[d])
    BY DEF CtorInv
  <2>2. \A d : IsConstructable(d)' <=> IsConstructable(d)
    BY <1>1 DEF IsConstructable, Tcgc
  <2>3. \A d \in DOMAIN rust : Constructs(d, rust[d]) => Constructs(d, rust[d])'
    BY <1>1, ConstructsStays
  <2>4. QED
    BY <1>1, <2>1, <2>2, <2>3 DEF CtorInv
<1>2. CASE EnterRoot \/ EnterChild
  <2>1. PICK c \in Clients : EntersNext(c)
    BY <1>2, EntersFresh
  <2>2. c \notin DOMAIN rust /\ Above(stack)
    BY <2>1 DEF EntersNext
  <2>3. CASE Enter(c, stack)
    BY <2>2, <2>3, EnterCtors
  <2>4. CASE Reject(c, stack)
    BY <1>1, <2>4 DEF Reject
  <2>5. QED
    BY <2>1, <2>3, <2>4 DEF EntersNext
<1>3. CASE Leave
  <2>1. /\ package' = package /\ DOMAIN rust' = DOMAIN rust
        /\ \A d \in DOMAIN rust : /\ rust'[d].name = rust[d].name /\ rust'[d].ctors = rust[d].ctors
                                  /\ rust'[d].options = rust[d].options /\ rust'[d].fields = rust[d].fields
    BY <1>3, LeaveKeeps
  <2>2. \A d : IsConstructable(d)' <=> IsConstructable(d)
    BY <2>1 DEF IsConstructable, Tcgc
  <2>3. ASSUME NEW d \in DOMAIN rust, Constructs(d, rust[d])
        PROVE  Constructs(d, rust[d])'
    BY <2>1, <2>3, ConstructsStays
  <2>4. QED
    BY <2>1, <2>2, <2>3 DEF CtorInv
<1>4. CASE UNCHANGED vars
  BY <1>1, <1>4 DEF vars
<1>5. QED
  BY <1>2, <1>3, <1>4 DEF Next, Finished

LEMMA CtorsInitialise ==
    ASSUME TypeInv, CtorInv
    PROVE  ConstructorsInitialise
<1>1. SUFFICES ASSUME NEW c \in DOMAIN rust, HasConstructors(c),
                      NEW params \in {ctor.params : ctor \in ToSet(rust[c].ctors)}
               PROVE  /\ Initialises(ConstructorBody(c, params), c)
                      /\ params # <<>> /\ Head(params).kind = "endpoint"
  BY DEF ConstructorsInitialise
<1>2. rust[c] \in RustClients /\ rust[c].ctors \in Seq(Ctors)
  BY DEF TypeInv, RustClients
<1>3. PICK i \in DOMAIN rust[c].ctors : params = rust[c].ctors[i].params
  BY DEF ToSet
<1>4. params \in Seq(CtorParams)
  <2>1. rust[c].ctors[i] \in Ctors
    BY <1>2, LenProperties, ElementOfSeq
  <2>2. QED
    BY <1>3, <2>1 DEF Ctors
<1>5. IsConstructable(c)
  BY <1>1 DEF HasConstructors, IsConstructable
<1>6. Fits(rust[c], params) /\ Leads(params)
  BY <1>3, <1>5 DEF CtorInv, Constructs
<1>7. Initialises(ConstructorBody(c, params), c)
  BY <1>2, <1>4, <1>6, BodyInitialises
<1>8. Head(params) = params[1]
  BY <1>4, <1>6, HeadTailProperties DEF Leads
<1>9. QED
  BY <1>6, <1>7, <1>8 DEF Leads

\* What the theorem asks of the packages.
Constructible(p) == WellNamed(p) /\ NamesFit(p) /\ OwnParamsFit(p) /\ OnceEach(p)

\* However deep the sub-clients whose api-versions a client gets after its
\* constructors were made: each of them sets each field once and begins with the
\* endpoint.
THEOREM ConstructorsSetFields == Spec /\ Constructible(package) => []ConstructorsInitialise
<1>1. Init => NamesInv /\ TreeInv /\ CtorInv
  <2>1. SUFFICES ASSUME Init
                 PROVE  NamesInv /\ TreeInv /\ CtorInv
    OBVIOUS
  <2>2. DOMAIN rust = {} /\ stack = <<>> /\ DOMAIN <<>> = {}
    BY <2>1 DEF Init, Empty
  <2>3. QED
    BY <2>2 DEF NamesInv, TreeInv, CtorInv, IsInjective
<1>2. TypeInv /\ Constructible(package) /\ NamesInv /\ [Next]_vars => NamesInv'
  BY NextNames DEF Constructible
<1>3. TypeInv /\ Constructible(package) /\ TreeInv /\ [Next]_vars => TreeInv'
  BY NextTree DEF Constructible
<1>4. Constructible(package) /\ [Next]_vars => Constructible(package)'
  BY PackageStays
<1>5. TypeInv /\ Constructible(package) /\ NamesInv => NamesDistinct
  BY NamesDiffer DEF Constructible
<1>6. TypeInv /\ Constructible(package) /\ NamesInv /\ NamesInv' /\ NamesDistinct' /\ TreeInv /\ CtorInv
        /\ [Next]_vars => CtorInv'
  BY NextCtors DEF Constructible
<1>7. TypeInv /\ CtorInv => ConstructorsInitialise
  BY CtorsInitialise
<1>8. QED
  BY <1>1, <1>2, <1>3, <1>4, <1>5, <1>6, <1>7, WellTyped, PTL DEF Spec

----------------------------------------------------------------------------
(* What accessors initialise. *)

\* The versions that a sub-client has and its parent does not.
VersionsBelow(a, c) == {f \in MethodParamsIn(package, c) : /\ f.apiVersion /\ ~IsConstructable(c)
                                                           /\ \A q \in MethodParamsIn(package, a) : q.name # f.name}

\* A field for one of them, when the sub-client is called w.
Brings(c, a, w, x) == \E f \in VersionsBelow(a, c) : x = Field(w \o f.name, FALSE)

VersionOfChild(a, x) == \E d \in DOMAIN rust : IsChild(d, a) /\ Brings(d, a, rust[d].name, x)

\* Exactly the fields of a client, among those of the adapted clients.
FieldsAre(c, r) == /\ Apart(r.fields)
                   /\ \A x : x \in ToSet(r.fields) <=> FieldOfParam(c, x) \/ VersionOfChild(c, x)

\* The calls under way are each for a child of the next, parents are adapted
\* before their children, and accessors are for children.
AccessorInv ==
    /\ \A k \in 1..(Len(stack) - 1) : IsChild(stack[k], stack[k + 1])
    /\ \A a \in DOMAIN rust : a \in ToSet(package.roots) => IsConstructable(a)
    /\ \A d \in DOMAIN rust, a \in Clients : IsChild(d, a) => a \in DOMAIN rust
    /\ \A a \in DOMAIN rust : FieldsAre(a, rust[a])
    /\ \A a \in DOMAIN rust : \A made \in rust[a].accessors :
          /\ made.child \in DOMAIN rust /\ IsChild(made.child, a)
          /\ made.params = AccessorParams(a, made.child)

LEMMA ConstructableApart ==
    ASSUME TypeInv, NamesFit(package), OnceEach(package), NEW c \in Clients, NEW above, Above(above),
           AdaptConstructable(c, above)
    PROVE  Apart(rust'[c].fields)
<1> DEFINE new  == New(c, above)
           ps   == Tcgc(c).params
           own  == WithOwnParams(new, ps)
           made == Constructed(own)
<1>1. /\ ps \in Seq(Parameters)
      /\ \A i \in 1..Len(ps) : TemplateFits(ps[i]) /\ FieldName(ps[i]) # <<"pipeline">>
      /\ \A i, j \in 1..Len(ps) : i # j => NamesOf(ps[i]) \cap NamesOf(ps[j]) = {}
  BY OwnHypotheses
<1>2. new \in RustClients /\ CtorsFit(new) /\ new.fields = <<Pipeline>> /\ new.options = <<>> /\ new.params = <<>>
  BY NameTyped, NewIs DEF New
<1>3. rust'[c] = made
  BY DEF AdaptConstructable
<1> HIDE DEF new, ps
<1>4. own \in RustClients /\ CtorsFit(own)
  BY <1>1, <1>2, OwnParamsAre
<1>5. Fits(own, own.params)
  BY <1>1, <1>2, OwnFits
<1> HIDE DEF own
<1>6. made.fields = own.fields
  BY <1>4, ConstructedIs
<1>7. QED
  BY <1>3, <1>5, <1>6 DEF Fits

\* A parameter of a sub-client makes one field, by one of its names, or none.
LEMMA SubFieldNamed ==
    ASSUME NEW c, NEW a, BelowResolved(c, a), NEW q \in ParamsIn(package, c)
    PROVE  \/ SubField(a, q) = <<>>
           \/ \E x : SubField(a, q) = <<x>> /\ x.name \in NamesOf(q) /\ x.name \in {q.name, FieldName(q)}
<1>1. CASE SharedWith(a, q)
  <2>1. SubField(a, q) = <<FieldOf(a, q.name)>>
    BY <1>1 DEF SubField
  <2> DEFINE x == FieldOf(a, q.name)
  <2>2. \/ q \in EndpointsIn(package, c) /\ x = Field(q.field, FALSE)
        \/ q \in MethodParamsIn(package, c) /\ x = Field(q.name, IsOption(q))
    BY <1>1, SharedField
  <2> HIDE DEF x
  <2>3. x.name \in NamesOf(q) /\ x.name \in {q.name, FieldName(q)}
    <3>1. CASE q \in EndpointsIn(package, c) /\ x = Field(q.field, FALSE)
      <4>1. q.kind = "endpoint" /\ x.name = q.field
        BY <3>1, FieldParts DEF EndpointsIn
      <4>2. QED
        BY <4>1 DEF NamesOf, FieldName
    <3>2. CASE q \in MethodParamsIn(package, c) /\ x = Field(q.name, IsOption(q))
      <4>1. q.kind # "endpoint" /\ x.name = q.name
        BY <3>2, FieldParts DEF MethodParamsIn
      <4>2. QED
        BY <4>1 DEF NamesOf
    <3>3. QED
      BY <2>2, <3>1, <3>2
  <2>4. QED
    BY <2>1, <2>3 DEF x
<1>2. CASE ~SharedWith(a, q) /\ q.kind = "method"
  <2>1. SubField(a, q) = <<Field(q.name, FALSE)>>
    BY <1>2 DEF SubField
  <2>2. Field(q.name, FALSE).name \in NamesOf(q) /\ Field(q.name, FALSE).name = q.name
    BY <1>2, FieldParts DEF NamesOf
  <2>3. QED
    BY <2>1, <2>2
<1>3. CASE ~SharedWith(a, q) /\ q.kind # "method"
  BY <1>3 DEF SubField
<1>4. QED
  BY <1>1, <1>2, <1>3

LEMMA SubFieldsExact ==
    ASSUME NEW c, NEW a, BelowResolved(c, a), OnceEach(package)
    PROVE  Apart(SubFields(c, a)) /\ \A x : x \in ToSet(SubFields(c, a)) <=> FieldOfParam(c, x)
<1> DEFINE ps == Tcgc(c).params
           n  == Len(ps)
           ss == [i \in DOMAIN ps |-> SubField(a, ps[i])]
           rest == FlattenSeq(ss)
           first == <<Pipeline>>
<1>1. /\ TypeInv /\ NamesFit(package) /\ c \in Clients /\ a \in DOMAIN rust
      /\ rust[a].fields \in Seq(Fields)
  BY DEF BelowResolved, Coherent, TypeInv, RustClients
<1>2. /\ ps \in Seq(Parameters)
      /\ \A i \in 1..n : ps[i] \in ParamsIn(package, c)
      /\ \A q \in ParamsIn(package, c) : \E i \in 1..n : q = ps[i]
      /\ \A i, j \in 1..n : i # j => NamesOf(ps[i]) \cap NamesOf(ps[j]) = {}
  BY <1>1, OwnHypotheses
<1>3. n \in Nat /\ DOMAIN ps = 1..n /\ \A i \in 1..n : ps[i] \in Parameters
  BY <1>2, LenProperties, ElementOfSeq
<1>4. \A x : ToSet(<<x>>) = {x} /\ IsInjective(<<x>>)
  BY InjectiveOne
<1>5. ToSet(<<>>) = {} /\ IsInjective(<<>>)
  BY InjectiveNone
<1>6. \A i \in 1..n : ss[i] = SubField(a, ps[i])
  BY <1>3
<1>7. ss \in [1..n -> Seq(Fields)]
  BY <1>1, <1>3, <1>6, SubFieldTyped
<1>8. SubFields(c, a) = first \o rest
  BY DEF SubFields, Collected
<1> HIDE DEF ps, ss
<1>9. ASSUME NEW i \in 1..n, NEW x \in ToSet(ss[i])
      PROVE  x.name \in NamesOf(ps[i]) /\ x.name # Pipeline.name /\ \A y \in ToSet(ss[i]) : y = x
  <2>1. ps[i] \in ParamsIn(package, c) /\ ss[i] = SubField(a, ps[i])
    BY <1>2, <1>6
  <2>2. PICK y : /\ SubField(a, ps[i]) = <<y>> /\ y.name \in NamesOf(ps[i])
                 /\ y.name \in {ps[i].name, FieldName(ps[i])}
    BY <1>5, <1>9, <2>1, SubFieldNamed
  <2>3. ToSet(ss[i]) = {y} /\ x = y
    BY <1>4, <1>9, <2>1, <2>2
  <2>4. y.name # <<"pipeline">>
    BY <1>1, <2>1, <2>2 DEF NamesFit, Clients
  <2>5. Pipeline.name = <<"pipeline">>
    BY FieldParts DEF Pipeline
  <2>6. QED
    BY <2>2, <2>3, <2>4, <2>5
<1>10. \A i \in 1..n : IsInjective(ss[i])
  BY <1>2, <1>4, <1>5, <1>6, SubFieldNamed
<1>11. ASSUME NEW i \in 1..n, NEW j \in 1..n, i # j
       PROVE  ToSet(ss[i]) \cap ToSet(ss[j]) = {}
  <2>1. SUFFICES ASSUME NEW x \in ToSet(ss[i]), x \in ToSet(ss[j])
                 PROVE  FALSE
    OBVIOUS
  <2>2. x.name \in NamesOf(ps[i]) /\ x.name \in NamesOf(ps[j])
    BY <1>9, <2>1
  <2>3. QED
    BY <1>2, <1>11, <2>2
<1>12. rest \in Seq(Fields) /\ \A x : x \in ToSet(rest) <=> \E i \in 1..n : x \in ToSet(ss[i])
  BY <1>3, <1>7, Flattened
<1>13. IsInjective(rest)
  BY <1>3, <1>7, <1>10, <1>11, InjectiveFlattened
<1> HIDE DEF rest
<1>14. OneName(ToSet(rest))
  <2>1. SUFFICES ASSUME NEW x \in ToSet(rest), NEW y \in ToSet(rest), x.name = y.name
                 PROVE  x = y
    BY DEF OneName
  <2>2. PICK i \in 1..n : x \in ToSet(ss[i])
    BY <1>12
  <2>3. PICK j \in 1..n : y \in ToSet(ss[j])
    BY <1>12
  <2>4. x.name \in NamesOf(ps[i]) /\ y.name \in NamesOf(ps[j]) /\ \A z \in ToSet(ss[i]) : z = x
    BY <1>9, <2>2, <2>3
  <2>5. i = j
    BY <1>2, <2>1, <2>4
  <2>6. QED
    BY <2>3, <2>4, <2>5
<1>15. Pipeline \in Fields
  <2>1. <<"pipeline">> \in RustNames /\ FALSE \in BOOLEAN
    BY DEF RustNames
  <2>2. QED
    BY <2>1, FieldTyped DEF Pipeline
<1>16. first \in Seq(Fields) /\ Apart(first) /\ ToSet(first) = {Pipeline}
  BY <1>15, Singleton, ApartOne
<1> HIDE DEF first
<1>17. \A x \in ToSet(first), y \in ToSet(rest) : x.name # y.name
  BY <1>9, <1>12, <1>16
<1>18. Apart(first \o rest)
  BY <1>12, <1>13, <1>14, <1>16, <1>17, ApartConcat DEF Apart
<1>19. ToSet(first \o rest) = ToSet(first) \cup ToSet(rest)
  BY <1>12, <1>16, ConcatSet
<1>20. ASSUME NEW x \in ToSet(rest)
       PROVE  FieldOfParam(c, x)
  <2>1. PICK i \in 1..n : x \in ToSet(ss[i])
    BY <1>12
  <2>2. ps[i] \in ParamsIn(package, c) /\ x \in ToSet(SubField(a, ps[i]))
    BY <1>2, <1>6, <2>1
  <2>3. QED
    BY <2>2, SubFieldIs
<1>21. ASSUME NEW x, FieldOfParam(c, x), x # Pipeline
       PROVE  x \in ToSet(rest)
  <2>1. PICK q \in ParamsIn(package, c) : x \in ToSet(SubField(a, q))
    <3>1. CASE \E e \in EndpointsIn(package, c) : x = Field(e.field, FALSE)
      <4>1. PICK e \in EndpointsIn(package, c) : x = Field(e.field, FALSE)
        BY <3>1
      <4>2. e \in ParamsIn(package, c)
        BY DEF EndpointsIn
      <4>3. QED
        BY <4>1, <4>2, SubFieldIs
    <3>2. CASE \E q \in MethodParamsIn(package, c) : x = Field(q.name, IsOption(q))
      <4>1. PICK q \in MethodParamsIn(package, c) : x = Field(q.name, IsOption(q))
        BY <3>2
      <4>2. q \in ParamsIn(package, c)
        BY DEF MethodParamsIn
      <4>3. QED
        BY <4>1, <4>2, SubFieldIs
    <3>3. QED
      BY <1>21, <3>1, <3>2 DEF FieldOfParam
  <2>2. QED
    BY <1>2, <1>6, <1>12, <2>1
<1>22. FieldOfParam(c, Pipeline)
  BY DEF FieldOfParam
<1>23. QED
  BY <1>8, <1>16, <1>18, <1>19, <1>20, <1>21, <1>22

LEMMA VersionsAreBelow ==
    ASSUME NEW c, NEW a, BelowResolved(c, a)
    PROVE  \A p : p \in ToSet(Versions(c, a)) <=> p \in VersionsBelow(a, c)
<1>1. \A p : p \in ToSet(Versions(c, a)) <=> p \in ParamsIn(package, c) /\ OwnVersion(c, a, p)
  <2>1. Tcgc(c).params \in Seq(Parameters)
    BY TcgcTyped DEF BelowResolved, TypeInv
  <2>2. ParamsIn(package, c) = ToSet(Tcgc(c).params)
    BY DEF ParamsIn, Tcgc
  <2>3. QED
    BY <2>1, <2>2, VersionsAre
<1>2. ASSUME NEW p \in ParamsIn(package, c), OwnVersion(c, a, p)
      PROVE  p \in VersionsBelow(a, c)
  <2>1. p.kind = "method" /\ p.apiVersion /\ ~SharedWith(a, p)
    BY <1>2 DEF OwnVersion
  <2>2. p \in MethodParamsIn(package, c)
    BY <2>1, OwnRequired
  <2>3. ASSUME NEW q \in MethodParamsIn(package, a), q.name = p.name
        PROVE  FALSE
    <3>1. Field(q.name, IsOption(q)) \in ToSet(rust[a].fields)
      BY DEF BelowResolved, Resolved
    <3>2. Field(q.name, IsOption(q)).name = p.name
      BY <2>3, FieldParts
    <3>3. QED
      BY <2>1, <3>1, <3>2, SharedIf
  <2>4. QED
    BY <2>1, <2>2, <2>3 DEF VersionsBelow, BelowResolved
<1>3. ASSUME NEW p \in VersionsBelow(a, c)
      PROVE  p \in ParamsIn(package, c) /\ OwnVersion(c, a, p)
  <2>1. /\ p \in ParamsIn(package, c) /\ p.kind = "method" /\ p.apiVersion
        /\ \A q \in MethodParamsIn(package, a) : q.name # p.name
    BY DEF VersionsBelow, MethodParamsIn
  <2>2. ASSUME SharedWith(a, p)
        PROVE  FALSE
    <3>1. PICK i \in DOMAIN rust[a].fields : rust[a].fields[i].name = p.name
      BY <2>2 DEF SharedWith, Names
    <3> DEFINE x == rust[a].fields[i]
    <3>2. x \in ToSet(rust[a].fields) /\ x.name = p.name
      BY <3>1 DEF ToSet
    <3> HIDE DEF x
    <3>3. FieldOfParam(a, x) \/ VersionField(x)
      BY <3>2 DEF BelowResolved, Resolved
    <3>4. x # Pipeline /\ ~VersionField(x)
      BY <2>1, <3>2, ParamFieldsDiffer DEF BelowResolved, Coherent
    <3>5. CASE \E e \in EndpointsIn(package, a) : x = Field(e.field, FALSE)
      <4>1. PICK e \in EndpointsIn(package, a) : x = Field(e.field, FALSE)
        BY <3>5
      <4>2. p.name = e.field
        BY <3>2, <4>1, FieldParts
      <4>3. p.kind = "endpoint"
        BY <2>1, <4>2, SubParamsHere
      <4>4. QED
        BY <2>1, <4>3
    <3>6. CASE \E q \in MethodParamsIn(package, a) : x = Field(q.name, IsOption(q))
      BY <2>1, <3>2, <3>6, FieldParts
    <3>7. QED
      BY <3>3, <3>4, <3>5, <3>6 DEF FieldOfParam
  <2>3. QED
    BY <2>1, <2>2 DEF OwnVersion
<1>4. QED
  BY <1>1, <1>2, <1>3

LEMMA FieldsPrimed ==
    ASSUME package' = package
    PROVE  /\ \A d, x : FieldOfParam(d, x)' <=> FieldOfParam(d, x)
           /\ \A d, a : VersionsBelow(a, d)' = VersionsBelow(a, d)
           /\ \A d, a : IsChild(d, a)' <=> IsChild(d, a)
           /\ \A d : IsConstructable(d)' <=> IsConstructable(d)
<1>1. \A d : ParamsIn(package, d)' = ParamsIn(package, d)
  BY DEF ParamsIn
<1>2. \A d : IsConstructable(d)' <=> IsConstructable(d)
  BY DEF IsConstructable, Tcgc
<1>3. \A d : EndpointsIn(package, d)' = EndpointsIn(package, d) /\ MethodParamsIn(package, d)' = MethodParamsIn(package, d)
  BY <1>1 DEF EndpointsIn, MethodParamsIn
<1>4. \A d, x : FieldOfParam(d, x)' <=> FieldOfParam(d, x)
  BY <1>3 DEF FieldOfParam
<1>5. \A d, a : VersionsBelow(a, d)' = VersionsBelow(a, d)
  BY <1>2, <1>3 DEF VersionsBelow
<1>6. \A d, a : IsChild(d, a)' <=> IsChild(d, a)
  BY DEF IsChild, ChildrenOf
<1>7. QED
  BY <1>2, <1>4, <1>5, <1>6

\* A client that is added brings the versions below it to its parent.
LEMMA VersionsOfMore ==
    ASSUME package' = package, NEW c, c \notin DOMAIN rust, DOMAIN rust' = DOMAIN rust \cup {c},
           \A e \in DOMAIN rust : rust'[e].name = rust[e].name
    PROVE  \A d, x : VersionOfChild(d, x)' <=> VersionOfChild(d, x) \/ (IsChild(c, d) /\ Brings(c, d, rust'[c].name, x))
<1>1. \A d, x : VersionOfChild(d, x)' <=> \E e \in DOMAIN rust' : IsChild(e, d) /\ Brings(e, d, rust'[e].name, x)
  BY FieldsPrimed DEF VersionOfChild, Brings
<1>2. \A d, x : VersionOfChild(d, x) <=> \E e \in DOMAIN rust : IsChild(e, d) /\ Brings(e, d, rust'[e].name, x)
  BY DEF VersionOfChild
<1>3. QED
  BY <1>1, <1>2

GetsVersions(q, d, c, a, w) ==
    /\ TypeInv /\ NamesFit(package) /\ OnceEach(package)
    /\ d \in DOMAIN rust /\ FieldsAre(d, rust[d]) /\ BelowResolved(c, a)
    /\ w \in RustNames /\ w # <<>> /\ \A e \in DOMAIN rust : rust[e].name # w
    /\ q = WithVersions(rust[d], w, Versions(c, a))

\* The fields that a client gets are of other names than those it has.
LEMMA VersionsAdded ==
    ASSUME NEW q, NEW d, NEW c, NEW a, NEW w, GetsVersions(q, d, c, a, w)
    PROVE  /\ Apart(q.fields)
           /\ \A x : x \in ToSet(q.fields) <=> x \in ToSet(rust[d].fields) \/ Brings(c, a, w, x)
<1> DEFINE vs == Versions(c, a)
           r  == rust[d]
           fs == VersionFields(w, vs)
           V  == VersionTails(w)
<1> USE DEF GetsVersions
<1>1. c \in Clients /\ d \in Clients /\ r \in RustClients
  BY DEF BelowResolved, TypeInv
<1>2. vs \in Seq(Parameters)
  BY <1>1, VersionsApart
<1>3. Added(fs, VersionOptions(w, vs), VersionParams(w, vs), V)
  BY <1>1, VersionsFit
<1>4. fs \in Seq(Fields) /\ Apart(fs) /\ \A x \in ToSet(fs) : x.name \in V /\ x.name # Pipeline.name
  BY <1>3 DEF Added
<1>5. \A n \in V : ~Known(d, n)
  BY <1>1, Fresh DEF VersionTails
<1>6. ASSUME NEW x \in ToSet(r.fields), x # Pipeline
      PROVE  Known(d, x.name)
  <2>1. FieldOfParam(d, x) \/ VersionOfChild(d, x)
    BY <1>6 DEF FieldsAre
  <2>2. CASE \E e \in EndpointsIn(package, d) : x = Field(e.field, FALSE)
    <3>1. PICK e \in EndpointsIn(package, d) : x = Field(e.field, FALSE)
      BY <2>2
    <3>2. e \in ParamsIn(package, d) /\ x.name \in NamesOf(e)
      BY <3>1, FieldParts DEF EndpointsIn, NamesOf
    <3>3. QED
      BY <3>2 DEF Known
  <2>3. CASE \E p \in MethodParamsIn(package, d) : x = Field(p.name, IsOption(p))
    <3>1. PICK p \in MethodParamsIn(package, d) : x = Field(p.name, IsOption(p))
      BY <2>3
    <3>2. p \in ParamsIn(package, d) /\ x.name \in NamesOf(p)
      BY <3>1, FieldParts DEF MethodParamsIn, NamesOf
    <3>3. QED
      BY <3>2 DEF Known
  <2>4. CASE VersionOfChild(d, x)
    <3>1. PICK e \in DOMAIN rust : IsChild(e, d) /\ Brings(e, d, rust[e].name, x)
      BY <2>4 DEF VersionOfChild
    <3>2. PICK f \in VersionsBelow(d, e) : x = Field(rust[e].name \o f.name, FALSE)
      BY <3>1 DEF Brings
    <3>3. e \in Clients /\ f \in ParamsIn(package, e) /\ f.apiVersion
      BY DEF VersionsBelow, MethodParamsIn, TypeInv
    <3>4. f.name \in VersionNames(package)
      BY <3>3 DEF VersionNames, Clients
    <3>5. x.name = rust[e].name \o f.name
      BY <3>2, FieldParts
    <3>6. QED
      BY <3>4, <3>5 DEF Known
  <2>5. QED
    BY <1>6, <2>1, <2>2, <2>3, <2>4 DEF FieldOfParam
<1>7. r.fields \in Seq(Fields) /\ Apart(r.fields)
  BY <1>1 DEF RustClients, FieldsAre
<1>8. q.fields = r.fields \o fs
  <2>1. \A s \in RustClients, b \in RustNames, e \in Seq(Parameters) : \A y :
           y = WithVersions(s, b, e) => y.fields = s.fields \o VersionFields(b, e)
    BY VersionsAppended
  <2> HIDE DEF vs, r
  <2>2. \A y : y = WithVersions(r, w, vs) => y.fields = r.fields \o VersionFields(w, vs)
    BY <1>1, <1>2, <2>1
  <2>3. QED
    BY <2>2 DEF vs, r
<1>9. ASSUME NEW x
      PROVE  x \in ToSet(fs) <=> Brings(c, a, w, x)
  <2>1. DOMAIN vs = 1..Len(vs) /\ DOMAIN fs = DOMAIN vs
    BY <1>2, LenProperties DEF VersionFields
  <2>2. \A p : p \in ToSet(vs) <=> p \in VersionsBelow(a, c)
    BY VersionsAreBelow
  <2>3. \A f \in VersionsBelow(a, c) : IsOption(f) = FALSE
    <3>1. SUFFICES ASSUME NEW f \in VersionsBelow(a, c)
                   PROVE  IsOption(f) = FALSE
      OBVIOUS
    <3>2. f \in MethodParamsIn(package, c) /\ \A p \in MethodParamsIn(package, a) : f.name # p.name
      BY DEF VersionsBelow
    <3>3. \A g \in MethodParamsIn(package, c) :
             (\A p \in MethodParamsIn(package, a) : g.name # p.name) => IsOption(g) = FALSE
      BY SubParamsHere
    <3>4. QED
      BY <3>2, <3>3, Zenon
  <2>4. \A i \in DOMAIN vs : fs[i] = Field(w \o vs[i].name, IsOption(vs[i]))
    BY DEF VersionFields, Deduplicated
  <2> HIDE DEF vs, fs
  <2>5. x \in ToSet(fs) <=> \E i \in DOMAIN vs : x = Field(w \o vs[i].name, IsOption(vs[i]))
    BY <2>1, <2>4 DEF ToSet
  <2>6. x \in ToSet(fs) <=> \E p \in ToSet(vs) : x = Field(w \o p.name, IsOption(p))
    BY <2>5 DEF ToSet
  <2>7. QED
    BY <2>2, <2>3, <2>6 DEF Brings
<1> HIDE DEF vs, fs, V, r
<1>10. \A x \in ToSet(r.fields), y \in ToSet(fs) : x.name # y.name
  BY <1>4, <1>5, <1>6
<1>11. Apart(r.fields \o fs) /\ ToSet(r.fields \o fs) = ToSet(r.fields) \cup ToSet(fs)
  BY <1>4, <1>7, <1>10, ApartConcat, ConcatSet
<1>12. QED
  BY <1>8, <1>9, <1>11 DEF r

\* A version that the parent of a sub-client does not have, a root lacks.
LEMMA VersionsBelowRoot ==
    ASSUME NEW c, NEW a, BelowResolved(c, a), AccessorsFit(package), NEW f \in VersionsBelow(a, c)
    PROVE  a \in ToSet(package.roots)
<1>1. f \in ParamsIn(package, c) /\ f.kind = "method" /\ f.apiVersion /\ ~Merged(f)
  BY DEF VersionsBelow, MethodParamsIn
<1>2. package.clients[c].by = "parent"
  <2>1. Tcgc(c).by \in {"code", "individually", "both", "parent"}
    BY ClientTreeAssumption DEF BelowResolved, TypeInv, Clients, IsClient, Tcgc
  <2>2. QED
    BY <2>1 DEF BelowResolved, IsConstructable, Tcgc
<1>3. a \in DOMAIN package.clients /\ c \in ChildrenOf(package, a)
  BY DEF BelowResolved, Clients, IsChild
<1>4. PICK g \in ParamsIn(package, a) : g.name = f.name
  BY <1>1, <1>2, <1>3, Zenon DEF AccessorsFit
<1>5. /\ f.kind = g.kind
      /\ Merged(g) => Merged(f) \/ (f.apiVersion /\ a \in ToSet(package.roots) /\ package.clients[c].by = "parent")
  <2>1. \A y \in ParamsIn(package, c), z \in ParamsIn(package, a) : y.name = z.name =>
           /\ y.kind = z.kind
           /\ ~Merged(z) /\ y.kind = "method" => IsOption(y) = IsOption(z)
           /\ Merged(z) => Merged(y) \/ (y.apiVersion /\ a \in ToSet(package.roots) /\ package.clients[c].by = "parent")
    BY <1>3, Zenon DEF AccessorsFit
  <2>2. f.name = g.name
    BY <1>4
  <2>3. QED
    BY <1>1, <1>4, <2>1, <2>2, Zenon
<1>6. Merged(g)
  <2>1. ~Merged(g) => g \in MethodParamsIn(package, a)
    BY <1>1, <1>5 DEF MethodParamsIn
  <2>2. QED
    BY <1>4, <2>1 DEF VersionsBelow
<1>7. QED
  BY <1>1, <1>5, <1>6

LEMMA NearestIsHead ==
    ASSUME NEW S, NEW above \in Seq(S), above # <<>>, IsConstructable(Head(above))
    PROVE  Nearest(above) = Head(above)
<1> DEFINE P(i) == IsConstructable(above[i]) /\ \A j \in 1..(i - 1) : ~IsConstructable(above[j])
           i == CHOOSE i \in DOMAIN above : P(i)
<1>1. Head(above) = above[1] /\ DOMAIN above = 1..Len(above) /\ Len(above) \in Nat \ {0}
  BY EmptySeq, LenProperties, HeadTailProperties
<1>2. P(1)
  BY <1>1
<1>3. i \in DOMAIN above /\ P(i)
  BY <1>1, <1>2
<1>4. Nearest(above) = above[i]
  BY DEF Nearest
<1>5. i = 1
  <2>1. i \in 1..Len(above)
    BY <1>1, <1>3
  <2>2. i # 1 => 1 \in 1..(i - 1)
    BY <1>1, <2>1
  <2>3. QED
    BY <1>1, <1>3, <2>2
<1>6. QED
  BY <1>1, <1>4, <1>5

LEMMA EnterFieldsRoot ==
    ASSUME TypeInv, WellNamed(package), Coherent(package), OnceEach(package), AccessorInv,
           NEW c \in Clients, c \notin DOMAIN rust, Above(stack), AdaptConstructable(c, stack),
           package' = package, DOMAIN rust' = DOMAIN rust \cup {c},
           \A e \in DOMAIN rust : rust'[e].name = rust[e].name
    PROVE  \A d \in DOMAIN rust' : FieldsAre(d, rust[d])'
<1>1. \A d, x : VersionOfChild(d, x)' <=> VersionOfChild(d, x) \/ (IsChild(c, d) /\ Brings(c, d, rust'[c].name, x))
  BY VersionsOfMore
<1>2. \A d, x : ~Brings(c, d, rust'[c].name, x)
  BY DEF AdaptConstructable, VersionsBelow, Brings
<1>3. \A d, x : VersionOfChild(d, x)' <=> VersionOfChild(d, x)
  BY <1>1, <1>2
<1>4. \A x : ~VersionOfChild(c, x)
  BY DEF VersionOfChild, AccessorInv
<1>5. \A x : x \in ToSet(rust'[c].fields) <=> FieldOfParam(c, x)
  BY ConstructableFields
<1>6. Apart(rust'[c].fields)
  BY ConstructableApart DEF Coherent
<1>7. \A d, x : FieldOfParam(d, x)' <=> FieldOfParam(d, x)
  BY FieldsPrimed
<1>8. FieldsAre(c, rust[c])'
  BY <1>3, <1>4, <1>5, <1>6, <1>7 DEF FieldsAre
<1>9. ASSUME NEW d \in DOMAIN rust
      PROVE  FieldsAre(d, rust[d])'
  <2>1. rust'[d] = rust[d]
    BY DEF AdaptConstructable
  <2>2. FieldsAre(d, rust[d])
    BY DEF AccessorInv
  <2>3. QED
    BY <1>3, <1>7, <2>1, <2>2 DEF FieldsAre
<1>10. QED
  BY <1>8, <1>9

LEMMA EnterFieldsSub ==
    ASSUME TypeInv, WellNamed(package), Coherent(package), OnceEach(package), AccessorsFit(package), AccessorInv,
           NEW c \in Clients, c \notin DOMAIN rust, Above(stack), AdaptSubClient(c, stack),
           BelowResolved(c, Head(stack)),
           package' = package, DOMAIN rust' = DOMAIN rust \cup {c},
           rust'[c].name \in RustNames, rust'[c].name # <<>>,
           \A e \in DOMAIN rust : rust'[e].name = rust[e].name /\ rust[e].name # rust'[c].name
    PROVE  \A d \in DOMAIN rust' : FieldsAre(d, rust[d])'
<1> DEFINE a       == Head(stack)
           new     == New(c, stack)
           sub     == [new EXCEPT !.fields = SubFields(c, a), !.endpoint = rust[a].endpoint]
           nearest == Nearest(stack)
           w       == rust'[c].name
           More(x) == Brings(c, a, w, x)
<1>1. rust' = [d \in DOMAIN rust \cup {c} |->
                   IF d = c THEN sub
                   ELSE IF d = nearest THEN WithVersions(rust[d], sub.name, Versions(c, a))
                   ELSE rust[d]]
  BY DEF AdaptSubClient, Versions, SubFields
<1>2. rust'[c].fields = SubFields(c, a)
  BY <1>1 DEF New
<1> HIDE DEF sub, nearest
<1>3. rust'[c] = sub
  BY <1>1
<1>4. a \in DOMAIN rust /\ a \in Clients /\ IsChild(c, a) /\ stack # <<>>
  BY DEF BelowResolved, AdaptSubClient
<1>5. \A d \in Clients : IsChild(c, d) => d = a
  BY <1>4, WellNamedHere
<1>6. \A d, x : VersionOfChild(d, x)' <=> \/ VersionOfChild(d, x)
                                          \/ IsChild(c, d) /\ Brings(c, d, w, x)
  BY VersionsOfMore
<1>7. \A d, x : FieldOfParam(d, x)' <=> FieldOfParam(d, x)
  BY FieldsPrimed
<1>8. FieldsAre(c, rust[c])'
  <2>1. Apart(rust'[c].fields) /\ \A x : x \in ToSet(rust'[c].fields) <=> FieldOfParam(c, x)
    BY <1>2, SubFieldsExact
  <2>2. \A x : ~VersionOfChild(c, x)
    BY DEF VersionOfChild, AccessorInv
  <2>3. ~IsChild(c, c)
    BY WellNamedHere
  <2>4. QED
    BY <1>6, <1>7, <2>1, <2>2, <2>3 DEF FieldsAre
<1>9. ASSUME NEW d \in DOMAIN rust
      PROVE  /\ Apart(rust'[d].fields)
             /\ \A x : x \in ToSet(rust'[d].fields) <=> x \in ToSet(rust[d].fields) \/ (d = nearest /\ More(x))
  <2>1. FieldsAre(d, rust[d])
    BY DEF AccessorInv
  <2>2. CASE d # nearest
    <3>1. rust'[d] = rust[d]
      BY <1>1, <2>2
    <3>2. QED
      BY <2>1, <2>2, <3>1 DEF FieldsAre
  <2>3. CASE d = nearest
    <3>1. rust'[d] = WithVersions(rust[d], w, Versions(c, a))
      BY <1>1, <1>3, <2>3
    <3> HIDE DEF w, a
    <3>2. w \in RustNames /\ w # <<>> /\ (\A e \in DOMAIN rust : rust[e].name # w) /\ BelowResolved(c, a)
      BY DEF w, a
    <3>3. NamesFit(package)
      BY DEF Coherent
    <3>4. GetsVersions(rust'[d], d, c, a, w)
      BY <2>1, <3>1, <3>2, <3>3 DEF GetsVersions
    <3>5. /\ Apart(rust'[d].fields)
          /\ \A x : x \in ToSet(rust'[d].fields) <=> x \in ToSet(rust[d].fields) \/ Brings(c, a, w, x)
      BY <3>4, VersionsAdded
    <3>6. QED
      BY <2>3, <3>5 DEF w, a
  <2>4. QED
    BY <2>2, <2>3
<1>10. \A x : More(x) => a = nearest
  <2>1. SUFFICES ASSUME NEW f \in VersionsBelow(a, c)
                 PROVE  a = nearest
    BY DEF Brings
  <2>2. a \in ToSet(package.roots)
    BY VersionsBelowRoot
  <2>3. IsConstructable(a)
    BY <1>4, <2>2 DEF AccessorInv
  <2>4. QED
    BY <1>4, <2>3, NearestIsHead DEF nearest, Above
<1>11. ASSUME NEW d \in DOMAIN rust
       PROVE  FieldsAre(d, rust[d])'
  <2>1. d \in Clients /\ FieldsAre(d, rust[d])
    BY DEF AccessorInv, TypeInv
  <2>2. d # a => ~IsChild(c, d)
    BY <1>5, <2>1
  <2>3. \A x : VersionOfChild(d, x)' <=> VersionOfChild(d, x) \/ (d = a /\ More(x))
    BY <1>4, <1>6, <2>2
  <2>4. ASSUME NEW x, More(x)
        PROVE  VersionOfChild(d, x)' \/ d # nearest
    BY <1>10, <2>3, <2>4
  <2>5. ASSUME NEW x
        PROVE  x \in ToSet(rust'[d].fields) <=> FieldOfParam(d, x) \/ VersionOfChild(d, x)'
    <3>1. x \in ToSet(rust[d].fields) <=> FieldOfParam(d, x) \/ VersionOfChild(d, x)
      BY <2>1 DEF FieldsAre
    <3>2. x \in ToSet(rust'[d].fields) <=> x \in ToSet(rust[d].fields) \/ (d = nearest /\ More(x))
      BY <1>9
    <3>3. More(x) => a = nearest
      BY <1>10
    <3>4. VersionOfChild(d, x)' <=> VersionOfChild(d, x) \/ (d = a /\ More(x))
      BY <2>3
    <3> HIDE DEF More, a
    <3>5. QED
      BY <3>1, <3>2, <3>3, <3>4
  <2>6. Apart(rust'[d].fields)
    BY <1>9
  <2> HIDE DEF More
  <2>7. QED
    BY <1>7, <2>5, <2>6 DEF FieldsAre
<1>12. QED
  BY <1>8, <1>11

LEMMA EnterAccessors ==
    ASSUME TypeInv, WellNamed(package), Coherent(package), OnceEach(package), AccessorsFit(package),
           ResolveInv, NamesInv', NamesDistinct', AccessorInv,
           NEW c \in Clients, c \notin DOMAIN rust, Entered(c, stack), Above(stack), Enter(c, stack)
    PROVE  AccessorInv'
<1>1. /\ rust' \in [DOMAIN rust \cup {c} -> RustClients] /\ package' = package
      /\ rust'[c].accessors = {}
      /\ \A e \in DOMAIN rust : e \in DOMAIN rust' /\ rust'[e].name = rust[e].name /\ rust'[e].accessors = rust[e].accessors
  BY EnteredIs DEF Enter
<1>2. c \in DOMAIN rust' /\ DOMAIN rust' = DOMAIN rust \cup {c} /\ Clients' = Clients
  BY <1>1 DEF Clients
<1>3. /\ \A d, a : IsChild(d, a)' <=> IsChild(d, a)
      /\ \A d : IsConstructable(d)' <=> IsConstructable(d)
  BY <1>1, FieldsPrimed
<1>4. stack' = <<c>> \o stack
  BY DEF Enter, Push
<1>5. stack # <<>> => /\ Head(stack) = stack[1] /\ stack[1] \in DOMAIN rust /\ stack[1] \in Clients
                      /\ IsChild(c, stack[1]) /\ c \notin ToSet(package.roots)
  BY StackTyped, WellNamedHere DEF Entered
<1>6. stack = <<>> => c \in ToSet(package.roots) /\ IsConstructable(c)
  BY DEF Entered, Enter, AdaptConstructable, AdaptSubClient
<1>7. ASSUME NEW k \in 1..(Len(stack') - 1)
      PROVE  IsChild(stack'[k], stack'[k + 1])
  <2>1. Len(stack) \in Nat /\ Len(stack') = Len(stack) + 1 /\ stack'[1] = c
        /\ \A j \in 1..Len(stack) : stack'[j + 1] = stack[j]
    BY <1>4, PushedIs, StackTyped
  <2>2. k \in 1..Len(stack)
    BY <2>1
  <2>3. CASE k = 1
    <3>1. stack # <<>>
      <4>1. Len(<<>>) = 0
        OBVIOUS
      <4>2. QED
        BY <2>2, <4>1
    <3>2. QED
      BY <1>5, <2>1, <2>2, <2>3, <3>1
  <2>4. CASE k # 1
    <3>1. k - 1 \in 1..(Len(stack) - 1) /\ k - 1 \in 1..Len(stack) /\ (k - 1) + 1 = k
      BY <2>1, <2>2, <2>4
    <3>2. stack'[(k - 1) + 1] = stack[k - 1] /\ stack'[k + 1] = stack[k]
      BY <2>1, <2>2, <3>1
    <3>3. IsChild(stack[k - 1], stack[(k - 1) + 1])
      BY <3>1 DEF AccessorInv
    <3>4. QED
      BY <3>1, <3>2, <3>3
  <2>5. QED
    BY <2>3, <2>4
<1>8. \A a \in DOMAIN rust' : a \in ToSet(package.roots) => IsConstructable(a)
  BY <1>2, <1>5, <1>6 DEF AccessorInv
<1>9. ASSUME NEW d \in DOMAIN rust', NEW a \in Clients, IsChild(d, a)
      PROVE  a \in DOMAIN rust'
  <2>1. CASE d \in DOMAIN rust
    BY <1>2, <1>9, <2>1 DEF AccessorInv
  <2>2. CASE d \notin DOMAIN rust
    <3>1. d = c
      BY <1>2, <2>2
    <3>2. stack # <<>>
      BY <1>6, <1>9, <3>1, WellNamedHere
    <3>3. a = stack[1]
      BY <1>5, <1>9, <3>1, <3>2, WellNamedHere
    <3>4. QED
      BY <1>2, <1>5, <3>2, <3>3
  <2>3. QED
    BY <2>1, <2>2
<1>10. \A d \in DOMAIN rust' : FieldsAre(d, rust[d])'
  <2>1. CASE AdaptConstructable(c, stack)
    BY <1>1, <1>2, <2>1, EnterFieldsRoot
  <2>2. CASE AdaptSubClient(c, stack)
    <3>1. stack # <<>> /\ ~IsConstructable(c)
      BY <2>2 DEF AdaptSubClient
    <3>2. BelowResolved(c, Head(stack))
      BY <1>5, <3>1 DEF BelowResolved, ResolveInv
    <3>3. rust'[c].name \in RustNames /\ rust'[c].name # <<>>
      BY <1>1, <1>2 DEF RustClients, NamesInv
    <3>4. \A e \in DOMAIN rust : rust'[e].name = rust[e].name /\ rust[e].name # rust'[c].name
      BY <1>1, <1>2 DEF NamesDistinct
    <3>5. QED
      BY <1>1, <1>2, <2>2, <3>2, <3>3, <3>4, EnterFieldsSub
  <2>3. QED
    BY <2>1, <2>2 DEF Enter
<1>11. ASSUME NEW a \in DOMAIN rust', NEW made \in rust'[a].accessors
       PROVE  /\ made.child \in DOMAIN rust' /\ IsChild(made.child, a)
              /\ made.params = AccessorParams(a, made.child)'
  <2>1. a \in DOMAIN rust /\ made \in rust[a].accessors
    BY <1>1, <1>2
  <2>2. made.child \in DOMAIN rust /\ IsChild(made.child, a) /\ made.params = AccessorParams(a, made.child)
    BY <2>1 DEF AccessorInv
  <2>3. AccessorParams(a, made.child)' = AccessorParams(a, made.child)
    BY <1>1 DEF AccessorParams, Tcgc
  <2>4. QED
    BY <1>2, <2>2, <2>3
<1>12. QED
  BY <1>1, <1>2, <1>3, <1>7, <1>8, <1>9, <1>10, <1>11 DEF AccessorInv

\* A call that returns gives its caller one accessor, for the client it adapted.
LEMMA LeaveAdds ==
    ASSUME TypeInv, Leave
    PROVE  /\ stack # <<>>
           /\ \A d \in DOMAIN rust : \A made : made \in rust'[d].accessors =>
                 \/ made \in rust[d].accessors
                 \/ /\ Tail(stack) # <<>> /\ d = Head(Tail(stack))
                    /\ made = [child |-> Head(stack), params |-> AccessorParams(d, Head(stack))]
<1> DEFINE c    == Head(stack)
           read == AdaptReads(Tcgc(c).reads)
           mid  == [rust EXCEPT ![c].reads = read.reads]
           rest == Tail(stack)
<1>1. stack # <<>> /\ rust' = WithAccessor(mid, rest, c)
  BY DEF Leave
<1> HIDE DEF read, rest
<1>2. DOMAIN mid = DOMAIN rust
  OBVIOUS
<1>3. ASSUME NEW d \in DOMAIN rust
      PROVE  mid[d].accessors = rust[d].accessors /\ "accessors" \in DOMAIN mid[d]
  <2>1. rust[d] \in RustClients
    BY DEF TypeInv
  <2>2. mid[d] = IF d = c THEN [rust[d] EXCEPT !.reads = read.reads] ELSE rust[d]
    OBVIOUS
  <2> HIDE DEF mid, c
  <2>3. QED
    BY <2>1, <2>2 DEF RustClients
<1> HIDE DEF mid, c
<1>4. CASE rest = <<>>
  <2>1. rust' = mid
    BY <1>1, <1>4 DEF WithAccessor
  <2>2. QED
    BY <1>1, <1>3, <2>1
<1>5. CASE rest # <<>>
  <2> DEFINE p == Head(rest)
             a == [child |-> c, params |-> AccessorParams(p, c)]
  <2>1. rust' = [mid EXCEPT ![p].accessors = @ \cup {a}]
    BY <1>1, <1>5 DEF WithAccessor
  <2> HIDE DEF p, a
  <2>2. ASSUME NEW d \in DOMAIN rust
        PROVE  rust'[d].accessors = IF d = p THEN rust[d].accessors \cup {a} ELSE rust[d].accessors
    <3>1. rust'[d] = IF d = p THEN [mid[d] EXCEPT !.accessors = @ \cup {a}] ELSE mid[d]
      BY <1>2, <2>1
    <3>2. QED
      BY <1>3, <3>1
  <2>3. QED
    BY <1>1, <1>5, <2>2 DEF p, a, c, rest
<1>6. QED
  BY <1>4, <1>5

LEMMA LeaveAccessors ==
    ASSUME TypeInv, AccessorInv, Leave
    PROVE  AccessorInv'
<1>1. /\ package' = package /\ DOMAIN rust' = DOMAIN rust
      /\ \A d \in DOMAIN rust : rust'[d].name = rust[d].name /\ rust'[d].fields = rust[d].fields
  BY LeaveKeeps
<1>2. stack # <<>> /\ stack' = Tail(stack)
  BY DEF Leave
<1> DEFINE n == Len(stack)
           m == Len(stack')
<1>3. n \in Nat /\ n > 0 /\ stack \in Seq(DOMAIN rust)
  BY <1>2, StackTyped DEF TypeInv
<1>4. stack' \in Seq(DOMAIN rust) /\ m = n - 1 /\ \A k \in 1..m : stack'[k] = stack[k + 1]
  BY <1>2, <1>3, HeadTailProperties
<1>5. /\ \A d, a : IsChild(d, a)' <=> IsChild(d, a)
      /\ \A d : IsConstructable(d)' <=> IsConstructable(d)
      /\ \A d, x : FieldOfParam(d, x)' <=> FieldOfParam(d, x)
      /\ \A d, a : VersionsBelow(a, d)' = VersionsBelow(a, d)
      /\ Clients' = Clients
  BY <1>1, FieldsPrimed DEF Clients
<1>6. ASSUME NEW k \in 1..(m - 1)
      PROVE  IsChild(stack'[k], stack'[k + 1])
  <2>1. k \in 1..m /\ k + 1 \in 1..m /\ k + 1 \in 1..(n - 1)
    BY <1>3, <1>4
  <2>2. QED
    BY <1>4, <2>1 DEF AccessorInv
<1>7. ASSUME NEW a \in DOMAIN rust
      PROVE  FieldsAre(a, rust[a])'
  <2>1. FieldsAre(a, rust[a])
    BY DEF AccessorInv
  <2>2. \A e, d, w, x : Brings(e, d, w, x)' <=> Brings(e, d, w, x)
    BY <1>5 DEF Brings
  <2>3. \A x : VersionOfChild(a, x)' <=> VersionOfChild(a, x)
    <3>1. \A x : VersionOfChild(a, x)' <=> \E e \in DOMAIN rust : IsChild(e, a) /\ Brings(e, a, rust'[e].name, x)
      BY <1>1, <1>5 DEF VersionOfChild, Brings
    <3>2. QED
      BY <1>1, <3>1 DEF VersionOfChild
  <2>4. QED
    BY <1>1, <1>5, <2>1, <2>3 DEF FieldsAre
<1>8. ASSUME NEW a \in DOMAIN rust, NEW made \in rust'[a].accessors
      PROVE  /\ made.child \in DOMAIN rust /\ IsChild(made.child, a)
             /\ made.params = AccessorParams(a, made.child)'
  <2>1. \A d : AccessorParams(a, d)' = AccessorParams(a, d)
    BY <1>1 DEF AccessorParams, Tcgc
  <2>2. CASE made \in rust[a].accessors
    BY <2>1, <2>2 DEF AccessorInv
  <2>3. CASE made \notin rust[a].accessors
    <3>1. /\ Tail(stack) # <<>> /\ a = Head(Tail(stack))
          /\ made = [child |-> Head(stack), params |-> AccessorParams(a, Head(stack))]
      BY <2>3, LeaveAdds
    <3>2. made.child = Head(stack) /\ made.params = AccessorParams(a, Head(stack))
      BY <3>1
    <3>3. m \in Nat \ {0} /\ a = stack'[1]
      BY <1>2, <1>4, <3>1, EmptySeq, LenProperties, HeadTailProperties
    <3>4. a = stack[2] /\ Head(stack) = stack[1] /\ stack[1] \in DOMAIN rust
      BY <1>2, <1>4, <3>3, StackTyped
    <3>5. IsChild(stack[1], stack[2])
      BY <1>4, <3>3 DEF AccessorInv
    <3>6. QED
      BY <2>1, <3>2, <3>4, <3>5
  <2>4. QED
    BY <2>2, <2>3
<1>9. QED
  BY <1>1, <1>5, <1>6, <1>7, <1>8 DEF AccessorInv

LEMMA NextAccessors ==
    ASSUME TypeInv, WellNamed(package), Coherent(package), OnceEach(package), AccessorsFit(package),
           ResolveInv, NamesInv', NamesDistinct', TreeInv, AccessorInv, [Next]_vars
    PROVE  AccessorInv'
<1>1. ASSUME UNCHANGED <<package, stack, rust>>
      PROVE  AccessorInv'
  <2>1. /\ \A d, a : IsChild(d, a)' <=> IsChild(d, a)
        /\ \A d : IsConstructable(d)' <=> IsConstructable(d)
        /\ \A d, x : FieldOfParam(d, x)' <=> FieldOfParam(d, x)
        /\ \A d, a : VersionsBelow(a, d)' = VersionsBelow(a, d)
        /\ Clients' = Clients
    BY <1>1, FieldsPrimed DEF Clients
  <2>2. \A d, x : VersionOfChild(d, x)' <=> VersionOfChild(d, x)
    BY <1>1, <2>1 DEF VersionOfChild, Brings
  <2>3. \A d : FieldsAre(d, rust[d])' <=> FieldsAre(d, rust[d])
    BY <1>1, <2>1, <2>2 DEF FieldsAre
  <2>4. \A a, d : AccessorParams(a, d)' = AccessorParams(a, d)
    BY <1>1 DEF AccessorParams, Tcgc
  <2>5. QED
    BY <1>1, <2>1, <2>3, <2>4 DEF AccessorInv
<1>2. CASE EnterRoot \/ EnterChild
  <2>1. PICK c \in Clients : EntersNext(c)
    BY <1>2, EntersFresh
  <2>2. c \notin DOMAIN rust /\ Above(stack) /\ Entered(c, stack)
    BY <2>1 DEF EntersNext
  <2>3. CASE Enter(c, stack)
    BY <2>2, <2>3, EnterAccessors
  <2>4. CASE Reject(c, stack)
    BY <1>1, <2>4 DEF Reject
  <2>5. QED
    BY <2>1, <2>3, <2>4 DEF EntersNext
<1>3. CASE Leave
  BY <1>3, LeaveAccessors
<1>4. CASE UNCHANGED vars
  BY <1>1, <1>4 DEF vars
<1>5. QED
  BY <1>2, <1>3, <1>4 DEF Next, Finished

----------------------------------------------------------------------------
(* The body of an accessor. *)

\* An accessor of a for c.
AccessorFor(a, c) ==
    /\ TypeInv /\ WellNamed(package) /\ Coherent(package) /\ OnceEach(package) /\ AccessorsFit(package)
    /\ ResolveInv /\ NamesInv /\ NamesDistinct /\ AccessorInv
    /\ a \in DOMAIN rust /\ a \in Clients /\ c \in DOMAIN rust /\ c \in Clients /\ IsChild(c, a)

LEMMA AccessorHere ==
    ASSUME NEW a, NEW c, AccessorFor(a, c)
    PROVE  /\ \A f \in ParamsIn(package, c) : FieldName(f) # <<>>
           /\ \A e \in EndpointsIn(package, a), f \in EndpointsIn(package, c) :
                 e.field = e.name /\ f.name = e.name /\ f.field = e.name
           /\ EndpointsIn(package, a) # {} /\ EndpointsIn(package, c) # {}
           /\ \A f \in ParamsIn(package, c) :
                 \/ \E g \in ParamsIn(package, a) : g.name = f.name
                 \/ f.kind = "method" /\ ~IsOption(f) /\ (f.apiVersion => IsConstructable(c))
           /\ \A f \in ParamsIn(package, c), g \in ParamsIn(package, a) : f.name = g.name =>
                 /\ f.kind = g.kind
                 /\ ~Merged(g) /\ f.kind = "method" => IsOption(f) = IsOption(g)
                 /\ Merged(g) => Merged(f) \/ (f.apiVersion /\ ~IsConstructable(c))
           /\ \A n \in {FieldName(g) : g \in ParamsIn(package, a)} \cup VersionNames(package) : \A i \in 2..Len(n) :
                 n[i - 1] = Tcgc(c).name =>
                     SubSeq(n, i, Len(n)) \notin {FieldName(f) : f \in ParamsIn(package, c)} \cup {<<"pipeline">>}
<1>1. /\ AccessorsFit(package) /\ OwnParamsFit(package) /\ a \in DOMAIN package.clients /\ c \in DOMAIN package.clients
      /\ c \in ChildrenOf(package, a)
  BY DEF AccessorFor, Coherent, Clients, IsChild
<1>2. (package.clients[c].by # "parent") <=> IsConstructable(c)
  <2>1. Tcgc(c).by \in {"code", "individually", "both", "parent"}
    BY ClientTreeAssumption DEF AccessorFor, TypeInv, Clients, IsClient, Tcgc
  <2>2. QED
    BY <2>1 DEF IsConstructable, Tcgc
<1>3. \A f \in ParamsIn(package, c) : FieldName(f) # <<>>
  BY <1>1, Zenon DEF AccessorsFit
<1>4. \A e \in EndpointsIn(package, a), f \in EndpointsIn(package, c) :
         e.field = e.name /\ f.name = e.name /\ f.field = e.name
  <2>1. \A e \in EndpointsIn(package, a), f \in EndpointsIn(package, c) : {e.field, f.name, f.field} = {e.name}
    BY <1>1, Zenon DEF AccessorsFit
  <2>2. ASSUME NEW e \in EndpointsIn(package, a), NEW f \in EndpointsIn(package, c)
        PROVE  e.field = e.name /\ f.name = e.name /\ f.field = e.name
    <3>1. {e.field, f.name, f.field} = {e.name}
      BY <2>1
    <3>2. QED
      BY <3>1
  <2>3. QED
    BY <2>2
<1>5. EndpointsIn(package, a) # {} /\ EndpointsIn(package, c) # {}
  BY <1>1 DEF OwnParamsFit
<1>6. \A f \in ParamsIn(package, c) :
         \/ \E g \in ParamsIn(package, a) : g.name = f.name
         \/ f.kind = "method" /\ ~IsOption(f) /\ (f.apiVersion => package.clients[c].by # "parent")
  BY <1>1, Zenon DEF AccessorsFit
<1>7. \A f \in ParamsIn(package, c), g \in ParamsIn(package, a) : f.name = g.name =>
         /\ f.kind = g.kind
         /\ ~Merged(g) /\ f.kind = "method" => IsOption(f) = IsOption(g)
         /\ Merged(g) => Merged(f) \/ (f.apiVersion /\ a \in ToSet(package.roots) /\ package.clients[c].by = "parent")
  BY <1>1, Zenon DEF AccessorsFit
<1>8. \A n \in {FieldName(g) : g \in ParamsIn(package, a)} \cup VersionNames(package) : \A i \in 2..Len(n) :
         n[i - 1] = Tcgc(c).name =>
             SubSeq(n, i, Len(n)) \notin {FieldName(f) : f \in ParamsIn(package, c)} \cup {<<"pipeline">>}
  BY <1>1 DEF AccessorsFit, Tcgc
<1>9. \A f \in ParamsIn(package, c) :
         \/ \E g \in ParamsIn(package, a) : g.name = f.name
         \/ f.kind = "method" /\ ~IsOption(f) /\ (f.apiVersion => IsConstructable(c))
  BY <1>2, <1>6, Zenon
<1>10. \A f \in ParamsIn(package, c), g \in ParamsIn(package, a) : f.name = g.name =>
         /\ f.kind = g.kind
         /\ ~Merged(g) /\ f.kind = "method" => IsOption(f) = IsOption(g)
         /\ Merged(g) => Merged(f) \/ (f.apiVersion /\ ~IsConstructable(c))
  BY <1>2, <1>7, Zenon
<1>11. QED
  BY <1>3, <1>4, <1>5, <1>8, <1>9, <1>10, Zenon

LEMMA AccessorFields ==
    ASSUME NEW a, NEW c, AccessorFor(a, c)
    PROVE  /\ rust[a].fields \in Seq(Fields) /\ Apart(rust[a].fields)
           /\ \A x : x \in ToSet(rust[a].fields) <=> FieldOfParam(a, x) \/ VersionOfChild(a, x)
           /\ \A x : VersionOfChild(a, x) => VersionField(x) /\ x # Pipeline
           /\ rust[c].fields \in Seq(Fields) /\ Apart(rust[c].fields)
           /\ \A x : x \in ToSet(rust[c].fields) <=> FieldOfParam(c, x)
<1> USE DEF AccessorFor
<1>1. rust[a] \in RustClients /\ rust[c] \in RustClients
  BY DEF TypeInv
<1>2. rust[a].fields \in Seq(Fields) /\ rust[c].fields \in Seq(Fields)
  BY <1>1 DEF RustClients
<1>3. FieldsAre(a, rust[a]) /\ FieldsAre(c, rust[c])
  BY DEF AccessorInv
<1>4. ASSUME NEW x, VersionOfChild(c, x)
      PROVE  FALSE
  <2>1. PICK d \in DOMAIN rust : IsChild(d, c) /\ Brings(d, c, rust[d].name, x)
    BY <1>4 DEF VersionOfChild
  <2>2. PICK f \in VersionsBelow(c, d) : x = Field(rust[d].name \o f.name, FALSE)
    BY <2>1 DEF Brings
  <2>3. d \in Clients /\ ~IsConstructable(d)
    BY <2>2 DEF TypeInv, VersionsBelow
  <2>4. BelowResolved(d, c)
    BY <2>1, <2>3 DEF BelowResolved, ResolveInv
  <2>5. c \in ToSet(package.roots)
    BY <2>2, <2>4, VersionsBelowRoot
  <2>6. QED
    BY <2>5, WellNamedHere
<1>5. ASSUME NEW x, VersionOfChild(a, x)
      PROVE  VersionField(x) /\ x # Pipeline
  <2>1. PICK d \in DOMAIN rust : IsChild(d, a) /\ Brings(d, a, rust[d].name, x)
    BY <1>5 DEF VersionOfChild
  <2>2. PICK f \in VersionsBelow(a, d) : x = Field(rust[d].name \o f.name, FALSE)
    BY <2>1 DEF Brings
  <2>3. d \in Clients /\ f \in ParamsIn(package, d) /\ f.apiVersion
    BY <2>2 DEF TypeInv, VersionsBelow, MethodParamsIn
  <2> DEFINE w == rust[d].name
             v == f.name
  <2>4. v \in VersionNames(package)
    BY <2>3 DEF VersionNames, Clients
  <2>5. v \in RustNames /\ v # <<>>
    BY <2>4, VersionNameIs DEF Coherent
  <2>6. w \in RustNames /\ w # <<>>
    BY DEF TypeInv, RustClients, NamesInv
  <2>7. x = Field(w \o v, FALSE)
    BY <2>2
  <2> HIDE DEF w, v
  <2>8. Len(w) + 1 \in 2..Len(w \o v) /\ Len(w) \in Nat
    BY <2>5, <2>6, Suffix, LenProperties DEF RustNames
  <2>9. w \o v # <<"pipeline">>
    <3>1. Len(<<"pipeline">>) = 1
      OBVIOUS
    <3>2. QED
      BY <2>8, <3>1
  <2>10. Pipeline.name = <<"pipeline">> /\ x.name = w \o v
    BY <2>7, FieldParts DEF Pipeline
  <2>11. QED
    BY <2>4, <2>6, <2>7, <2>9, <2>10 DEF VersionField
<1>6. QED
  BY <1>2, <1>3, <1>4, <1>5 DEF FieldsAre

\* The parent does not have, under its name, what only the child has.
LEMMA NotInParent ==
    ASSUME NEW a, NEW c, AccessorFor(a, c), NEW q \in ParamsIn(package, c), q.kind = "method",
           \A h \in MethodParamsIn(package, a) : h.name # q.name,
           NEW f \in ToSet(rust[a].fields)
    PROVE  f.name # q.name
<1>1. SUFFICES ASSUME f.name = q.name
               PROVE  FALSE
  OBVIOUS
<1>2. FieldOfParam(a, f) \/ VersionOfChild(a, f)
  BY AccessorFields
<1>3. f # Pipeline /\ ~VersionField(f)
  BY <1>1, ParamFieldsDiffer DEF AccessorFor, Coherent
<1>4. CASE \E e \in EndpointsIn(package, a) : f = Field(e.field, FALSE)
  <2>1. PICK e \in EndpointsIn(package, a) : f = Field(e.field, FALSE)
    BY <1>4
  <2>2. PICK ec \in EndpointsIn(package, c) : TRUE
    BY AccessorHere
  <2>3. e.field = e.name /\ e \in ParamsIn(package, a) /\ e.kind = "endpoint"
    BY <2>1, <2>2, AccessorHere DEF EndpointsIn
  <2>4. q.name = e.name
    BY <1>1, <2>1, <2>3, FieldParts
  <2>5. q.kind = e.kind
    BY <2>3, <2>4, AccessorHere
  <2>6. QED
    BY <2>3, <2>5
<1>5. CASE \E h \in MethodParamsIn(package, a) : f = Field(h.name, IsOption(h))
  BY <1>1, <1>5, FieldParts
<1>6. QED
  BY <1>2, <1>3, <1>4, <1>5, AccessorFields DEF FieldOfParam

\* Where a field of the child is from.
LEMMA ChildField ==
    ASSUME NEW a, NEW c, AccessorFor(a, c), NEW e \in ToSet(rust[c].fields)
    PROVE  \/ e = Pipeline
           \/ \E q \in ParamsIn(package, c) : /\ e.name = FieldName(q)
                                              /\ \/ q \in EndpointsIn(package, c) /\ e = Field(q.field, FALSE)
                                                 \/ q \in MethodParamsIn(package, c) /\ e = Field(q.name, IsOption(q))
<1>1. FieldOfParam(c, e)
  BY AccessorFields
<1>2. CASE \E q \in EndpointsIn(package, c) : e = Field(q.field, FALSE)
  <2>1. PICK q \in EndpointsIn(package, c) : e = Field(q.field, FALSE)
    BY <1>2
  <2>2. q \in ParamsIn(package, c) /\ e.name = FieldName(q)
    BY <2>1, FieldParts DEF EndpointsIn, FieldName
  <2>3. QED
    BY <2>1, <2>2
<1>3. CASE \E q \in MethodParamsIn(package, c) : e = Field(q.name, IsOption(q))
  <2>1. PICK q \in MethodParamsIn(package, c) : e = Field(q.name, IsOption(q))
    BY <1>3
  <2>2. q \in ParamsIn(package, c) /\ e.name = FieldName(q)
    BY <2>1, FieldParts DEF MethodParamsIn, FieldName
  <2>3. QED
    BY <2>1, <2>2
<1>4. QED
  BY <1>1, <1>2, <1>3 DEF FieldOfParam

\* What both have by one name, both have as the same.
LEMMA SharedIsSame ==
    ASSUME NEW a, NEW c, AccessorFor(a, c), NEW f \in ToSet(rust[a].fields), NEW e \in ToSet(rust[c].fields),
           e.name = f.name
    PROVE  e = f
<1>1. FieldOfParam(a, f) \/ VersionOfChild(a, f)
  BY AccessorFields
<1>2. CASE e = Pipeline
  <2>1. f.name = <<"pipeline">>
    BY <1>2, FieldParts DEF Pipeline
  <2>2. Pipeline \in ToSet(rust[a].fields)
    BY AccessorFields DEF FieldOfParam
  <2>3. Pipeline.name = f.name
    BY <2>1, FieldParts DEF Pipeline
  <2>4. QED
    BY <1>2, <2>2, <2>3, AccessorFields DEF Apart, OneName
<1>3. CASE e # Pipeline
  <2>1. PICK q \in ParamsIn(package, c) :
           /\ e.name = FieldName(q)
           /\ \/ q \in EndpointsIn(package, c) /\ e = Field(q.field, FALSE)
              \/ q \in MethodParamsIn(package, c) /\ e = Field(q.name, IsOption(q))
    BY <1>3, ChildField
  <2>2. f # Pipeline /\ ~VersionField(f)
    <3>1. f.name \in {q.name, FieldName(q)} /\ TypeInv /\ NamesFit(package) /\ c \in Clients
      BY <2>1 DEF AccessorFor, Coherent
    <3>2. \A x : x.name \in {q.name, FieldName(q)} => x # Pipeline /\ ~VersionField(x)
      BY <3>1, ParamFieldsDiffer
    <3>3. QED
      BY <3>1, <3>2
  <2>3. PICK ep \in EndpointsIn(package, a), ec \in EndpointsIn(package, c) : TRUE
    BY AccessorHere
  <2>4. CASE \E g \in EndpointsIn(package, a) : f = Field(g.field, FALSE)
    <3>1. PICK g \in EndpointsIn(package, a) : f = Field(g.field, FALSE)
      BY <2>4
    <3>2. g.field = g.name /\ g \in ParamsIn(package, a) /\ g.kind = "endpoint"
      BY <2>3, <3>1, AccessorHere DEF EndpointsIn
    <3>3. e.name = g.field
      BY <3>1, FieldParts
    <3>4. CASE q \in EndpointsIn(package, c) /\ e = Field(q.field, FALSE)
      <4>1. e.name = q.field
        BY <3>4, FieldParts
      <4>2. QED
        BY <3>1, <3>3, <3>4, <4>1
    <3>5. CASE q \in MethodParamsIn(package, c) /\ e = Field(q.name, IsOption(q))
      <4>1. q.name = g.name /\ q.kind = "method"
        BY <3>2, <3>3, <3>5, FieldParts DEF MethodParamsIn
      <4>2. q.kind = g.kind
        BY <3>2, <4>1, AccessorHere
      <4>3. QED
        BY <3>2, <4>1, <4>2
    <3>6. QED
      BY <2>1, <3>4, <3>5
  <2>5. CASE \E g \in MethodParamsIn(package, a) : f = Field(g.name, IsOption(g))
    <3>1. PICK g \in MethodParamsIn(package, a) : f = Field(g.name, IsOption(g))
      BY <2>5
    <3>2. g \in ParamsIn(package, a) /\ g.kind = "method" /\ ~Merged(g)
      BY <3>1 DEF MethodParamsIn
    <3>3. e.name = g.name
      BY <3>1, FieldParts
    <3>4. CASE q \in EndpointsIn(package, c) /\ e = Field(q.field, FALSE)
      <4>1. q.field = q.name /\ q.kind = "endpoint"
        <5>1. q.name = ep.name /\ q.field = ep.name
          BY <2>3, <3>4, AccessorHere
        <5>2. QED
          BY <3>4, <5>1 DEF EndpointsIn
      <4>2. q.name = g.name
        BY <3>3, <3>4, <4>1, FieldParts
      <4>3. q.kind = g.kind
        BY <3>2, <4>2, AccessorHere
      <4>4. QED
        BY <3>2, <4>1, <4>3
    <3>5. CASE q \in MethodParamsIn(package, c) /\ e = Field(q.name, IsOption(q))
      <4>1. q.name = g.name /\ q.kind = "method"
        BY <3>3, <3>5, FieldParts DEF MethodParamsIn
      <4>2. IsOption(q) = IsOption(g)
        <5>1. \A x \in ParamsIn(package, c), y \in ParamsIn(package, a) : x.name = y.name =>
                 /\ x.kind = y.kind
                 /\ ~Merged(y) /\ x.kind = "method" => IsOption(x) = IsOption(y)
                 /\ Merged(y) => Merged(x) \/ (x.apiVersion /\ ~IsConstructable(c))
          BY AccessorHere
        <5>2. QED
          BY <3>2, <4>1, <5>1, Zenon
      <4>3. QED
        BY <3>1, <3>5, <4>1, <4>2
    <3>6. QED
      BY <2>1, <3>4, <3>5
  <2>6. QED
    BY <1>1, <2>2, <2>4, <2>5, AccessorFields DEF FieldOfParam
<1>4. QED
  BY <1>2, <1>3

\* The name of a client, with its own name last.
LEMMA LastWord ==
    ASSUME NEW a, NEW c, AccessorFor(a, c)
    PROVE  LET w == rust[c].name
           IN  w \in RustNames /\ w # <<>> /\ Len(w) \in Nat \ {0} /\ w[Len(w)] = Tcgc(c).name
<1> DEFINE w == rust[c].name
           x == Tcgc(c).name
<1>1. w \in RustNames /\ w # <<>>
  BY DEF AccessorFor, TypeInv, RustClients, NamesInv
<1>2. Len(w) \in Nat \ {0}
  BY <1>1, EmptySeq, LenProperties DEF RustNames
<1>3. x \in STRING
  BY TcgcTyped DEF AccessorFor, TypeInv
<1>4. NamedBy(c)
  BY DEF AccessorFor, NamesInv
<1>5. CASE w = <<x>>
  <2>1. Len(<<x>>) = 1 /\ <<x>>[1] = x
    OBVIOUS
  <2>2. QED
    BY <1>1, <1>2, <1>5, <2>1
<1>6. CASE \E p \in DOMAIN rust : w = rust[p].name \o <<x>>
  <2>1. PICK p \in DOMAIN rust : w = rust[p].name \o <<x>>
    BY <1>6
  <2> DEFINE v == rust[p].name
  <2>2. v \in RustNames
    BY DEF AccessorFor, TypeInv, RustClients
  <2> HIDE DEF v, x
  <2>3. Len(v \o <<x>>) = Len(v) + 1 /\ (v \o <<x>>)[Len(v) + 1] = x
    BY <1>3, <2>2, LongerName
  <2>4. w = v \o <<x>>
    BY <2>1 DEF v
  <2>5. QED
    BY <1>1, <1>2, <2>3, <2>4 DEF x
<1>7. QED
  BY <1>4, <1>5, <1>6 DEF NamedBy

\* x is, from f, a version of the child that the parent has for it.
Renames(a, c, f, x) == \E p \in VersionsBelow(a, c) : x = Field(p.name, FALSE) /\ f = Field(rust[c].name \o p.name, FALSE)

\* A field of the child with the child's name before it, the parent has only if it
\* is for a version of the child.
LEMMA VersionOnly ==
    ASSUME NEW a, NEW c, AccessorFor(a, c), NEW f \in ToSet(rust[a].fields), NEW e \in ToSet(rust[c].fields),
           rust[c].name \o e.name = f.name
    PROVE  Renames(a, c, f, e)
<1> DEFINE w == rust[c].name
           x == e.name
           y == f.name
<1>1. w \in RustNames /\ w # <<>> /\ Len(w) \in Nat \ {0} /\ w[Len(w)] = Tcgc(c).name
  BY LastWord
<1>2. TypeInv /\ NamesFit(package) /\ OnceEach(package) /\ c \in Clients /\ a \in Clients
  BY DEF AccessorFor, Coherent
<1>3. /\ x \in {<<"pipeline">>} \cup {FieldName(q) : q \in ParamsIn(package, c)}
      /\ x \in RustNames /\ x # <<>> /\ Endless(x)
  <2>1. CASE e = Pipeline
    <3>1. x = <<"pipeline">>
      BY <2>1, FieldParts DEF Pipeline
    <3>2. Len(<<"pipeline">>) = 1 /\ <<"pipeline">> # <<>>
      OBVIOUS
    <3>3. <<"pipeline">> \in RustNames
      BY DEF RustNames
    <3>4. Endless(<<"pipeline">>)
      BY <3>2 DEF Endless
    <3>5. QED
      BY <3>1, <3>2, <3>3, <3>4
  <2>2. CASE e # Pipeline
    <3>1. PICK q \in ParamsIn(package, c) : x = FieldName(q)
      BY <2>2, ChildField
    <3>2. x # <<>>
      BY <3>1, AccessorHere
    <3>3. Endless(x)
      BY <1>2, <3>1, NamesEndless DEF NamesOf, FieldName
    <3>4. x \in RustNames
      BY <1>2, <3>1, ParamsInTyped, ParameterFields DEF FieldName
    <3>5. QED
      BY <3>1, <3>2, <3>3, <3>4
  <2>3. QED
    BY <2>1, <2>2
<1>4. y = w \o x
  OBVIOUS
<1> HIDE DEF w, x, y
<1>5. Len(w) + 1 \in 2..Len(y) /\ SubSeq(y, Len(w) + 1, Len(y)) = x
  BY <1>1, <1>3, <1>4, Suffix DEF RustNames
<1>6. y[(Len(w) + 1) - 1] = Tcgc(c).name
  <2>1. \A i \in 1..(Len(w) + Len(x)) : (w \o x)[i] = IF i <= Len(w) THEN w[i] ELSE x[i - Len(w)]
    BY <1>1, <1>3, ConcatProperties DEF RustNames
  <2>2. Len(w) \in 1..(Len(w) + Len(x)) /\ (Len(w) + 1) - 1 = Len(w)
    BY <1>1, <1>3, LenProperties DEF RustNames
  <2>3. QED
    BY <1>1, <1>4, <2>1, <2>2
<1>7. \A n \in {FieldName(g) : g \in ParamsIn(package, a)} \cup VersionNames(package) : \A i \in 2..Len(n) :
         n[i - 1] = Tcgc(c).name => SubSeq(n, i, Len(n)) # x
  <2>1. \A n \in {FieldName(g) : g \in ParamsIn(package, a)} \cup VersionNames(package) : \A i \in 2..Len(n) :
           n[i - 1] = Tcgc(c).name =>
               SubSeq(n, i, Len(n)) \notin {FieldName(q) : q \in ParamsIn(package, c)} \cup {<<"pipeline">>}
    BY AccessorHere
  <2>2. QED
    BY <1>3, <2>1
<1>8. y \notin {FieldName(g) : g \in ParamsIn(package, a)}
  BY <1>5, <1>6, <1>7
<1>9. f # Pipeline
  <2>1. Len(<<"pipeline">>) = 1
    OBVIOUS
  <2>2. Pipeline.name = <<"pipeline">>
    BY FieldParts DEF Pipeline
  <2>3. QED
    BY <1>1, <1>5, <2>1, <2>2 DEF y
<1>10. ~\E g \in EndpointsIn(package, a) : f = Field(g.field, FALSE)
  <2>1. SUFFICES ASSUME NEW g \in EndpointsIn(package, a), f = Field(g.field, FALSE)
                 PROVE  FALSE
    OBVIOUS
  <2>2. g \in ParamsIn(package, a) /\ FieldName(g) = g.field
    BY DEF EndpointsIn, FieldName
  <2>3. y = g.field
    BY <2>1, FieldParts DEF y
  <2>4. QED
    BY <1>8, <2>2, <2>3
<1>11. ~\E g \in MethodParamsIn(package, a) : f = Field(g.name, IsOption(g))
  <2>1. SUFFICES ASSUME NEW g \in MethodParamsIn(package, a), f = Field(g.name, IsOption(g))
                 PROVE  FALSE
    OBVIOUS
  <2>2. g \in ParamsIn(package, a) /\ FieldName(g) = g.name
    BY DEF MethodParamsIn, FieldName
  <2>3. y = g.name
    BY <2>1, FieldParts DEF y
  <2>4. QED
    BY <1>8, <2>2, <2>3
<1>12. VersionOfChild(a, f)
  BY <1>9, <1>10, <1>11, AccessorFields DEF FieldOfParam
<1>13. PICK d \in DOMAIN rust : IsChild(d, a) /\ Brings(d, a, rust[d].name, f)
  BY <1>12 DEF VersionOfChild
<1>14. PICK p \in VersionsBelow(a, d) : f = Field(rust[d].name \o p.name, FALSE)
  BY <1>13 DEF Brings
<1> DEFINE u == rust[d].name
           v == p.name
<1>15. d \in Clients /\ p \in ParamsIn(package, d) /\ p.apiVersion
  BY DEF AccessorFor, TypeInv, VersionsBelow, MethodParamsIn
<1>16. v \in VersionNames(package)
  BY <1>15 DEF VersionNames, Clients
<1>17. v \in RustNames /\ v # <<>> /\ Endless(v)
  BY <1>2, <1>16, VersionNameIs
<1>18. u \in RustNames
  BY DEF AccessorFor, TypeInv, RustClients
<1>19. y = u \o v
  BY <1>14, FieldParts DEF y
<1> HIDE DEF u, v
<1>20. u = w
  <2>1. SUFFICES ASSUME u # w
                 PROVE  FALSE
    OBVIOUS
  <2>2. Len(x) \in Nat /\ Len(v) \in Nat
    BY <1>3, <1>17, LenProperties DEF RustNames
  <2>3. CASE Len(x) <= Len(v)
    <3>1. EndsAfter(v, w[Len(w)], x)
      BY <1>1, <1>3, <1>4, <1>17, <1>18, <1>19, <2>1, <2>3, SameTail
    <3>2. PICK i \in 2..Len(v) : v[i - 1] = Tcgc(c).name /\ SubSeq(v, i, Len(v)) = x
      BY <1>1, <3>1 DEF EndsAfter
    <3>3. QED
      BY <1>7, <1>16, <3>2
  <2>4. CASE Len(v) <= Len(x)
    <3>1. EndsWith(x, v)
      BY <1>1, <1>3, <1>4, <1>17, <1>18, <1>19, <2>1, <2>4, SameTail
    <3>2. QED
      BY <1>3, <1>16, <3>1 DEF EndsWith, Endless
  <2>5. QED
    BY <2>2, <2>3, <2>4
<1>21. d = c
  BY <1>20 DEF AccessorFor, NamesDistinct, u, w
<1>22. x = v
  BY <1>1, <1>3, <1>4, <1>17, <1>19, <1>20, PrefixKeepsApart DEF RustNames
<1>23. e = Field(p.name, FALSE)
  <2>1. p \in VersionsBelow(a, c) /\ p \in MethodParamsIn(package, c) /\ p.apiVersion
    BY <1>21 DEF VersionsBelow
  <2>2. IsOption(p) = FALSE
    <3>1. ~IsOption(p)
      BY <2>1 DEF MethodParamsIn, Merged
    <3>2. IsOption(p) \in BOOLEAN
      BY DEF IsOption
    <3>3. QED
      BY <3>1, <3>2, Zenon
  <2>3. Field(p.name, FALSE) \in ToSet(rust[c].fields)
    <3>1. FieldOfParam(c, Field(p.name, IsOption(p)))
      BY <2>1 DEF FieldOfParam
    <3>2. QED
      BY <2>2, <3>1, AccessorFields
  <2>4. Field(p.name, FALSE).name = e.name
    BY <1>22, FieldParts DEF x, v
  <2>5. QED
    BY <2>3, <2>4, AccessorFields DEF Apart, OneName
<1>24. QED
  BY <1>14, <1>21, <1>23 DEF Renames

\* No field of the parent, nor a version that it has for the child, is called like
\* what the caller is asked for, or like the field that such a version becomes.
LEMMA NothingTwice ==
    ASSUME NEW a, NEW c, AccessorFor(a, c)
    PROVE  /\ \A p \in VersionsBelow(a, c), f \in ToSet(rust[a].fields) : f.name # p.name
           /\ \A n \in AccessorParams(a, c), f \in ToSet(rust[a].fields) : f.name # n
           /\ \A p \in VersionsBelow(a, c) : p.name \notin AccessorParams(a, c)
<1>1. \A p \in VersionsBelow(a, c) : /\ p \in ParamsIn(package, c) /\ p.kind = "method" /\ p.apiVersion
                                     /\ ~IsConstructable(c) /\ \A h \in MethodParamsIn(package, a) : h.name # p.name
  BY DEF VersionsBelow, MethodParamsIn
<1>2. \A d \in Clients : ToSet(Tcgc(d).params) = ParamsIn(package, d)
  BY DEF ParamsIn, Tcgc
<1>3. AccessorParams(a, c) = {q.name : q \in ParamsIn(package, c)} \ {q.name : q \in ParamsIn(package, a)}
  <2>1. \A d \in Clients : {Tcgc(d).params[i].name : i \in DOMAIN Tcgc(d).params} = {q.name : q \in ToSet(Tcgc(d).params)}
    BY DEF ToSet
  <2>2. QED
    BY <1>2, <2>1 DEF AccessorParams, AccessorFor
<1>4. \A p \in VersionsBelow(a, c), f \in ToSet(rust[a].fields) : f.name # p.name
  BY <1>1, NotInParent
<1>5. ASSUME NEW n \in AccessorParams(a, c), NEW f \in ToSet(rust[a].fields)
      PROVE  f.name # n
  <2>1. PICK q \in ParamsIn(package, c) : q.name = n
    BY <1>3
  <2>2. \A g \in ParamsIn(package, a) : g.name # n
    BY <1>3
  <2>3. q.kind = "method"
    BY <2>1, <2>2, AccessorHere
  <2>4. \A h \in MethodParamsIn(package, a) : h.name # q.name
    BY <2>1, <2>2 DEF MethodParamsIn
  <2>5. QED
    BY <2>1, <2>3, <2>4, NotInParent
<1>6. ASSUME NEW p \in VersionsBelow(a, c)
      PROVE  p.name \notin AccessorParams(a, c)
  <2>1. PICK g \in ParamsIn(package, a) : g.name = p.name
    BY <1>1, AccessorHere
  <2>2. QED
    BY <1>3, <2>1
<1>7. QED
  BY <1>4, <1>5, <1>6

\* The parent has the versions of the child, by names that are not the child's.
LEMMA VersionsThere ==
    ASSUME NEW a, NEW c, AccessorFor(a, c), NEW p \in VersionsBelow(a, c)
    PROVE  /\ Field(rust[c].name \o p.name, FALSE) \in ToSet(rust[a].fields)
           /\ Field(p.name, FALSE) \in ToSet(rust[c].fields)
           /\ \A e \in ToSet(rust[c].fields) : e.name # rust[c].name \o p.name
<1> DEFINE f == Field(rust[c].name \o p.name, FALSE)
<1>1. VersionOfChild(a, f)
  <2>1. Brings(c, a, rust[c].name, f)
    BY DEF Brings
  <2>2. c \in DOMAIN rust /\ IsChild(c, a)
    BY DEF AccessorFor
  <2> HIDE DEF f
  <2>3. QED
    BY <2>1, <2>2 DEF VersionOfChild
<1>2. f.name = rust[c].name \o p.name
  BY FieldParts
<1> HIDE DEF f
<1>3. f \in ToSet(rust[a].fields) /\ VersionField(f) /\ f # Pipeline
  BY <1>1, AccessorFields
<1>4. ASSUME NEW e \in ToSet(rust[c].fields), e.name = f.name
      PROVE  FALSE
  <2>1. e = f
    BY <1>3, <1>4, SharedIsSame
  <2>2. PICK q \in ParamsIn(package, c) : e.name = FieldName(q)
    BY <1>3, <2>1, ChildField
  <2>3. TypeInv /\ NamesFit(package) /\ c \in Clients
    BY DEF AccessorFor, Coherent
  <2>4. \A x : x.name \in {q.name, FieldName(q)} => x # Pipeline /\ ~VersionField(x)
    BY <2>3, ParamFieldsDiffer
  <2>5. QED
    BY <1>3, <2>1, <2>2, <2>4
<1>5. Field(p.name, FALSE) \in ToSet(rust[c].fields)
  <2>1. p \in MethodParamsIn(package, c) /\ p.apiVersion
    BY DEF VersionsBelow
  <2>2. IsOption(p) = FALSE
    <3>1. ~IsOption(p)
      BY <2>1 DEF MethodParamsIn, Merged
    <3>2. IsOption(p) \in BOOLEAN
      BY DEF IsOption
    <3>3. QED
      BY <3>1, <3>2, Zenon
  <2>3. FieldOfParam(c, Field(p.name, IsOption(p)))
    BY <2>1 DEF FieldOfParam
  <2>4. QED
    BY <2>2, <2>3, AccessorFields
<1>6. QED
  BY <1>2, <1>3, <1>4, <1>5 DEF f

\* What an accessor makes of a field of the parent.
Piece(a, c, f) ==
    IF f.name \in Names(rust[c].fields) THEN <<f>>
    ELSE LET own == Filtered(rust[c].fields, LAMBDA e : Deduplicated(rust[c].name, e.name) = f.name)
         IN  IF own = <<>> THEN <<>> ELSE <<Field(own[1].name, f.option)>>

LEMMA RenamesOne ==
    ASSUME NEW a, NEW c, AccessorFor(a, c), NEW f, NEW x, NEW y, Renames(a, c, f, x), Renames(a, c, f, y)
    PROVE  x = y
<1>1. PICK p \in VersionsBelow(a, c) : x = Field(p.name, FALSE) /\ f = Field(rust[c].name \o p.name, FALSE)
  BY DEF Renames
<1>2. PICK q \in VersionsBelow(a, c) : y = Field(q.name, FALSE) /\ f = Field(rust[c].name \o q.name, FALSE)
  BY DEF Renames
<1> DEFINE w == rust[c].name
           m == p.name
           n == q.name
<1>3. w \o m = w \o n
  <2>1. f.name = w \o m
    BY <1>1, FieldParts
  <2>2. f.name = w \o n
    BY <1>2, FieldParts
  <2>3. QED
    BY <2>1, <2>2
<1>4. w \in RustNames
  BY DEF AccessorFor, TypeInv, RustClients
<1>5. m \in RustNames /\ n \in RustNames
  <2>1. p \in ParamsIn(package, c) /\ q \in ParamsIn(package, c) /\ TypeInv /\ c \in Clients
    BY DEF VersionsBelow, MethodParamsIn, AccessorFor
  <2>2. p \in Parameters /\ q \in Parameters
    BY <2>1, ParamsInTyped
  <2>3. QED
    BY <2>2, ParameterFields
<1> HIDE DEF w, m, n
<1>6. m = n
  BY <1>3, <1>4, <1>5, PrefixKeepsApart DEF RustNames
<1>7. QED
  BY <1>1, <1>2, <1>6 DEF m, n

LEMMA PieceIs ==
    ASSUME NEW a, NEW c, AccessorFor(a, c), NEW f \in ToSet(rust[a].fields)
    PROVE  /\ Piece(a, c, f) \in Seq(Fields) /\ IsInjective(Piece(a, c, f))
           /\ \A x : x \in ToSet(Piece(a, c, f)) <=> \/ x = f /\ f \in ToSet(rust[c].fields)
                                                     \/ Renames(a, c, f, x)
<1> DEFINE s == rust[c].fields
           w == rust[c].name
           U == {e \in Fields : w \o e.name = f.name}
           t == FlattenSeq([i \in DOMAIN s |-> IF s[i] \in U THEN <<s[i]>> ELSE <<>>])
           own == Filtered(s, LAMBDA e : Deduplicated(w, e.name) = f.name)
<1>1. s \in Seq(Fields) /\ rust[a].fields \in Seq(Fields)
  BY AccessorFields
<1>2. f \in Fields /\ \A i \in DOMAIN s : s[i] \in Fields
  BY <1>1, LenProperties, ElementOfSeq DEF ToSet
<1>3. f.name \in Names(s) <=> \E e \in ToSet(s) : e.name = f.name
  BY DEF Names, ToSet
<1>4. \A x : IsInjective(<<x>>) /\ ToSet(<<x>>) = {x}
  BY InjectiveOne
<1>5. CASE f.name \in Names(s)
  <2>1. Piece(a, c, f) = <<f>>
    BY <1>5 DEF Piece
  <2>2. f \in ToSet(s)
    BY <1>3, <1>5, SharedIsSame
  <2>3. \A x : ~Renames(a, c, f, x)
    <3>1. SUFFICES ASSUME NEW p \in VersionsBelow(a, c), f = Field(w \o p.name, FALSE)
                   PROVE  FALSE
      BY DEF Renames
    <3>2. f.name = w \o p.name
      BY <3>1, FieldParts
    <3>3. \A e \in ToSet(rust[c].fields) : e.name # rust[c].name \o p.name
      BY VersionsThere
    <3>4. QED
      BY <2>2, <3>2, <3>3
  <2>4. <<f>> \in Seq(Fields)
    BY <1>2, Singleton
  <2>5. QED
    BY <1>4, <2>1, <2>2, <2>3, <2>4
<1>6. CASE f.name \notin Names(s)
  <2>1. Piece(a, c, f) = IF own = <<>> THEN <<>> ELSE <<Field(own[1].name, f.option)>>
    BY <1>6 DEF Piece
  <2>2. own = t
    <3>1. [i \in DOMAIN s |-> IF Deduplicated(w, s[i].name) = f.name THEN <<s[i]>> ELSE <<>>]
            = [i \in DOMAIN s |-> IF s[i] \in U THEN <<s[i]>> ELSE <<>>]
      BY <1>2 DEF Deduplicated
    <3>2. QED
      BY <3>1 DEF Filtered, Collected
  <2>3. \A e \in ToSet(s) : e \in U <=> w \o e.name = f.name
    BY <1>2 DEF ToSet
  <2> HIDE DEF U, own
  <2>4. t \in Seq(Fields) /\ ToSet(t) = ToSet(s) \cap U
    BY <1>1, Selected
  <2> HIDE DEF t
  <2>5. f \notin ToSet(s)
    BY <1>3, <1>6
  <2>6. CASE own = <<>>
    <3>1. Piece(a, c, f) = <<>>
      BY <2>1, <2>6
    <3>2. ToSet(<<>>) = {} /\ IsInjective(<<>>) /\ <<>> \in Seq(Fields)
      BY InjectiveNone
    <3>3. \A e \in ToSet(s) : w \o e.name # f.name
      BY <2>2, <2>3, <2>4, <2>6, <3>2
    <3>4. \A x : ~Renames(a, c, f, x)
      <4>1. SUFFICES ASSUME NEW p \in VersionsBelow(a, c), f = Field(w \o p.name, FALSE)
                     PROVE  FALSE
        BY DEF Renames
      <4>2. Field(p.name, FALSE) \in ToSet(s)
        BY VersionsThere
      <4>3. Field(p.name, FALSE).name = p.name
        BY FieldParts
      <4>4. w \o p.name = f.name
        BY <4>1, FieldParts
      <4>5. QED
        BY <3>3, <4>2, <4>3, <4>4
    <3>5. QED
      BY <2>5, <3>1, <3>2, <3>4
  <2>7. CASE own # <<>>
    <3>1. own[1] \in ToSet(own)
      <4>1. own \in Seq(Fields)
        BY <2>2, <2>4
      <4>2. 1 \in DOMAIN own
        BY <2>7, <4>1, EmptySeq, LenProperties
      <4>3. QED
        BY <4>2 DEF ToSet
    <3>2. own[1] \in ToSet(s) /\ w \o own[1].name = f.name
      BY <2>2, <2>3, <2>4, <3>1
    <3> DEFINE e == own[1]
    <3>3. Renames(a, c, f, e)
      <4>1. e \in ToSet(rust[c].fields) /\ rust[c].name \o e.name = f.name
        BY <3>2
      <4> HIDE DEF e
      <4>2. QED
        BY <4>1, VersionOnly
    <3> HIDE DEF e
    <3>4. Piece(a, c, f) = <<e>>
      <4>1. PICK p \in VersionsBelow(a, c) : e = Field(p.name, FALSE) /\ f = Field(w \o p.name, FALSE)
        BY <3>3 DEF Renames
      <4>2. e.name = p.name /\ f.option = FALSE
        <5>1. e.name = p.name
          BY <4>1, FieldParts
        <5>2. \A n : Field(n, FALSE).option = FALSE
          BY FieldParts
        <5>3. f.option = FALSE
          BY <4>1, <5>2
        <5>4. QED
          BY <5>1, <5>3
      <4>3. QED
        BY <2>1, <2>7, <4>1, <4>2 DEF e
    <3>5. e \in Fields
      BY <1>2, <3>2 DEF ToSet, e
    <3>6. \A y : Renames(a, c, f, y) => y = e
      BY <3>3, RenamesOne
    <3>7. <<e>> \in Seq(Fields)
      BY <3>5, Singleton
    <3>8. QED
      BY <1>4, <2>5, <3>3, <3>4, <3>6, <3>7
  <2>8. QED
    BY <2>6, <2>7
<1>7. QED
  BY <1>5, <1>6

\* The elements of a finite set, each once.
LEMMA SetToSeqIs ==
    ASSUME NEW T, NEW S \in SUBSET T, IsFiniteSet(S)
    PROVE  SetToSeq(S) \in Seq(T) /\ IsInjective(SetToSeq(S)) /\ ToSet(SetToSeq(S)) = S
<1> DEFINE n == Cardinality(S)
           s == SetToSeq(S)
<1>1. n \in Nat /\ ExistsBijection(1..n, S)
  BY FS_CardinalityType
<1>2. PICK b : b \in Bijection(1..n, S)
  BY <1>1 DEF ExistsBijection
<1>3. b \in [1..n -> S] /\ IsInjective(b)
  BY <1>2 DEF Bijection, Injection
<1>4. s \in [1..n -> S] /\ IsInjective(s)
  BY <1>3 DEF SetToSeq
<1> HIDE DEF s
<1>5. s \in Injection(1..n, S)
  BY <1>4 DEF Injection
<1>6. IsFiniteSet(1..n) /\ Cardinality(1..n) = n
  BY <1>1, FS_Interval
<1> HIDE DEF n
<1>7. s \in Surjection(1..n, S)
  BY <1>5, <1>6, FS_Injection DEF n
<1>8. ToSet(s) = S
  BY <1>4, <1>7 DEF Surjection, ToSet
<1>9. s \in Seq(T)
  BY <1>1, <1>4
<1>10. QED
  BY <1>4, <1>8, <1>9 DEF s

\* The fields for what the caller of an accessor is asked for.
Asked(a, c) == {Field(n, FALSE) : n \in AccessorParams(a, c)}

LEMMA AskedIs ==
    ASSUME NEW a, NEW c, AccessorFor(a, c)
    PROVE  /\ SetToSeq(Asked(a, c)) \in Seq(Fields) /\ IsInjective(SetToSeq(Asked(a, c)))
           /\ ToSet(SetToSeq(Asked(a, c))) = Asked(a, c)
<1> DEFINE ps == Tcgc(c).params
           n == Len(ps)
           S == {Field(ps[i].name, FALSE) : i \in 1..n}
           g == [i \in 1..n |-> Field(ps[i].name, FALSE)]
<1>1. ps \in Seq(Parameters)
  BY TcgcTyped DEF AccessorFor, TypeInv
<1>2. n \in Nat /\ DOMAIN ps = 1..n /\ \A i \in 1..n : ps[i] \in Parameters
  BY <1>1, LenProperties, ElementOfSeq
<1>3. Asked(a, c) \subseteq S
  <2>1. AccessorParams(a, c) \subseteq {ps[i].name : i \in 1..n}
    BY <1>2 DEF AccessorParams
  <2> HIDE DEF ps, n
  <2>2. QED
    BY <2>1 DEF Asked
<1>4. S \subseteq Fields
  BY <1>2, ParameterFields, FieldTyped
<1>5. g \in Surjection(1..n, S)
  <2> HIDE DEF ps, n
  <2>1. QED
    BY DEF Surjection
<1>6. IsFiniteSet(1..n)
  BY <1>2, FS_Interval
<1> HIDE DEF ps, n, g, S
<1>7. IsFiniteSet(S)
  BY <1>5, <1>6, FS_Surjection
<1>8. IsFiniteSet(Asked(a, c))
  BY <1>3, <1>7, FS_Subset
<1>9. QED
  BY <1>3, <1>4, <1>8, SetToSeqIs

\* A parameter of the child is one of the parent, a version below, or asked for.
LEMMA MethodSplit ==
    ASSUME NEW a, NEW c, AccessorFor(a, c), NEW q \in MethodParamsIn(package, c), NEW x, x = Field(q.name, IsOption(q))
    PROVE  \/ x \in ToSet(rust[a].fields)
           \/ \E p \in VersionsBelow(a, c) : x = Field(p.name, FALSE)
           \/ x \in Asked(a, c)
<1>1. q \in ParamsIn(package, c) /\ q.kind = "method" /\ ~Merged(q)
  BY DEF MethodParamsIn
<1>2. IsOption(q) \in BOOLEAN
  BY DEF IsOption
<1>3. CASE \A g \in ParamsIn(package, a) : g.name # q.name
  <2>1. ~IsOption(q)
    BY <1>1, <1>3, AccessorHere
  <2>2. IsOption(q) = FALSE
    BY <1>2, <2>1, Zenon
  <2>3. q.name \in AccessorParams(a, c)
    BY <1>1, <1>3 DEF AccessorParams, ParamsIn, ToSet, Tcgc
  <2>4. QED
    BY <2>2, <2>3 DEF Asked
<1>4. ASSUME NEW g \in ParamsIn(package, a), g.name = q.name
      PROVE  \/ x \in ToSet(rust[a].fields)
             \/ \E p \in VersionsBelow(a, c) : x = Field(p.name, FALSE)
  <2>1. /\ q.kind = g.kind
        /\ ~Merged(g) /\ q.kind = "method" => IsOption(q) = IsOption(g)
        /\ Merged(g) => Merged(q) \/ (q.apiVersion /\ ~IsConstructable(c))
    BY <1>1, <1>4, AccessorHere
  <2>2. CASE ~Merged(g)
    <3>1. g \in MethodParamsIn(package, a)
      BY <1>1, <2>1, <2>2 DEF MethodParamsIn
    <3>2. IsOption(q) = IsOption(g)
      BY <1>1, <2>1, <2>2
    <3>3. x = Field(g.name, IsOption(g))
      BY <1>4, <3>2
    <3>4. FieldOfParam(a, x)
      BY <3>1, <3>3 DEF FieldOfParam
    <3>5. QED
      BY <3>4, AccessorFields
  <2>3. CASE Merged(g)
    <3>1. q.apiVersion /\ ~IsConstructable(c)
      BY <1>1, <2>1, <2>3
    <3>2. ASSUME NEW h \in MethodParamsIn(package, a), h.name = q.name
          PROVE  FALSE
      <4> DEFINE ps == Tcgc(a).params
      <4>1. h \in ParamsIn(package, a) /\ h.kind = "method" /\ ~Merged(h)
        BY <3>2 DEF MethodParamsIn
      <4>2. \A i, j \in 1..Len(ps) : i # j => NamesOf(ps[i]) \cap NamesOf(ps[j]) = {}
        BY OwnHypotheses DEF AccessorFor, Coherent
      <4>3. ps \in Seq(Parameters)
        BY TcgcTyped DEF AccessorFor, TypeInv
      <4>4. DOMAIN ps = 1..Len(ps) /\ ParamsIn(package, a) = ToSet(ps)
        BY <4>3, LenProperties DEF ParamsIn, Tcgc
      <4> HIDE DEF ps
      <4>5. PICK i \in 1..Len(ps) : g = ps[i]
        BY <1>4, <4>4 DEF ToSet
      <4>6. PICK j \in 1..Len(ps) : h = ps[j]
        BY <4>1, <4>4 DEF ToSet
      <4>7. i # j
        BY <2>3, <4>1, <4>5, <4>6
      <4>8. NamesOf(g) = {q.name} /\ NamesOf(h) = {q.name}
        BY <1>1, <1>4, <2>1, <3>2, <4>1 DEF NamesOf
      <4>9. QED
        BY <4>2, <4>5, <4>6, <4>7, <4>8
    <3>3. q \in VersionsBelow(a, c)
      BY <3>1, <3>2 DEF VersionsBelow
    <3>4. ~IsOption(q)
      BY <1>1, <3>1 DEF Merged
    <3>5. IsOption(q) = FALSE
      BY <1>2, <3>4, Zenon
    <3>6. QED
      BY <3>3, <3>5
  <2>4. QED
    BY <2>2, <2>3
<1>5. QED
  BY <1>3, <1>4

\* What a child has from its parent: a field by the same name, or by the longer one.
Inherits(a, c, x) == \/ x \in ToSet(rust[a].fields) /\ x \in ToSet(rust[c].fields)
                     \/ \E p \in VersionsBelow(a, c) : x = Field(p.name, FALSE)

LEMMA FieldsSplit ==
    ASSUME NEW a, NEW c, AccessorFor(a, c), NEW x
    PROVE  x \in ToSet(rust[c].fields) <=> Inherits(a, c, x) \/ x \in Asked(a, c)
<1>1. x \in ToSet(rust[c].fields) <=> FieldOfParam(c, x)
  BY AccessorFields
<1>2. x \in ToSet(rust[a].fields) <=> FieldOfParam(a, x) \/ VersionOfChild(a, x)
  BY AccessorFields
<1>3. ASSUME FieldOfParam(c, x)
      PROVE  \/ x \in ToSet(rust[a].fields)
             \/ \E p \in VersionsBelow(a, c) : x = Field(p.name, FALSE)
             \/ x \in Asked(a, c)
  <2>1. CASE x = Pipeline
    BY <1>2, <2>1 DEF FieldOfParam
  <2>2. CASE \E f \in EndpointsIn(package, c) : x = Field(f.field, FALSE)
    <3>1. PICK f \in EndpointsIn(package, c) : x = Field(f.field, FALSE)
      BY <2>2
    <3>2. PICK e \in EndpointsIn(package, a) : TRUE
      BY AccessorHere
    <3>3. e.field = f.field
      BY AccessorHere
    <3>4. FieldOfParam(a, x)
      BY <3>1, <3>3 DEF FieldOfParam
    <3>5. QED
      BY <1>2, <3>4
  <2>3. CASE \E q \in MethodParamsIn(package, c) : x = Field(q.name, IsOption(q))
    BY <2>3, MethodSplit
  <2>4. QED
    BY <1>3, <2>1, <2>2, <2>3 DEF FieldOfParam
<1>4. ASSUME NEW p \in VersionsBelow(a, c), x = Field(p.name, FALSE)
      PROVE  x \in ToSet(rust[c].fields)
  BY <1>4, VersionsThere
<1>5. ASSUME NEW n \in AccessorParams(a, c), x = Field(n, FALSE)
      PROVE  x \in ToSet(rust[c].fields)
  <2>1. PICK q \in ParamsIn(package, c) : n = q.name
    BY DEF AccessorParams, ParamsIn, ToSet, Tcgc
  <2>2. \A g \in ParamsIn(package, a) : g.name # q.name
    BY <2>1 DEF AccessorParams, ParamsIn, ToSet, Tcgc
  <2>3. q.kind = "method" /\ ~IsOption(q)
    BY <2>2, AccessorHere
  <2>4. q \in MethodParamsIn(package, c)
    BY <2>3 DEF MethodParamsIn, Merged
  <2>5. IsOption(q) = FALSE
    <3>1. IsOption(q) \in BOOLEAN
      BY DEF IsOption
    <3>2. QED
      BY <2>3, <3>1, Zenon
  <2>6. x = Field(q.name, IsOption(q))
    BY <1>5, <2>1, <2>5
  <2>7. QED
    BY <1>1, <2>4, <2>6 DEF FieldOfParam
<1>6. QED
  BY <1>1, <1>3, <1>4, <1>5 DEF Asked, Inherits

\* Different fields of the parent become different fields.
LEMMA PiecesApart ==
    ASSUME NEW a, NEW c, AccessorFor(a, c), NEW f \in ToSet(rust[a].fields), NEW g \in ToSet(rust[a].fields),
           NEW x, x \in ToSet(Piece(a, c, f)), x \in ToSet(Piece(a, c, g))
    PROVE  f = g
<1>1. \/ x = f /\ f \in ToSet(rust[c].fields)
      \/ Renames(a, c, f, x)
  BY PieceIs
<1>2. \/ x = g /\ g \in ToSet(rust[c].fields)
      \/ Renames(a, c, g, x)
  BY PieceIs
<1>3. ASSUME NEW h \in ToSet(rust[a].fields), NEW k, x = h, Renames(a, c, k, x)
      PROVE  FALSE
  <2>1. PICK p \in VersionsBelow(a, c) : x = Field(p.name, FALSE)
    BY <1>3 DEF Renames
  <2>2. h.name = p.name
    <3>1. \A n : Field(n, FALSE).name = n
      BY FieldParts
    <3>2. h = Field(p.name, FALSE)
      BY <1>3, <2>1
    <3>3. QED
      BY <3>1, <3>2
  <2>3. QED
    BY <2>2, NothingTwice
<1>4. ASSUME Renames(a, c, f, x), Renames(a, c, g, x)
      PROVE  f = g
  <2>1. PICK p \in VersionsBelow(a, c) : x = Field(p.name, FALSE) /\ f = Field(rust[c].name \o p.name, FALSE)
    BY <1>4 DEF Renames
  <2>2. PICK q \in VersionsBelow(a, c) : x = Field(q.name, FALSE) /\ g = Field(rust[c].name \o q.name, FALSE)
    BY <1>4 DEF Renames
  <2>3. p.name = q.name
    <3>1. x.name = p.name
      BY <2>1, FieldParts
    <3>2. x.name = q.name
      BY <2>2, FieldParts
    <3>3. QED
      BY <3>1, <3>2
  <2>4. QED
    BY <2>1, <2>2, <2>3
<1>5. QED
  BY <1>1, <1>2, <1>3, <1>4

LEMMA FromParentIs ==
    ASSUME NEW a, NEW c, AccessorFor(a, c)
    PROVE  /\ FromParent(a, c) \in Seq(Fields) /\ IsInjective(FromParent(a, c))
           /\ \A x : x \in ToSet(FromParent(a, c)) <=> Inherits(a, c, x)
<1> DEFINE s == rust[a].fields
           n == Len(s)
           ss == [i \in DOMAIN s |-> Piece(a, c, s[i])]
<1>1. FromParent(a, c) = FlattenSeq(ss)
  BY DEF FromParent, Collected, Piece
<1>2. s \in Seq(Fields) /\ IsInjective(s)
  BY AccessorFields DEF Apart
<1>3. n \in Nat /\ DOMAIN s = 1..n /\ ToSet(s) = {s[i] : i \in 1..n}
  BY <1>2, LenProperties DEF ToSet
<1>4. \A i \in 1..n : s[i] \in ToSet(rust[a].fields) /\ ss[i] = Piece(a, c, s[i])
  BY <1>3
<1>5. \A i \in 1..n : ss[i] \in Seq(Fields) /\ IsInjective(ss[i])
  <2>1. \A f \in ToSet(rust[a].fields) : Piece(a, c, f) \in Seq(Fields) /\ IsInjective(Piece(a, c, f))
    BY PieceIs
  <2> HIDE DEF ss, s, n
  <2>2. QED
    BY <1>4, <2>1
<1>6. ss \in [1..n -> Seq(Fields)]
  BY <1>3, <1>5
<1> HIDE DEF ss
<1>7. ASSUME NEW i \in 1..n, NEW j \in 1..n, i # j, NEW x, x \in ToSet(ss[i]), x \in ToSet(ss[j])
      PROVE  FALSE
  <2>1. s[i] = s[j]
    BY <1>4, <1>7, PiecesApart
  <2>2. QED
    BY <1>2, <1>3, <1>7, <2>1 DEF IsInjective
<1>8. \A i, j \in 1..n : i # j => ToSet(ss[i]) \cap ToSet(ss[j]) = {}
  BY <1>7
<1>9. /\ FlattenSeq(ss) \in Seq(Fields)
      /\ \A x : x \in ToSet(FlattenSeq(ss)) <=> \E i \in 1..n : x \in ToSet(ss[i])
  BY <1>3, <1>6, Flattened
<1>10. IsInjective(FlattenSeq(ss))
  BY <1>3, <1>5, <1>6, <1>8, InjectiveFlattened
<1>11. ASSUME NEW x
       PROVE  x \in ToSet(FlattenSeq(ss)) <=> \E f \in ToSet(rust[a].fields) : x \in ToSet(Piece(a, c, f))
  BY <1>3, <1>4, <1>9
<1>12. ASSUME NEW x
       PROVE  (\E f \in ToSet(rust[a].fields) : x \in ToSet(Piece(a, c, f)))
                <=> Inherits(a, c, x)
  <2>1. ASSUME NEW f \in ToSet(rust[a].fields), x \in ToSet(Piece(a, c, f))
        PROVE  Inherits(a, c, x)
    <3>1. \/ x = f /\ f \in ToSet(rust[c].fields)
          \/ Renames(a, c, f, x)
      BY <2>1, PieceIs
    <3>2. QED
      BY <3>1 DEF Renames, Inherits
  <2>2. ASSUME x \in ToSet(rust[a].fields), x \in ToSet(rust[c].fields)
        PROVE  \E f \in ToSet(rust[a].fields) : x \in ToSet(Piece(a, c, f))
    BY <2>2, PieceIs
  <2>3. ASSUME NEW p \in VersionsBelow(a, c), x = Field(p.name, FALSE)
        PROVE  \E f \in ToSet(rust[a].fields) : x \in ToSet(Piece(a, c, f))
    <3> DEFINE f == Field(rust[c].name \o p.name, FALSE)
    <3>1. f \in ToSet(rust[a].fields)
      BY VersionsThere
    <3>2. Renames(a, c, f, x)
      BY <2>3 DEF Renames
    <3> HIDE DEF f
    <3>3. QED
      BY <3>1, <3>2, PieceIs
  <2>4. QED
    BY <2>1, <2>2, <2>3 DEF Inherits
<1>13. QED
  BY <1>1, <1>9, <1>10, <1>11, <1>12

LEMMA BodyOfAccessor ==
    ASSUME NEW a, NEW c, AccessorFor(a, c), NEW made, made.child = c, made.params = AccessorParams(a, c)
    PROVE  Initialises(AccessorBody(a, made), c)
<1> DEFINE s == FromParent(a, c)
           t == SetToSeq(Asked(a, c))
<1>1. AccessorBody(a, made) = s \o t
  BY DEF AccessorBody, Asked
<1>2. /\ s \in Seq(Fields) /\ IsInjective(s)
      /\ \A x : x \in ToSet(s) <=> Inherits(a, c, x)
  BY FromParentIs
<1>3. t \in Seq(Fields) /\ IsInjective(t) /\ ToSet(t) = Asked(a, c)
  BY AskedIs
<1> HIDE DEF s, t
<1>4. ASSUME NEW x \in ToSet(s), x \in ToSet(t)
      PROVE  FALSE
  <2>1. PICK n \in AccessorParams(a, c) : x = Field(n, FALSE)
    BY <1>3, <1>4 DEF Asked
  <2>2. \A m : Field(m, FALSE).name = m
    BY FieldParts
  <2>3. x.name = n
    BY <2>1, <2>2
  <2>4. x \notin ToSet(rust[a].fields)
    BY <2>3, NothingTwice
  <2>5. PICK p \in VersionsBelow(a, c) : x = Field(p.name, FALSE)
    BY <1>2, <1>4, <2>4 DEF Inherits
  <2>6. p.name = n
    BY <2>2, <2>3, <2>5
  <2>7. QED
    BY <2>6, NothingTwice
<1>5. s \o t \in Seq(Fields) /\ ToSet(s \o t) = ToSet(s) \cup ToSet(t)
  BY <1>2, <1>3, ConcatSet
<1>6. IsInjective(s \o t)
  BY <1>2, <1>3, <1>4, InjectiveConcat
<1>7. ASSUME NEW x
      PROVE  x \in ToSet(s \o t) <=> x \in ToSet(rust[c].fields)
  BY <1>2, <1>3, <1>5, FieldsSplit
<1>8. ToSet(s \o t) = ToSet(rust[c].fields)
  BY <1>7
<1>9. rust[c].fields \in Seq(Fields) /\ Apart(rust[c].fields)
  BY AccessorFields
<1>10. QED
  BY <1>1, <1>5, <1>6, <1>8, <1>9, InitialisesIf

\* What the theorem asks of the packages.
Reachable(p) == WellNamed(p) /\ Coherent(p) /\ OnceEach(p) /\ AccessorsFit(p)

LEMMA AccessorsDo ==
    ASSUME TypeInv, Reachable(package), ResolveInv, NamesInv, NamesDistinct, AccessorInv
    PROVE  AccessorsInitialise
<1>1. SUFFICES ASSUME NEW a \in DOMAIN rust, NEW made \in rust[a].accessors
               PROVE  Initialises(AccessorBody(a, made), made.child)
  BY DEF AccessorsInitialise
<1>2. /\ made.child \in DOMAIN rust /\ IsChild(made.child, a)
      /\ made.params = AccessorParams(a, made.child)
  BY DEF AccessorInv
<1>3. DOMAIN rust \subseteq Clients
  BY DEF TypeInv
<1>4. AccessorFor(a, made.child)
  BY <1>2, <1>3 DEF AccessorFor, Reachable
<1>5. QED
  BY <1>2, <1>4, BodyOfAccessor

\* An accessor initialises each field of the client that it returns, once and with
\* a value of its type: from the field of the parent that has the same name, from
\* the one that has it with the name of the child before it, or from a parameter.
THEOREM AccessorsSetFields == Spec /\ Reachable(package) => []AccessorsInitialise
<1>1. Init => NamesInv /\ TreeInv /\ ResolveInv /\ AccessorInv
  <2>1. SUFFICES ASSUME Init
                 PROVE  NamesInv /\ TreeInv /\ ResolveInv /\ AccessorInv
    OBVIOUS
  <2>2. DOMAIN rust = {} /\ stack = <<>> /\ DOMAIN <<>> = {} /\ cache = Empty /\ DOMAIN Empty = {}
    BY <2>1 DEF Init, Empty
  <2>3. NamesInv /\ TreeInv /\ AccessorInv
    BY <2>2 DEF NamesInv, TreeInv, AccessorInv, IsInjective
  <2>4. ResolveInv
    BY <2>2 DEF ResolveInv, Remembers
  <2>5. QED
    BY <2>3, <2>4
<1>2. TypeInv /\ Reachable(package) /\ NamesInv /\ [Next]_vars => NamesInv'
  BY NextNames DEF Reachable
<1>3. TypeInv /\ Reachable(package) /\ TreeInv /\ [Next]_vars => TreeInv'
  BY NextTree DEF Reachable, Coherent
<1>4. TypeInv /\ Reachable(package) /\ ResolveInv /\ [Next]_vars => ResolveInv'
  BY NextResolved DEF Reachable
<1>5. Reachable(package) /\ [Next]_vars => Reachable(package)'
  BY PackageStays
<1>6. TypeInv /\ Reachable(package) /\ NamesInv => NamesDistinct
  BY NamesDiffer DEF Reachable
<1>7. TypeInv /\ Reachable(package) /\ ResolveInv /\ NamesInv' /\ NamesDistinct' /\ TreeInv /\ AccessorInv
        /\ [Next]_vars => AccessorInv'
  BY NextAccessors DEF Reachable
<1>8. TypeInv /\ Reachable(package) /\ ResolveInv /\ NamesInv /\ NamesDistinct /\ AccessorInv => AccessorsInitialise
  BY AccessorsDo
<1>9. QED
  BY <1>1, <1>2, <1>3, <1>4, <1>5, <1>6, <1>7, <1>8, WellTyped, PTL DEF Spec
=============================================================================
